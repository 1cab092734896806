----------------------------- MODULE Mai2Input -----------------------------
(***************************************************************************)
(* How the threads of one mai2 player share its input page                 *)
(* (crates/affine-mai2/src/lib.rs).                                        *)
(*                                                                         *)
(* Three HID threads (hid_thread, vendor_command_thread, touch_hid_thread) *)
(* and the serial pair (device_thread and the serial_reader_thread it      *)
(* spawns) write the same Mai2InputPage.  Each HID thread publishes a flag *)
(* "<x>_connected"; who may write which field, and who releases a field    *)
(* when a source goes away, is decided from unsynchronised loads of these  *)
(* flags.  Every load, store and page update below is one atomic step: the *)
(* atomics are SeqCst and SharedPage::update holds the page mutex.         *)
(*                                                                         *)
(* Data: buttons0 and io_status always travel together and are one value;  *)
(* the page's sequence number, which nothing reads, and the statistics     *)
(* counters are left out.  What the device thread does inside an iteration *)
(* with an open session (heartbeat, board info, LED writes, staleness) is  *)
(* here only its outcome: the session is kept or dropped.                  *)
(***************************************************************************)
EXTENDS Naturals

CONSTANTS
    Interfaces,   \* the USB interfaces the player's board can expose
    ButtonVals,   \* values of the (buttons0, io_status) pair
    NoButtons,    \* ... with nothing pressed
    TouchVals,    \* values of the 7 touch bytes
    NoTouch,      \* ... with nothing touched
    None,         \* Option::None in a parsed frame
    MaxFrames     \* bound: frames in one chunk of the serial reader

HID == {"hid", "vendor", "touch_hid"}

ASSUME InterfacesAssumption == Interfaces \subseteq HID \cup {"serial"}
ASSUME ValuesAssumption ==
    /\ NoButtons \in ButtonVals
    /\ NoTouch \in TouchVals
    /\ None \notin ButtonVals \cup TouchVals
ASSUME MaxFramesAssumption == MaxFrames \in Nat \ {0}

VARIABLES
    enabled,    \* DeviceHandle.enabled: read from the ini file, then fixed
    connected,  \* hid_connected, vendor_connected, touch_hid_connected
    pc,         \* where each HID thread is
    live,       \* its buttons_live and touch_live, while it drops its source
    frame,      \* the frame the vendor thread or the serial reader applies
    session,    \* device_thread holds a SerialSession
    active,     \* SerialSession.active (and not reader_failed)
    dpc,        \* where device_thread is
    rpc,        \* where serial_reader_thread is ("none": not spawned)
    left,       \* frames of the chunk just read and not yet parsed
    page,       \* Mai2InputPage
    streamed,   \* history: a serial session was opened since the last reset
    inherited   \* history: fields not written since this process started

hidVars == <<connected, pc, live>>
serialVars == <<session, active, dpc, rpc, left, streamed>>
pageVars == <<page, inherited>>
vars == <<enabled, connected, pc, live, frame, session, active, dpc, rpc,
          left, page, streamed, inherited>>

----------------------------------------------------------------------------
(* Types.                                                                  *)

Pages == [connected : BOOLEAN, buttons : ButtonVals, touch : TouchVals]

DefaultPage == [connected |-> FALSE, buttons |-> NoButtons, touch |-> NoTouch]

(* ParsedFrame::Touch: the 14-byte frame carries buttons, the 9-byte one   *)
(* does not; both carry touch.                                             *)
Frames == [buttons : ButtonVals \cup {None}, touch : TouchVals]

Fields == {"buttons", "touch"}

HidPCs == {"scan", "announce", "run", "apply", "load_hid", "load_vendor_b",
           "load_touch", "load_vendor_t", "clear"}
DevicePCs == {"loop", "serial", "announce", "close", "join", "load_vendor",
              "load_touch", "load_hid", "keep", "reset"}
ReaderPCs == {"none", "read", "apply", "exit"}

(* The state has its type: the tags of the threads and the values that     *)
(* reach the page are those the code can produce.                          *)
TypeOK ==
    /\ enabled \in BOOLEAN
    /\ connected \in [HID -> BOOLEAN]
    /\ pc \in [HID -> HidPCs]
    /\ live \in [HID -> [buttons : BOOLEAN, touch : BOOLEAN]]
    /\ frame \in [{"vendor", "serial"} -> Frames]
    /\ session \in BOOLEAN
    /\ active \in BOOLEAN
    /\ dpc \in DevicePCs
    /\ rpc \in ReaderPCs
    /\ left \in 0..MaxFrames
    /\ page \in Pages
    /\ streamed \in BOOLEAN
    /\ inherited \subseteq Fields

(* Locals that are out of scope.                                           *)
NoFrame == [buttons |-> None, touch |-> NoTouch]
NoLive == [buttons |-> FALSE, touch |-> FALSE]

(* DeviceHandle::new and the threads Mai2Runtime::init spawns.  The page is *)
(* new, or another process that loaded the library has kept it alive while *)
(* the game restarted: SharedPage::create then leaves what the last        *)
(* process wrote, and nothing here writes it either.                       *)
Init ==
    /\ enabled \in BOOLEAN
    /\ connected = [x \in HID |-> FALSE]
    /\ pc = [x \in HID |-> "scan"]
    /\ live = [x \in HID |-> NoLive]
    /\ frame = [x \in {"vendor", "serial"} |-> NoFrame]
    /\ session = FALSE
    /\ active = FALSE
    /\ dpc = "loop"
    /\ rpc = "none"
    /\ left = 0
    /\ page \in Pages
    /\ streamed = FALSE
    /\ inherited = Fields

----------------------------------------------------------------------------
(* Page updates.                                                           *)

(* Faulty variant: a None touch is written like any other.                 *)
ApplyFrameUnwrapped(p, f) ==
    [connected |-> TRUE,
     buttons |-> IF f.buttons = None THEN p.buttons ELSE f.buttons,
     touch |-> f.touch]

(* apply_device_frame: the page counts as connected, and the fields the    *)
(* frame carries are overwritten.                                          *)
ApplyDeviceFrame(p, f) ==
    [connected |-> TRUE,
     buttons |-> IF f.buttons = None THEN p.buttons ELSE f.buttons,
     touch |-> IF f.touch = None THEN p.touch ELSE f.touch]

(* The fields a frame overwrites.                                          *)
Carried(f) == {field \in Fields : f[field] # None}

(* Faulty variant: touch is left as it is.                                 *)
ClearButtonsOnly(p, l) ==
    [p EXCEPT !.buttons = IF l.buttons THEN @ ELSE NoButtons]

(* The update in clear_inputs_on_source_drop.                              *)
ClearFields(p, l) ==
    [p EXCEPT !.buttons = IF l.buttons THEN @ ELSE NoButtons,
              !.touch = IF l.touch THEN @ ELSE NoTouch]

(* The frame as the two stream threads pass it on: its buttons are dropped *)
(* while the button HID is connected (use_serial_buttons, use_hid_buttons).*)
StreamFrame(f) ==
    [f EXCEPT !.buttons = IF connected["hid"] THEN None ELSE @]

----------------------------------------------------------------------------
(* hid_thread, vendor_command_thread and touch_hid_thread.                 *)

Goto(x, from, to) == pc[x] = from /\ pc' = [pc EXCEPT ![x] = to]

(* Device disabled, HID API unavailable, interface not found, or the path  *)
(* cannot be opened.                                                       *)
ScanFails(x) ==
    /\ pc[x] = "scan"
    /\ connected' = [connected EXCEPT ![x] = FALSE]
    /\ UNCHANGED <<enabled, pc, live, frame, serialVars, pageVars>>

(* The interface is opened and its flag raised.                            *)
Connect(x) ==
    /\ enabled
    /\ x \in Interfaces
    /\ Goto(x, "scan", IF x = "hid" THEN "run" ELSE "announce")
    /\ connected' = [connected EXCEPT ![x] = TRUE]
    /\ UNCHANGED <<enabled, live, frame, serialVars, pageVars>>

(* vendor and touch_hid then mark the page connected; hid does not.        *)
Announce(x) ==
    /\ Goto(x, "announce", "run")
    /\ page' = [page EXCEPT !.connected = TRUE]
    /\ UNCHANGED <<enabled, inherited, connected, live, frame, serialVars>>

(* A button report (the filter on report[1] leaves button frames only).    *)
HidReport ==
    /\ pc["hid"] = "run"
    /\ \E b \in ButtonVals :
          page' = ApplyDeviceFrame(page, [buttons |-> b, touch |-> None])
    /\ inherited' = inherited \ {"buttons"}
    /\ UNCHANGED <<enabled, hidVars, frame, serialVars>>

(* A touch report that completes a touch frame.                            *)
TouchReport ==
    /\ pc["touch_hid"] = "run"
    /\ \E t \in TouchVals :
          page' = ApplyDeviceFrame(page, [buttons |-> None, touch |-> t])
    /\ inherited' = inherited \ {"touch"}
    /\ UNCHANGED <<enabled, hidVars, frame, serialVars>>

(* vendor_command_read_once parses a frame and loads hid_connected ...     *)
VendorReceive ==
    /\ Goto("vendor", "run", "apply")
    /\ \E f \in Frames : frame' = [frame EXCEPT !["vendor"] = StreamFrame(f)]
    /\ UNCHANGED <<enabled, connected, live, serialVars, pageVars>>

(* ... and then updates the page.                                          *)
VendorApply ==
    /\ Goto("vendor", "apply", "run")
    /\ page' = ApplyDeviceFrame(page, frame["vendor"])
    /\ inherited' = inherited \ Carried(frame["vendor"])
    /\ frame' = [frame EXCEPT !["vendor"] = NoFrame]
    /\ UNCHANGED <<enabled, connected, live, serialVars>>

(* Faulty variant: the flag stays up until the next scan.                  *)
DropKeepsFlag(x) ==
    /\ Goto(x, "run", "load_hid")
    /\ UNCHANGED <<enabled, connected, live, frame, serialVars, pageVars>>

(* A read or a write fails: the loop ends and the flag is lowered.         *)
Drop(x) ==
    /\ Goto(x, "run", "load_hid")
    /\ connected' = [connected EXCEPT ![x] = FALSE]
    /\ UNCHANGED <<enabled, live, frame, serialVars, pageVars>>

(* clear_inputs_on_source_drop: two short-circuit disjunctions of loads.   *)
LoadHid(x) ==
    /\ Goto(x, "load_hid", IF connected["hid"] THEN "load_touch" ELSE "load_vendor_b")
    /\ live' = [live EXCEPT ![x].buttons = connected["hid"]]
    /\ UNCHANGED <<enabled, connected, frame, serialVars, pageVars>>

LoadVendorButtons(x) ==
    /\ Goto(x, "load_vendor_b", "load_touch")
    /\ live' = [live EXCEPT ![x].buttons = connected["vendor"]]
    /\ UNCHANGED <<enabled, connected, frame, serialVars, pageVars>>

(* Faulty variant: the button HID is taken for a touch source.             *)
LoadTouchFromHid(x) ==
    /\ Goto(x, "load_touch", IF connected["hid"] THEN "clear" ELSE "load_vendor_t")
    /\ live' = [live EXCEPT ![x].touch = connected["hid"]]
    /\ UNCHANGED <<enabled, connected, frame, serialVars, pageVars>>

LoadTouchHid(x) ==
    /\ Goto(x, "load_touch", IF connected["touch_hid"] THEN "clear" ELSE "load_vendor_t")
    /\ live' = [live EXCEPT ![x].touch = connected["touch_hid"]]
    /\ UNCHANGED <<enabled, connected, frame, serialVars, pageVars>>

LoadVendorTouch(x) ==
    /\ Goto(x, "load_vendor_t", "clear")
    /\ live' = [live EXCEPT ![x].touch = connected["vendor"]]
    /\ UNCHANGED <<enabled, connected, frame, serialVars, pageVars>>

(* The early return is ClearFields with both fields live.                  *)
Clear(x) ==
    /\ Goto(x, "clear", "scan")
    /\ page' = ClearFields(page, live[x])
    /\ inherited' = {field \in inherited : live[x][field]}
    /\ live' = [live EXCEPT ![x] = NoLive]
    /\ UNCHANGED <<enabled, connected, frame, serialVars>>

HidStep(x) ==
    \/ ScanFails(x) \/ Connect(x) \/ Announce(x) \/ Drop(x)
    \/ LoadHid(x) \/ LoadVendorButtons(x) \/ LoadTouchHid(x)
    \/ LoadVendorTouch(x) \/ Clear(x)

HidNext ==
    \/ \E x \in HID : HidStep(x)
    \/ HidReport \/ TouchReport \/ VendorReceive \/ VendorApply

----------------------------------------------------------------------------
(* device_thread.                                                          *)

DGoto(from, to) == dpc = from /\ dpc' = to

(* Disabled, or the vendor interface serves (or could serve) the player:   *)
(* the serial session is disconnected, open or not.                        *)
YieldToVendor ==
    /\ ~enabled \/ connected["vendor"] \/ "vendor" \in Interfaces
    /\ DGoto("loop", "close")
    /\ UNCHANGED <<enabled, streamed, hidVars, frame, session, active, rpc, left, pageVars>>

(* No vendor interface is present at this moment.                          *)
KeepSerial ==
    /\ enabled /\ ~connected["vendor"]
    /\ DGoto("loop", "serial")
    /\ UNCHANGED <<enabled, streamed, hidVars, frame, session, active, rpc, left, pageVars>>

(* No COM port of this board, or it cannot be opened.                      *)
OpenFails ==
    /\ ~session
    /\ DGoto("serial", "loop")
    /\ UNCHANGED <<enabled, streamed, hidVars, frame, session, active, rpc, left, pageVars>>

OpenSerial ==
    /\ ~session
    /\ "serial" \in Interfaces
    /\ DGoto("serial", "announce")
    /\ session' = TRUE
    /\ active' = TRUE
    /\ rpc' = "read"
    /\ left' = 0
    /\ streamed' = TRUE
    /\ UNCHANGED <<enabled, hidVars, frame, pageVars>>

AnnounceSerial ==
    /\ DGoto("announce", "serial")
    /\ page' = [page EXCEPT !.connected = TRUE]
    /\ UNCHANGED <<enabled, streamed, inherited, hidVars, frame, session, active, rpc, left>>

(* An iteration in which the session is active and every write succeeds.   *)
ServiceSession ==
    /\ session /\ active
    /\ DGoto("serial", "loop")
    /\ UNCHANGED <<enabled, streamed, hidVars, frame, session, active, rpc, left, pageVars>>

(* The session is no longer active, a write fails, or touch is stale.      *)
DropSession ==
    /\ session
    /\ DGoto("serial", "close")
    /\ UNCHANGED <<enabled, streamed, hidVars, frame, session, active, rpc, left, pageVars>>

(* Faulty variant: the session is not marked inactive.                     *)
CloseLeavesActive ==
    /\ DGoto("close", "join")
    /\ session' = FALSE
    /\ UNCHANGED <<enabled, streamed, hidVars, frame, active, rpc, left, pageVars>>

(* disconnect_session: take and close the session ...                      *)
CloseSession ==
    /\ DGoto("close", "join")
    /\ session' = FALSE
    /\ active' = IF session THEN FALSE ELSE active
    /\ UNCHANGED <<enabled, streamed, hidVars, frame, rpc, left, pageVars>>

(* ... join the reader, if one was spawned ...                             *)
JoinReader ==
    /\ DGoto("join", "load_vendor")
    /\ rpc \in {"none", "exit"}
    /\ rpc' = "none"
    /\ UNCHANGED <<enabled, streamed, hidVars, frame, session, active, left, pageVars>>

(* ... load the three flags, short-circuit ...                             *)
DLoad(from, x, next) ==
    /\ DGoto(from, IF connected[x] THEN "keep" ELSE next)
    /\ UNCHANGED <<enabled, streamed, hidVars, frame, session, active, rpc, left, pageVars>>

DLoadFlags ==
    \/ DLoad("load_vendor", "vendor", "load_touch")
    \/ DLoad("load_touch", "touch_hid", "load_hid")
    \/ DLoad("load_hid", "hid", "reset")

(* ... and keep the page, or write its default.                            *)
KeepPage ==
    /\ DGoto("keep", "loop")
    /\ page' = [page EXCEPT !.connected = TRUE]
    /\ UNCHANGED <<enabled, streamed, inherited, hidVars, frame, session, active, rpc, left>>

ResetPage ==
    /\ DGoto("reset", "loop")
    /\ page' = DefaultPage
    /\ inherited' = {}
    /\ streamed' = FALSE
    /\ UNCHANGED <<enabled, hidVars, frame, session, active, rpc, left>>

DisconnectNext ==
    CloseSession \/ JoinReader \/ DLoadFlags \/ KeepPage \/ ResetPage

DeviceNext ==
    \/ YieldToVendor \/ KeepSerial \/ OpenFails \/ OpenSerial
    \/ AnnounceSerial \/ ServiceSession \/ DropSession
    \/ DisconnectNext

----------------------------------------------------------------------------
(* serial_reader_thread.                                                   *)

(* A chunk arrives.  Its frames are all parsed and applied, whatever       *)
(* happens to the session in the meantime.                                 *)
ReadChunk ==
    /\ rpc = "read" /\ active /\ left = 0
    /\ left' \in 1..MaxFrames
    /\ UNCHANGED <<enabled, streamed, hidVars, frame, session, active, dpc, rpc, pageVars>>

ReaderReceive ==
    /\ rpc = "read" /\ left > 0
    /\ \E f \in Frames : frame' = [frame EXCEPT !["serial"] = StreamFrame(f)]
    /\ rpc' = "apply"
    /\ left' = left - 1
    /\ UNCHANGED <<enabled, streamed, hidVars, session, active, dpc, pageVars>>

ReaderApply ==
    /\ rpc = "apply"
    /\ rpc' = "read"
    /\ page' = ApplyDeviceFrame(page, frame["serial"])
    /\ inherited' = inherited \ Carried(frame["serial"])
    /\ frame' = [frame EXCEPT !["serial"] = NoFrame]
    /\ UNCHANGED <<enabled, streamed, hidVars, session, active, dpc, left>>

(* The read fails, because of the device or of SerialPort::close.          *)
ReaderFails ==
    /\ rpc = "read" /\ left = 0
    /\ active' = FALSE
    /\ rpc' = "exit"
    /\ UNCHANGED <<enabled, streamed, hidVars, frame, session, dpc, left, pageVars>>

(* The loop condition finds the session inactive.                          *)
ReaderStops ==
    /\ rpc = "read" /\ left = 0 /\ ~active
    /\ rpc' = "exit"
    /\ UNCHANGED <<enabled, streamed, hidVars, frame, session, active, dpc, left, pageVars>>

ReaderNext ==
    ReadChunk \/ ReaderReceive \/ ReaderApply \/ ReaderFails \/ ReaderStops

----------------------------------------------------------------------------

Next == HidNext \/ DeviceNext \/ ReaderNext

Spec == Init /\ [][Next]_vars

----------------------------------------------------------------------------
(* Properties.                                                             *)

(* Vendor HID or button HID feeds buttons, vendor or touch HID feeds touch.*)
FedByHid(field) ==
    connected["vendor"] \/ connected[IF field = "buttons" THEN "hid" ELSE "touch_hid"]

(* device_thread is inside disconnect_session and has not yet found a live *)
(* HID source: it will write the default page unless it finds one.         *)
Disconnecting ==
    dpc \in {"close", "join", "load_vendor", "load_touch", "load_hid", "reset"}

SerialPending == session \/ rpc # "none" \/ Disconnecting

(* Thread x is dropping its source and has not decided to spare the field. *)
Pending(x, field) ==
    IF field = "buttons"
    THEN \/ pc[x] \in {"load_hid", "load_vendor_b"}
         \/ pc[x] \in {"load_touch", "load_vendor_t", "clear"} /\ ~live[x].buttons
    ELSE \/ pc[x] \in {"load_hid", "load_vendor_b", "load_touch", "load_vendor_t"}
         \/ pc[x] = "clear" /\ ~live[x].touch

Released(field) ==
    IF field = "buttons" THEN page.buttons = NoButtons ELSE page.touch = NoTouch

(* clear_inputs_on_source_drop "prevents a disconnected HID source from    *)
(* leaving the game reading held buttons/touch": once every HID thread is  *)
(* back to scanning and no serial session is open or being torn down, the  *)
(* page holds no pressed button and no touch that this process has put     *)
(* there.  The last thread to lower its flag must be the one that sees no  *)
(* other live source, in every interleaving of the loads.                  *)
NoHeldInputWithoutSource ==
    /\ \A x \in HID : pc[x] = "scan"
    /\ ~SerialPending
    => \A field \in Fields : Released(field) \/ field \in inherited

(* The same per field: unless a serial stream may have written the page    *)
(* since its last reset, a button or touch held since this process started *)
(* has a connected source of its own kind, or a thread that is about to    *)
(* release it.  (With the stream, disconnect_session keeps the touch for   *)
(* any live source.)                                                       *)
HeldFieldHasFeeder ==
    ~streamed => \A field \in Fields \ inherited :
        ~Released(field) => \/ FedByHid(field)
                            \/ \E x \in HID : Pending(x, field)

(* clear_inputs_on_source_drop zeroes a field "only when no other live     *)
(* source still provides them".  On a board whose touch comes from the     *)
(* serial stream alone, a held touch is then never zeroed while the serial *)
(* session is open and its reader running.                                 *)
ClearSparesLiveSource ==
    [][\A x \in HID : pc[x] = "clear" /\ pc'[x] = "scan" =>
          (page.touch # NoTouch /\ page'.touch = NoTouch
             => ~(session /\ active) \/ "touch" \in inherited)]_vars
=============================================================================
