----------------------------- MODULE SliderLink -----------------------------
(***************************************************************************)
(* The chuni slider (crates/affine-chuni/src/lib.rs) and the mercury touch *)
(* panel (crates/affine-mercury/src/lib.rs): one thread that owns the      *)
(* serial port, copies the control page to the board, copies the board's   *)
(* packets to the state page and tells the game by a callback.  The two    *)
(* runtimes differ in what they do with a changed control page and in the  *)
(* packets they take; "game" says which one a behaviour is about.          *)
(*                                                                         *)
(* The results of writes are ignored by the code, so every frame has two   *)
(* outcomes.  A set of LEDs is the sequence number set_leds gave it, which *)
(* no two of them share; the sequence number of the state page, which      *)
(* nothing reads, is left out, and so are opbtn, gamebtn and coin_counter, *)
(* which nothing writes.  The game uses one thread and its callback        *)
(* returns.                                                                *)
(***************************************************************************)
EXTENDS Naturals

CONSTANTS
    Inputs,      \* values of pressure, or of the cells
    NoInput,     \* ... with nothing touched
    Beams,       \* values of the air beams (chuni)
    NoBeams,     \* ... with none broken
    None,        \* no value: a packet without beams, a game not yet called
    MaxLeds,     \* bound: calls that set LEDs, earlier processes' included
    MaxPackets   \* bound: packets in one read of 64 bytes

ASSUME InputsAssumption ==
    NoInput \in Inputs /\ NoBeams \in Beams /\ None \notin Inputs \cup Beams
ASSUME BoundsAssumption == MaxLeds \in Nat /\ MaxPackets \in Nat \ {0}

Leds == {"slider", "air"}

VARIABLES
    game,         \* "chuni" or "mercury"
    page,         \* ChuniStatePage, MercuryStatePage
    active, seq,  \* ChuniControlPage, MercuryControlPage
    updates,      \* bound: LED calls so far, those on an inherited page too
    callback,     \* the registered callback is Some
    gpc,          \* the game thread is inside start
    pc,           \* where the device thread is
    last_active,  \* its locals: the active flag it acted on,
    last,         \* the LED sequence numbers it acted on,
    snap,         \* the LED numbers of its copy of the control page,
    left,         \* packets of the chunk not yet handled,
    arg, after,   \* what to tell the game, and where to go on then
    plugged,      \* the board is there
    dead,         \* the open port is of a board that has gone away
    scanning,     \* the board streams its input,
    airing,       \* ... and its beams
    shown,        \* the LEDs it shows (0: none, or an earlier process's)
    told,         \* history: what the registered callback was last told
    lost,         \* history: a start or stop frame failed on this port
    opened,       \* history: this process has opened a board
    dim           \* history: the board does not show the LEDs set last, and
                  \* nothing will send them again

pageVars == <<active, seq, updates>>
gameVars == <<callback, gpc>>
localVars == <<last_active, last, snap>>
packetVars == <<left, arg, after>>
boardVars == <<plugged, dead, scanning, airing, shown>>
vars == <<game, page, pageVars, gameVars, pc, localVars, packetVars, boardVars,
          told, lost, opened, dim>>

StatePages == [connected : BOOLEAN, input : Inputs, beams : Beams]
DefaultPage == [connected |-> FALSE, input |-> NoInput, beams |-> NoBeams]

LedSeqs == [Leds -> 0..MaxLeds]
Unset == [c \in Leds |-> 0]

(* The state has its type.                                                 *)
TypeOK ==
    /\ game \in {"chuni", "mercury"}
    /\ page \in StatePages
    /\ active \in BOOLEAN /\ seq \in LedSeqs /\ updates \in 0..MaxLeds
    /\ callback \in BOOLEAN /\ gpc \in {"idle", "start"}
    /\ pc \in {"scan", "announce", "control", "start_air", "start_scan", "stop_scan",
               "read", "packets", "callback", "incall", "reset"} \cup Leds
    /\ last_active \in BOOLEAN /\ last \in LedSeqs
    /\ snap \in LedSeqs
    /\ left \in 0..MaxPackets /\ arg \in Inputs /\ after \in {"packets", "scan"}
    /\ plugged \in BOOLEAN /\ dead \in BOOLEAN
    /\ scanning \in BOOLEAN /\ airing \in BOOLEAN /\ shown \in LedSeqs
    /\ told \in Inputs \cup {None}
    /\ lost \in BOOLEAN /\ opened \in BOOLEAN /\ dim \in [Leds -> BOOLEAN]

(* A process starts.  The pages are new, or another process has kept them  *)
(* alive and they are as an earlier one left them; the board is in any     *)
(* state, since nothing told it that an earlier process has ended.         *)
Init ==
    /\ game \in {"chuni", "mercury"}
    /\ page \in StatePages
    /\ active \in BOOLEAN /\ seq \in LedSeqs
    /\ updates = seq["slider"] + seq["air"] /\ updates <= MaxLeds
    /\ callback = FALSE /\ gpc = "idle"
    /\ pc = "scan"
    /\ last_active = FALSE /\ last = Unset /\ snap = Unset
    /\ left = 0 /\ arg = NoInput /\ after = "packets"
    /\ plugged \in BOOLEAN /\ dead = FALSE
    /\ scanning \in BOOLEAN /\ airing \in BOOLEAN /\ shown = Unset
    /\ game = "mercury" => ~airing /\ seq["air"] = 0
    /\ ~plugged => ~scanning /\ ~airing
    /\ told = None /\ lost = FALSE /\ opened = FALSE
    /\ dim = [c \in Leds |-> seq[c] = 0]

----------------------------------------------------------------------------
(* The game.                                                               *)

(* start: the callback is stored under its mutex, which the device thread  *)
(* holds while it calls ...                                                *)
StartCallback ==
    /\ gpc = "idle" /\ pc # "incall"
    /\ gpc' = "start"
    /\ callback' \in BOOLEAN
    /\ told' = None
    /\ UNCHANGED <<game, page, pageVars, pc, localVars, packetVars, boardVars, lost, opened, dim>>

(* ... and then the control page is marked active.                         *)
StartActive ==
    /\ gpc = "start"
    /\ gpc' = "idle"
    /\ active' = TRUE
    /\ UNCHANGED <<game, page, seq, updates, callback, pc, localVars, packetVars,
                   boardVars, told, lost, opened, dim>>

(* Only chuni has a stop.                                                  *)
Stop ==
    /\ game = "chuni" /\ gpc = "idle"
    /\ active' = FALSE
    /\ UNCHANGED <<game, page, seq, updates, gameVars, pc, localVars, packetVars,
                   boardVars, told, lost, opened, dim>>

SetLeds(c) ==
    /\ gpc = "idle" /\ updates < MaxLeds
    /\ game = "mercury" => c = "slider"
    /\ updates' = updates + 1
    /\ seq' = [seq EXCEPT ![c] = @ + 1]
    /\ dim' = [dim EXCEPT ![c] = FALSE]
    /\ UNCHANGED <<game, page, active, gameVars, pc, localVars, packetVars,
                   boardVars, told, lost, opened>>

GameNext == StartCallback \/ StartActive \/ Stop \/ \E c \in Leds : SetLeds(c)

----------------------------------------------------------------------------
(* The device thread: connecting and the control page.                     *)

Goto(from, to) == pc = from /\ pc' = to

(* A board that is not found or cannot be opened changes nothing.          *)
Open ==
    /\ plugged
    /\ Goto("scan", "announce")
    /\ dead' = FALSE
    /\ lost' = FALSE
    /\ opened' = TRUE
    /\ UNCHANGED <<game, page, pageVars, gameVars, localVars, packetVars, plugged,
                   scanning, airing, shown, told, dim>>

(* Faulty variant: the new board is taken to be started already.           *)
AnnounceKeepsActive ==
    /\ Goto("announce", "control")
    /\ page' = [page EXCEPT !.connected = TRUE]
    /\ UNCHANGED <<game, pageVars, gameVars, localVars, packetVars, boardVars, told,
                   lost, opened, dim>>

(* The LED sequence numbers, unlike last_active, are not reset.            *)
Announce ==
    /\ Goto("announce", "control")
    /\ page' = [page EXCEPT !.connected = TRUE]
    /\ last_active' = FALSE
    /\ UNCHANGED <<game, pageVars, gameVars, last, snap, packetVars, boardVars, told,
                   lost, opened, dim>>

ChuniControl ==
    /\ game = "chuni"
    /\ Goto("control", IF active = last_active THEN "slider"
                       ELSE IF active THEN "start_air" ELSE "stop_scan")
    /\ snap' = seq
    /\ UNCHANGED <<game, page, pageVars, gameVars, last_active, last, packetVars,
                   boardVars, told, lost, opened, dim>>

(* mercury sends no stop and no LEDs: it only remembers what it saw.       *)
MercuryControl ==
    /\ game = "mercury"
    /\ Goto("control", IF active /\ ~last_active THEN "start_scan" ELSE "read")
    /\ last_active' = active
    /\ last' = seq
    /\ UNCHANGED <<game, page, pageVars, gameVars, snap, packetVars, boardVars, told,
                   lost, opened, dim>>

(* send_slider_frame succeeds on a working port, and may fail on any.      *)
StartAir ==
    /\ Goto("start_air", "start_scan")
    /\ \/ ~dead /\ airing' = TRUE /\ UNCHANGED lost
       \/ lost' = TRUE /\ UNCHANGED airing
    /\ UNCHANGED <<game, page, pageVars, gameVars, localVars, packetVars, plugged,
                   dead, scanning, shown, told, opened, dim>>

StartScan ==
    /\ Goto("start_scan", IF game = "chuni" THEN "slider" ELSE "read")
    /\ last_active' = TRUE
    /\ \/ ~dead /\ scanning' = TRUE /\ UNCHANGED lost
       \/ lost' = TRUE /\ UNCHANGED scanning
    /\ UNCHANGED <<game, page, pageVars, gameVars, last, snap, packetVars, plugged,
                   dead, airing, shown, told, opened, dim>>

StopScan ==
    /\ Goto("stop_scan", "slider")
    /\ last_active' = FALSE
    /\ \/ ~dead /\ scanning' = FALSE /\ UNCHANGED lost
       \/ lost' = TRUE /\ UNCHANGED scanning
    /\ UNCHANGED <<game, page, pageVars, gameVars, last, snap, packetVars, plugged,
                   dead, airing, shown, told, opened, dim>>

Frame(c) ==
    \/ /\ snap[c] = last[c]
       /\ UNCHANGED <<shown, dim>>
    \/ /\ snap[c] # last[c] /\ ~dead
       /\ shown' = [shown EXCEPT ![c] = snap[c]]
       /\ dim' = [dim EXCEPT ![c] = FALSE]
    \/ /\ snap[c] # last[c]
       /\ dim' = [dim EXCEPT ![c] = TRUE]
       /\ UNCHANGED shown

After(c) == IF c = "slider" THEN "air" ELSE "read"

(* Faulty variant: the page's present number is remembered.                *)
SendLatestLeds(c) ==
    /\ Goto(c, After(c))
    /\ Frame(c)
    /\ last' = [last EXCEPT ![c] = seq[c]]
    /\ snap' = IF c = "air" THEN Unset ELSE snap
    /\ UNCHANGED <<game, page, pageVars, gameVars, last_active, packetVars, plugged,
                   dead, scanning, airing, told, lost, opened>>

SendLeds(c) ==
    /\ Goto(c, After(c))
    /\ Frame(c)
    /\ last' = [last EXCEPT ![c] = snap[c]]
    /\ snap' = IF c = "air" THEN Unset ELSE snap
    /\ UNCHANGED <<game, page, pageVars, gameVars, last_active, packetVars, plugged,
                   dead, scanning, airing, told, lost, opened>>

----------------------------------------------------------------------------
(* The device thread: packets and the callback.                            *)

(* The read returns some packets, or nothing.                              *)
ReadChunk ==
    /\ ~dead
    /\ Goto("read", "packets")
    /\ left' \in 0..MaxPackets
    /\ UNCHANGED <<game, page, pageVars, gameVars, localVars, arg, after, boardVars,
                   told, lost, opened, dim>>

ChunkEnds ==
    /\ left = 0
    /\ Goto("packets", "control")
    /\ UNCHANGED <<game, page, pageVars, gameVars, localVars, packetVars, boardVars,
                   told, lost, opened, dim>>

(* Faulty variant: missing beams are written like any others.              *)
ScanPacketRaw(v, b) ==
    /\ left > 0
    /\ Goto("packets", "callback")
    /\ page' = [connected |-> TRUE, input |-> v, beams |-> b]
    /\ left' = left - 1
    /\ arg' = v
    /\ after' = "packets"
    /\ UNCHANGED <<game, pageVars, gameVars, localVars, boardVars, told, lost, opened, dim>>

(* AUTO_SCAN: the page, then the callback, which gets what the page holds. *)
ScanPacket(v, b) ==
    /\ left > 0
    /\ Goto("packets", "callback")
    /\ page' = [connected |-> TRUE, input |-> v,
                beams |-> IF b = None THEN page.beams ELSE b]
    /\ left' = left - 1
    /\ arg' = v
    /\ after' = "packets"
    /\ UNCHANGED <<game, pageVars, gameVars, localVars, boardVars, told, lost, opened, dim>>

(* AUTO_AIR: the page only.                                                *)
AirPacket(b) ==
    /\ pc = "packets" /\ left > 0
    /\ page' = [page EXCEPT !.connected = TRUE, !.beams = b]
    /\ left' = left - 1
    /\ UNCHANGED <<game, pageVars, gameVars, pc, localVars, arg, after, boardVars,
                   told, lost, opened, dim>>

ChuniPacket ==
    /\ game = "chuni"
    /\ \/ \E v \in Inputs, b \in Beams \cup {None} : ScanPacket(v, b)
       \/ \E b \in Beams : AirPacket(b)

MercuryPacket == game = "mercury" /\ \E v \in Inputs : ScanPacket(v, None)

(* A packet too short or of another command.                               *)
OtherPacket ==
    /\ pc = "packets" /\ left > 0
    /\ left' = left - 1
    /\ UNCHANGED <<game, page, pageVars, gameVars, pc, localVars, arg, after,
                   boardVars, told, lost, opened, dim>>

(* Faulty variant: the error of a board that is gone counts as no data.    *)
ReadFailsAlive ==
    /\ ~dead
    /\ Goto("read", "reset")
    /\ UNCHANGED <<game, page, pageVars, gameVars, localVars, packetVars, boardVars,
                   told, lost, opened, dim>>

(* The read fails, because the board is gone or for another reason.        *)
ReadFails ==
    /\ Goto("read", "reset")
    /\ UNCHANGED <<game, page, pageVars, gameVars, localVars, packetVars, boardVars,
                   told, lost, opened, dim>>

(* Faulty variant: the game is not told.                                   *)
ResetSilently ==
    /\ Goto("reset", "scan")
    /\ page' = DefaultPage
    /\ UNCHANGED <<game, pageVars, gameVars, localVars, packetVars, boardVars, told,
                   lost, opened, dim>>

Reset ==
    /\ Goto("reset", "callback")
    /\ page' = DefaultPage
    /\ arg' = NoInput
    /\ after' = "scan"
    /\ UNCHANGED <<game, pageVars, gameVars, localVars, left, boardVars, told, lost, opened, dim>>

(* invoke_callback: the mutex is held until the callback returns.          *)
InvokeCallback ==
    /\ Goto("callback", IF callback THEN "incall" ELSE after)
    /\ told' = IF callback THEN arg ELSE told
    /\ arg' = NoInput
    /\ UNCHANGED <<game, page, pageVars, gameVars, localVars, left, after, boardVars,
                   lost, opened, dim>>

CallbackReturns ==
    /\ Goto("incall", after)
    /\ UNCHANGED <<game, page, pageVars, gameVars, localVars, packetVars, boardVars,
                   told, lost, opened, dim>>

DeviceNext ==
    \/ Open \/ Announce \/ ChuniControl \/ MercuryControl
    \/ StartAir \/ StartScan \/ StopScan \/ \E c \in Leds : SendLeds(c)
    \/ ReadChunk \/ ChunkEnds \/ ChuniPacket \/ MercuryPacket \/ OtherPacket
    \/ ReadFails \/ Reset \/ InvokeCallback \/ CallbackReturns

----------------------------------------------------------------------------
(* The board (external): plugged in, it is dark and silent.                *)

Unplug ==
    /\ plugged
    /\ plugged' = FALSE
    /\ dead' = TRUE
    /\ scanning' = FALSE /\ airing' = FALSE /\ shown' = Unset
    /\ dim' = [c \in Leds |-> dim[c] \/ last[c] # 0]
    /\ UNCHANGED <<game, page, pageVars, gameVars, pc, localVars, packetVars, told, lost, opened>>

Plug ==
    /\ ~plugged
    /\ plugged' = TRUE
    /\ UNCHANGED <<game, page, pageVars, gameVars, pc, localVars, packetVars, dead,
                   scanning, airing, shown, told, lost, opened, dim>>

Next == GameNext \/ DeviceNext \/ Unplug \/ Plug

(* The device thread runs, and a call of start comes to its end.           *)
Fairness == WF_vars(DeviceNext) /\ WF_vars(StartActive)

Spec == Init /\ [][Next]_vars /\ Fairness

----------------------------------------------------------------------------
(* Properties.                                                             *)

(* The game and the page agree: a callback that was told anything since it *)
(* was registered was last told what the page holds, except while the      *)
(* device thread is between a page update and its call.  Losing the board  *)
(* counts as an update.                                                    *)
ToldAgrees ==
    callback /\ told # None /\ pc # "callback" => told = page.input

(* LEDs the thread remembers as sent are shown, if they are the last the   *)
(* game has set: setting others while older ones are being sent must not   *)
(* make it believe the newer ones sent, whatever fails in between (dim).   *)
LedsAreShown ==
    game = "chuni" =>
        \A c \in Leds : last[c] = seq[c] /\ ~dim[c] => shown[c] = seq[c]

(* A board the thread takes for started streams its input, and on chuni    *)
(* its beams: no reconnect, no power loss and no stop and start of the     *)
(* game makes it keep a last_active that the board knows nothing of.  A    *)
(* start or stop frame that failed on this port is ignored (lost).         *)
StartedStreams ==
    last_active /\ ~dead /\ ~lost /\ pc \notin {"announce", "start_scan"} =>
        scanning /\ (game = "chuni" => airing)

(* When the board is gone for good, the page goes back to its default and  *)
(* the game is told that nothing is touched, if the process ever opened a  *)
(* board: before that nothing writes an inherited page.                    *)
UnplugReleases ==
    <>[](~plugged /\ opened) => <>[](page = DefaultPage /\ told \in {None, NoInput})

(* A board that stays and a game that stays active end up streaming,       *)
(* however often the link broke, the board lost power or the game stopped  *)
(* and started before, unless a start frame itself failed on the last      *)
(* port: its result is ignored and nothing sends it again.                 *)
ScanStarts ==
    <>[](plugged /\ active /\ ~lost)
        => <>[](scanning /\ (game = "chuni" => airing))

(* The last LEDs the game sets are shown, although it may set them while   *)
(* the thread is sending older ones, unless the board lost power since,    *)
(* the write failed, or nobody has set any and the board still shows those *)
(* of an earlier process: then nothing sends them (again).                 *)
LedsReachSlider ==
    \A c \in Leds :
        <>[](game = "chuni" /\ plugged /\ ~dim[c]) => <>[](shown[c] = seq[c])
=============================================================================
