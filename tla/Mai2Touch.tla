----------------------------- MODULE Mai2Touch -----------------------------
(***************************************************************************)
(* Touch delivery: touch_callback_thread hands the touch bytes of the      *)
(* input page to the callback the game registered                          *)
(* (crates/affine-mai2/src/lib.rs).  Composes the input threads of         *)
(* Mai2Input with the callback thread and the two exported setters, which  *)
(* the game may call at any time.                                          *)
(*                                                                         *)
(* One player and one game process; the callback itself returns.           *)
(***************************************************************************)
EXTENDS Mai2Input

VARIABLES
    touch_enabled,  \* Mai2OutputPage.touch_enabled
    callback,       \* SharedState.callback is Some
    tpc,            \* where touch_callback_thread is
    held,           \* its locals: the touch read from the page ...
    copied,         \* ... and whether the copied callback is Some
    seen            \* the touch the game was last told (None: never called)

touchVars == <<touch_enabled, callback, tpc, held, copied, seen>>
tvars == <<vars, touchVars>>

(* DeviceHandle::new copies enabled into the output page.                  *)
TouchInit ==
    /\ Init
    /\ touch_enabled = enabled
    /\ callback = FALSE
    /\ tpc = "loop"
    /\ held = NoTouch
    /\ copied = FALSE
    /\ seen = None

TGoto(from, to) == tpc = from /\ tpc' = to

(* Loads enabled and reads the output page; the millisecond sleep between  *)
(* two rounds is the wait in "loop".                                       *)
CallbackRound ==
    /\ enabled /\ touch_enabled
    /\ TGoto("loop", "read")
    /\ UNCHANGED <<vars, touch_enabled, callback, held, copied, seen>>

ReadTouch ==
    /\ TGoto("read", "lock")
    /\ held' = page.touch
    /\ UNCHANGED <<vars, touch_enabled, callback, copied, seen>>

(* The pointer is copied and the lock released before the call.            *)
CopyCallback ==
    /\ TGoto("lock", "call")
    /\ copied' = callback
    /\ UNCHANGED <<vars, touch_enabled, callback, held, seen>>

(* Faulty variant: the game is called only while something is touched.     *)
CallOnTouchOnly ==
    /\ TGoto("call", "loop")
    /\ seen' = IF copied /\ held # NoTouch THEN held ELSE seen
    /\ held' = NoTouch
    /\ copied' = FALSE
    /\ UNCHANGED <<vars, touch_enabled, callback>>

Call ==
    /\ TGoto("call", "loop")
    /\ seen' = IF copied THEN held ELSE seen
    /\ held' = NoTouch
    /\ copied' = FALSE
    /\ UNCHANGED <<vars, touch_enabled, callback>>

CallbackNext == CallbackRound \/ ReadTouch \/ CopyCallback \/ Call

(* Exported to the game.                                                   *)
SetTouchCallback ==
    /\ callback' \in BOOLEAN
    /\ UNCHANGED <<vars, touch_enabled, tpc, held, copied, seen>>

SetTouchEnabled ==
    /\ touch_enabled' \in BOOLEAN
    /\ UNCHANGED <<vars, callback, tpc, held, copied, seen>>

TouchNext ==
    \/ Next /\ UNCHANGED touchVars
    \/ CallbackNext
    \/ SetTouchCallback
    \/ SetTouchEnabled

(* Every thread is scheduled, and a step that waits for no device is       *)
(* eventually taken.  The serial reader's read returns within the port's   *)
(* time-outs or when SerialPort::close cancels it.  Nothing makes a device *)
(* send a report, connect or drop.                                         *)
HidLocalStep(x) ==
    /\ \/ Announce(x) \/ LoadHid(x) \/ LoadVendorButtons(x)
       \/ LoadTouchHid(x) \/ LoadVendorTouch(x) \/ Clear(x)
       \/ x = "vendor" /\ VendorApply
    /\ UNCHANGED touchVars

Fairness ==
    /\ \A x \in HID : WF_tvars(HidLocalStep(x))
    /\ WF_tvars(DeviceNext /\ UNCHANGED touchVars)
    /\ WF_tvars(ReaderNext /\ UNCHANGED touchVars)
    /\ WF_tvars(CallbackNext)

TouchSpec == TouchInit /\ [][TouchNext]_tvars /\ Fairness

----------------------------------------------------------------------------
(* Properties.                                                             *)

(* disconnect_session comes back: joining the reader, which may still be   *)
(* reading or applying frames of its last chunk, never blocks the device   *)
(* thread for good.                                                        *)
DisconnectTerminates == dpc = "close" ~> dpc = "loop"

Listening == enabled /\ touch_enabled /\ callback

SourcesGone == ~session /\ \A x \in HID : ~connected[x]

(* When the board is gone for good the game is eventually told that        *)
(* nothing is touched, and is never told otherwise again: no drop path     *)
(* leaves a touch behind and the callback thread forwards the release.     *)
(* Only a touch that was on the page before the game started, and that no  *)
(* board has overwritten since, is nobody's to release.                    *)
UnplugReleasesTouch ==
    <>[](Listening /\ SourcesGone /\ "touch" \notin inherited)
        => <>[](seen = NoTouch)

(* A touch that stays on the page reaches a game that listens.             *)
HeldTouchDelivered ==
    \A t \in TouchVals :
        <>[](Listening /\ page.touch = t) => <>[](seen = t)
=============================================================================
