------------------------------ MODULE Mai2Led ------------------------------
(***************************************************************************)
(* LED output of one mai2 player (crates/affine-mai2/src/lib.rs): the      *)
(* exported LED functions write the output page, and the thread that owns  *)
(* the link to the board (device_thread over serial, vendor_command_thread *)
(* over HID) copies changed channels to it.  The serial thread also stops  *)
(* writing LEDs, and then reconnects, when the touch stream goes stale.    *)
(*                                                                         *)
(* Time is counted in ages that Tick advances up to the thresholds the     *)
(* code compares them with.  A channel is 8 LEDs in the code and one here; *)
(* its sequence number is a u64 that does not wrap within a run.           *)
(***************************************************************************)
EXTENDS Naturals

CONSTANTS
    Colors,        \* LED colours
    Dark,          \* all bytes zero
    MaxUpdates,    \* bound: page updates that change a channel
    PauseAge,      \* AFFINE_TOUCH_STALE_LED_PAUSE_MS
    ReconnectAge,  \* AFFINE_TOUCH_STALE_RECONNECT_MS
    GraceAge       \* AFFINE_TOUCH_STALE_GRACE_MS

ASSUME ColorsAssumption == Dark \in Colors
ASSUME AgesAssumption ==
    /\ {MaxUpdates, PauseAge, ReconnectAge, GraceAge} \subseteq Nat
    /\ 0 < PauseAge /\ PauseAge < ReconnectAge /\ ReconnectAge < GraceAge

Channels == {"buttons", "billboard", "pwm"}

(* A button LED fades from start to target at a speed (0: at once).        *)
Fades == [start : Colors, target : Colors, speed : {0, 1}]
DarkFade == [start |-> Dark, target |-> Dark, speed |-> 0]
Dark3 == [buttons |-> DarkFade, billboard |-> Dark, pwm |-> Dark]

VARIABLES
    kind,           \* "serial" or "vendor": the link the board offers
    val, seq,       \* the output page: payload and sequence of each channel
    touch_enabled,  \* the output page: touch_enabled
    latch,          \* led_start_latch of the board
    fade,           \* payload led_gs_update has built and not yet published
    updates,        \* bound: changes published so far, those on an inherited
                    \* page too
    plugged,        \* the board is there
    broken,         \* the open link no longer reaches it
    wpc,            \* where the link thread is; "closed": no link
    last,           \* last_<channel>_sequence
    snap,           \* its local copy of the output page
    suspended,      \* led_output_suspended
    fresh,          \* touch_frames differs from last_touch_frames
    counted,        \* apply_device_frame between touch_frames and its stamp
    stamped,        \* touch_last_update_ms is not zero
    touchAge,       \* age of touch_last_update_ms
    linkAge,        \* age of connected_since_ms
    leds            \* what the board shows

gameVars == <<val, seq, touch_enabled, latch, fade, updates>>
touchVars == <<fresh, counted, stamped, touchAge>>
linkVars == <<wpc, last, snap, suspended>>
vars == <<kind, gameVars, plugged, broken, linkVars, touchVars, linkAge, leds>>

NoFade == <<>>
NoSnap == [val |-> Dark3, seq |-> [c \in Channels |-> 0], touch_enabled |-> FALSE]

Seqs == [Channels -> 0..MaxUpdates]
Vals == [buttons : Fades, billboard : Colors, pwm : Colors]

(* The state has its type.                                                 *)
TypeOK ==
    /\ kind \in {"serial", "vendor"}
    /\ val \in Vals /\ seq \in Seqs /\ touch_enabled \in BOOLEAN
    /\ latch \in Colors /\ fade \in Fades \cup {NoFade} /\ updates \in 0..MaxUpdates
    /\ plugged \in BOOLEAN /\ broken \in BOOLEAN
    /\ wpc \in {"closed", "loop", "frames", "age"} \cup Channels
    /\ last \in Seqs
    /\ snap \in [val : Vals, seq : Seqs, touch_enabled : BOOLEAN]
    /\ suspended \in BOOLEAN
    /\ fresh \in BOOLEAN /\ counted \in BOOLEAN /\ stamped \in BOOLEAN
    /\ touchAge \in 0..ReconnectAge /\ linkAge \in 0..GraceAge
    /\ leds \in [buttons : Fades \cup Colors, billboard : Colors, pwm : Colors]

(* A board that shows one colour everywhere.                               *)
AllIn(v) ==
    [buttons |-> IF kind = "serial" THEN v ELSE [start |-> v, target |-> v, speed |-> 0],
     billboard |-> v, pwm |-> v]
Unlit == AllIn(Dark)

(* A process starts.  The output page is new, or another process has kept  *)
(* it alive with what an earlier one wrote; the latch is new either way.   *)
(* A board that is plugged in may still show an earlier process's LEDs.    *)
Init ==
    /\ kind \in {"serial", "vendor"}
    /\ val \in Vals /\ seq \in Seqs /\ touch_enabled \in BOOLEAN
    /\ \A c \in Channels : seq[c] = 0 => val[c] = Dark3[c]
    /\ updates = seq["buttons"] + seq["billboard"] + seq["pwm"]
    /\ updates <= MaxUpdates
    /\ latch = Dark /\ fade = NoFade
    /\ plugged \in BOOLEAN /\ broken = FALSE
    /\ wpc = "closed" /\ last = [c \in Channels |-> 0] /\ snap = NoSnap
    /\ suspended = FALSE
    /\ fresh = FALSE /\ counted = FALSE /\ stamped = FALSE
    /\ touchAge = 0 /\ linkAge = 0
    /\ leds \in {AllIn(v) : v \in IF plugged THEN Colors ELSE {Dark}}

(* 0x14 over serial carries button_rgb_payload, the targets only; the      *)
(* other payloads go out as they are.                                      *)
Shown(c, v) == IF c = "buttons" /\ kind = "serial" THEN v.target ELSE v

----------------------------------------------------------------------------
(* The game.                                                               *)

(* The page update all three functions share: nothing if nothing changes.  *)
Publish(c, v) ==
    IF val[c] = v
    THEN UNCHANGED <<val, seq, updates>>
    ELSE /\ updates < MaxUpdates
         /\ updates' = updates + 1
         /\ val' = [val EXCEPT ![c] = v]
         /\ seq' = [seq EXCEPT ![c] = @ + 1]

(* led_set_fet_output and led_billboard_set.                               *)
LedSet(c) ==
    /\ c \in {"billboard", "pwm"}
    /\ \E v \in Colors : Publish(c, v)
    /\ UNCHANGED <<kind, touch_enabled, latch, fade, plugged, broken, linkVars,
                   touchVars, linkAge, leds>>

(* led_gs_update: the payload is built, and the start latch moved, under   *)
(* the latch's own lock ...                                                *)
LedGsLatch ==
    /\ fade = NoFade /\ updates < MaxUpdates
    /\ \E target \in Colors, speed \in {0, 1} :
          /\ fade' = [start |-> IF speed = 0 THEN target ELSE latch,
                      target |-> target, speed |-> speed]
          /\ latch' = target
    /\ UNCHANGED <<kind, val, seq, touch_enabled, updates, plugged, broken,
                   linkVars, touchVars, linkAge, leds>>

(* ... and published afterwards.                                           *)
LedGsPublish ==
    /\ fade # NoFade
    /\ Publish("buttons", fade)
    /\ fade' = NoFade
    /\ UNCHANGED <<kind, touch_enabled, latch, plugged, broken, linkVars,
                   touchVars, linkAge, leds>>

SetTouchEnabled ==
    /\ touch_enabled' = ~touch_enabled
    /\ UNCHANGED <<kind, val, seq, latch, fade, updates, plugged, broken,
                   linkVars, touchVars, linkAge, leds>>

GameNext == LedSet("billboard") \/ LedSet("pwm") \/ LedGsLatch \/ LedGsPublish
              \/ SetTouchEnabled

----------------------------------------------------------------------------
(* The board, its touch stream and time.                                   *)

(* Power is lost: the LEDs go dark and an open link is dead for good.      *)
Unplug ==
    /\ plugged
    /\ plugged' = FALSE
    /\ broken' = (wpc # "closed")
    /\ leds' = Unlit
    /\ UNCHANGED <<kind, gameVars, linkVars, touchVars, linkAge>>

Plug ==
    /\ ~plugged
    /\ plugged' = TRUE
    /\ UNCHANGED <<kind, gameVars, broken, linkVars, touchVars, linkAge, leds>>

(* apply_device_frame with touch, from the serial reader or the touch HID: *)
(* the counter first, the time stamp in a later step.  The vendor thread   *)
(* looks at neither, so frames and time exist for a serial link only.      *)
TouchCount ==
    /\ kind = "serial" /\ plugged /\ ~counted
    /\ fresh' = TRUE
    /\ counted' = TRUE
    /\ UNCHANGED <<kind, gameVars, plugged, broken, linkVars, stamped, touchAge,
                   linkAge, leds>>

TouchStamp ==
    /\ counted
    /\ counted' = FALSE
    /\ stamped' = TRUE
    /\ touchAge' = 0
    /\ UNCHANGED <<kind, gameVars, plugged, broken, linkVars, fresh, linkAge, leds>>

Older(a, cap) == IF a < cap THEN a + 1 ELSE a

Tick ==
    /\ kind = "serial"
    /\ touchAge' = IF stamped THEN Older(touchAge, ReconnectAge) ELSE touchAge
    /\ linkAge' = IF wpc = "closed" THEN linkAge ELSE Older(linkAge, GraceAge)
    /\ UNCHANGED <<kind, gameVars, plugged, broken, linkVars, fresh, counted,
                   stamped, leds>>

----------------------------------------------------------------------------
(* The link thread.                                                        *)

Close ==
    /\ wpc' = "closed"
    /\ linkAge' = 0
    /\ broken' = FALSE
    /\ snap' = NoSnap

(* Faulty variant: the sequence numbers of the previous session are kept.  *)
OpenKeepsLast ==
    /\ wpc = "closed" /\ plugged
    /\ wpc' = "loop"
    /\ linkAge' = 0
    /\ UNCHANGED <<kind, gameVars, plugged, broken, last, snap, suspended,
                   touchVars, leds>>

(* The port or HID path is opened; the serial thread keeps its suspension. *)
Open ==
    /\ wpc = "closed" /\ plugged
    /\ wpc' = "loop"
    /\ last' = [c \in Channels |-> 0]
    /\ linkAge' = 0
    /\ UNCHANGED <<kind, gameVars, plugged, broken, snap, suspended, touchVars, leds>>

(* Heartbeat and board info are written, or not due; a broken link may go  *)
(* unnoticed until the next one is.  Then the output page is read.         *)
ReadOutput ==
    /\ wpc = "loop"
    /\ snap' = [val |-> val, seq |-> seq, touch_enabled |-> touch_enabled]
    /\ wpc' = IF kind = "serial" THEN "frames" ELSE "buttons"
    /\ UNCHANGED <<kind, gameVars, plugged, broken, last, suspended, touchVars,
                   linkAge, leds>>

(* The heartbeat, a request for the board information or the read fails,   *)
(* on a broken link or on one that works.                                  *)
LinkFails ==
    /\ wpc = "loop"
    /\ Close
    /\ UNCHANGED <<kind, gameVars, plugged, last, suspended, touchVars, leds>>

(* Faulty variant: a recovered touch stream does not end the suspension.   *)
CheckFramesOnly ==
    /\ wpc = "frames"
    /\ wpc' = "age"
    /\ fresh' = FALSE
    /\ UNCHANGED <<kind, gameVars, plugged, broken, last, snap, suspended,
                   counted, stamped, touchAge, linkAge, leds>>

(* touch_frames moved since the last look: writes resume.                  *)
CheckFrames ==
    /\ wpc = "frames"
    /\ wpc' = "age"
    /\ fresh' = FALSE
    /\ suspended' = (suspended /\ ~fresh)
    /\ UNCHANGED <<kind, gameVars, plugged, broken, last, snap, counted, stamped,
                   touchAge, linkAge, leds>>

(* touch_serial_age_ms: since the last touch frame, or since connecting.   *)
TouchAge == IF stamped THEN touchAge ELSE linkAge

Protects == snap.touch_enabled /\ linkAge >= GraceAge

CheckAge ==
    /\ wpc = "age"
    /\ suspended' = (suspended \/ (Protects /\ TouchAge >= PauseAge))
    /\ IF Protects /\ TouchAge >= ReconnectAge
       THEN Close
       ELSE /\ wpc' = IF suspended' THEN "loop" ELSE "buttons"
            /\ snap' = IF suspended' THEN NoSnap ELSE snap
            /\ UNCHANGED <<broken, linkAge>>
    /\ UNCHANGED <<kind, gameVars, plugged, last, touchVars, leds>>

After(c) == CASE c = "buttons" -> "billboard"
              [] c = "billboard" -> "pwm"
              [] c = "pwm" -> "loop"

Advance(c) ==
    /\ wpc' = After(c)
    /\ snap' = IF c = "pwm" THEN NoSnap ELSE snap

SkipChannel(c) ==
    /\ wpc = c /\ snap.seq[c] = last[c]
    /\ Advance(c)
    /\ UNCHANGED <<kind, gameVars, plugged, broken, last, suspended, touchVars,
                   linkAge, leds>>

(* Faulty variant: every channel gets the buttons' payload.                *)
WriteButtons(c) ==
    /\ wpc = c /\ snap.seq[c] # last[c] /\ ~broken
    /\ leds' = [leds EXCEPT ![c] = Shown("buttons", snap.val["buttons"])]
    /\ last' = [last EXCEPT ![c] = snap.seq[c]]
    /\ Advance(c)
    /\ UNCHANGED <<kind, gameVars, plugged, broken, suspended, touchVars, linkAge>>

WriteChannel(c) ==
    /\ wpc = c /\ snap.seq[c] # last[c] /\ ~broken
    /\ leds' = [leds EXCEPT ![c] = Shown(c, snap.val[c])]
    /\ last' = [last EXCEPT ![c] = snap.seq[c]]
    /\ Advance(c)
    /\ UNCHANGED <<kind, gameVars, plugged, broken, suspended, touchVars, linkAge>>

(* A write that fails may have reached the board all the same.             *)
WriteFails(c) ==
    /\ wpc = c /\ snap.seq[c] # last[c]
    /\ \/ leds' = leds
       \/ ~broken /\ leds' = [leds EXCEPT ![c] = Shown(c, snap.val[c])]
    /\ Close
    /\ UNCHANGED <<kind, gameVars, plugged, last, suspended, touchVars>>

LinkNext ==
    \/ Open \/ ReadOutput \/ LinkFails \/ CheckFrames \/ CheckAge
    \/ \E c \in Channels : SkipChannel(c) \/ WriteChannel(c) \/ WriteFails(c)

Next ==
    \/ GameNext \/ LinkNext
    \/ Unplug \/ Plug \/ TouchCount \/ TouchStamp \/ Tick

(* The link thread runs, opens a board that stays plugged in, and notices  *)
(* a broken link by the heartbeat it sends every 100 ms; a heartbeat or a  *)
(* write to a working board does not fail for ever; a reader that has      *)
(* counted a frame stamps it.                                              *)
Fairness ==
    /\ WF_vars(LinkNext)
    /\ SF_vars(broken /\ LinkFails)
    /\ SF_vars(~broken /\ ReadOutput)
    /\ \A c \in Channels : SF_vars(WriteChannel(c))
    /\ WF_vars(TouchStamp)

Spec == Init /\ [][Next]_vars /\ Fairness

----------------------------------------------------------------------------
(* Properties.                                                             *)

(* A channel the link thread believes up to date is: on a working link,    *)
(* when last_<channel>_sequence is the page's sequence number, the board   *)
(* shows the page's payload.  A write that fails, a reconnect or a board   *)
(* that lost power in between must not leave an older payload behind.      *)
InSync ==
    wpc # "closed" /\ ~broken =>
        \A c \in Channels : last[c] = seq[c] /\ seq[c] # 0 => leds[c] = Shown(c, val[c])

TouchFlows ==
    \/ kind = "vendor"
    \/ <>[](touchAge < PauseAge /\ stamped) /\ []<><<TouchCount>>_vars

(* The LEDs converge: if the board stays plugged in, the game stops        *)
(* changing LEDs and touch frames keep coming, the board ends up showing   *)
(* the output page, however often the link failed or was suspended before. *)
LedsConverge ==
    <>[]plugged /\ TouchFlows
        => <>[](\A c \in Channels : seq[c] # 0 => leds[c] = Shown(c, val[c]))
=============================================================================
