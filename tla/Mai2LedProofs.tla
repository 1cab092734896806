---------------------------- MODULE Mai2LedProofs ----------------------------
(***************************************************************************)
(* The LED output of a mai2 player: a channel the link thread takes for up *)
(* to date is, for any colours, any number of page updates and any of the  *)
(* thresholds the code compares ages with.                                 *)
(***************************************************************************)
EXTENDS Mai2Led, TLAPS

USE DEF gameVars, touchVars, linkVars

(* The page's payloads by channel, and a record with one channel replaced. *)
ValsOf(c) == IF c = "buttons" THEN Fades ELSE Colors

Put(record, c, x) == [record EXCEPT ![c] = x]

LEMMA ValsPut ==
    ASSUME NEW v \in Vals, NEW c \in Channels, NEW x \in ValsOf(c)
    PROVE  /\ Put(v, c, x) \in Vals /\ Put(v, c, x)[c] = x
           /\ \A d \in Channels \ {c} : Put(v, c, x)[d] = v[d]
<1>1. CASE c = "buttons"
  BY <1>1 DEF Vals, Channels, ValsOf, Put
<1>2. CASE c = "billboard"
  BY <1>2 DEF Vals, Channels, ValsOf, Put
<1>3. CASE c = "pwm"
  BY <1>3 DEF Vals, Channels, ValsOf, Put
<1> QED
  BY <1>1, <1>2, <1>3 DEF Channels

LEMMA ValsApply ==
    ASSUME NEW v \in Vals, NEW c \in Channels
    PROVE  v[c] \in ValsOf(c)
BY DEF Vals, Channels, ValsOf

(* Sequence numbers only grow: what was sent and what is being sent are    *)
(* not ahead of the page, a channel never written is dark, and updates     *)
(* counts the game's changes.                                              *)
SeqsOrdered ==
    /\ updates = seq["buttons"] + seq["billboard"] + seq["pwm"]
    /\ \A c \in Channels :
          /\ last[c] <= seq[c] /\ snap.seq[c] <= seq[c]
          /\ seq[c] = 0 => val[c] = Dark3[c]

(* The thread's copy of a channel is the page's as long as the sequence    *)
(* numbers agree: no two payloads share one.                               *)
SnapCurrent ==
    \A c \in Channels : snap.seq[c] = seq[c] => snap.val[c] = val[c]

IndInv == TypeOK /\ SeqsOrdered /\ SnapCurrent /\ InSync

LEMMA Numbers ==
    ASSUME IndInv
    PROVE  /\ \A c \in Channels : seq[c] \in Nat /\ last[c] \in Nat /\ snap.seq[c] \in Nat
           /\ updates \in Nat
<1>1. seq \in Seqs /\ last \in Seqs /\ snap.seq \in Seqs /\ updates \in 0..MaxUpdates
  BY DEF IndInv, TypeOK
<1> QED
  BY <1>1, AgesAssumption DEF Seqs

LEMMA NoSnapType ==
    /\ NoSnap \in [val : Vals, seq : Seqs, touch_enabled : BOOLEAN]
    /\ \A c \in Channels : NoSnap.seq[c] = 0 /\ NoSnap.val[c] = Dark3[c]
<1>1. DarkFade \in Fades
  BY ColorsAssumption DEF DarkFade, Fades
<1>2. Dark3 \in Vals
  BY <1>1, ColorsAssumption DEF Dark3, Vals
<1>3. [c \in Channels |-> 0] \in Seqs
  BY AgesAssumption DEF Seqs
<1> QED
  BY <1>2, <1>3 DEF NoSnap

LEMMA InitInv == Init => IndInv
<1> SUFFICES ASSUME Init PROVE IndInv
  OBVIOUS
<1>1. [c \in Channels |-> 0] \in Seqs /\ 0 \in 0..ReconnectAge /\ 0 \in 0..GraceAge
  BY AgesAssumption DEF Seqs
<1>2. \A v \in Colors : AllIn(v) \in [buttons : Fades \cup Colors, billboard : Colors,
                                      pwm : Colors]
  BY DEF AllIn, Fades
<1>3. leds \in [buttons : Fades \cup Colors, billboard : Colors, pwm : Colors]
  BY <1>2, ColorsAssumption DEF Init
<1>4. \A c \in Channels : seq[c] \in Nat
  BY AgesAssumption DEF Init, Seqs
<1>5. updates \in 0..MaxUpdates
  <2>1. seq["buttons"] \in Nat /\ seq["billboard"] \in Nat /\ seq["pwm"] \in Nat
    BY <1>4 DEF Channels
  <2> QED
    BY <2>1, AgesAssumption DEF Init
<1>6. TypeOK
  BY <1>1, <1>3, <1>5, NoSnapType, ColorsAssumption DEF Init, TypeOK
<1>7. SeqsOrdered
  BY <1>4, NoSnapType DEF Init, SeqsOrdered
<1>8. SnapCurrent
  BY NoSnapType DEF Init, SnapCurrent
<1>9. InSync
  BY DEF Init, InSync
<1> QED
  BY <1>6, <1>7, <1>8, <1>9 DEF IndInv

(* What keeps the LEDs in sync: nothing they depend on changes, or the     *)
(* link is closed or found broken, and the copy may be dropped.            *)
LEMMA SyncKept ==
    ASSUME IndInv, UNCHANGED <<kind, val, seq, updates, last>>,
           snap' \in {snap, NoSnap},
           \/ wpc' = "closed" \/ broken'
           \/ UNCHANGED <<leds, broken>> /\ (wpc = "closed" => wpc' = "closed")
    PROVE  SeqsOrdered' /\ SnapCurrent' /\ InSync'
<1>1. SeqsOrdered'
  BY Numbers, NoSnapType DEF IndInv, SeqsOrdered
<1>2. SnapCurrent'
  BY NoSnapType DEF IndInv, SeqsOrdered, SnapCurrent
<1>3. InSync'
  BY DEF IndInv, InSync, Shown
<1> QED
  BY <1>1, <1>2, <1>3

(* A page update is a new sequence number, which nothing has sent yet.     *)
LEMMA PublishKeeps ==
    ASSUME IndInv, NEW c \in Channels, NEW v \in ValsOf(c), Publish(c, v),
           UNCHANGED <<kind, broken, linkVars, leds>>
    PROVE  /\ val' \in Vals /\ seq' \in Seqs /\ updates' \in 0..MaxUpdates
           /\ SeqsOrdered' /\ SnapCurrent' /\ InSync'
<1>0. val \in Vals /\ seq \in Seqs /\ updates \in 0..MaxUpdates
  BY DEF IndInv, TypeOK
<1>1. CASE UNCHANGED <<val, seq, updates>>
  BY <1>0, <1>1, SyncKept
<1>2. CASE /\ updates < MaxUpdates /\ updates' = updates + 1
           /\ val' = [val EXCEPT ![c] = v] /\ seq' = [seq EXCEPT ![c] = @ + 1]
  <2>1. /\ val' \in Vals /\ val'[c] = v
        /\ \A d \in Channels \ {c} : val'[d] = val[d]
    <3>1. val' = Put(val, c, v)
      BY <1>2 DEF Put
    <3> QED
      BY <1>0, <3>1, ValsPut
  <2>2. \A d \in Channels : seq'[d] = (IF d = c THEN seq[d] + 1 ELSE seq[d])
    BY <1>0, <1>2 DEF Seqs
  <2>3. updates = seq["buttons"] + seq["billboard"] + seq["pwm"]
    BY DEF IndInv, SeqsOrdered
  <2>4. seq["buttons"] \in Nat /\ seq["billboard"] \in Nat /\ seq["pwm"] \in Nat
    BY Numbers DEF Channels
  <2>5. updates' = seq'["buttons"] + seq'["billboard"] + seq'["pwm"]
    BY <1>2, <2>2, <2>3, <2>4 DEF Channels
  <2>6. updates' \in 0..MaxUpdates /\ seq[c] + 1 \in 0..MaxUpdates
    BY <1>0, <1>2, <2>3, <2>4, AgesAssumption DEF Channels
  <2>7. seq' \in Seqs
    BY <1>0, <1>2, <2>6 DEF Seqs
  <2>8. \A d \in Channels : last[d] <= seq[d] /\ snap.seq[d] <= seq[d]
    BY DEF IndInv, SeqsOrdered
  <2>9. SeqsOrdered'
    <3>1. ASSUME NEW d \in Channels
          PROVE  /\ last'[d] <= seq'[d] /\ snap'.seq[d] <= seq'[d]
                 /\ seq'[d] = 0 => val'[d] = Dark3[d]
      BY <2>1, <2>2, <2>8, Numbers DEF IndInv, SeqsOrdered
    <3> QED
      BY <2>5, <3>1 DEF SeqsOrdered
  <2>10. last[c] # seq'[c] /\ snap.seq[c] # seq'[c]
    BY <2>2, <2>8, Numbers
  <2>11. SnapCurrent'
    BY <2>1, <2>2, <2>10 DEF IndInv, SnapCurrent
  <2>12. InSync'
    BY <2>1, <2>2, <2>10 DEF IndInv, InSync, Shown
  <2> QED
    BY <2>1, <2>6, <2>7, <2>9, <2>11, <2>12
<1> QED
  BY <1>1, <1>2 DEF Publish

Shows == [buttons : Fades \cup Colors, billboard : Colors, pwm : Colors]

LEMMA ShowsPut ==
    ASSUME NEW shows \in Shows, NEW c \in Channels, NEW v \in ValsOf(c),
           NEW x, x = Shown(c, v)
    PROVE  /\ Put(shows, c, x) \in Shows /\ Put(shows, c, x)[c] = x
           /\ \A d \in Channels \ {c} : Put(shows, c, x)[d] = shows[d]
<1>1. /\ c = "buttons" => x \in Fades \cup Colors
      /\ c # "buttons" => x \in Colors
  BY DEF Shown, ValsOf, Fades
<1>2. CASE c = "buttons"
  BY <1>1, <1>2 DEF Channels, Shows, Put
<1>3. CASE c = "billboard"
  BY <1>1, <1>3 DEF Channels, Shows, Put
<1>4. CASE c = "pwm"
  BY <1>1, <1>4 DEF Channels, Shows, Put
<1> QED
  BY <1>2, <1>3, <1>4 DEF Channels

(* The game's calls.                                                       *)
LEMMA GameStep ==
    ASSUME IndInv, GameNext
    PROVE  IndInv'
<1>0. TypeOK
  BY DEF IndInv
<1>1. ASSUME NEW c \in {"billboard", "pwm"}, LedSet(c) PROVE IndInv'
  <2>1. PICK v \in Colors : Publish(c, v)
    BY <1>1 DEF LedSet
  <2>2. c \in Channels /\ v \in ValsOf(c)
    BY DEF Channels, ValsOf
  <2>3. UNCHANGED <<kind, touch_enabled, latch, fade, plugged, broken, linkVars,
                    touchVars, linkAge, leds>>
    BY <1>1 DEF LedSet
  <2>4. /\ val' \in Vals /\ seq' \in Seqs /\ updates' \in 0..MaxUpdates
        /\ SeqsOrdered' /\ SnapCurrent' /\ InSync'
    BY <2>1, <2>2, <2>3, PublishKeeps
  <2>5. TypeOK'
    BY <1>0, <2>3, <2>4 DEF TypeOK
  <2> QED
    BY <2>4, <2>5 DEF IndInv
<1>2. CASE LedGsPublish
  <2>1. fade \in ValsOf("buttons") /\ Publish("buttons", fade)
    BY <1>0, <1>2 DEF LedGsPublish, TypeOK, ValsOf
  <2>2. /\ fade' = NoFade
        /\ UNCHANGED <<kind, touch_enabled, latch, plugged, broken, linkVars,
                       touchVars, linkAge, leds>>
    BY <1>2 DEF LedGsPublish
  <2>3. /\ val' \in Vals /\ seq' \in Seqs /\ updates' \in 0..MaxUpdates
        /\ SeqsOrdered' /\ SnapCurrent' /\ InSync'
    BY <2>1, <2>2, PublishKeeps DEF Channels
  <2>4. TypeOK'
    BY <1>0, <2>2, <2>3 DEF TypeOK
  <2> QED
    BY <2>3, <2>4 DEF IndInv
<1>3. CASE LedGsLatch
  <2>1. UNCHANGED <<kind, val, seq, touch_enabled, updates, plugged, broken, linkVars,
                    touchVars, linkAge, leds>>
    BY <1>3 DEF LedGsLatch
  <2>2. fade' \in Fades /\ latch' \in Colors
    BY <1>0, <1>3 DEF LedGsLatch, TypeOK, Fades
  <2>3. TypeOK'
    BY <1>0, <2>1, <2>2 DEF TypeOK
  <2> QED
    BY <2>1, <2>3, SyncKept DEF IndInv
<1>4. CASE SetTouchEnabled
  <2>1. /\ UNCHANGED <<kind, val, seq, latch, fade, updates, plugged, broken, linkVars,
                       touchVars, linkAge, leds>>
        /\ touch_enabled' \in BOOLEAN
    BY <1>0, <1>4 DEF SetTouchEnabled, TypeOK
  <2>2. TypeOK'
    BY <1>0, <2>1 DEF TypeOK
  <2> QED
    BY <2>1, <2>2, SyncKept DEF IndInv
<1> QED
  BY <1>1, <1>2, <1>3, <1>4 DEF GameNext

(* The board, its touch stream and time.                                   *)
LEMMA BoardStep ==
    ASSUME IndInv, Unplug \/ Plug \/ TouchCount \/ TouchStamp \/ Tick
    PROVE  IndInv'
<1>0. TypeOK
  BY DEF IndInv
<1>1. CASE Unplug
  <2>1. /\ plugged' = FALSE /\ broken' = (wpc # "closed") /\ leds' = Unlit
        /\ UNCHANGED <<kind, gameVars, linkVars, touchVars, linkAge>>
    BY <1>1 DEF Unplug
  <2>2. leds' \in [buttons : Fades \cup Colors, billboard : Colors, pwm : Colors]
    BY <2>1, ColorsAssumption DEF Unlit, AllIn, Fades
  <2>3. broken' \in BOOLEAN /\ plugged' \in BOOLEAN
    BY <2>1
  <2>4. TypeOK'
    BY <1>0, <2>1, <2>2, <2>3 DEF TypeOK
  <2>5. wpc' = "closed" \/ broken'
    BY <2>1
  <2> QED
    BY <2>1, <2>4, <2>5, SyncKept DEF IndInv
<1>2. CASE Plug \/ TouchCount \/ TouchStamp \/ Tick
  <2>1. UNCHANGED <<kind, gameVars, broken, linkVars, leds>>
    BY <1>2 DEF Plug, TouchCount, TouchStamp, Tick
  <2>2. /\ plugged' \in BOOLEAN /\ fresh' \in BOOLEAN /\ counted' \in BOOLEAN
        /\ stamped' \in BOOLEAN
    BY <1>0, <1>2 DEF Plug, TouchCount, TouchStamp, Tick, TypeOK
  <2>3. touchAge' \in 0..ReconnectAge /\ linkAge' \in 0..GraceAge
    BY <1>0, <1>2, AgesAssumption DEF Plug, TouchCount, TouchStamp, Tick, Older, TypeOK
  <2>4. TypeOK'
    BY <1>0, <2>1, <2>2, <2>3 DEF TypeOK
  <2> QED
    BY <2>1, <2>4, SyncKept DEF IndInv
<1> QED
  BY <1>1, <1>2

(* The link is lost or given up.                                           *)
LEMMA CloseStep ==
    ASSUME IndInv, Close, UNCHANGED <<kind, gameVars, plugged, last, touchVars>>,
           suspended' \in BOOLEAN,
           leds' \in [buttons : Fades \cup Colors, billboard : Colors, pwm : Colors]
    PROVE  IndInv'
<1>1. /\ wpc' = "closed" /\ linkAge' = 0 /\ broken' = FALSE /\ snap' = NoSnap
  BY DEF Close
<1>2. /\ snap' \in [val : Vals, seq : Seqs, touch_enabled : BOOLEAN]
      /\ linkAge' \in 0..GraceAge /\ broken' \in BOOLEAN
  <2>1. 0 \in 0..GraceAge
    BY AgesAssumption
  <2> QED
    BY <1>1, <2>1, NoSnapType
<1>3. TypeOK'
  BY <1>1, <1>2 DEF IndInv, TypeOK
<1> QED
  BY <1>1, <1>3, SyncKept DEF IndInv

(* Opening forgets what earlier sessions sent: nothing is up to date but   *)
(* channels never written.                                                 *)
LEMMA OpenStep ==
    ASSUME IndInv, Open
    PROVE  IndInv'
<1>1. /\ wpc' = "loop" /\ last' = [c \in Channels |-> 0] /\ linkAge' = 0
      /\ UNCHANGED <<kind, gameVars, plugged, broken, snap, suspended, touchVars, leds>>
  BY DEF Open
<1>2. /\ last' \in Seqs /\ linkAge' \in 0..GraceAge
      /\ \A c \in Channels : last'[c] = 0
  BY <1>1, AgesAssumption DEF Seqs
<1>3. TypeOK'
  BY <1>1, <1>2 DEF IndInv, TypeOK
<1>4. SeqsOrdered'
  BY <1>1, <1>2, Numbers DEF IndInv, SeqsOrdered
<1>5. SnapCurrent' /\ InSync'
  BY <1>1, <1>2 DEF IndInv, SnapCurrent, InSync
<1> QED
  BY <1>3, <1>4, <1>5 DEF IndInv

LEMMA ReadOutputStep ==
    ASSUME IndInv, ReadOutput
    PROVE  IndInv'
<1>1. /\ wpc = "loop" /\ wpc' \in {"frames", "buttons"}
      /\ snap' = [val |-> val, seq |-> seq, touch_enabled |-> touch_enabled]
      /\ UNCHANGED <<kind, gameVars, plugged, broken, last, suspended, touchVars, linkAge,
                     leds>>
  BY DEF ReadOutput
<1>2. TypeOK'
  BY <1>1 DEF IndInv, TypeOK, Channels
<1>3. SeqsOrdered' /\ SnapCurrent'
  BY <1>1, Numbers DEF IndInv, SeqsOrdered, SnapCurrent
<1>4. InSync'
  BY <1>1 DEF IndInv, InSync, Shown
<1> QED
  BY <1>2, <1>3, <1>4 DEF IndInv

(* The touch stream is looked at: writes stop, resume, or the link is      *)
(* given up.                                                               *)
LEMMA CheckStep ==
    ASSUME IndInv, LinkFails \/ CheckFrames \/ CheckAge
    PROVE  IndInv'
<1>1. CASE LinkFails
  <2>1. /\ Close /\ UNCHANGED <<kind, gameVars, plugged, last, suspended, touchVars, leds>>
    BY <1>1 DEF LinkFails
  <2> QED
    BY <2>1, CloseStep DEF IndInv, TypeOK
<1>2. CASE CheckFrames
  <2>1. /\ wpc = "frames" /\ wpc' = "age" /\ fresh' = FALSE
        /\ suspended' = (suspended /\ ~fresh)
        /\ UNCHANGED <<kind, gameVars, plugged, broken, last, snap, counted, stamped,
                       touchAge, linkAge, leds>>
    BY <1>2 DEF CheckFrames
  <2>2. suspended' \in BOOLEAN /\ fresh' \in BOOLEAN
    BY <2>1
  <2>3. TypeOK'
    BY <2>1, <2>2 DEF IndInv, TypeOK
  <2> QED
    BY <2>1, <2>3, SyncKept DEF IndInv
<1>3. CASE CheckAge
  <2>1. /\ suspended' = (suspended \/ (Protects /\ TouchAge >= PauseAge))
        /\ wpc = "age"
        /\ UNCHANGED <<kind, gameVars, plugged, last, touchVars, leds>>
    BY <1>3 DEF CheckAge
  <2>2. suspended' \in BOOLEAN
    <3>1. suspended \in BOOLEAN
      BY DEF IndInv, TypeOK
    <3> QED
      BY <2>1, <3>1
  <2>3. CASE Close
    BY <2>1, <2>2, <2>3, CloseStep DEF IndInv, TypeOK
  <2>4. CASE /\ wpc' = IF suspended' THEN "loop" ELSE "buttons"
             /\ snap' = IF suspended' THEN NoSnap ELSE snap
             /\ UNCHANGED <<broken, linkAge>>
    <3>1. wpc' \in {"loop", "buttons"} /\ snap' \in {snap, NoSnap}
      BY <2>4
    <3>2. snap' \in [val : Vals, seq : Seqs, touch_enabled : BOOLEAN]
      BY <3>1, NoSnapType DEF IndInv, TypeOK
    <3>3. TypeOK'
      BY <2>1, <2>2, <2>4, <3>1, <3>2 DEF IndInv, TypeOK, Channels
    <3> QED
      BY <2>1, <2>4, <3>1, <3>3, SyncKept DEF IndInv
  <2> QED
    BY <1>3, <2>3, <2>4 DEF CheckAge
<1> QED
  BY <1>1, <1>2, <1>3

(* The channels are gone through one by one.                               *)
LEMMA Advances ==
    ASSUME IndInv, NEW c \in Channels, Advance(c)
    PROVE  /\ wpc' \in {"loop"} \cup Channels /\ snap' \in {snap, NoSnap}
           /\ snap' \in [val : Vals, seq : Seqs, touch_enabled : BOOLEAN]
<1>1. After(c) \in {"loop"} \cup Channels
  BY DEF After, Channels
<1> QED
  BY <1>1, NoSnapType DEF Advance, IndInv, TypeOK

LEMMA SkipStep ==
    ASSUME IndInv, NEW c \in Channels, SkipChannel(c)
    PROVE  IndInv'
<1>1. /\ wpc = c /\ Advance(c)
      /\ UNCHANGED <<kind, gameVars, plugged, broken, last, suspended, touchVars, linkAge,
                     leds>>
  BY DEF SkipChannel
<1>2. TypeOK'
  BY <1>1, Advances DEF IndInv, TypeOK
<1>3. wpc # "closed"
  BY <1>1 DEF Channels
<1> QED
  BY <1>1, <1>2, <1>3, Advances, SyncKept DEF IndInv

(* A write shows the payload the thread has copied under the number it     *)
(* remembers for it.                                                       *)
LEMMA WriteStep ==
    ASSUME IndInv, NEW c \in Channels, WriteChannel(c)
    PROVE  IndInv'
<1> DEFINE x == Shown(c, snap.val[c])
<1>1. /\ wpc = c /\ ~broken /\ leds' = Put(leds, c, x)
      /\ last' = [last EXCEPT ![c] = snap.seq[c]] /\ Advance(c)
      /\ UNCHANGED <<kind, gameVars, plugged, broken, suspended, touchVars, linkAge>>
  BY DEF WriteChannel, Put
<1>2. leds \in Shows /\ snap.val \in Vals /\ snap.seq \in Seqs /\ last \in Seqs
  BY DEF IndInv, TypeOK, Shows
<1>3. snap.val[c] \in ValsOf(c)
  BY <1>2, ValsApply
<1>4. leds' \in Shows /\ leds'[c] = x /\ \A d \in Channels \ {c} : leds'[d] = leds[d]
  <2> HIDE DEF x
  <2>1. x = Shown(c, snap.val[c])
    BY DEF x
  <2> QED
    BY <1>1, <1>2, <1>3, <2>1, ShowsPut
<1>5. last' \in Seqs
  BY <1>1, <1>2 DEF Seqs
<1>6. \A d \in Channels : last'[d] = IF d = c THEN snap.seq[c] ELSE last[d]
  BY <1>1, <1>2 DEF Seqs
<1>7. TypeOK'
  <2> HIDE DEF x
  <2>1. TypeOK
    BY DEF IndInv
  <2> QED
    BY <1>1, <1>4, <1>5, <2>1, Advances DEF TypeOK, Shows
<1>8. SeqsOrdered'
  <2>1. \A d \in Channels : snap'.seq[d] <= seq[d]
    BY <1>1, Advances, NoSnapType, Numbers DEF IndInv, SeqsOrdered
  <2> QED
    BY <1>1, <1>6, <2>1 DEF IndInv, SeqsOrdered
<1>9. SnapCurrent'
  BY <1>1, Advances, NoSnapType DEF IndInv, SeqsOrdered, SnapCurrent
<1>10. InSync'
  <2> SUFFICES ASSUME NEW d \in Channels, last'[d] = seq[d], seq[d] # 0
               PROVE  leds'[d] = Shown(d, val[d])
    BY <1>1 DEF InSync, Shown
  <2>1. CASE d = c
    BY <1>4, <1>6, <2>1 DEF IndInv, SnapCurrent
  <2>2. CASE d # c
    <3>1. last[d] = seq[d] /\ leds'[d] = leds[d]
      BY <1>4, <1>6, <2>2
    <3>2. wpc # "closed" /\ ~broken
      BY <1>1 DEF Channels
    <3> QED
      BY <3>1, <3>2 DEF IndInv, InSync
  <2> QED
    BY <2>1, <2>2
<1> QED
  BY <1>7, <1>8, <1>9, <1>10 DEF IndInv

LEMMA WriteFailsStep ==
    ASSUME IndInv, NEW c \in Channels, WriteFails(c)
    PROVE  IndInv'
<1> DEFINE x == Shown(c, snap.val[c])
<1>1. /\ leds' = leds \/ leds' = Put(leds, c, x)
      /\ Close /\ UNCHANGED <<kind, gameVars, plugged, last, suspended, touchVars>>
  BY DEF WriteFails, Put
<1>2. leds \in Shows /\ snap.val[c] \in ValsOf(c) /\ suspended \in BOOLEAN
  BY ValsApply DEF IndInv, TypeOK, Shows
<1>3. leds' \in Shows
  <2> HIDE DEF x
  <2>1. x = Shown(c, snap.val[c])
    BY DEF x
  <2> QED
    BY <1>1, <1>2, <2>1, ShowsPut
<1> HIDE DEF x
<1> QED
  BY <1>1, <1>2, <1>3, CloseStep DEF Shows

LEMMA InvStep == IndInv /\ [Next]_vars => IndInv'
<1> SUFFICES ASSUME IndInv, [Next]_vars PROVE IndInv'
  OBVIOUS
<1>1. CASE LinkNext
  BY <1>1, OpenStep, ReadOutputStep, CheckStep, SkipStep, WriteStep, WriteFailsStep
     DEF LinkNext
<1>2. CASE UNCHANGED vars
  <2>1. TypeOK'
    BY <1>2 DEF vars, IndInv, TypeOK
  <2> QED
    BY <1>2, <2>1, SyncKept DEF vars, IndInv
<1> QED
  BY <1>1, <1>2, GameStep, BoardStep DEF Next

LEMMA Invariant == Spec => []IndInv
BY InitInv, InvStep, PTL DEF Spec

(* The state of the LED output has its type.                               *)
THEOREM Mai2LedType == Spec => []TypeOK
<1>1. IndInv => TypeOK
  BY DEF IndInv
<1> QED
  BY <1>1, Invariant, PTL

(* On a working link, a channel whose number the thread remembers shows    *)
(* the page's payload.                                                     *)
THEOREM LedsInSync == Spec => []InSync
<1>1. IndInv => InSync
  BY DEF IndInv
<1> QED
  BY <1>1, Invariant, PTL
=============================================================================
