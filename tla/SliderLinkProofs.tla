-------------------------- MODULE SliderLinkProofs --------------------------
(***************************************************************************)
(* The slider and panel runtimes: the game was last told what the page     *)
(* holds, LEDs remembered as sent are shown, and a board remembered as     *)
(* started streams, for any inputs and beams, any number of LED calls and  *)
(* any number of packets in a read.                                        *)
(***************************************************************************)
EXTENDS SliderLink, TLAPS

(* Between a page update and the call the thread carries what it has just  *)
(* written to the page.                                                    *)
ArgIsPage == pc = "callback" => arg = page.input

(* Sequence numbers only grow: what was sent and what is being sent are    *)
(* not ahead of the page, and the two count the game's calls.              *)
SeqsOrdered ==
    /\ updates = seq["slider"] + seq["air"]
    /\ \A c \in Leds :
          /\ last[c] <= seq[c] /\ snap[c] <= seq[c]
          /\ seq[c] = 0 => dim[c]

IndInv == TypeOK /\ ArgIsPage /\ ToldAgrees /\ SeqsOrdered /\ LedsAreShown

USE DEF pageVars, gameVars, localVars, packetVars, boardVars

LEMMA InitInv == Init => IndInv
<1> SUFFICES ASSUME Init PROVE IndInv
  OBVIOUS
<1>1. Unset \in LedSeqs /\ \A c \in Leds : Unset[c] = 0
  BY BoundsAssumption DEF Unset, LedSeqs
<1>2. dim \in [Leds -> BOOLEAN] /\ \A c \in Leds : dim[c] <=> seq[c] = 0
  BY DEF Init
<1>3. /\ seq["slider"] \in Nat /\ seq["air"] \in Nat
      /\ \A c \in Leds : seq[c] \in Nat
  BY BoundsAssumption DEF Init, LedSeqs, Leds
<1>4. updates \in 0..MaxLeds
  BY <1>3, BoundsAssumption DEF Init
<1>5. TypeOK
  <2>1. /\ last \in LedSeqs /\ snap \in LedSeqs /\ shown \in LedSeqs
        /\ left \in 0..MaxPackets /\ arg \in Inputs /\ told \in Inputs \cup {None}
    BY <1>1, InputsAssumption, BoundsAssumption DEF Init
  <2> QED
    BY <1>2, <1>4, <2>1 DEF Init, TypeOK
<1>6. ArgIsPage /\ ToldAgrees
  BY DEF Init, ArgIsPage, ToldAgrees
<1>7. SeqsOrdered
  BY <1>1, <1>2, <1>3 DEF Init, SeqsOrdered
<1>8. LedsAreShown
  BY <1>1, <1>2 DEF Init, LedsAreShown
<1> QED
  BY <1>5, <1>6, <1>7, <1>8 DEF IndInv

(* A step that has nothing to do with the LEDs.                            *)
LEMMA LedsKept ==
    ASSUME IndInv, UNCHANGED <<game, seq, updates, last, snap, shown, dim>>
    PROVE  SeqsOrdered' /\ LedsAreShown'
BY DEF IndInv, SeqsOrdered, LedsAreShown

LEMMA LedNumbers ==
    ASSUME IndInv
    PROVE  \A c \in Leds : seq[c] \in Nat /\ last[c] \in Nat /\ snap[c] \in Nat
BY BoundsAssumption DEF IndInv, TypeOK, LedSeqs

(* A call that sets LEDs.                                                  *)
LEMMA SetLedsStep ==
    ASSUME IndInv, NEW c \in Leds, SetLeds(c)
    PROVE  IndInv'
<1>1. /\ updates < MaxLeds /\ updates' = updates + 1
      /\ seq' = [seq EXCEPT ![c] = @ + 1]
      /\ dim' = [dim EXCEPT ![c] = FALSE]
      /\ UNCHANGED <<game, page, active, callback, gpc, pc, last_active, last, snap, left,
                     arg, after, plugged, dead, scanning, airing, shown, told, lost,
                     opened>>
  BY DEF SetLeds
<1>2. /\ updates \in 0..MaxLeds /\ dim \in [Leds -> BOOLEAN] /\ seq \in [Leds -> 0..MaxLeds]
      /\ updates = seq["slider"] + seq["air"]
      /\ \A d \in Leds : /\ last[d] <= seq[d] /\ snap[d] <= seq[d]
                         /\ seq[d] = 0 => dim[d]
  BY DEF IndInv, TypeOK, SeqsOrdered, LedSeqs
<1>3. \A d \in Leds : /\ seq'[d] = (IF d = c THEN seq[d] + 1 ELSE seq[d])
                      /\ d # c => dim'[d] = dim[d]
  BY <1>1, <1>2
<1>4. "slider" \in Leds /\ "air" \in Leds /\ c \in {"slider", "air"}
  BY DEF Leds
<1>5. seq["slider"] \in Nat /\ seq["air"] \in Nat
  BY <1>2, <1>4, BoundsAssumption
<1>6. updates' = seq'["slider"] + seq'["air"]
  <2>1. CASE c = "slider"
    BY <1>1, <1>2, <1>3, <1>4, <1>5, <2>1
  <2>2. CASE c = "air"
    BY <1>1, <1>2, <1>3, <1>4, <1>5, <2>2
  <2> QED
    BY <1>4, <2>1, <2>2
<1>7. updates' \in 0..MaxLeds /\ seq[c] + 1 \in 0..MaxLeds
  BY <1>1, <1>2, <1>4, <1>5, BoundsAssumption
<1>8. seq' \in LedSeqs /\ dim' \in [Leds -> BOOLEAN]
  BY <1>1, <1>2, <1>7 DEF LedSeqs
<1>9. TypeOK'
  BY <1>1, <1>7, <1>8 DEF IndInv, TypeOK
<1>10. ArgIsPage' /\ ToldAgrees'
  BY <1>1 DEF IndInv, ArgIsPage, ToldAgrees
<1>11. ASSUME NEW d \in Leds
       PROVE  last'[d] <= seq'[d] /\ snap'[d] <= seq'[d] /\ (seq'[d] = 0 => dim'[d])
  BY <1>1, <1>2, <1>3, LedNumbers
<1>12. SeqsOrdered'
  BY <1>6, <1>11 DEF SeqsOrdered
<1>13. last[c] # seq'[c]
  BY <1>2, <1>3, LedNumbers
<1>14. LedsAreShown'
  BY <1>1, <1>3, <1>13 DEF IndInv, LedsAreShown
<1> QED
  BY <1>9, <1>10, <1>12, <1>14 DEF IndInv

(* The game's other calls.                                                 *)
LEMMA CallStep ==
    ASSUME IndInv, StartCallback \/ StartActive \/ Stop
    PROVE  IndInv'
<1>1. SeqsOrdered' /\ LedsAreShown'
  BY LedsKept DEF StartCallback, StartActive, Stop
<1>2. TypeOK'
  <2>1. /\ gpc' \in {"idle", "start"} /\ callback' \in BOOLEAN
        /\ active' \in BOOLEAN /\ told' \in Inputs \cup {None}
    BY DEF IndInv, TypeOK, StartCallback, StartActive, Stop
  <2>2. UNCHANGED <<game, page, seq, updates, pc, localVars, packetVars, boardVars, lost,
                    opened, dim>>
    BY DEF StartCallback, StartActive, Stop
  <2> QED
    BY <2>1, <2>2 DEF IndInv, TypeOK
<1>3. ArgIsPage' /\ ToldAgrees'
  BY DEF IndInv, ArgIsPage, ToldAgrees, StartCallback, StartActive, Stop
<1> QED
  BY <1>1, <1>2, <1>3 DEF IndInv

(* Connecting and the frames that start and stop.                          *)
LEMMA ConnectStep ==
    ASSUME IndInv, Open \/ Announce \/ StartAir \/ StartScan \/ StopScan
    PROVE  IndInv'
<1> USE DEF Goto
<1>1. SeqsOrdered' /\ LedsAreShown'
  BY LedsKept DEF Open, Announce, StartAir, StartScan, StopScan
<1>2. TypeOK'
  <2>1. page' \in StatePages
    BY DEF IndInv, TypeOK, StatePages, Open, Announce, StartAir, StartScan, StopScan
  <2>2. pc' \in {"announce", "control", "start_scan", "slider", "read"}
    BY DEF Open, Announce, StartAir, StartScan, StopScan
  <2>3. /\ last_active' \in BOOLEAN /\ dead' \in BOOLEAN /\ lost' \in BOOLEAN
        /\ opened' \in BOOLEAN /\ scanning' \in BOOLEAN /\ airing' \in BOOLEAN
    BY DEF IndInv, TypeOK, Open, Announce, StartAir, StartScan, StopScan
  <2>4. UNCHANGED <<game, pageVars, gameVars, last, snap, packetVars, plugged, shown, told,
                    dim>>
    BY DEF Open, Announce, StartAir, StartScan, StopScan
  <2> QED
    BY <2>1, <2>2, <2>3, <2>4 DEF IndInv, TypeOK, Leds
<1>3. ArgIsPage' /\ ToldAgrees'
  <2>1. page'.input = page.input /\ pc # "callback" /\ pc' # "callback"
    BY DEF IndInv, TypeOK, StatePages, Open, Announce, StartAir, StartScan, StopScan
  <2>2. UNCHANGED <<callback, told>>
    BY DEF Open, Announce, StartAir, StartScan, StopScan
  <2> QED
    BY <2>1, <2>2 DEF IndInv, ArgIsPage, ToldAgrees
<1> QED
  BY <1>1, <1>2, <1>3 DEF IndInv

(* Reading the control page.                                               *)
LEMMA ControlStep ==
    ASSUME IndInv, ChuniControl \/ MercuryControl
    PROVE  IndInv'
<1> USE DEF Goto
<1>1. TypeOK'
  <2>1. pc' \in {"slider", "start_air", "stop_scan", "start_scan", "read"}
    BY DEF ChuniControl, MercuryControl
  <2>2. last' \in {last, seq} /\ snap' \in {snap, seq} /\ last_active' \in {last_active, active}
    BY DEF ChuniControl, MercuryControl
  <2> QED
    BY <2>1, <2>2 DEF IndInv, TypeOK, Leds, ChuniControl, MercuryControl
<1>2. ArgIsPage' /\ ToldAgrees'
  <2>1. pc # "callback" /\ pc' # "callback" /\ UNCHANGED <<page, callback, told, arg>>
    BY DEF ChuniControl, MercuryControl
  <2> QED
    BY <2>1 DEF IndInv, ArgIsPage, ToldAgrees
<1>3. SeqsOrdered'
  <2>1. UNCHANGED <<seq, updates, dim>> /\ last' \in {last, seq} /\ snap' \in {snap, seq}
    BY DEF ChuniControl, MercuryControl
  <2> QED
    BY <2>1, LedNumbers DEF IndInv, SeqsOrdered
<1>4. LedsAreShown'
  BY DEF IndInv, LedsAreShown, ChuniControl, MercuryControl
<1> QED
  BY <1>1, <1>2, <1>3, <1>4 DEF IndInv

(* One channel's LEDs are sent, found sent already, or fail.               *)
LEMMA FrameEffect ==
    ASSUME IndInv, NEW c \in Leds, Frame(c)
    PROVE  /\ shown' \in LedSeqs /\ dim' \in [Leds -> BOOLEAN]
           /\ \A d \in Leds \ {c} : shown'[d] = shown[d] /\ dim'[d] = dim[d]
           /\ \/ snap[c] = last[c] /\ shown' = shown /\ dim' = dim
              \/ snap[c] # last[c] /\ shown'[c] = snap[c]
              \/ snap[c] # last[c] /\ dim'[c] = TRUE
<1>1. /\ shown \in [Leds -> 0..MaxLeds] /\ snap[c] \in 0..MaxLeds
      /\ dim \in [Leds -> BOOLEAN]
  BY DEF IndInv, TypeOK, LedSeqs
<1>2. CASE snap[c] = last[c] /\ shown' = shown /\ dim' = dim
  BY <1>1, <1>2 DEF LedSeqs
<1>3. CASE /\ snap[c] # last[c]
           /\ shown' = [shown EXCEPT ![c] = snap[c]] /\ dim' = [dim EXCEPT ![c] = FALSE]
  BY <1>1, <1>3 DEF LedSeqs
<1>4. CASE snap[c] # last[c] /\ shown' = shown /\ dim' = [dim EXCEPT ![c] = TRUE]
  BY <1>1, <1>4 DEF LedSeqs
<1> QED
  BY <1>2, <1>3, <1>4 DEF Frame

LEMMA LedStep ==
    ASSUME IndInv, NEW c \in Leds, SendLeds(c)
    PROVE  IndInv'
<1>1. /\ last' = [last EXCEPT ![c] = snap[c]]
      /\ snap' \in {snap, Unset}
      /\ pc = c /\ pc' \in {"air", "read"} /\ Frame(c)
      /\ UNCHANGED <<game, page, pageVars, gameVars, last_active, packetVars, plugged, dead,
                     scanning, airing, told, lost, opened>>
  BY DEF SendLeds, Goto, After
<1>2. last \in [Leds -> 0..MaxLeds] /\ snap \in [Leds -> 0..MaxLeds]
  BY DEF IndInv, TypeOK, LedSeqs
<1>3. \A d \in Leds : last'[d] = IF d = c THEN snap[c] ELSE last[d]
  BY <1>1, <1>2
<1>4. last' \in LedSeqs /\ snap' \in LedSeqs
  BY <1>1, <1>2, BoundsAssumption DEF LedSeqs, Unset
<1>5. TypeOK'
  <2>1. shown' \in LedSeqs /\ dim' \in [Leds -> BOOLEAN]
    BY <1>1, FrameEffect
  <2>2. TypeOK
    BY DEF IndInv
  <2> QED
    BY <1>1, <1>4, <2>1, <2>2 DEF TypeOK, Leds
<1>6. ArgIsPage' /\ ToldAgrees'
  BY <1>1 DEF IndInv, ArgIsPage, ToldAgrees, Leds
<1>7. SeqsOrdered'
  <2>1. \A d \in Leds : last'[d] <= seq[d] /\ snap'[d] <= seq[d]
    BY <1>1, <1>3, LedNumbers DEF IndInv, SeqsOrdered, Unset
  <2>2. \A d \in Leds : seq[d] = 0 => dim[d] /\ snap[d] = last[d]
    BY LedNumbers DEF IndInv, SeqsOrdered
  <2>3. \A d \in Leds : seq[d] = 0 => dim'[d]
    BY <1>1, <2>2, FrameEffect
  <2> QED
    BY <1>1, <2>1, <2>3 DEF IndInv, SeqsOrdered
<1>8. LedsAreShown'
  <2> SUFFICES ASSUME game = "chuni", NEW d \in Leds, last'[d] = seq[d], ~dim'[d]
               PROVE  shown'[d] = seq[d]
    BY <1>1 DEF LedsAreShown
  <2>1. CASE d = c
    <3>1. snap[c] = seq[c]
      BY <1>3, <2>1
    <3>2. CASE snap[c] = last[c] /\ shown' = shown /\ dim' = dim
      BY <2>1, <3>1, <3>2 DEF IndInv, LedsAreShown
    <3>3. CASE snap[c] # last[c] /\ shown'[c] = snap[c]
      BY <2>1, <3>1, <3>3
    <3> QED
      BY <1>1, <2>1, <3>2, <3>3, FrameEffect
  <2>2. CASE d # c
    <3>1. last[d] = seq[d] /\ shown'[d] = shown[d] /\ dim'[d] = dim[d]
      BY <1>1, <1>3, <2>2, FrameEffect
    <3> QED
      BY <3>1 DEF IndInv, LedsAreShown
  <2> QED
    BY <2>1, <2>2
<1> QED
  BY <1>5, <1>6, <1>7, <1>8 DEF IndInv

(* Packets, the callback, and the end of a session.                        *)
LEMMA PacketStep ==
    ASSUME IndInv,
           \/ ReadChunk \/ ChunkEnds \/ ChuniPacket \/ MercuryPacket \/ OtherPacket
           \/ ReadFails \/ Reset \/ InvokeCallback \/ CallbackReturns
    PROVE  IndInv'
<1> USE DEF IndInv, TypeOK, ArgIsPage, ToldAgrees, Goto
<1>1. UNCHANGED <<game, seq, updates, last, snap, shown, dim>>
  BY DEF ReadChunk, ChunkEnds, ChuniPacket, MercuryPacket, OtherPacket, ScanPacket,
         AirPacket, ReadFails, Reset, InvokeCallback, CallbackReturns
<1>2. SeqsOrdered' /\ LedsAreShown'
  BY <1>1 DEF SeqsOrdered, LedsAreShown
<1>3. TypeOK' /\ ArgIsPage' /\ ToldAgrees'
  <2>1. CASE ReadChunk \/ ChunkEnds \/ ReadFails \/ CallbackReturns
    BY <2>1 DEF ReadChunk, ChunkEnds, ReadFails, CallbackReturns
  <2>2. CASE OtherPacket
    BY <2>2, BoundsAssumption DEF OtherPacket
  <2>3. ASSUME NEW v \in Inputs, NEW b \in Beams \cup {None}, ScanPacket(v, b)
        PROVE  TypeOK' /\ ArgIsPage' /\ ToldAgrees'
    BY <2>3, BoundsAssumption DEF ScanPacket, StatePages
  <2>4. ASSUME NEW b \in Beams, AirPacket(b)
        PROVE  TypeOK' /\ ArgIsPage' /\ ToldAgrees'
    <3>1. page' \in StatePages /\ page'.input = page.input
      BY <2>4 DEF AirPacket, StatePages
    <3>2. left' \in 0..MaxPackets
      BY <2>4, BoundsAssumption DEF AirPacket
    <3> QED
      BY <2>4, <3>1, <3>2 DEF AirPacket
  <2>5. CASE Reset
    BY <2>5, InputsAssumption DEF Reset, StatePages, DefaultPage
  <2>6. CASE InvokeCallback
    BY <2>6, InputsAssumption DEF InvokeCallback
  <2> QED
    BY <2>1, <2>2, <2>3, <2>4, <2>5, <2>6 DEF ChuniPacket, MercuryPacket
<1> QED
  BY <1>2, <1>3

(* Power lost takes the LEDs with it, and dim says so.                     *)
LEMMA BoardStep ==
    ASSUME IndInv, Unplug \/ Plug
    PROVE  IndInv'
<1> USE DEF IndInv, TypeOK, ArgIsPage, ToldAgrees
<1>1. CASE Unplug
  <2>1. shown' \in LedSeqs /\ dim' \in [Leds -> BOOLEAN]
    BY <1>1, BoundsAssumption DEF Unplug, LedSeqs, Unset
  <2>2. TypeOK' /\ ArgIsPage' /\ ToldAgrees'
    <3>1. /\ plugged' = FALSE /\ dead' = TRUE /\ scanning' = FALSE /\ airing' = FALSE
          /\ UNCHANGED <<game, page, pageVars, gameVars, pc, localVars, packetVars, told,
                         lost, opened>>
      BY <1>1 DEF Unplug
    <3>2. TypeOK'
      <4>1. /\ plugged' \in BOOLEAN /\ dead' \in BOOLEAN
            /\ scanning' \in BOOLEAN /\ airing' \in BOOLEAN
        BY <3>1
      <4> QED
        BY <2>1, <3>1, <4>1
    <3>3. ArgIsPage' /\ ToldAgrees'
      BY <3>1
    <3> QED
      BY <3>2, <3>3
  <2>3. \A d \in Leds : dim'[d] <=> dim[d] \/ last[d] # 0
    BY <1>1 DEF Unplug
  <2>4. SeqsOrdered'
    BY <1>1, <2>3 DEF Unplug, SeqsOrdered
  <2>5. LedsAreShown'
    BY <1>1, <2>3 DEF Unplug, SeqsOrdered, LedsAreShown
  <2> QED
    BY <2>2, <2>4, <2>5
<1>2. CASE Plug
  BY <1>2 DEF Plug, SeqsOrdered, LedsAreShown
<1> QED
  BY <1>1, <1>2

LEMMA InvStep == IndInv /\ [Next]_vars => IndInv'
<1> SUFFICES ASSUME IndInv, [Next]_vars PROVE IndInv'
  OBVIOUS
<1>1. CASE UNCHANGED vars
  BY <1>1 DEF vars, IndInv, TypeOK, ArgIsPage, ToldAgrees, SeqsOrdered, LedsAreShown
<1> QED
  BY <1>1, SetLedsStep, CallStep, ConnectStep, ControlStep, LedStep, PacketStep, BoardStep
     DEF Next, GameNext, DeviceNext

LEMMA Invariant == Spec => []IndInv
BY InitInv, InvStep, PTL DEF Spec

(* chuni starts the beams first and remembers the start after both frames; *)
(* in between the first has worked, or failed, or its board is gone.       *)
StreamInv ==
    /\ StartedStreams
    /\ game = "chuni" /\ pc = "start_scan" => airing \/ dead \/ lost

LEMMA StreamInit == Init => StreamInv
BY DEF Init, StreamInv, StartedStreams

LEMMA StreamStep == TypeOK /\ StreamInv /\ [Next]_vars => StreamInv'
<1> SUFFICES ASSUME TypeOK, StreamInv, [Next]_vars PROVE StreamInv'
  OBVIOUS
<1> USE DEF StreamInv, StartedStreams, Goto
<1>1. CASE GameNext
  BY <1>1 DEF GameNext, StartCallback, StartActive, Stop, SetLeds
<1>2. CASE Open \/ Announce
  BY <1>2 DEF Open, Announce
<1>3. CASE ChuniControl \/ MercuryControl
  BY <1>3 DEF ChuniControl, MercuryControl
<1>4. CASE StartAir \/ StartScan \/ StopScan
  BY <1>4 DEF StartAir, StartScan, StopScan
<1>5. ASSUME NEW c \in Leds, SendLeds(c) PROVE StreamInv'
  BY <1>5 DEF SendLeds, After, Leds
<1>6. CASE \/ ReadChunk \/ ChunkEnds \/ ChuniPacket \/ MercuryPacket \/ OtherPacket
           \/ ReadFails \/ Reset \/ InvokeCallback \/ CallbackReturns
  <2>1. /\ pc \notin {"announce", "start_scan"}
        /\ pc' \notin {"announce", "start_scan"}
        /\ UNCHANGED <<game, last_active, dead, lost, scanning, airing>>
    BY <1>6 DEF TypeOK, ReadChunk, ChunkEnds, ChuniPacket, MercuryPacket, OtherPacket,
                ScanPacket, AirPacket, ReadFails, Reset, InvokeCallback, CallbackReturns
  <2> QED
    BY <2>1
<1>7. CASE Unplug \/ Plug
  BY <1>7 DEF Unplug, Plug
<1>8. CASE UNCHANGED vars
  BY <1>8 DEF vars
<1> QED
  BY <1>1, <1>2, <1>3, <1>4, <1>5, <1>6, <1>7, <1>8 DEF Next, DeviceNext

(* The state of the slider and panel runtimes has its type.                *)
THEOREM SliderLinkType == Spec => []TypeOK
<1>1. IndInv => TypeOK
  BY DEF IndInv
<1> QED
  BY <1>1, Invariant, PTL

(* A registered callback was last told what the page holds, except between *)
(* a page update and its call.                                             *)
THEOREM GameIsTold == Spec => []ToldAgrees
<1>1. IndInv => ToldAgrees
  BY DEF IndInv
<1> QED
  BY <1>1, Invariant, PTL

(* LEDs set while older ones are being sent are never taken for sent.      *)
THEOREM SentLedsAreShown == Spec => []LedsAreShown
<1>1. IndInv => LedsAreShown
  BY DEF IndInv
<1> QED
  BY <1>1, Invariant, PTL

(* No reconnect, power loss, stop or start leaves the thread remembering a *)
(* board as started that does not stream, unless a frame on this port      *)
(* failed.                                                                 *)
THEOREM StartedBoardStreams == Spec => []StartedStreams
<1>1. StreamInv => StartedStreams
  BY DEF StreamInv
<1> QED
  BY <1>1, SliderLinkType, StreamInit, StreamStep, PTL DEF Spec
=============================================================================
