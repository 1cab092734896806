--------------------------- MODULE Mai2PollProofs ---------------------------
(***************************************************************************)
(* The type for any number of polling processes.  For one of them: no coin *)
(* source registers more than one credit per press, and every credit is    *)
(* observed, for every set of page contents, every keyboard and any number *)
(* of presses.  For several: what is left of that.                         *)
(*                                                                         *)
(* SingleCredit alone is not inductive: a poll works with a page it read   *)
(* earlier.  CoinInv adds that a press not yet credited is still counted   *)
(* while (2) the latch is down and some source, or the page already read,  *)
(* shows the coin, or (3) the poll under way has missed a press that came  *)
(* after its read, so that clearing the latch is safe.                     *)
(***************************************************************************)
EXTENDS Mai2Poll, TLAPS

Reading(p) == ppc[p] \in {"read2", "update"}

CoinInv(p) ==
    /\ credits <= presses
    /\ ~poll_page.affine_coin
         /\ (CoinPressed(p1, keys) \/ (Reading(p) /\ CoinOn(local[p][1])))
       => credits < presses
    /\ Reading(p) /\ ~CoinOn(local[p][1]) /\ CoinOn(p1) => credits < presses

ObservedInv(p) ==
    observed + (IF ppc[p] = "get" /\ "coin" \in poll_page.opbtn THEN 1 ELSE 0)
        = credits

PollInv(p) == TypeOK /\ CoinInv(p) /\ ObservedInv(p)

(* The operator bits other than the coin never contain it.                 *)
LEMMA NoCoinInOpBits ==
    ASSUME NEW q1, NEW q2, NEW k
    PROVE  "coin" \notin OpBits(q1, q2, k)
BY DEF OpBits

(* What a poll writes is a poll page.                                      *)
LEMMA OpBitsType ==
    ASSUME NEW q1 \in InputPages, NEW q2 \in InputPages, NEW k \in SUBSET Ops
    PROVE  OpBits(q1, q2, k) \cup {"coin"} \in SUBSET Ops
BY DEF OpBits, InputPages, Ops

(***************************************************************************)
(* The type, for any number of polling processes.                          *)
(***************************************************************************)
LEMMA InitType == Init => TypeOK
BY PagesAssumption, KeysAssumption, PressesAssumption
   DEF Init, TypeOK, NoLocal, PollPages, Ops

(* A page or the keyboard changes.                                         *)
LEMMA InputsType ==
    ASSUME TypeOK, NEW q1 \in P1Pages, NEW q2 \in P2Pages, NEW k \in KeySets,
           SetInputs(q1, q2, k)
    PROVE  TypeOK'
<1>1. presses' \in 0..MaxPresses
  BY PressesAssumption DEF SetInputs, TypeOK, Rises
<1> QED
  BY <1>1 DEF SetInputs, TypeOK

(* A poll reads.                                                           *)
LEMMA ReadType ==
    ASSUME TypeOK, NEW p \in Procs, PollRead1(p) \/ PollRead2(p)
    PROVE  TypeOK'
<1> USE DEF PollRead1, PollRead2, Step
<1>1. local' \in [Procs -> P1Pages \X P2Pages]
  BY DEF TypeOK
<1> QED
  BY <1>1 DEF TypeOK

(* A poll writes: the operator bits are bits, the rest is Boolean.         *)
LEMMA UpdateType ==
    ASSUME TypeOK, NEW p \in Procs, PollUpdate(p)
    PROVE  TypeOK'
<1> DEFINE q1 == local[p][1]
           q2 == local[p][2]
           edge == CoinEdge(poll_page.affine_coin, CoinPressed(q1, keys))
<1>1. /\ q1 \in InputPages /\ q2 \in InputPages /\ keys \in SUBSET Ops
      /\ poll_page.affine_coin \in BOOLEAN
  BY PagesAssumption, KeysAssumption DEF TypeOK, PollPages
<1>2. poll_page'.opbtn \in SUBSET Ops
  <2>1. poll_page'.opbtn = OpBits(q1, q2, keys) \cup (IF edge THEN {"coin"} ELSE {})
    BY DEF PollUpdate
  <2> QED
    BY <1>1, <2>1, OpBitsType
<1>3. poll_page' \in PollPages
  BY <1>1, <1>2 DEF PollUpdate, PollPages, InputPages, GameButtons, NewLatch,
                    CoinPressed, CoinOn
<1>4. local' \in [Procs -> P1Pages \X P2Pages] /\ credits' \in Nat
  BY PagesAssumption DEF TypeOK, PollUpdate, NoLocal
<1> QED
  BY <1>3, <1>4 DEF TypeOK, PollUpdate, Step

(* The game reads the pulse.                                               *)
LEMMA GetType ==
    ASSUME TypeOK, NEW p \in Procs, GetOpBtns(p)
    PROVE  TypeOK'
BY DEF TypeOK, GetOpBtns, Step

LEMMA TypeStep == TypeOK /\ [Next]_vars => TypeOK'
<1> SUFFICES ASSUME TypeOK, [Next]_vars PROVE TypeOK'
  OBVIOUS
<1>1. CASE P1Changes
  BY <1>1, InputsType DEF P1Changes, TypeOK
<1>2. CASE P2Changes
  BY <1>2, InputsType DEF P2Changes, TypeOK
<1>3. CASE KeysChange
  BY <1>3, InputsType DEF KeysChange, TypeOK
<1>4. CASE \E p \in Procs : ProcStep(p)
  BY <1>4, ReadType, UpdateType, GetType DEF ProcStep
<1>5. CASE UNCHANGED vars
  BY <1>5 DEF vars, TypeOK
<1> QED
  BY <1>1, <1>2, <1>3, <1>4, <1>5 DEF Next

(* Whatever the processes that share the poll page do in between, what     *)
(* they write is a poll page and what they hold are input pages of the     *)
(* player they belong to.                                                  *)
THEOREM Mai2PollType == Spec => []TypeOK
<1> QED
  BY InitType, TypeStep, PTL DEF Spec

(***************************************************************************)
(* The coin, for one polling process.                                      *)
(***************************************************************************)
LEMMA PollInit ==
    ASSUME NEW p, Procs = {p}, Init
    PROVE  PollInv(p)
<1>1. TypeOK
  BY InitType
<1>2. CoinInv(p) /\ ObservedInv(p)
  BY DEF Init, CoinInv, ObservedInv, CoinPressed, CoinOn, Reading, DefaultInput
<1> QED
  BY <1>1, <1>2 DEF PollInv

(* The environment: a page or the keyboard changes, counting its presses.  *)
LEMMA InputsKeep ==
    ASSUME NEW p, Procs = {p}, PollInv(p),
           NEW q1 \in P1Pages, NEW q2 \in P2Pages, NEW k \in KeySets,
           SetInputs(q1, q2, k)
    PROVE  PollInv(p)'
<1> USE DEF PollInv, SetInputs
<1>1. /\ presses' \in 0..MaxPresses
      /\ presses' >= presses
      /\ ~CoinOn(p1) /\ CoinOn(q1) => presses' > presses
      /\ "coin" \notin keys /\ "coin" \in k => presses' > presses
  BY PressesAssumption DEF TypeOK, Rises
<1>2. TypeOK'
  BY InputsType
<1>3. CoinInv(p)'
  BY <1>1 DEF CoinInv, CoinPressed, Reading, TypeOK
<1>4. ObservedInv(p)'
  BY DEF ObservedInv
<1> QED
  BY <1>2, <1>3, <1>4

(* The four steps of a frame.                                              *)
LEMMA ReadKeeps ==
    ASSUME NEW p, Procs = {p}, PollInv(p), PollRead1(p) \/ PollRead2(p)
    PROVE  PollInv(p)'
<1>1. TypeOK'
  BY ReadType DEF PollInv
<1> USE DEF PollInv, PollRead1, PollRead2, Step
<1>2. CoinInv(p)'
  BY DEF CoinInv, CoinPressed, Reading, TypeOK
<1>3. ObservedInv(p)'
  BY DEF ObservedInv, TypeOK
<1> QED
  BY <1>1, <1>2, <1>3

LEMMA UpdateKeeps ==
    ASSUME NEW p, Procs = {p}, PollInv(p), PollUpdate(p)
    PROVE  PollInv(p)'
<1> DEFINE q1 == local[p][1]
           q2 == local[p][2]
           pressed == CoinPressed(q1, keys)
           edge == CoinEdge(poll_page.affine_coin, pressed)
<1> USE DEF PollInv
<1>1. /\ q1 \in InputPages /\ q2 \in InputPages /\ keys \in SUBSET Ops
      /\ poll_page.affine_coin \in BOOLEAN
  BY PagesAssumption, KeysAssumption DEF TypeOK, PollPages
<1>2. /\ ppc[p] = "update" /\ ppc' = [ppc EXCEPT ![p] = "get"]
      /\ poll_page' = [opbtn |-> OpBits(q1, q2, keys) \cup (IF edge THEN {"coin"} ELSE {}),
                       player1_btn |-> q1.connected /\ q1.game,
                       player2_btn |-> q2.connected /\ q2.game,
                       affine_coin |-> pressed]
      /\ local' = [local EXCEPT ![p] = NoLocal]
      /\ credits' = credits + (IF edge THEN 1 ELSE 0)
      /\ UNCHANGED <<p1, p2, keys, presses, observed>>
  BY DEF PollUpdate, GameButtons, NewLatch, Step
<1> HIDE DEF q1, q2
<1>3. pressed \in BOOLEAN /\ (edge <=> pressed /\ ~poll_page.affine_coin)
  BY <1>1 DEF CoinPressed, CoinOn, CoinEdge, InputPages
<1>4. "coin" \in poll_page'.opbtn <=> edge
  BY <1>2, NoCoinInOpBits
<1>5. TypeOK'
  BY UpdateType
<1>6. CoinInv(p)'
  <2>1. Reading(p)
    BY <1>2 DEF Reading
  <2>2. edge => credits < presses
    BY <1>3, <2>1 DEF CoinInv, CoinPressed, q1
  <2>3. ~pressed /\ CoinPressed(p1, keys) => credits < presses
    BY <2>1 DEF CoinInv, CoinPressed, q1
  <2>4. ~Reading(p)' /\ poll_page'.affine_coin = pressed
    BY <1>2 DEF Reading, TypeOK
  <2>5. /\ credits' <= presses'
        /\ ~pressed /\ CoinPressed(p1', keys') => credits' < presses'
    BY <1>2, <1>3, <2>2, <2>3 DEF CoinInv, TypeOK
  <2> QED
    BY <2>4, <2>5 DEF CoinInv
<1>7. ObservedInv(p)'
  BY <1>2, <1>4 DEF ObservedInv, TypeOK
<1> QED
  BY <1>5, <1>6, <1>7

LEMMA GetKeeps ==
    ASSUME NEW p, Procs = {p}, PollInv(p), GetOpBtns(p)
    PROVE  PollInv(p)'
<1>1. TypeOK'
  BY GetType DEF PollInv
<1> USE DEF PollInv, GetOpBtns, Step
<1>2. CoinInv(p)'
  BY DEF CoinInv, CoinPressed, Reading, TypeOK
<1>3. ObservedInv(p)'
  BY DEF ObservedInv, TypeOK
<1> QED
  BY <1>1, <1>2, <1>3

LEMMA PollStep ==
    ASSUME NEW p, Procs = {p}, PollInv(p), [Next]_vars
    PROVE  PollInv(p)'
<1>1. CASE P1Changes
  BY <1>1, InputsKeep DEF P1Changes, PollInv, TypeOK
<1>2. CASE P2Changes
  BY <1>2, InputsKeep DEF P2Changes, PollInv, TypeOK
<1>3. CASE KeysChange
  BY <1>3, InputsKeep DEF KeysChange, PollInv, TypeOK
<1>4. CASE \E q \in Procs : ProcStep(q)
  BY <1>4, ReadKeeps, UpdateKeeps, GetKeeps DEF ProcStep
<1>5. CASE UNCHANGED vars
  BY <1>5 DEF vars, PollInv, TypeOK, CoinInv, ObservedInv, CoinPressed, Reading
<1> QED
  BY <1>1, <1>2, <1>3, <1>4, <1>5 DEF Next

(* With one polling process "a held coin source registers a single credit":*)
(* the latch in the poll page never lets a press be credited twice.        *)
THEOREM OneCreditPerPress ==
    ASSUME NEW p, Procs = {p}
    PROVE  Spec => []SingleCredit
<1>1. Init => PollInv(p)
  BY PollInit
<1>2. PollInv(p) /\ [Next]_vars => PollInv(p)'
  BY PollStep
<1>3. PollInv(p) => SingleCredit
  BY DEF PollInv, CoinInv, SingleCredit
<1> QED
  BY <1>1, <1>2, <1>3, PTL DEF Spec

(* With one polling process no credit pulse is lost or read twice.         *)
THEOREM CreditsAreObserved ==
    ASSUME NEW p, Procs = {p}
    PROVE  Spec => []EveryCreditObserved
<1>1. Init => PollInv(p)
  BY PollInit
<1>2. PollInv(p) /\ [Next]_vars => PollInv(p)'
  BY PollStep
<1>3. PollInv(p) => EveryCreditObserved
  BY DEF PollInv, ObservedInv, EveryCreditObserved, TypeOK
<1> QED
  BY <1>1, <1>2, <1>3, PTL DEF Spec

(***************************************************************************)
(* The coin, for any number of polling processes.  OneCreditPerPress does  *)
(* not carry over to them, because of pages read before another process    *)
(* polled; what does carry over is what needs no page of that kind.        *)
(***************************************************************************)

(* Whoever shows a coin, a page, the keyboard, a copy of a page or the     *)
(* count of credits, has it from a press.                                  *)
CreditsHavePress ==
    presses = 0 =>
        /\ credits = 0
        /\ ~CoinPressed(p1, keys)
        /\ \A p \in Procs : ~CoinOn(local[p][1])

LEMMA HavePressStep == TypeOK /\ CreditsHavePress /\ [Next]_vars => CreditsHavePress'
<1> SUFFICES ASSUME TypeOK, CreditsHavePress, [Next]_vars, presses' = 0
             PROVE  CreditsHavePress'
  BY DEF CreditsHavePress
<1> USE DEF CreditsHavePress
<1>1. ASSUME NEW q1 \in P1Pages, NEW q2 \in P2Pages, NEW k \in KeySets,
             SetInputs(q1, q2, k)
      PROVE  CreditsHavePress'
  <2>1. presses = 0 /\ ~(~CoinOn(p1) /\ CoinOn(q1)) /\ ~("coin" \notin keys /\ "coin" \in k)
    BY <1>1, PressesAssumption DEF SetInputs, Rises, TypeOK
  <2> QED
    BY <1>1, <2>1 DEF SetInputs, CoinPressed
<1>2. ASSUME NEW p \in Procs, PollRead1(p) \/ PollRead2(p)
      PROVE  CreditsHavePress'
  <2>1. local'[p][1] \in {local[p][1], p1} /\ \A q \in Procs \ {p} : local'[q] = local[q]
    BY <1>2 DEF PollRead1, PollRead2, TypeOK
  <2> QED
    BY <1>2, <2>1 DEF PollRead1, PollRead2, CoinPressed
<1>3. ASSUME NEW p \in Procs, PollUpdate(p)
      PROVE  CreditsHavePress'
  <2>1. UNCHANGED <<p1, keys, presses>> /\ credits' = credits
    BY <1>3 DEF PollUpdate, CoinPressed, CoinEdge, TypeOK
  <2>2. local' = [local EXCEPT ![p] = NoLocal] /\ ~CoinOn(NoLocal[1])
    BY <1>3 DEF PollUpdate, NoLocal, DefaultInput, CoinOn
  <2> QED
    BY <2>1, <2>2 DEF CoinPressed, TypeOK
<1>4. ASSUME NEW p \in Procs, GetOpBtns(p)
      PROVE  CreditsHavePress'
  BY <1>4 DEF GetOpBtns, CoinPressed
<1>5. CASE UNCHANGED vars
  BY <1>5 DEF vars, CoinPressed
<1> QED
  BY <1>1, <1>2, <1>3, <1>4, <1>5
     DEF Next, P1Changes, P2Changes, KeysChange, ProcStep, TypeOK

(* However many processes share the poll page, and however old the input   *)
(* pages are with which they update it: no poll asserts a credit before a  *)
(* coin source has been pressed.                                           *)
THEOREM NoCreditWithoutPress == Spec => [](credits > 0 => presses > 0)
<1>1. Init => CreditsHavePress
  BY DEF Init, CreditsHavePress, CoinPressed, CoinOn, NoLocal, DefaultInput
<1>2. TypeOK /\ CreditsHavePress => (credits > 0 => presses > 0)
  BY PressesAssumption DEF TypeOK, CreditsHavePress
<1> QED
  BY <1>1, <1>2, Mai2PollType, HavePressStep, PTL DEF Spec

(* The keyboard is read where the poll page is updated, under its mutex:   *)
(* a press that no poll has credited finds the latch down.                 *)
KeyInv ==
    /\ credits <= presses
    /\ ~poll_page.affine_coin /\ "coin" \in keys => credits < presses

NoPageHasCoin == \A q \in P1Pages : ~CoinOn(q)

LEMMA KeyStep ==
    ASSUME NoPageHasCoin
    PROVE  TypeOK /\ KeyInv /\ [Next]_vars => KeyInv'
<1> SUFFICES ASSUME TypeOK, KeyInv, [Next]_vars PROVE KeyInv'
  OBVIOUS
<1> USE DEF KeyInv
<1>1. ASSUME NEW q1 \in P1Pages, NEW q2 \in P2Pages, NEW k \in KeySets,
             SetInputs(q1, q2, k)
      PROVE  KeyInv'
  <2>1. /\ presses' \in Nat /\ presses' >= presses
        /\ "coin" \notin keys /\ "coin" \in k => presses' > presses
    BY <1>1, PressesAssumption DEF SetInputs, Rises, TypeOK
  <2> QED
    BY <1>1, <2>1 DEF SetInputs, TypeOK
<1>2. ASSUME NEW p \in Procs, PollUpdate(p)
      PROVE  KeyInv'
  <2> DEFINE edge == CoinEdge(poll_page.affine_coin, CoinPressed(local[p][1], keys))
  <2>1. CoinPressed(local[p][1], keys) <=> "coin" \in keys
    BY DEF NoPageHasCoin, CoinPressed, TypeOK
  <2>2. /\ poll_page'.affine_coin <=> "coin" \in keys
        /\ edge <=> "coin" \in keys /\ ~poll_page.affine_coin
        /\ credits' = credits + (IF edge THEN 1 ELSE 0)
        /\ UNCHANGED <<keys, presses>>
    BY <1>2, <2>1 DEF PollUpdate, NewLatch, CoinEdge
  <2> HIDE DEF edge
  <2> QED
    BY <2>2 DEF TypeOK
<1>3. ASSUME NEW p \in Procs, PollRead1(p) \/ PollRead2(p) \/ GetOpBtns(p)
      PROVE  KeyInv'
  BY <1>3 DEF PollRead1, PollRead2, GetOpBtns
<1>4. CASE UNCHANGED vars
  BY <1>4 DEF vars
<1> QED
  BY <1>1, <1>2, <1>3, <1>4
     DEF Next, P1Changes, P2Changes, KeysChange, ProcStep, TypeOK

(* Where coins come from the keyboard alone, a held coin source registers  *)
(* a single credit for any number of polling processes: it is the input    *)
(* page, read before the update, that lets two of them credit one press.   *)
THEOREM KeyboardCreditsOnce ==
    ASSUME NoPageHasCoin
    PROVE  Spec => []SingleCredit
<1>1. Init => KeyInv
  BY DEF Init, KeyInv
<1>2. KeyInv => SingleCredit
  BY DEF KeyInv, SingleCredit
<1> QED
  BY <1>1, <1>2, Mai2PollType, KeyStep, PTL DEF Spec
=============================================================================
