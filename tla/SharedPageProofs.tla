-------------------------- MODULE SharedPageProofs --------------------------
(***************************************************************************)
(* SharedPage implements AtomicPage, for every number of processes, every  *)
(* page layout and every set of updates.                                   *)
(***************************************************************************)
EXTENDS SharedPage, TLAPS

USE SharedPageAssumption

(* The creator of a mapping does nothing but write the default page, and   *)
(* nobody else writes it.                                                  *)
CreatorWrites ==
    \A p \in Procs :
        /\ creator[p] => pc[p] \in {"open", "wait", "load", "store"}
        /\ pc[p] \in {"wait", "load", "store"} => (creator[p] <=> job[p] = "default")
        /\ pc[p] = "store" => job[p] # "read"

IndInv == TypeOK /\ HolderAlone /\ CreatorWrites

LEMMA InitInv == Init => IndInv
BY DEF Init, IndInv, TypeOK, HolderAlone, CreatorWrites, Jobs, Pages

(* What a job makes of a page is a page.                                   *)
LEMMA EffectType ==
    ASSUME NEW f \in Updates \cup {"default"}, NEW q \in Pages
    PROVE  Effect(f, q) \in Pages
BY DEF Effect

LEMMA TypeStep == IndInv /\ [Next]_vars => TypeOK'
<1> SUFFICES ASSUME IndInv, [Next]_vars PROVE TypeOK'
  OBVIOUS
<1> USE DEF IndInv, TypeOK, Goto
<1>1. ASSUME NEW p \in Procs, OpenMapping(p) \/ CreateFails(p) \/ Drop(p)
      PROVE  TypeOK'
  BY <1>1 DEF OpenMapping, CreateFails, Drop
<1>2. ASSUME NEW p \in Procs, FinishCreate(p) \/ Call(p) \/ Lock(p) \/ BeginStore(p)
      PROVE  TypeOK'
  BY <1>2 DEF FinishCreate, Call, Lock, BeginStore, Jobs
<1>3. ASSUME NEW p \in Procs, LoadWord(p) PROVE TypeOK'
  BY <1>3 DEF LoadWord, Pages
<1>4. ASSUME NEW p \in Procs, StoreWord(p) PROVE TypeOK'
  <2>1. Effect(job[p], seen[p]) \in Pages
    BY <1>4, EffectType DEF StoreWord, CreatorWrites, Jobs
  <2>2. mem' \in Pages
    BY <1>4, <2>1 DEF StoreWord, Pages
  <2> QED
    BY <1>4, <2>2 DEF StoreWord
<1>5. ASSUME NEW p \in Procs, ReturnRead(p) \/ ReturnWrite(p) \/ Crash(p)
      PROVE  TypeOK'
  <2>1. job' \in [Procs -> Jobs] /\ todo' \in [Procs -> SUBSET Words]
    BY <1>5 DEF ReturnRead, ReturnWrite, Crash, Forget, Jobs
  <2>2. seen' \in [Procs -> Pages]
    BY <1>5 DEF ReturnRead, ReturnWrite, Crash, Forget
  <2>3. creator' \in [Procs -> BOOLEAN]
    BY <1>5 DEF ReturnRead, ReturnWrite, Crash
  <2>4. ret' \in Pages \cup {NoPage} /\ mem' \in Pages
    BY <1>5 DEF ReturnRead, ReturnWrite, Crash
  <2>5. owner' \in Procs \cup {Nobody}
    BY <1>5 DEF ReturnRead, ReturnWrite, Crash
  <2>6. pc' \in [Procs -> {"out", "open", "idle", "wait", "load", "store"}]
    BY <1>5 DEF ReturnRead, ReturnWrite, Crash
  <2> QED
    BY <2>1, <2>2, <2>3, <2>4, <2>5, <2>6
<1>6. CASE UNCHANGED vars
  BY <1>6 DEF vars
<1> QED
  BY <1>1, <1>2, <1>3, <1>4, <1>5, <1>6 DEF Next, ProcNext, Work

LEMMA CreatorStep == IndInv /\ [Next]_vars => CreatorWrites'
<1> SUFFICES ASSUME IndInv, [Next]_vars PROVE CreatorWrites'
  OBVIOUS
<1> USE DEF IndInv, TypeOK, CreatorWrites, Goto
<1>1. ASSUME NEW p \in Procs, OpenMapping(p) \/ CreateFails(p) \/ Drop(p)
      PROVE  CreatorWrites'
  BY <1>1 DEF OpenMapping, CreateFails, Drop
<1>2. ASSUME NEW p \in Procs, FinishCreate(p) \/ Call(p) \/ Lock(p) \/ BeginStore(p)
      PROVE  CreatorWrites'
  BY <1>2 DEF FinishCreate, Call, Lock, BeginStore
<1>3. ASSUME NEW p \in Procs, LoadWord(p) \/ StoreWord(p) PROVE CreatorWrites'
  BY <1>3 DEF LoadWord, StoreWord
<1>4. ASSUME NEW p \in Procs, ReturnRead(p) \/ ReturnWrite(p) \/ Crash(p)
      PROVE  CreatorWrites'
  BY <1>4 DEF ReturnRead, ReturnWrite, Crash, Forget
<1>5. CASE UNCHANGED vars
  BY <1>5 DEF vars
<1> QED
  BY <1>1, <1>2, <1>3, <1>4, <1>5 DEF Next, ProcNext, Work

LEMMA HolderStep == IndInv /\ [Next]_vars => HolderAlone'
<1> SUFFICES ASSUME IndInv, [Next]_vars PROVE HolderAlone'
  OBVIOUS
<1> USE DEF IndInv, TypeOK, HolderAlone, Goto
<1>1. ASSUME NEW p \in Procs, OpenMapping(p) PROVE HolderAlone'
  BY <1>1 DEF OpenMapping
<1>2. ASSUME NEW p \in Procs,
             FinishCreate(p) \/ CreateFails(p) \/ Drop(p) \/ Call(p)
      PROVE  HolderAlone'
  BY <1>2 DEF FinishCreate, CreateFails, Drop, Call
<1>3. ASSUME NEW p \in Procs, Lock(p) PROVE HolderAlone'
  BY <1>3 DEF Lock
<1>4. ASSUME NEW p \in Procs, LoadWord(p) PROVE HolderAlone'
  BY <1>4 DEF LoadWord, Pages
<1>5. ASSUME NEW p \in Procs, BeginStore(p) PROVE HolderAlone'
  BY <1>5 DEF BeginStore
<1>6. ASSUME NEW p \in Procs, StoreWord(p) PROVE HolderAlone'
  BY <1>6 DEF StoreWord, Pages
<1>7. ASSUME NEW p \in Procs, ReturnRead(p) \/ ReturnWrite(p) \/ Crash(p)
      PROVE  HolderAlone'
  BY <1>7 DEF ReturnRead, ReturnWrite, Crash, Forget
<1>8. CASE UNCHANGED vars
  BY <1>8 DEF vars
<1> QED
  BY <1>1, <1>2, <1>3, <1>4, <1>5, <1>6, <1>7, <1>8 DEF Next, ProcNext, Work

LEMMA InvStep == IndInv /\ [Next]_vars => IndInv'
BY TypeStep, CreatorStep, HolderStep DEF IndInv

(* The mutex keeps the words of every update together (HolderAlone), in    *)
(* every reachable state.                                                  *)
THEOREM HolderIsAlone == Spec => []HolderAlone
<1>1. Spec => []IndInv
  BY InitInv, InvStep, PTL DEF Spec
<1>2. IndInv => HolderAlone
  BY DEF IndInv
<1> QED
  BY <1>1, <1>2, PTL

----------------------------------------------------------------------------
(* The refinement.  While somebody stores, the page is the one it loaded.  *)

LEMMA PageWhileStoring ==
    ASSUME IndInv, NEW p \in Procs, pc[p] = "store"
    PROVE  page = seen[p]
<1> DEFINE q == CHOOSE r \in Procs : pc[r] = "store"
<1>1. q \in Procs /\ pc[q] = "store"
  OBVIOUS
<1>2. q = p
  BY <1>1 DEF IndInv, HolderAlone
<1> QED
  BY <1>1, <1>2 DEF page

LEMMA PageOtherwise ==
    ASSUME \A p \in Procs : pc[p] # "store"
    PROVE  page = mem
BY DEF page

(* Whoever has the mutex and does not store has it alone.                  *)
LEMMA NobodyElseStores ==
    ASSUME IndInv, NEW p \in Procs, owner \in {p, Nobody}, pc[p] # "store"
    PROVE  \A q \in Procs : pc[q] # "store"
BY DEF IndInv, HolderAlone

LEMMA AbstractInit == Init => Abstract!Init
BY DEF Init, Abstract!Init, page, state

(* The page is the same when the same process stores, from what it loaded. *)
LEMMA PageKept ==
    ASSUME mem' = mem,
           \A p \in Procs : pc'[p] = "store" <=> pc[p] = "store",
           \A p \in Procs : pc[p] = "store" => seen'[p] = seen[p]
    PROVE  page' = page
<1>1. (CHOOSE p \in Procs : pc'[p] = "store") = (CHOOSE p \in Procs : pc[p] = "store")
  OBVIOUS
<1>2. CASE \E p \in Procs : pc[p] = "store"
  <2> DEFINE q == CHOOSE p \in Procs : pc[p] = "store"
  <2>1. q \in Procs /\ pc[q] = "store"
    BY <1>2
  <2>2. page = seen[q] /\ page' = seen'[q]
    BY <1>1, <1>2 DEF page
  <2> QED
    BY <2>1, <2>2
<1>3. CASE ~ \E p \in Procs : pc[p] = "store"
  BY <1>3 DEF page
<1> QED
  BY <1>2, <1>3

LEMMA PageWhileStoringNext ==
    ASSUME IndInv', NEW p \in Procs, pc'[p] = "store"
    PROVE  page' = seen'[p]
<1> DEFINE q == CHOOSE r \in Procs : pc'[r] = "store"
<1>1. q \in Procs /\ pc'[q] = "store"
  OBVIOUS
<1>2. q = p
  BY <1>1 DEF IndInv, HolderAlone
<1> QED
  BY <1>1, <1>2 DEF page

LEMMA PageOtherwiseNext ==
    ASSUME \A p \in Procs : pc'[p] # "store"
    PROVE  page' = mem'
BY DEF page

(* Creating, opening and giving up the page.                               *)
LEMMA OpenStep ==
    ASSUME IndInv, NEW p \in Procs, OpenMapping(p)
    PROVE  Abstract!Attach(p)
<1> USE DEF IndInv, TypeOK, OpenMapping, Goto
<1>1. ~ creator[p] /\ state[p] = "out" /\ ret' = NoPage
  BY DEF CreatorWrites, state
<1>2. \A q \in Procs : state[q] = "out" <=> pc[q] = "out"
  BY DEF state
<1>3. CASE \A q \in Procs : pc[q] = "out"
  <2>1. page' = Zero
    BY <1>3, PageOtherwiseNext
  <2>2. state' = [state EXCEPT ![p] = "creator"]
    BY <1>3 DEF state
  <2> QED
    BY <1>1, <1>2, <1>3, <2>1, <2>2 DEF Abstract!Attach
<1>4. CASE ~ \A q \in Procs : pc[q] = "out"
  <2>1. page' = page
    BY <1>4, PageKept
  <2>2. state' = [state EXCEPT ![p] = "in"]
    BY <1>1, <1>4 DEF state
  <2> QED
    BY <1>1, <1>2, <1>4, <2>1, <2>2 DEF Abstract!Attach
<1> QED
  BY <1>3, <1>4

LEMMA LeaveStep ==
    ASSUME IndInv, NEW p \in Procs,
           CreateFails(p) \/ Drop(p) \/ (Crash(p) /\ pc[p] # "store")
    PROVE  Abstract!Detach(p)
<1> USE DEF IndInv, TypeOK, CreateFails, Drop, Crash, Forget, Goto
<1>1. page' = page
  BY PageKept
<1>2. state[p] # "out" /\ state' = [state EXCEPT ![p] = "out"]
  BY DEF state
<1> QED
  BY <1>1, <1>2 DEF Abstract!Detach

(* Steps nobody else can see.                                              *)
LEMMA QuietStep ==
    ASSUME IndInv, IndInv', NEW p \in Procs,
           \/ FinishCreate(p) \/ Call(p) \/ Lock(p)
           \/ LoadWord(p) \/ BeginStore(p) \/ StoreWord(p)
    PROVE  Abstract!Quiet
<1> USE DEF IndInv, TypeOK, Goto
<1>1. ret' = NoPage /\ state' = state
  BY DEF FinishCreate, Call, Lock, LoadWord, BeginStore, StoreWord, state
<1>2. CASE FinishCreate(p) \/ Call(p) \/ Lock(p) \/ LoadWord(p)
  <2>1. page' = page
    BY <1>2, PageKept DEF FinishCreate, Call, Lock, LoadWord
  <2> QED
    BY <1>1, <2>1 DEF Abstract!Quiet
<1>3. CASE BeginStore(p)
  <2>1. owner = p /\ pc[p] = "load" /\ todo[p] = {}
    BY <1>3 DEF BeginStore, HolderAlone
  <2>2. page = mem
    BY <2>1, NobodyElseStores, PageOtherwise
  <2>3. page' = seen[p]
    BY <1>3, PageWhileStoringNext DEF BeginStore
  <2>4. seen[p] = mem
    BY <2>1 DEF HolderAlone, Pages
  <2> QED
    BY <1>1, <2>2, <2>3, <2>4 DEF Abstract!Quiet
<1>4. CASE StoreWord(p)
  <2>1. page = seen[p] /\ page' = seen'[p] /\ seen' = seen
    BY <1>4, PageWhileStoring, PageWhileStoringNext DEF StoreWord
  <2> QED
    BY <1>1, <2>1 DEF Abstract!Quiet
<1> QED
  BY <1>2, <1>3, <1>4

(* A read returns the page as it is.                                       *)
LEMMA ReadStep ==
    ASSUME IndInv, NEW p \in Procs, ReturnRead(p)
    PROVE  Abstract!Read(p)
<1> USE DEF IndInv, TypeOK, ReturnRead, Forget, Goto
<1>1. owner = p /\ \A q \in Procs : pc[q] # "store"
  BY NobodyElseStores DEF HolderAlone
<1>2. page = mem /\ page' = mem
  <2>1. \A q \in Procs : pc'[q] # "store"
    BY <1>1
  <2> QED
    BY <1>1, <2>1, PageOtherwise, PageOtherwiseNext
<1>3. seen[p] = mem
  BY DEF HolderAlone, Pages
<1>4. state[p] = "in" /\ state' = state
  BY DEF CreatorWrites, state
<1> QED
  BY <1>2, <1>3, <1>4 DEF Abstract!Read

(* During a store everything but the words left to store is new.           *)
LEMMA StoredWords ==
    ASSUME IndInv, NEW p \in Procs, pc[p] = "store"
    PROVE  /\ Effect(job[p], seen[p]) \in Pages
           /\ mem = [w \in Words |-> IF w \in Words \ todo[p]
                                     THEN Effect(job[p], seen[p])[w]
                                     ELSE seen[p][w]]
<1>1. Effect(job[p], seen[p]) \in Pages
  BY EffectType DEF IndInv, TypeOK, CreatorWrites, Jobs
<1>2. mem = [w \in Words |-> mem[w]]
  BY DEF IndInv, TypeOK, Pages
<1> QED
  BY <1>1, <1>2 DEF IndInv, TypeOK, HolderAlone

(* Nobody stores any more when the one who did has left.                   *)
LEMMA StoreEnds ==
    ASSUME IndInv, NEW p \in Procs, pc[p] = "store",
           NEW to \in {"idle", "out"}, pc' = [pc EXCEPT ![p] = to], mem' = mem
    PROVE  page = seen[p] /\ page' = mem
<1>1. \A q \in Procs : pc[q] = "store" => q = p
  BY DEF IndInv, HolderAlone
<1>2. \A q \in Procs : pc'[q] # "store"
  BY <1>1 DEF IndInv, TypeOK
<1> QED
  BY <1>2, PageWhileStoring, PageOtherwiseNext

LEMMA WriteStep ==
    ASSUME IndInv, NEW p \in Procs, ReturnWrite(p)
    PROVE  Abstract!Initialise(p) \/ Abstract!Update(p)
<1> USE DEF IndInv, TypeOK, ReturnWrite, Forget, Goto
<1>1. page = seen[p] /\ page' = mem
  BY StoreEnds
<1>2. mem = Effect(job[p], seen[p])
  BY StoredWords DEF Pages
<1>3. CASE creator[p]
  <2>1. page' = Default
    BY <1>1, <1>2, <1>3 DEF CreatorWrites, Effect
  <2>2. state[p] = "creator" /\ state' = [state EXCEPT ![p] = "in"]
    BY <1>3 DEF state
  <2> QED
    BY <2>1, <2>2 DEF Abstract!Initialise
<1>4. CASE ~ creator[p]
  <2>1. job[p] \in Updates /\ page' = Apply(job[p], page)
    BY <1>1, <1>2, <1>4 DEF CreatorWrites, Effect, Jobs
  <2>2. state[p] = "in" /\ state' = state
    BY <1>4 DEF state
  <2> QED
    BY <2>1, <2>2 DEF Abstract!Update
<1> QED
  BY <1>3, <1>4

LEMMA TearStep ==
    ASSUME IndInv, NEW p \in Procs, Crash(p), pc[p] = "store"
    PROVE  Abstract!Tear(p)
<1> USE DEF IndInv, TypeOK, Crash
<1>1. page = seen[p] /\ page' = mem
  BY StoreEnds
<1>2. job[p] \in Abstract!Writes
  BY DEF Abstract!Writes, CreatorWrites, Jobs
<1>3. page' = [w \in Words |-> IF w \in Words \ todo[p]
                               THEN Abstract!Effect(job[p], page)[w] ELSE page[w]]
  BY <1>1, StoredWords DEF Effect, Abstract!Effect
<1>4. state[p] # "out" /\ state' = [state EXCEPT ![p] = "out"]
  BY DEF state
<1>5. Words \ todo[p] \in SUBSET Words
  OBVIOUS
<1> QED
  BY <1>2, <1>3, <1>4, <1>5 DEF Abstract!Tear

LEMMA AbstractStep ==
    ASSUME IndInv, IndInv', [Next]_vars
    PROVE  [Abstract!Next]_(Abstract!vars)
<1>1. ASSUME NEW p \in Procs, ProcNext(p)
      PROVE  Abstract!Next
  <2>1. CASE OpenMapping(p)
    BY <2>1, OpenStep DEF Abstract!Next
  <2>2. CASE CreateFails(p) \/ Drop(p) \/ (Crash(p) /\ pc[p] # "store")
    BY <2>2, LeaveStep DEF Abstract!Next
  <2>3. CASE \/ FinishCreate(p) \/ Call(p) \/ Lock(p)
             \/ LoadWord(p) \/ BeginStore(p) \/ StoreWord(p)
    BY <2>3, QuietStep DEF Abstract!Next
  <2>4. CASE ReturnRead(p)
    BY <2>4, ReadStep DEF Abstract!Next
  <2>5. CASE ReturnWrite(p)
    BY <2>5, WriteStep DEF Abstract!Next
  <2>6. CASE Crash(p) /\ pc[p] = "store"
    BY <2>6, TearStep DEF Abstract!Next
  <2> QED
    BY <1>1, <2>1, <2>2, <2>3, <2>4, <2>5, <2>6 DEF ProcNext, Work
<1>2. CASE UNCHANGED vars
  <2>1. UNCHANGED <<page, state, ret>>
    BY <1>2 DEF vars, page, state
  <2> QED
    BY <2>1 DEF Abstract!vars
<1> QED
  BY <1>1, <1>2 DEF Next

(* SharedPage implements AtomicPage: reads and updates of the words under  *)
(* the mutex are steps of the atomic page, a death between two stores is   *)
(* the only thing that tears it, and only the creator of the mapping       *)
(* writes the default page.                                                *)
THEOREM SharedPageRefines == Spec => Refines
<1>1. Init => Abstract!Init
  BY AbstractInit
<1>2. IndInv /\ IndInv' /\ [Next]_vars => [Abstract!Next]_(Abstract!vars)
  BY AbstractStep
<1>3. Init /\ [][Next]_vars => []IndInv
  BY InitInv, InvStep, PTL
<1> QED
  BY <1>1, <1>2, <1>3, PTL DEF Spec, Refines, Abstract!Spec
=============================================================================
