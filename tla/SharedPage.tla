----------------------------- MODULE SharedPage -----------------------------
(***************************************************************************)
(* crates/affine-core/src/shared_memory.rs: a struct in a named mapping,   *)
(* read and updated under a named mutex.  A step loads or stores one word, *)
(* in any order: the struct copies and the closures of the callers are     *)
(* compiled code.  A process may die at any of them; the kernel gives a    *)
(* mutex whose owner died to the next waiter, and WaitForSingleObject's    *)
(* WAIT_ABANDONED is ignored like any other result of it.                  *)
(*                                                                         *)
(* The threads of one process share its SharedPage and take turns the same *)
(* way, so each of them counts as a process here.  The mutex is held by    *)
(* everyone who has the page mapped, so all of them lock the same one; its *)
(* own lifetime is left out.                                               *)
(***************************************************************************)
CONSTANTS
    Procs,        \* processes that open the page
    Words,        \* the words the page is made of
    Vals,         \* values of a word
    Updates,      \* what the callers of write and update do to a page
    Apply(_, _),  \* Apply(f, q): page q after update f
    Zero,         \* the page of a new mapping
    Default,      \* T::default()
    NoPage,       \* nothing was read
    Nobody        \* the mutex is free

VARIABLES
    mem,          \* the words of the mapping
    owner,        \* who holds the mutex
    pc,           \* where each process is
    creator,      \* it created the mapping and has not yet written the default
    job,          \* what it does to the page
    todo,         \* the words it has not yet loaded, or not yet stored
    seen,         \* the words it has loaded
    ret           \* what the step just taken has returned from read

vars == <<mem, owner, pc, creator, job, todo, seen, ret>>

(* The page as others may see it: the one before the update in progress.   *)
page == IF \E p \in Procs : pc[p] = "store"
        THEN seen[CHOOSE p \in Procs : pc[p] = "store"]
        ELSE mem

state == [p \in Procs |-> IF pc[p] = "out" THEN "out"
                          ELSE IF creator[p] THEN "creator" ELSE "in"]

Abstract == INSTANCE AtomicPage WITH page <- page, state <- state, ret <- ret

Pages == [Words -> Vals]
Jobs == Updates \cup {"read", "default"}
Effect(f, q) == IF f = "default" THEN Default ELSE Apply(f, q)

ASSUME SharedPageAssumption ==
    /\ Zero \in Pages /\ Default \in Pages /\ NoPage \notin Pages
    /\ \A f \in Updates, q \in Pages : Apply(f, q) \in Pages
    /\ {"read", "default"} \cap Updates = {}
    /\ Nobody \notin Procs

TypeOK ==
    /\ mem \in Pages
    /\ owner \in Procs \cup {Nobody}
    /\ pc \in [Procs -> {"out", "open", "idle", "wait", "load", "store"}]
    /\ creator \in [Procs -> BOOLEAN]
    /\ job \in [Procs -> Jobs]
    /\ todo \in [Procs -> SUBSET Words]
    /\ seen \in [Procs -> Pages]
    /\ ret \in Pages \cup {NoPage}

Init ==
    /\ mem = Zero
    /\ owner = Nobody
    /\ pc = [p \in Procs |-> "out"]
    /\ creator = [p \in Procs |-> FALSE]
    /\ job = [p \in Procs |-> "read"]
    /\ todo = [p \in Procs |-> {}]
    /\ seen = [p \in Procs |-> Zero]
    /\ ret = NoPage

Goto(p, from, to) == pc[p] = from /\ pc' = [pc EXCEPT ![p] = to]

(* The call is over, and its local variables are gone.                     *)
Forget(p) ==
    /\ job' = [job EXCEPT ![p] = "read"]
    /\ todo' = [todo EXCEPT ![p] = {}]
    /\ seen' = [seen EXCEPT ![p] = Zero]

----------------------------------------------------------------------------
(* create and Drop.                                                        *)

(* CreateFileMappingW: a new mapping is all zeros, and lives as long as    *)
(* somebody has it open.                                                   *)
OpenMapping(p) ==
    /\ Goto(p, "out", "open")
    /\ IF \A q \in Procs : pc[q] = "out"
       THEN mem' = Zero /\ creator' = [creator EXCEPT ![p] = TRUE]
       ELSE UNCHANGED <<mem, creator>>
    /\ ret' = NoPage
    /\ UNCHANGED <<owner, job, todo, seen>>

(* Faulty variant: the default page is written to an existing mapping too. *)
FinishAlwaysDefault(p) ==
    /\ Goto(p, "open", "wait")
    /\ job' = [job EXCEPT ![p] = "default"]
    /\ ret' = NoPage
    /\ UNCHANGED <<mem, owner, creator, todo, seen>>

(* The mutex and the view are there: the creator writes the default page,  *)
(* which takes the mutex like any write.                                   *)
FinishCreate(p) ==
    /\ IF creator[p]
       THEN Goto(p, "open", "wait") /\ job' = [job EXCEPT ![p] = "default"]
       ELSE Goto(p, "open", "idle") /\ UNCHANGED job
    /\ ret' = NoPage
    /\ UNCHANGED <<mem, owner, creator, todo, seen>>

(* CreateMutexW or MapViewOfFile fails: everything opened is closed.       *)
CreateFails(p) ==
    /\ Goto(p, "open", "out")
    /\ creator' = [creator EXCEPT ![p] = FALSE]
    /\ ret' = NoPage
    /\ UNCHANGED <<mem, owner, job, todo, seen>>

(* Drop: unmaps the view and closes the handles.                           *)
Drop(p) ==
    /\ Goto(p, "idle", "out")
    /\ ret' = NoPage
    /\ UNCHANGED <<mem, owner, creator, job, todo, seen>>

----------------------------------------------------------------------------
(* read, write and update.                                                 *)

Call(p) ==
    /\ Goto(p, "idle", "wait")
    /\ \E j \in Updates \cup {"read"} : job' = [job EXCEPT ![p] = j]
    /\ ret' = NoPage
    /\ UNCHANGED <<mem, owner, creator, todo, seen>>

(* Faulty variant: the wait gives up while another has the mutex.          *)
LockAnyway(p) ==
    /\ Goto(p, "wait", "load")
    /\ owner' = p
    /\ todo' = [todo EXCEPT ![p] = Words]
    /\ ret' = NoPage
    /\ UNCHANGED <<mem, creator, job, seen>>

Lock(p) ==
    /\ owner = Nobody
    /\ Goto(p, "wait", "load")
    /\ owner' = p
    /\ todo' = [todo EXCEPT ![p] = Words]
    /\ ret' = NoPage
    /\ UNCHANGED <<mem, creator, job, seen>>

LoadWord(p) ==
    /\ pc[p] = "load"
    /\ \E w \in todo[p] :
          /\ seen' = [seen EXCEPT ![p] = [@ EXCEPT ![w] = mem[w]]]
          /\ todo' = [todo EXCEPT ![p] = @ \ {w}]
    /\ ret' = NoPage
    /\ UNCHANGED <<mem, owner, pc, creator, job>>

(* Faulty variant: read returns with the mutex.                            *)
ReturnReadLocked(p) ==
    /\ job[p] = "read" /\ todo[p] = {}
    /\ Goto(p, "load", "idle")
    /\ ret' = seen[p]
    /\ Forget(p)
    /\ UNCHANGED <<mem, owner, creator>>

ReturnRead(p) ==
    /\ job[p] = "read" /\ todo[p] = {}
    /\ Goto(p, "load", "idle")
    /\ owner' = Nobody
    /\ ret' = seen[p]
    /\ Forget(p)
    /\ UNCHANGED <<mem, creator>>

BeginStore(p) ==
    /\ job[p] # "read" /\ todo[p] = {}
    /\ Goto(p, "load", "store")
    /\ todo' = [todo EXCEPT ![p] = Words]
    /\ ret' = NoPage
    /\ UNCHANGED <<mem, owner, creator, job, seen>>

StoreWord(p) ==
    /\ pc[p] = "store"
    /\ \E w \in todo[p] :
          /\ mem' = [mem EXCEPT ![w] = Effect(job[p], seen[p])[w]]
          /\ todo' = [todo EXCEPT ![p] = @ \ {w}]
    /\ ret' = NoPage
    /\ UNCHANGED <<owner, pc, creator, job, seen>>

(* Unlock after a write or an update, and with it create returns.          *)
ReturnWrite(p) ==
    /\ todo[p] = {}
    /\ Goto(p, "store", "idle")
    /\ owner' = Nobody
    /\ creator' = [creator EXCEPT ![p] = FALSE]
    /\ ret' = NoPage
    /\ Forget(p)
    /\ UNCHANGED mem

(* The process is killed, and the kernel closes what it had (external).    *)
Crash(p) ==
    /\ pc[p] # "out"
    /\ pc' = [pc EXCEPT ![p] = "out"]
    /\ owner' = IF owner = p THEN Nobody ELSE owner
    /\ creator' = [creator EXCEPT ![p] = FALSE]
    /\ ret' = NoPage
    /\ Forget(p)
    /\ UNCHANGED mem

----------------------------------------------------------------------------
(* Once it has the mutex a process goes on by itself.                      *)
Work(p) ==
    \/ LoadWord(p) \/ ReturnRead(p) \/ BeginStore(p) \/ StoreWord(p) \/ ReturnWrite(p)

ProcNext(p) ==
    \/ OpenMapping(p) \/ FinishCreate(p) \/ CreateFails(p) \/ Drop(p)
    \/ Call(p) \/ Lock(p) \/ Work(p) \/ Crash(p)

Next == \E p \in Procs : ProcNext(p)

(* A running process is scheduled, and the kernel serves the waiters of a  *)
(* mutex in turn.                                                          *)
Fairness == \A p \in Procs : WF_vars(Work(p)) /\ SF_vars(Lock(p))

Spec == Init /\ [][Next]_vars /\ Fairness

----------------------------------------------------------------------------
(* Properties.                                                             *)

(* Reads and updates of a SharedPage are atomic, whatever the processes    *)
(* that share it do in between; a page is torn only by one that died       *)
(* storing it, and only the creator of a mapping writes the default.       *)
Refines == Abstract!Spec

(* The mutex keeps the words of an update together: whoever loads has seen *)
(* words of the page as it is, and during a store each word is the old one *)
(* or the new one according to what is left to store.                      *)
HolderAlone ==
    /\ \A p \in Procs : pc[p] \in {"load", "store"} => owner = p
    /\ \A p \in Procs, w \in Words :
          /\ pc[p] = "load" /\ w \notin todo[p] => seen[p][w] = mem[w]
          /\ pc[p] = "store" =>
                mem[w] = IF w \in todo[p] THEN seen[p][w]
                         ELSE Effect(job[p], seen[p])[w]

(* Who waits for the mutex gets it, even when its owner has died.          *)
WaiterServed == \A p \in Procs : pc[p] = "wait" ~> pc[p] # "wait"
=============================================================================
