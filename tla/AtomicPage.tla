----------------------------- MODULE AtomicPage -----------------------------
(***************************************************************************)
(* What a SharedPage promises the processes that share it: a page that is  *)
(* read and updated in one step.  It promises no more than that:           *)
(*   - the process that created the mapping writes the default page at a   *)
(*     moment of its own, when others may already have updated the page;   *)
(*   - a process that dies in the middle of an update leaves some words    *)
(*     new and some old, and the others are not told.                      *)
(***************************************************************************)
CONSTANTS
    Procs,        \* processes that open the page
    Words,        \* the words the page is made of
    Updates,      \* what the callers of write and update do to a page
    Apply(_, _),  \* Apply(f, q): page q after update f
    Zero,         \* the page of a new mapping
    Default,      \* T::default()
    NoPage        \* nothing was read

VARIABLES
    page,         \* the page
    state,        \* what each process is to it
    ret           \* what the step just taken has read

vars == <<page, state, ret>>

(* A job: reading, an update, or the creator's default page.               *)
Effect(job, q) == IF job = "default" THEN Default ELSE Apply(job, q)

Writes == Updates \cup {"default"}

Init ==
    /\ page = Zero
    /\ state = [p \in Procs |-> "out"]
    /\ ret = NoPage

(* The first process to come creates a page of zeros, the others open it.  *)
Attach(p) ==
    /\ state[p] = "out"
    /\ IF \A q \in Procs : state[q] = "out"
       THEN page' = Zero /\ state' = [state EXCEPT ![p] = "creator"]
       ELSE page' = page /\ state' = [state EXCEPT ![p] = "in"]
    /\ ret' = NoPage

Initialise(p) ==
    /\ state[p] = "creator"
    /\ state' = [state EXCEPT ![p] = "in"]
    /\ page' = Default
    /\ ret' = NoPage

Read(p) ==
    /\ state[p] = "in"
    /\ ret' = page
    /\ UNCHANGED <<page, state>>

Update(p) ==
    /\ state[p] = "in"
    /\ \E f \in Updates : page' = Apply(f, page)
    /\ ret' = NoPage
    /\ UNCHANGED state

Detach(p) ==
    /\ state[p] # "out"
    /\ state' = [state EXCEPT ![p] = "out"]
    /\ ret' = NoPage
    /\ UNCHANGED page

(* A process dies with some words of its update written.                   *)
Tear(p) ==
    /\ state[p] # "out"
    /\ \E job \in Writes, done \in SUBSET Words :
          page' = [w \in Words |-> IF w \in done THEN Effect(job, page)[w] ELSE page[w]]
    /\ state' = [state EXCEPT ![p] = "out"]
    /\ ret' = NoPage

(* Nothing is returned by a step that does not end a read.                 *)
Quiet == ret' = NoPage /\ UNCHANGED <<page, state>>

Next ==
    \/ \E p \in Procs : \/ Attach(p) \/ Initialise(p) \/ Read(p)
                        \/ Update(p) \/ Detach(p) \/ Tear(p)
    \/ Quiet

Spec == Init /\ [][Next]_vars
=============================================================================
