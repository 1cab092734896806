---------------------------- MODULE MCSharedPage ----------------------------
(***************************************************************************)
(* A page of two words shared by a small number of processes.  Every page  *)
(* of this repository has an all-zero default.  "flip" depends on the page *)
(* it finds, so that a lost update shows; "set" does not.                  *)
(***************************************************************************)
EXTENDS SharedPage, Integers

MCWords == {"lo", "hi"}
MCVals == {0, 1}
MCUpdates == {"flip", "set"}
MCZero == [w \in MCWords |-> 0]
MCApply(f, q) ==
    IF f = "flip" THEN [w \in MCWords |-> 1 - q[w]] ELSE [w \in MCWords |-> 1]
=============================================================================
