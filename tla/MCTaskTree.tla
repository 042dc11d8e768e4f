----------------------------- MODULE MCTaskTree -----------------------------
(* TaskTree on small instances. *)
EXTENDS TaskTree

CONSTANTS t1

(* The goal runs twice, its parts once. *)
GoalTwice == [t \in Tasks |-> IF t = t1 THEN 2 ELSE 1]

=============================================================================
