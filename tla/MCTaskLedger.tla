---------------------------- MODULE MCTaskLedger ----------------------------
(* TaskLedger on a small instance: agents and runs are interchangeable. *)
EXTENDS TaskLedger, TLC

Symmetry == Permutations(Agents) \cup Permutations(Runs)

=============================================================================
