----------------------------- MODULE MCReporter -----------------------------
(* Reporter on small instances: who reports as whom, who asked, what ends. *)
EXTENDS Reporter

CONSTANTS a1, a2, t1

(* Gateways of one agent that delegates to another. *)
SameAgent == [g \in Reporters |-> a1]
OneAsks   == [t \in Tasks |-> a1]

(* One task may end twice. *)
OneEndsTwice == [t \in Tasks |-> IF t = t1 THEN 2 ELSE 1]

=============================================================================
