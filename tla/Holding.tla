------------------------------ MODULE Holding ------------------------------
(***************************************************************************)
(* What a claim of the task queue promises, without leases, counters, crashes *)
(* or rows: a task has one holder at most, a claim makes a run that was idle   *)
(* its holder, and a run that is no longer the holder - its task was claimed   *)
(* again, or left the working state - never is again (coord.go, ErrLostLease: *)
(* "the task was reassigned while we worked on it").                        *)
(*                                                                         *)
(* TaskLedger implements it with a fencing token it also takes back.         *)
(***************************************************************************)
CONSTANTS Tasks, Runs, Nobody

VARIABLES
    of,         \* the task each run was claimed for
    stage,      \* idle; the holder of its task; or past, its result unwanted
    working     \* the tasks somebody works on, with a run or from a shell

vars == <<of, stage, working>>

Holders(t) == {r \in Runs : of[r] = t /\ stage[r] = "holder"}

TypeOK ==
    /\ of \in [Runs -> Tasks \cup {Nobody}]
    /\ stage \in [Runs -> {"idle", "holder", "past"}]
    /\ working \subseteq Tasks

Init ==
    /\ of = [r \in Runs |-> Nobody]
    /\ stage = [r \in Runs |-> "idle"]
    /\ working = {}

(* Whoever held t is past from now on. *)
Superseded(t) == [r \in Runs |-> IF r \in Holders(t) THEN "past" ELSE stage[r]]

(* An idle run becomes the holder of t. *)
Grant(t, r) ==
    /\ stage[r] = "idle"
    /\ of' = [of EXCEPT ![r] = t]
    /\ stage' = [Superseded(t) EXCEPT ![r] = "holder"]
    /\ working' = working \cup {t}

(* Somebody who is no run of a gateway takes t: an agent in its shell. *)
GrantToShell(t) ==
    /\ working' = working \cup {t}
    /\ stage' = Superseded(t)
    /\ UNCHANGED of

(* t ends, parks or goes back to the queue; runs of t may leave with that. *)
LetGo(t, leaving) ==
    /\ \A r \in leaving : of[r] = t
    /\ working' = working \ {t}
    /\ of' = [r \in Runs |-> IF r \in leaving THEN Nobody ELSE of[r]]
    /\ stage' = [r \in Runs |-> IF r \in leaving THEN "idle" ELSE Superseded(t)[r]]

(* Runs report, crash or are given up, and their tasks stay as they are. *)
Leave(leaving) ==
    /\ of' = [r \in Runs |-> IF r \in leaving THEN Nobody ELSE of[r]]
    /\ stage' = [r \in Runs |-> IF r \in leaving THEN "idle" ELSE stage[r]]
    /\ UNCHANGED working

Next ==
    \/ \E leaving \in SUBSET Runs : Leave(leaving)
    \/ \E t \in Tasks :
          \/ GrantToShell(t)
          \/ \E r \in Runs : Grant(t, r)
          \/ \E leaving \in SUBSET Runs : LetGo(t, leaving)

Spec == Init /\ [][Next]_vars

(* A task has one holder at most, and is worked on while it has one. *)
OneHolder ==
    /\ \A r, s \in Runs : stage[r] = "holder" /\ stage[s] = "holder" /\ of[r] = of[s] => r = s
    /\ \A r \in Runs : stage[r] = "holder" => of[r] \in working

=============================================================================
