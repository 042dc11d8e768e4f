---------------------------- MODULE Verification ----------------------------
(***************************************************************************)
(* Reading a finished goal back against its criteria (internal/coord/         *)
(* verify.go and sweepVerifications of internal/taskrunner/runner.go).        *)
(*                                                                         *)
(* Every gateway sweeps: it lists the finished goals nobody has read, opens a  *)
(* reading of each for a peer that did not do the work, and turns a rejection  *)
(* into rework.  A sweep is many statements, and peers sweep, run, die and      *)
(* come back between any two of them.                                       *)
(***************************************************************************)
EXTENDS Naturals, FiniteSets

CONSTANTS
    Agents,         \* each with the gateway that runs it
    Goals,          \* root tasks
    Readings,       \* the verifications there is room for
    Nobody, None,
    MaxAttempts,
    Judges,         \* what SetJudge may be told
    MaxUpsets       \* bound: crashes, agents that go silent, cancels, second
                    \* verdicts and changes of the judge

ASSUME VerificationConstants ==
    /\ IsFiniteSet(Agents) /\ IsFiniteSet(Goals) /\ IsFiniteSet(Readings)
    /\ Nobody \notin Agents /\ None \notin Readings \cup Goals
    /\ Judges \subseteq Agents \cup {Nobody}
    /\ MaxAttempts \in Nat \ {0} /\ MaxUpsets \in Nat

VARIABLES
    goal,       \* the goals
    reading,    \* the verification tasks
    rework,     \* how many tasks were opened for each reading
    judge,
    online,     \* agents whose heartbeat is fresh
    sweep,      \* each gateway's sweep
    run,        \* the reading each agent believes it is running
    lost,       \* history: rejections claimed by a gateway that died with them
    upsets

vars == <<goal, reading, rework, judge, online, sweep, run, lost, upsets>>

Absent == [state |-> "absent", goal |-> None, assigned |-> Nobody, by |-> Nobody,
           leased |-> FALSE, attempts |-> 0, bar |-> 0, followed |-> FALSE]

Resting == [at |-> "idle", goals |-> {}, peers |-> {}, rejected |-> {}, claimed |-> None]

Init ==
    /\ goal = [g \in Goals |-> [state |-> "open", by |-> Nobody, bar |-> 0]]
    /\ reading = [v \in Readings |-> Absent]
    /\ rework = [v \in Readings |-> 0]
    /\ judge = Nobody
    /\ online = Agents
    /\ sweep = [a \in Agents |-> Resting]
    /\ run = [a \in Agents |-> None]
    /\ lost = {}
    /\ upsets = 0

Upset == upsets < MaxUpsets /\ upsets' = upsets + 1

Existing == {v \in Readings : reading[v].state # "absent"}

ReadingsOf(g) == {v \in Existing : reading[v].goal = g}

----------------------------------------------------------------------------
(* The goals: an agent does one, and somebody writes its criteria, before or    *)
(* after it ends.                                                           *)

Completes(a, g) ==
    /\ goal[g].state = "open"
    /\ goal' = [goal EXCEPT ![g].state = "completed", ![g].by = a]
    /\ UNCHANGED <<reading, rework, judge, online, sweep, run, lost, upsets>>

SetAcceptance(g) ==
    /\ goal[g].bar = 0
    /\ goal' = [goal EXCEPT ![g].bar = 1]
    /\ UNCHANGED <<reading, rework, judge, online, sweep, run, lost, upsets>>

SetJudge(a) ==
    /\ Upset /\ judge' = a
    /\ UNCHANGED <<goal, reading, rework, online, sweep, run, lost>>

----------------------------------------------------------------------------
(* The sweep of a gateway.                                                  *)

Sweeps(a, rec) == sweep' = [sweep EXCEPT ![a] = rec]

NeedsVerification ==
    {g \in Goals : goal[g].state = "completed" /\ goal[g].bar > 0 /\ ReadingsOf(g) = {}}

(* The goals are read with their rows, and the peers once for all of them. *)
ListsGoals(a) ==
    /\ sweep[a].at = "idle" /\ a \in online
    /\ Sweeps(a, [Resting EXCEPT !.at = IF NeedsVerification = {} THEN "rejections" ELSE "peers",
                                 !.goals = {[id |-> g, by |-> goal[g].by, bar |-> goal[g].bar]
                                              : g \in NeedsVerification}])
    /\ UNCHANGED <<goal, reading, rework, judge, online, run, lost, upsets>>

ListsPeers(a) ==
    /\ sweep[a].at = "peers"
    /\ Sweeps(a, [sweep[a] EXCEPT !.at = "opening", !.peers = online])
    /\ UNCHANGED <<goal, reading, rework, judge, online, run, lost, upsets>>

(* Mutant: only the judge will do, when there is one. *)
CheckersJudgeOnly(did, up) ==
    IF judge # Nobody THEN {judge} \ {did}
    ELSE IF up \ {did} # {} THEN up \ {did} ELSE Agents \ {did}

(* pickChecker: the judge, or a peer, online first; never who did the work. *)
Checkers(did, up) ==
    IF judge \notin {Nobody, did} THEN {judge}
    ELSE IF up \ {did} # {} THEN up \ {did} ELSE Agents \ {did}

Opened(g, checker) ==
    [Absent EXCEPT !.state = "submitted", !.goal = g.id, !.assigned = checker, !.bar = g.bar]

NewId == CHOOSE v \in Readings : v \notin Existing

(* OpenVerification of one of them.  Nothing in the insert looks for a reading.  *)
OpensVerification(a, g) ==
    /\ sweep[a].at = "opening" /\ g \in sweep[a].goals
    /\ Sweeps(a, [sweep[a] EXCEPT !.goals = @ \ {g}])
    /\ IF Checkers(g.by, sweep[a].peers) = {} \/ Existing = Readings
       THEN UNCHANGED reading
       ELSE \E checker \in Checkers(g.by, sweep[a].peers) :
               reading' = [reading EXCEPT ![NewId] = Opened(g, checker)]
    /\ UNCHANGED <<goal, rework, judge, online, run, lost, upsets>>

Rejected == {v \in Existing : reading[v].state = "rejected" /\ ~ reading[v].followed}

ListsRejections(a) ==
    /\ sweep[a].at = "rejections" \/ (sweep[a].at = "opening" /\ sweep[a].goals = {})
    /\ Sweeps(a, [Resting EXCEPT !.at = IF Rejected = {} THEN "idle" ELSE "following",
                                 !.rejected = Rejected])
    /\ UNCHANGED <<goal, reading, rework, judge, online, run, lost, upsets>>

(* Mutant: the claim does not look whether a peer was first. *)
ClaimableAlways(v) == TRUE

Claimable(v) == reading[v].state = "rejected" /\ ~ reading[v].followed

(* FollowUpRejection: the rejection is claimed by a compare-and-set, and the     *)
(* rework created by a later statement.                                      *)
ClaimsRejection(a, v) ==
    /\ sweep[a].at = "following" /\ sweep[a].claimed = None /\ v \in sweep[a].rejected
    /\ Sweeps(a, [sweep[a] EXCEPT !.rejected = @ \ {v},
                                  !.claimed = IF Claimable(v) THEN v ELSE None])
    /\ reading' = IF Claimable(v) THEN [reading EXCEPT ![v].followed = TRUE] ELSE reading
    /\ UNCHANGED <<goal, rework, judge, online, run, lost, upsets>>

(* Mutant: the rework is not opened when its goal was done by the sweeping agent. *)
OpensReworkOfOthers(a) ==
    LET v == sweep[a].claimed IN
    /\ v # None
    /\ Sweeps(a, [sweep[a] EXCEPT !.claimed = None])
    /\ rework' = IF goal[reading[v].goal].by = a THEN rework ELSE [rework EXCEPT ![v] = @ + 1]
    /\ UNCHANGED <<goal, reading, judge, online, run, lost, upsets>>

OpensRework(a) ==
    /\ sweep[a].claimed # None
    /\ Sweeps(a, [sweep[a] EXCEPT !.claimed = None])
    /\ rework' = [rework EXCEPT ![sweep[a].claimed] = @ + 1]
    /\ UNCHANGED <<goal, reading, judge, online, run, lost, upsets>>

EndsSweep(a) ==
    /\ sweep[a].at = "following" /\ sweep[a].claimed = None /\ sweep[a].rejected = {}
    /\ Sweeps(a, Resting)
    /\ UNCHANGED <<goal, reading, rework, judge, online, run, lost, upsets>>

----------------------------------------------------------------------------
(* The housekeeping before it: exhausted readings fail, and those addressed to  *)
(* an agent that has gone silent are opened to any.                           *)

ReapExhausted(v) ==
    /\ reading[v].state \in {"submitted", "working"} /\ ~ reading[v].leased
    /\ reading[v].attempts = MaxAttempts
    /\ reading' = [reading EXCEPT ![v].state = "failed"]
    /\ UNCHANGED <<goal, rework, judge, online, sweep, run, lost, upsets>>

RelaxDeadAssignments ==
    LET dead == {v \in Existing : reading[v].state = "submitted"
                                  /\ reading[v].assigned \in Agents \ online} IN
    /\ dead # {} /\ online # {}
    /\ reading' = [v \in Readings |-> IF v \in dead THEN [reading[v] EXCEPT !.assigned = Nobody]
                                      ELSE reading[v]]
    /\ UNCHANGED <<goal, rework, judge, online, sweep, run, lost, upsets>>

----------------------------------------------------------------------------
(* The run of a reading.                                                    *)

ClaimTask(a, v) ==
    /\ a \in online /\ run[a] = None
    /\ reading[v].state \in {"submitted", "working"} /\ ~ reading[v].leased
    /\ reading[v].attempts < MaxAttempts /\ reading[v].assigned \in {Nobody, a}
    /\ reading' = [reading EXCEPT ![v].state = "working", ![v].by = a, ![v].leased = TRUE,
                                  ![v].attempts = @ + 1]
    /\ run' = [run EXCEPT ![a] = v]
    /\ UNCHANGED <<goal, rework, judge, online, sweep, lost, upsets>>

(* `task done`, `task reject`, `task fail`, or a run that ends with its answer. *)
Verdicts == {"completed", "rejected", "failed"}

FinishTask(a, verdict) ==
    LET v == run[a] IN
    /\ v # None /\ a \in online
    /\ run' = [run EXCEPT ![a] = None]
    /\ reading' = IF reading[v].by = a
                  THEN [reading EXCEPT ![v].state = verdict, ![v].leased = FALSE]
                  ELSE reading
    /\ UNCHANGED <<goal, rework, judge, online, sweep, lost, upsets>>

(* The command is not fenced by the state: who holds a reading may change its     *)
(* verdict after it was given.                                               *)
FinishAgain(a, v, verdict) ==
    /\ Upset /\ a \in online
    /\ reading[v].by = a /\ reading[v].state \in Verdicts \ {verdict}
    /\ reading' = [reading EXCEPT ![v].state = verdict]
    /\ UNCHANGED <<goal, rework, judge, online, sweep, run, lost>>

CancelTask(v) ==
    /\ Upset /\ reading[v].state \in {"submitted", "working"}
    /\ reading' = [reading EXCEPT ![v].state = "canceled", ![v].leased = FALSE]
    /\ UNCHANGED <<goal, rework, judge, online, sweep, run, lost>>

(* A gateway dies with its sweep and its run; the lease runs out later. *)
Dies(a) ==
    /\ Upset /\ a \in online
    /\ online' = online \ {a}
    /\ lost' = IF sweep[a].claimed = None THEN lost ELSE lost \cup {sweep[a].claimed}
    /\ Sweeps(a, Resting)
    /\ run' = [run EXCEPT ![a] = None]
    /\ UNCHANGED <<goal, reading, rework, judge>>

LeaseEnds(v) ==
    /\ reading[v].leased /\ run[reading[v].by] # v
    /\ reading' = [reading EXCEPT ![v].leased = FALSE]
    /\ UNCHANGED <<goal, rework, judge, online, sweep, run, lost, upsets>>

Returns(a) ==
    /\ a \notin online
    /\ online' = online \cup {a}
    /\ UNCHANGED <<goal, reading, rework, judge, sweep, run, lost, upsets>>

----------------------------------------------------------------------------

SweepStep(a) ==
    \/ ListsGoals(a) \/ ListsPeers(a) \/ ListsRejections(a) \/ OpensRework(a) \/ EndsSweep(a)
    \/ \E g \in sweep[a].goals : OpensVerification(a, g)
    \/ \E v \in Readings : ClaimsRejection(a, v)

Next ==
    \/ \E a \in Agents : SweepStep(a) \/ Dies(a) \/ Returns(a)
    \/ \E a \in Agents, g \in Goals : Completes(a, g)
    \/ \E g \in Goals : SetAcceptance(g)
    \/ \E a \in Judges : SetJudge(a)
    \/ RelaxDeadAssignments
    \/ \E v \in Readings : ReapExhausted(v) \/ CancelTask(v) \/ LeaseEnds(v)
    \/ \E a \in Agents, v \in Readings :
          \/ ClaimTask(a, v)
          \/ \E verdict \in Verdicts : FinishAgain(a, v, verdict)
    \/ \E a \in Agents, verdict \in Verdicts : FinishTask(a, verdict)

(* The sweep is on a ticker, a gateway that died is started again by its         *)
(* supervisor, and the steps of a sweep are one goroutine's code.              *)
Fairness == \A a \in Agents : WF_vars(SweepStep(a)) /\ WF_vars(Returns(a))

Spec == Init /\ [][Next]_vars /\ Fairness

----------------------------------------------------------------------------
(* Properties.                                                             *)

(* Every variable has its type. *)
TypeOK ==
    /\ goal \in [Goals -> [state : {"open", "completed"}, by : Agents \cup {Nobody}, bar : 0 .. 2]]
    /\ reading \in [Readings -> [state : {"absent", "submitted", "working", "canceled"} \cup Verdicts,
                                 goal : Goals \cup {None}, assigned : Agents \cup {Nobody},
                                 by : Agents \cup {Nobody}, leased : BOOLEAN,
                                 attempts : 0 .. MaxAttempts, bar : 0 .. 2, followed : BOOLEAN]]
    /\ rework \in [Readings -> Nat]
    /\ run \in [Agents -> Readings \cup {None}]
    /\ online \subseteq Agents /\ lost \subseteq Readings
    /\ \A a \in Agents : sweep[a].claimed \in Readings \cup {None} /\ sweep[a].rejected \subseteq Readings

(* A rejection opens rework once, whoever sweeps (FollowUpRejection: the loser     *)
(* must not open a second copy of the same work), and only one a reader gave.     *)
OneReworkPerRejection ==
    \A v \in Readings :
        /\ rework[v] + Cardinality({a \in Agents : sweep[a].claimed = v}) <= 1
        /\ rework[v] > 0 => reading[v].followed /\ reading[v].by # Nobody

(* A reading is never addressed to the agent whose work it reads, whatever the     *)
(* judge is and whoever is online (pickChecker).                               *)
AddressedToAPeer ==
    \A v \in Existing : reading[v].assigned # goal[reading[v].goal].by

(* A goal is read at most once by each gateway that sweeps, however often they       *)
(* sweep: a reading that is there, in whatever state, ends the asking.            *)
ReadingsAreBounded == \A g \in Goals : Cardinality(ReadingsOf(g)) <= Cardinality(Agents)

(* The bar a reader was given is the goal's: nobody moves it while the work is      *)
(* read against it (SetAcceptance), although it is copied from a row read earlier. *)
BarIsNotMoved == \A v \in Existing : reading[v].bar = goal[reading[v].goal].bar

(* Every finished goal with criteria is read in the end, whichever gateways die.  *)
GoalsAreRead ==
    \A g \in Goals : goal[g].state = "completed" /\ goal[g].bar > 0 ~> ReadingsOf(g) # {}

(* Every rejection becomes rework, unless the reader takes it back, or the gateway   *)
(* that claimed it dies before it creates the task.                             *)
RejectionsAreFollowedUp ==
    \A v \in Readings :
        reading[v].state = "rejected" ~> rework[v] = 1 \/ v \in lost \/ reading[v].state # "rejected"

(* No agent grades its own work (pickChecker: "nobody grades themselves"). *)
NobodyGradesThemselves ==
    \A v \in Existing : reading[v].by # Nobody => reading[v].by # goal[reading[v].goal].by

(* What is true of goals and their readings at every moment. *)
VerificationSafe ==
    /\ TypeOK
    /\ OneReworkPerRejection
    /\ AddressedToAPeer
    /\ BarIsNotMoved
    /\ ReadingsAreBounded

=============================================================================
