------------------------- MODULE VerificationProofs -------------------------
(***************************************************************************)
(* Proofs about Verification, for any agents, goals, judges and bounds.      *)
(***************************************************************************)
EXTENDS Verification, Sequences, TLAPS, FiniteSetTheorems

GoalRows == [state : {"open", "completed"}, by : Agents \cup {Nobody}, bar : 0 .. 2]

ReadingRows ==
    [state : {"absent", "submitted", "working", "canceled"} \cup Verdicts,
     goal : Goals \cup {None}, assigned : Agents \cup {Nobody},
     by : Agents \cup {Nobody}, leased : BOOLEAN,
     attempts : 0 .. MaxAttempts, bar : 0 .. 2, followed : BOOLEAN]

Listed == [id : Goals, by : Agents \cup {Nobody}, bar : 0 .. 2]

SweepRows ==
    [at : {"idle", "peers", "opening", "rejections", "following"}, goals : SUBSET Listed,
     peers : SUBSET Agents, rejected : SUBSET Readings, claimed : Readings \cup {None}]

Types ==
    /\ goal \in [Goals -> GoalRows] /\ reading \in [Readings -> ReadingRows]
    /\ rework \in [Readings -> Nat] /\ run \in [Agents -> Readings \cup {None}]
    /\ online \subseteq Agents /\ lost \subseteq Readings
    /\ sweep \in [Agents -> SweepRows] /\ judge \in Agents \cup {Nobody}

(* A goal whose bar can no longer move: it was done by an agent, and has one. *)
Settled(g) == goal[g].state = "completed" /\ goal[g].bar > 0

Doers == \A g \in Goals : goal[g].state = "completed" => goal[g].by \in Agents

(* What a sweep read of a goal is true for good. *)
Snapshots ==
    \A a \in Agents : \A r \in sweep[a].goals :
        Settled(r.id) /\ r.by = goal[r.id].by /\ r.bar = goal[r.id].bar

(* What is true of a reading once it is there. *)
Sound(r) ==
    /\ r.goal \in Goals /\ Settled(r.goal) /\ r.bar = goal[r.goal].bar
    /\ r.assigned # goal[r.goal].by
    /\ r.state = "rejected" => r.by \in Agents
    /\ r.followed => r.by \in Agents

Rows ==
    \A v \in Readings : IF reading[v].state = "absent" THEN reading[v] = Absent
                                                       ELSE Sound(reading[v])

(* A rejection is claimed by one sweep, which opens its rework or dies. *)
Claims ==
    /\ \A v \in Readings : rework[v] <= 1 /\ (~ reading[v].followed => rework[v] = 0)
    /\ \A a \in Agents : sweep[a].claimed # None =>
         reading[sweep[a].claimed].followed /\ rework[sweep[a].claimed] = 0
    /\ \A a, b \in Agents :
         a # b /\ sweep[a].claimed # None => sweep[a].claimed # sweep[b].claimed

(* The gateways that listed a goal and have not opened a reading of it yet: each *)
(* will open one, and no other gateway lists it any more once there is one.     *)
Askers(g) == {a \in Agents : \E r \in sweep[a].goals : r.id = g}

Asked ==
    \A g \in Goals : Cardinality(ReadingsOf(g)) + Cardinality(Askers(g)) <= Cardinality(Agents)

Inv == Types /\ Doers /\ Snapshots /\ Rows /\ Claims /\ Asked

----------------------------------------------------------------------------
(* Rows                                                                     *)

LEMMA FreshRows ==
    /\ Absent \in ReadingRows /\ Absent.state = "absent" /\ ~ Absent.followed
    /\ Resting \in SweepRows /\ Resting.goals = {} /\ Resting.claimed = None
    /\ \A g \in Listed, c \in Agents :
         /\ Opened(g, c) \in ReadingRows /\ Opened(g, c).state = "submitted"
         /\ Opened(g, c).goal = g.id /\ Opened(g, c).bar = g.bar
         /\ Opened(g, c).assigned = c /\ ~ Opened(g, c).followed
  <1>1. 0 \in 0..MaxAttempts /\ 0 \in 0..2
    BY VerificationConstants
  <1>2. Absent \in ReadingRows /\ Absent.state = "absent" /\ ~ Absent.followed
    BY <1>1 DEF Absent, ReadingRows
  <1>3. Resting \in SweepRows /\ Resting.goals = {} /\ Resting.claimed = None
    BY DEF Resting, SweepRows
  <1>4. ASSUME NEW g \in Listed, NEW c \in Agents
        PROVE  /\ Opened(g, c) \in ReadingRows /\ Opened(g, c).state = "submitted"
               /\ Opened(g, c).goal = g.id /\ Opened(g, c).bar = g.bar
               /\ Opened(g, c).assigned = c /\ ~ Opened(g, c).followed
    BY <1>1 DEF Opened, Absent, ReadingRows, Listed
  <1>. QED
    BY <1>2, <1>3, <1>4

LEMMA InitInv == Init => Inv
  <1>. SUFFICES ASSUME Init PROVE Inv
    OBVIOUS
  <1>1. Types
    BY FreshRows DEF Init, Types, GoalRows
  <1>2. Doers /\ Snapshots
    BY FreshRows DEF Init, Doers, Snapshots
  <1>3. Rows /\ Claims
    BY FreshRows DEF Init, Rows, Claims
  <1>4. ASSUME NEW g \in Goals PROVE ReadingsOf(g) = {} /\ Askers(g) = {}
    BY FreshRows DEF Init, ReadingsOf, Existing, Askers
  <1>5. Cardinality({}) = 0 /\ Cardinality(Agents) \in Nat
    BY FS_EmptySet, FS_CardinalityType, VerificationConstants
  <1>6. ASSUME NEW g \in Goals
        PROVE  Cardinality(ReadingsOf(g)) + Cardinality(Askers(g)) <= Cardinality(Agents)
    <2>1. Cardinality(ReadingsOf(g)) = 0 /\ Cardinality(Askers(g)) = 0
      BY <1>4, <1>5
    <2>. QED
      BY <1>5, <2>1
  <1>7. Asked
    BY <1>6 DEF Asked
  <1>. QED
    BY <1>1, <1>2, <1>3, <1>7 DEF Inv

LEMMA FiniteCounts ==
    ASSUME NEW g
    PROVE  /\ IsFiniteSet(ReadingsOf(g)) /\ Cardinality(ReadingsOf(g)) \in Nat
           /\ IsFiniteSet(Askers(g)) /\ Cardinality(Askers(g)) \in Nat
           /\ Cardinality(Askers(g)) <= Cardinality(Agents) /\ Cardinality(Agents) \in Nat
  <1>1. ReadingsOf(g) \subseteq Readings /\ Askers(g) \subseteq Agents
    BY DEF ReadingsOf, Existing, Askers
  <1>. QED
    BY <1>1, FS_Subset, FS_CardinalityType, VerificationConstants

----------------------------------------------------------------------------
(* A reading takes a step: it is claimed, ends, is canceled or loses a lease. *)

Takes(old, new) ==
    /\ old.state # "absent" /\ new.state # "absent"
    /\ new.goal = old.goal /\ new.bar = old.bar /\ new.followed = old.followed
    /\ new.assigned \in {old.assigned, Nobody}
    /\ new.state = "rejected" => new.by \in Agents
    /\ old.followed => new.by \in Agents

LEMMA RowsStep ==
    ASSUME Inv, UNCHANGED <<goal, rework, sweep>>,
           reading' \in [Readings -> ReadingRows],
           run' \in [Agents -> Readings \cup {None}], online' \subseteq Agents, lost' \subseteq Readings,
           judge' \in Agents \cup {Nobody},
           \A v \in Readings : reading'[v] = reading[v] \/ Takes(reading[v], reading'[v])
    PROVE  Inv'
  <1>. USE DEF Inv
  <1>1. Types'
    BY DEF Types
  <1>2. Doers' /\ Snapshots'
    BY DEF Doers, Snapshots, Settled
  <1>3. Rows'
    <2>. SUFFICES ASSUME NEW v \in Readings, Takes(reading[v], reading'[v])
                  PROVE  Sound(reading[v])' /\ reading'[v].state # "absent"
      BY DEF Rows, Sound, Settled
    <2>1. Sound(reading[v])
      BY DEF Rows, Takes
    <2>2. goal[reading[v].goal].by # Nobody
      BY <2>1, VerificationConstants DEF Sound, Settled, Doers
    <2>. QED
      BY <2>1, <2>2 DEF Sound, Settled, Takes
  <1>4. Claims'
    <2>1. \A v \in Readings : reading'[v].followed = reading[v].followed
      BY DEF Takes
    <2>2. \A a \in Agents : sweep[a].claimed \in Readings \cup {None}
      BY DEF Types, SweepRows
    <2>. QED
      BY <2>1, <2>2 DEF Claims
  <1>5. Asked'
    <2>1. \A g \in Goals : ReadingsOf(g)' = ReadingsOf(g) /\ Askers(g)' = Askers(g)
      BY DEF ReadingsOf, Existing, Askers, Takes
    <2>. QED
      BY <2>1 DEF Asked
  <1>. QED
    BY <1>1, <1>2, <1>3, <1>4, <1>5

LEMMA OneRow ==
    ASSUME Inv, NEW v \in Readings, NEW new \in ReadingRows, Takes(reading[v], new),
           reading' = [reading EXCEPT ![v] = new], UNCHANGED <<goal, rework, sweep, online, lost, judge>>,
           run' \in [Agents -> Readings \cup {None}]
    PROVE  Inv'
  <1>1. /\ reading' \in [Readings -> ReadingRows] /\ reading'[v] = new
        /\ \A w \in Readings \ {v} : reading'[w] = reading[w]
    BY DEF Inv, Types
  <1>2. online' \subseteq Agents /\ lost' \subseteq Readings /\ judge' \in Agents \cup {Nobody}
    BY DEF Inv, Types
  <1>. QED
    BY <1>1, <1>2, RowsStep

LEMMA ReaderIsKnown ==
    ASSUME Inv, NEW v \in Readings, reading[v].state # "absent", reading[v].followed
    PROVE  reading[v].by \in Agents
  BY DEF Inv, Rows, Sound

LEMMA ReadingStep ==
    ASSUME Inv, NEW v \in Readings,
           \/ ReapExhausted(v) \/ CancelTask(v) \/ LeaseEnds(v)
           \/ \E a \in Agents : \/ ClaimTask(a, v)
                              \/ \E verdict \in Verdicts : FinishAgain(a, v, verdict)
    PROVE  Inv'
  <1>. DEFINE old == reading[v]
  <1>1. /\ old \in ReadingRows /\ reading \in [Readings -> ReadingRows]
        /\ run \in [Agents -> Readings \cup {None}]
    BY DEF Inv, Types
  <1>2. old.state = "absent" => old = Absent
    BY DEF Inv, Rows
  <1>3. old.state # "absent" /\ old.followed => old.by \in Agents
    BY ReaderIsKnown
  <1>4. old.state = "rejected" => old.by \in Agents
    BY DEF Inv, Rows, Sound
  <1>5. CASE ReapExhausted(v)
    <2>. DEFINE new == [old EXCEPT !.state = "failed"]
    <2>1. /\ reading' = [reading EXCEPT ![v] = new] /\ old.state \in {"submitted", "working"}
          /\ UNCHANGED <<goal, rework, sweep, online, lost, judge, run>>
      BY <1>1, <1>5 DEF ReapExhausted
    <2>2. new \in ReadingRows /\ Takes(old, new)
      BY <1>1, <1>3, <2>1 DEF ReadingRows, Takes, Verdicts
    <2>. HIDE DEF new
    <2>. QED
      BY <1>1, <2>1, <2>2, OneRow
  <1>6. CASE CancelTask(v)
    <2>. DEFINE new == [old EXCEPT !.state = "canceled", !.leased = FALSE]
    <2>1. /\ reading' = [reading EXCEPT ![v] = new] /\ old.state \in {"submitted", "working"}
          /\ UNCHANGED <<goal, rework, sweep, online, lost, judge, run>>
      BY <1>1, <1>6 DEF CancelTask
    <2>2. new \in ReadingRows /\ Takes(old, new)
      BY <1>1, <1>3, <2>1 DEF ReadingRows, Takes, Verdicts
    <2>. HIDE DEF new
    <2>. QED
      BY <1>1, <2>1, <2>2, OneRow
  <1>7. CASE LeaseEnds(v)
    <2>. DEFINE new == [old EXCEPT !.leased = FALSE]
    <2>1. /\ reading' = [reading EXCEPT ![v] = new] /\ old.leased
          /\ UNCHANGED <<goal, rework, sweep, online, lost, judge, run>>
      BY <1>1, <1>7 DEF LeaseEnds
    <2>2. old.state # "absent"
      BY <1>2, <2>1 DEF Absent
    <2>3. new \in ReadingRows /\ Takes(old, new)
      BY <1>1, <1>3, <1>4, <2>2 DEF ReadingRows, Takes, Verdicts
    <2>. HIDE DEF new
    <2>. QED
      BY <1>1, <2>1, <2>3, OneRow
  <1>8. ASSUME NEW a \in Agents, ClaimTask(a, v) PROVE Inv'
    <2>. DEFINE new == [old EXCEPT !.state = "working", !.by = a, !.leased = TRUE,
                                   !.attempts = old.attempts + 1]
    <2>1. /\ reading' = [reading EXCEPT ![v] = new] /\ old.state \in {"submitted", "working"}
          /\ old.attempts < MaxAttempts /\ run' = [run EXCEPT ![a] = v]
          /\ UNCHANGED <<goal, rework, sweep, online, lost, judge>>
      BY <1>1, <1>8 DEF ClaimTask
    <2>2. old.attempts + 1 \in 0..MaxAttempts
      BY <1>1, <2>1, VerificationConstants DEF ReadingRows
    <2>3. new \in ReadingRows /\ Takes(old, new)
      BY <1>1, <2>1, <2>2 DEF ReadingRows, Takes, Verdicts
    <2>4. run' \in [Agents -> Readings \cup {None}]
      BY <1>1, <2>1
    <2>. HIDE DEF new
    <2>. QED
      BY <2>1, <2>3, <2>4, OneRow
  <1>9. ASSUME NEW a \in Agents, NEW verdict \in Verdicts, FinishAgain(a, v, verdict) PROVE Inv'
    <2>. DEFINE new == [old EXCEPT !.state = verdict]
    <2>1. /\ reading' = [reading EXCEPT ![v] = new] /\ old.state \in Verdicts /\ old.by = a
          /\ UNCHANGED <<goal, rework, sweep, online, lost, judge, run>>
      BY <1>1, <1>9 DEF FinishAgain
    <2>2. new \in ReadingRows /\ Takes(old, new)
      BY <1>1, <2>1 DEF ReadingRows, Takes, Verdicts
    <2>. HIDE DEF new
    <2>. QED
      BY <1>1, <2>1, <2>2, OneRow
  <1>. QED
    BY <1>5, <1>6, <1>7, <1>8, <1>9

LEMMA FinishStep ==
    ASSUME Inv, NEW a \in Agents, NEW verdict \in Verdicts, FinishTask(a, verdict)
    PROVE  Inv'
  <1>. DEFINE v == run[a]
              old == reading[v]
              new == [old EXCEPT !.state = verdict, !.leased = FALSE]
  <1>1. /\ v \in Readings /\ reading \in [Readings -> ReadingRows]
        /\ run' \in [Agents -> Readings \cup {None}]
        /\ UNCHANGED <<goal, rework, sweep, online, lost, judge>>
    BY DEF Inv, Types, FinishTask
  <1>2. CASE reading' = reading
    BY <1>1, <1>2, RowsStep DEF Inv, Types
  <1>3. CASE old.by = a
    <2>1. reading' = [reading EXCEPT ![v] = new]
      BY <1>1, <1>3 DEF FinishTask
    <2>2. old \in ReadingRows /\ old.state # "absent"
      BY <1>1, <1>3, VerificationConstants DEF Inv, Rows, Absent
    <2>3. new \in ReadingRows /\ Takes(old, new)
      BY <1>3, <2>2 DEF ReadingRows, Takes, Verdicts
    <2>. HIDE DEF new, v
    <2>. QED
      BY <1>1, <2>1, <2>3, OneRow
  <1>. QED
    BY <1>2, <1>3 DEF FinishTask

LEMMA RelaxStep ==
    ASSUME Inv, RelaxDeadAssignments
    PROVE  Inv'
  <1>1. PICK dead \in SUBSET Existing :
          reading' = [v \in Readings |-> IF v \in dead THEN [reading[v] EXCEPT !.assigned = Nobody]
                                         ELSE reading[v]]
    BY DEF RelaxDeadAssignments
  <1>2. UNCHANGED <<goal, rework, sweep, online, lost, judge, run>>
    BY DEF RelaxDeadAssignments
  <1>3. reading \in [Readings -> ReadingRows]
    BY DEF Inv, Types
  <1>4. ASSUME NEW v \in dead
        PROVE  /\ [reading[v] EXCEPT !.assigned = Nobody] \in ReadingRows
               /\ Takes(reading[v], [reading[v] EXCEPT !.assigned = Nobody])
    <2>1. v \in Readings /\ reading[v].state # "absent" /\ reading[v] \in ReadingRows
      BY <1>3 DEF Existing
    <2>2. Sound(reading[v])
      BY <2>1 DEF Inv, Rows
    <2>. QED
      BY <2>1, <2>2 DEF Takes, Sound, ReadingRows
  <1>5. reading' \in [Readings -> ReadingRows]
    BY <1>1, <1>3, <1>4
  <1>6. \A v \in Readings : reading'[v] = reading[v] \/ Takes(reading[v], reading'[v])
    BY <1>1, <1>4
  <1>. QED
    BY <1>2, <1>5, <1>6, RowsStep DEF Inv, Types

----------------------------------------------------------------------------
(* Goals                                                                    *)

(* What is written of a goal never touches one that has been read or listed. *)
LEMMA GoalStep ==
    ASSUME Inv, NEW g \in Goals, SetAcceptance(g) \/ \E a \in Agents : Completes(a, g)
    PROVE  Inv'
  <1>. USE DEF Inv
  <1>1. UNCHANGED <<reading, rework, sweep, online, run, lost, judge>>
    BY DEF SetAcceptance, Completes
  <1>2. /\ goal' \in [Goals -> GoalRows] /\ \A h \in Goals \ {g} : goal'[h] = goal[h]
        /\ ~ Settled(g)
        /\ goal'[g].state = "completed" => goal'[g].by \in Agents
    BY DEF SetAcceptance, Completes, Types, GoalRows, Settled, Doers
  <1>3. \A h \in Goals : Settled(h) => goal'[h] = goal[h]
    BY <1>2
  <1>4. Types'
    BY <1>1, <1>2 DEF Types
  <1>5. Doers'
    BY <1>2 DEF Doers
  <1>6. Snapshots'
    <2>1. \A a \in Agents : \A r \in sweep[a].goals : r.id \in Goals
      BY DEF Types, SweepRows, Listed
    <2>. QED
      BY <1>1, <1>3, <2>1 DEF Snapshots, Settled
  <1>7. Rows'
    BY <1>1, <1>3 DEF Rows, Sound, Settled
  <1>8. Claims'
    BY <1>1 DEF Claims
  <1>9. Asked'
    <2>1. \A h \in Goals : ReadingsOf(h)' = ReadingsOf(h) /\ Askers(h)' = Askers(h)
      BY <1>1 DEF ReadingsOf, Existing, Askers
    <2>. QED
      BY <2>1 DEF Asked
  <1>. QED
    BY <1>4, <1>5, <1>6, <1>7, <1>8, <1>9

----------------------------------------------------------------------------
(* Sweeps                                                                   *)

(* A sweep goes on, or dies, with no claim it did not have, and with goals that *)
(* it had listed already or that nobody had read when it did.                 *)
LEMMA SweepStepKeeps ==
    ASSUME Inv, NEW a \in Agents, NEW rec \in SweepRows, Sweeps(a, rec),
           UNCHANGED <<goal, reading, rework>>,
           rec.claimed \in {None, sweep[a].claimed},
           \A r \in rec.goals :
             /\ Settled(r.id) /\ r.by = goal[r.id].by /\ r.bar = goal[r.id].bar
             /\ a \in Askers(r.id) \/ ReadingsOf(r.id) = {},
           run' \in [Agents -> Readings \cup {None}], online' \subseteq Agents, lost' \subseteq Readings,
           judge' \in Agents \cup {Nobody}
    PROVE  Inv'
  <1>. USE DEF Inv
  <1>1. /\ sweep' \in [Agents -> SweepRows] /\ sweep'[a] = rec
        /\ \A b \in Agents \ {a} : sweep'[b] = sweep[b]
    BY DEF Types, Sweeps
  <1>2. Types'
    BY <1>1 DEF Types
  <1>3. Doers' /\ Rows'
    BY DEF Doers, Rows, Sound, Settled
  <1>4. Snapshots'
    BY <1>1 DEF Snapshots, Settled
  <1>5. Claims'
    BY <1>1 DEF Claims
  <1>6. ASSUME NEW g \in Goals
        PROVE  Cardinality(ReadingsOf(g))' + Cardinality(Askers(g))' <= Cardinality(Agents)
    <2>1. ReadingsOf(g)' = ReadingsOf(g)
      BY DEF ReadingsOf, Existing
    <2>2. CASE ReadingsOf(g) = {}
      <3>1. Askers(g)' \subseteq Agents
        BY DEF Askers
      <3>2. /\ Cardinality(Askers(g)') <= Cardinality(Agents) /\ Cardinality(Askers(g)') \in Nat
            /\ Cardinality(Agents) \in Nat
        BY <3>1, FS_Subset, FS_CardinalityType, VerificationConstants
      <3>3. Cardinality(ReadingsOf(g)') = 0
        BY <2>1, <2>2, FS_EmptySet
      <3>. QED
        BY <3>2, <3>3
    <2>3. CASE ReadingsOf(g) # {}
      <3>1. Askers(g)' \subseteq Askers(g)
        BY <1>1, <2>3 DEF Askers
      <3>2. Cardinality(Askers(g)') <= Cardinality(Askers(g)) /\ Cardinality(Askers(g)') \in Nat
        BY <3>1, FiniteCounts, FS_Subset, FS_CardinalityType
      <3>. QED
        BY <2>1, <3>2, FiniteCounts DEF Asked
    <2>. QED
      BY <2>2, <2>3
  <1>7. Asked'
    BY <1>6 DEF Asked
  <1>. QED
    BY <1>2, <1>3, <1>4, <1>5, <1>7

(* The steps of a sweep that read, or end it, and a gateway that dies. *)
LEMMA SweepKinds ==
    ASSUME Inv, NEW a \in Agents,
           \/ ListsGoals(a) \/ ListsPeers(a) \/ ListsRejections(a) \/ EndsSweep(a) \/ Dies(a)
    PROVE  Inv'
  <1>1. /\ sweep[a] \in SweepRows /\ run \in [Agents -> Readings \cup {None}]
        /\ online \subseteq Agents /\ lost \subseteq Readings /\ judge \in Agents \cup {Nobody}
    BY DEF Inv, Types
  <1>2. \A r \in sweep[a].goals :
          /\ Settled(r.id) /\ r.by = goal[r.id].by /\ r.bar = goal[r.id].bar /\ a \in Askers(r.id)
    BY DEF Inv, Snapshots, Askers
  <1>3. CASE ListsGoals(a)
    <2>. DEFINE listed == {[id |-> g, by |-> goal[g].by, bar |-> goal[g].bar] : g \in NeedsVerification}
                phase == IF NeedsVerification = {} THEN "rejections" ELSE "peers"
                rec == [Resting EXCEPT !.at = phase, !.goals = listed]
    <2>1. \A g \in NeedsVerification :
            /\ g \in Goals /\ goal[g] \in GoalRows /\ Settled(g) /\ ReadingsOf(g) = {}
      BY DEF NeedsVerification, Inv, Types, Settled
    <2>2. listed \subseteq Listed
      BY <2>1 DEF Listed, GoalRows
    <2>3. \A r \in listed :
            /\ Settled(r.id) /\ r.by = goal[r.id].by /\ r.bar = goal[r.id].bar
            /\ ReadingsOf(r.id) = {}
      BY <2>1
    <2>4. Sweeps(a, rec) /\ UNCHANGED <<goal, reading, rework, run, online, lost, judge>>
      BY <1>3 DEF ListsGoals
    <2>5. phase \in {"rejections", "peers"}
      OBVIOUS
    <2>. HIDE DEF listed, phase
    <2>6. rec \in SweepRows /\ rec.goals = listed /\ rec.claimed = None
      BY <2>2, <2>5 DEF SweepRows, Resting
    <2>. HIDE DEF rec
    <2>. QED
      BY <1>1, <2>3, <2>4, <2>6, SweepStepKeeps
  <1>4. CASE ListsPeers(a)
    <2>. DEFINE rec == [sweep[a] EXCEPT !.at = "opening", !.peers = online]
    <2>1. Sweeps(a, rec) /\ UNCHANGED <<goal, reading, rework, run, online, lost, judge>>
      BY <1>4 DEF ListsPeers
    <2>2. rec \in SweepRows /\ rec.goals = sweep[a].goals /\ rec.claimed = sweep[a].claimed
      BY <1>1 DEF SweepRows
    <2>. HIDE DEF rec
    <2>. QED
      BY <1>1, <1>2, <2>1, <2>2, SweepStepKeeps
  <1>5. CASE ListsRejections(a)
    <2>. DEFINE phase == IF Rejected = {} THEN "idle" ELSE "following"
                rec == [Resting EXCEPT !.at = phase, !.rejected = Rejected]
    <2>1. Sweeps(a, rec) /\ UNCHANGED <<goal, reading, rework, run, online, lost, judge>>
      BY <1>5 DEF ListsRejections
    <2>2. Rejected \subseteq Readings /\ phase \in {"idle", "following"}
      BY DEF Rejected, Existing
    <2>. HIDE DEF phase
    <2>3. rec \in SweepRows /\ rec.goals = {} /\ rec.claimed = None
      BY <2>2 DEF SweepRows, Resting
    <2>. HIDE DEF rec
    <2>. QED
      BY <1>1, <2>1, <2>3, SweepStepKeeps
  <1>6. CASE EndsSweep(a)
    BY <1>1, <1>6, FreshRows, SweepStepKeeps DEF EndsSweep
  <1>7. CASE Dies(a)
    <2>1. /\ Sweeps(a, Resting) /\ UNCHANGED <<goal, reading, rework, judge>>
          /\ online' \subseteq Agents /\ run' \in [Agents -> Readings \cup {None}]
      BY <1>1, <1>7 DEF Dies
    <2>2. lost' \subseteq Readings
      BY <1>1, <1>7 DEF Dies, SweepRows
    <2>. QED
      BY <1>1, <2>1, <2>2, FreshRows, SweepStepKeeps
  <1>. QED
    BY <1>3, <1>4, <1>5, <1>6, <1>7

(* The judge changes, or a gateway comes back: nothing else moves. *)
LEMMA OthersStep ==
    ASSUME Inv, Judges \subseteq Agents \cup {Nobody},
           (\E j \in Judges : SetJudge(j)) \/ \E a \in Agents : Returns(a)
    PROVE  Inv'
  <1>1. /\ UNCHANGED <<goal, reading, rework, sweep, run, lost>>
        /\ online' \subseteq Agents /\ judge' \in Agents \cup {Nobody}
    BY DEF SetJudge, Returns, Inv, Types
  <1>. QED
    BY <1>1, RowsStep DEF Inv, Types

(* Who may check is an agent, and not who did the work. *)
LEMMA CheckersArePeers ==
    ASSUME Inv, NEW did, NEW up \in SUBSET Agents, NEW c \in Checkers(did, up)
    PROVE  c \in Agents /\ c # did
  BY DEF Checkers, Inv, Types

(* One of the goals a sweep listed is dropped from its list, with no reading. *)
LEMMA DropsGoal ==
    ASSUME Inv, NEW a \in Agents, NEW g \in sweep[a].goals, OpensVerification(a, g),
           UNCHANGED reading
    PROVE  Inv'
  <1>. DEFINE rec == [sweep[a] EXCEPT !.goals = sweep[a].goals \ {g}]
  <1>1. /\ sweep[a] \in SweepRows /\ run \in [Agents -> Readings \cup {None}]
        /\ online \subseteq Agents /\ lost \subseteq Readings /\ judge \in Agents \cup {Nobody}
    BY DEF Inv, Types
  <1>2. Sweeps(a, rec) /\ UNCHANGED <<goal, rework, judge, online, run, lost>>
    BY DEF OpensVerification
  <1>3. rec \in SweepRows /\ rec.goals \subseteq sweep[a].goals /\ rec.claimed = sweep[a].claimed
    BY <1>1 DEF SweepRows
  <1>4. \A r \in sweep[a].goals :
          Settled(r.id) /\ r.by = goal[r.id].by /\ r.bar = goal[r.id].bar /\ a \in Askers(r.id)
    BY DEF Inv, Snapshots, Askers
  <1>. HIDE DEF rec
  <1>. QED
    BY <1>1, <1>2, <1>3, <1>4, SweepStepKeeps

(* The reading of one of the goals a sweep listed is opened: the sweep no longer  *)
(* asks for it, and the new reading takes its place in the count.               *)
LEMMA OpensReading ==
    ASSUME Inv, NEW a \in Agents, NEW g \in sweep[a].goals, OpensVerification(a, g),
           NEW c \in Checkers(g.by, sweep[a].peers), Existing # Readings,
           reading' = [reading EXCEPT ![NewId] = Opened(g, c)]
    PROVE  Inv'
  <1>. DEFINE w == NewId
              new == Opened(g, c)
              rec == [sweep[a] EXCEPT !.goals = sweep[a].goals \ {g}]
  <1>1. /\ sweep \in [Agents -> SweepRows] /\ reading \in [Readings -> ReadingRows]
        /\ g \in Listed /\ sweep[a].peers \in SUBSET Agents
    BY DEF Inv, Types, SweepRows
  <1>2. w \in Readings /\ w \notin Existing /\ reading[w].state = "absent"
    BY DEF NewId, Existing
  <1>3. reading[w] = Absent /\ ~ reading[w].followed
    BY <1>2, FreshRows DEF Inv, Rows
  <1>4. c \in Agents /\ c # g.by
    BY <1>1, CheckersArePeers
  <1>5. /\ new \in ReadingRows /\ new.state = "submitted" /\ new.goal = g.id
        /\ new.bar = g.bar /\ new.assigned = c /\ ~ new.followed
    BY <1>1, <1>4, FreshRows
  <1>. HIDE DEF w, new
  <1>6. /\ reading' = [reading EXCEPT ![w] = new] /\ reading' \in [Readings -> ReadingRows]
        /\ reading'[w] = new /\ \A v \in Readings \ {w} : reading'[v] = reading[v]
    BY <1>1, <1>2, <1>5 DEF w, new
  <1>7. /\ sweep' = [sweep EXCEPT ![a] = rec]
        /\ UNCHANGED <<goal, rework, judge, online, run, lost>>
    BY DEF OpensVerification, Sweeps
  <1>8. /\ rec \in SweepRows /\ rec.goals = sweep[a].goals \ {g}
        /\ rec.claimed = sweep[a].claimed
    BY <1>1 DEF SweepRows
  <1>. HIDE DEF rec
  <1>9. /\ sweep' \in [Agents -> SweepRows] /\ sweep'[a] = rec
        /\ \A b \in Agents \ {a} : sweep'[b] = sweep[b]
        /\ \A b \in Agents : sweep'[b].goals \subseteq sweep[b].goals
                             /\ sweep'[b].claimed = sweep[b].claimed
    BY <1>1, <1>7, <1>8
  <1>10. /\ Settled(g.id) /\ g.by = goal[g.id].by /\ g.bar = goal[g.id].bar /\ g.id \in Goals
    BY <1>1 DEF Inv, Snapshots, Listed
  <1>11. Types'
    BY <1>6, <1>7, <1>9 DEF Inv, Types
  <1>12. Doers'
    BY <1>7 DEF Inv, Doers
  <1>13. Snapshots'
    BY <1>7, <1>9 DEF Inv, Snapshots, Settled
  <1>14. Rows'
    <2>1. Sound(new)
      BY <1>4, <1>5, <1>10 DEF Sound
    <2>2. \A r : Sound(r)' <=> Sound(r)
      BY <1>7 DEF Sound, Settled
    <2>. QED
      BY <1>5, <1>6, <2>1, <2>2 DEF Inv, Rows
  <1>15. Claims'
    <2>1. rework[w] = 0
      BY <1>2, <1>3 DEF Inv, Claims
    <2>2. \A b \in Agents : sweep[b].claimed # w \/ w = None
      BY <1>3 DEF Inv, Claims
    <2>3. w # None /\ None \notin Readings
      BY <1>2, VerificationConstants
    <2>4. \A v \in Readings : rework'[v] <= 1 /\ (~ reading'[v].followed => rework'[v] = 0)
      BY <1>6, <1>7, <2>1 DEF Inv, Claims
    <2>5. ASSUME NEW b \in Agents, sweep'[b].claimed # None
          PROVE  reading'[sweep'[b].claimed].followed /\ rework'[sweep'[b].claimed] = 0
      <3>1. sweep[b].claimed \in Readings \ {w}
        BY <1>1, <1>9, <2>2, <2>3, <2>5 DEF SweepRows
      <3>. QED
        BY <1>6, <1>7, <1>9, <2>5, <3>1 DEF Inv, Claims
    <2>. QED
      BY <1>9, <2>4, <2>5 DEF Inv, Claims
  <1>16. ASSUME NEW h \in Goals
         PROVE  Cardinality(ReadingsOf(h)') + Cardinality(Askers(h)') <= Cardinality(Agents)
    <2>1. Askers(h)' \subseteq Askers(h)
      BY <1>9 DEF Askers
    <2>2. Cardinality(Askers(h)') <= Cardinality(Askers(h)) /\ Cardinality(Askers(h)') \in Nat
      BY <2>1, FiniteCounts, FS_Subset, FS_CardinalityType
    <2>3. CASE h # g.id
      <3>1. ReadingsOf(h)' = ReadingsOf(h)
        BY <1>2, <1>5, <1>6, <2>3 DEF ReadingsOf, Existing
      <3>. QED
        BY <2>2, <3>1, FiniteCounts DEF Inv, Asked
    <2>4. CASE h = g.id
      <3>1. /\ ReadingsOf(h)' = ReadingsOf(h) \cup {w} /\ w \notin ReadingsOf(h)
        BY <1>2, <1>5, <1>6, <2>4 DEF ReadingsOf, Existing
      <3>2. \A r \in sweep[a].goals : r.id = g.id => r = g
        <4>1. ASSUME NEW r \in sweep[a].goals, r.id = g.id PROVE r = g
          <5>1. r \in Listed /\ r.by = g.by /\ r.bar = g.bar
            BY <1>1, <1>10, <4>1 DEF Inv, Snapshots, SweepRows
          <5>. QED
            BY <1>1, <4>1, <5>1 DEF Listed
        <4>. QED
          BY <4>1
      <3>3. a \in Askers(h) /\ Askers(h)' \subseteq Askers(h) \ {a}
        BY <1>8, <1>9, <2>1, <2>4, <3>2 DEF Askers
      <3>4. /\ Cardinality(ReadingsOf(h)') = Cardinality(ReadingsOf(h)) + 1
            /\ Cardinality(Askers(h) \ {a}) = Cardinality(Askers(h)) - 1
            /\ IsFiniteSet(Askers(h) \ {a})
        <4>1. IsFiniteSet(ReadingsOf(h)) /\ IsFiniteSet(Askers(h))
          BY FiniteCounts
        <4>2. Cardinality(ReadingsOf(h) \cup {w}) = Cardinality(ReadingsOf(h)) + 1
          BY <3>1, <4>1, FS_AddElement
        <4>3. /\ Cardinality(Askers(h) \ {a}) = Cardinality(Askers(h)) - 1
              /\ IsFiniteSet(Askers(h) \ {a})
          BY <3>3, <4>1, FS_RemoveElement
        <4>. QED
          BY <3>1, <4>2, <4>3
      <3>5. /\ Cardinality(Askers(h)') <= Cardinality(Askers(h) \ {a})
            /\ Cardinality(Askers(h)') \in Nat
        BY <3>3, <3>4, FS_Subset, FS_CardinalityType
      <3>6. Cardinality(ReadingsOf(h)) + Cardinality(Askers(h)) <= Cardinality(Agents)
        BY DEF Inv, Asked
      <3>. QED
        BY <3>4, <3>5, <3>6, FiniteCounts
    <2>. QED
      BY <2>3, <2>4
  <1>17. Asked'
    BY <1>16 DEF Asked
  <1>. QED
    BY <1>11, <1>12, <1>13, <1>14, <1>15, <1>17 DEF Inv

LEMMA OpensStep ==
    ASSUME Inv, NEW a \in Agents, NEW g \in sweep[a].goals, OpensVerification(a, g)
    PROVE  Inv'
  <1>1. CASE UNCHANGED reading
    BY <1>1, DropsGoal
  <1>2. CASE ~ UNCHANGED reading
    <2>1. Existing # Readings
      BY <1>2 DEF OpensVerification
    <2>2. PICK c \in Checkers(g.by, sweep[a].peers) :
             reading' = [reading EXCEPT ![NewId] = Opened(g, c)]
      BY <1>2 DEF OpensVerification
    <2>. QED
      BY <2>1, <2>2, OpensReading
  <1>. QED
    BY <1>1, <1>2

(* A rejection that a peer claimed first is passed over. *)
LEMMA PassesRejection ==
    ASSUME Inv, NEW a \in Agents, NEW v \in Readings, ClaimsRejection(a, v), ~ Claimable(v)
    PROVE  Inv'
  <1>. DEFINE rec == [sweep[a] EXCEPT !.rejected = sweep[a].rejected \ {v}, !.claimed = None]
  <1>1. /\ sweep[a] \in SweepRows /\ run \in [Agents -> Readings \cup {None}]
        /\ online \subseteq Agents /\ lost \subseteq Readings /\ judge \in Agents \cup {Nobody}
    BY DEF Inv, Types
  <1>2. Sweeps(a, rec) /\ UNCHANGED <<goal, reading, rework, judge, online, run, lost>>
    BY DEF ClaimsRejection
  <1>3. rec \in SweepRows /\ rec.goals = sweep[a].goals /\ rec.claimed = None
    BY <1>1 DEF SweepRows
  <1>4. \A r \in sweep[a].goals :
          Settled(r.id) /\ r.by = goal[r.id].by /\ r.bar = goal[r.id].bar /\ a \in Askers(r.id)
    BY DEF Inv, Snapshots, Askers
  <1>. HIDE DEF rec
  <1>. QED
    BY <1>1, <1>2, <1>3, <1>4, SweepStepKeeps

(* A rejection nobody had claimed: the claim is the only one, and no rework was  *)
(* opened for it yet.                                                        *)
LEMMA TakesRejection ==
    ASSUME Inv, NEW a \in Agents, NEW v \in Readings, ClaimsRejection(a, v), Claimable(v)
    PROVE  Inv'
  <1>. DEFINE old == reading[v]
              new == [old EXCEPT !.followed = TRUE]
              rec == [sweep[a] EXCEPT !.rejected = sweep[a].rejected \ {v}, !.claimed = v]
  <1>1. /\ sweep \in [Agents -> SweepRows] /\ reading \in [Readings -> ReadingRows]
        /\ old.state = "rejected" /\ ~ old.followed /\ old \in ReadingRows
    BY DEF Inv, Types, Claimable
  <1>2. Sound(old)
    BY <1>1 DEF Inv, Rows
  <1>3. /\ new \in ReadingRows /\ new.state = old.state /\ new.goal = old.goal /\ new.bar = old.bar
        /\ new.assigned = old.assigned /\ new.by = old.by /\ new.followed
    BY <1>1 DEF ReadingRows
  <1>4. reading' = [reading EXCEPT ![v] = new] /\ sweep' = [sweep EXCEPT ![a] = rec]
        /\ UNCHANGED <<goal, rework, judge, online, run, lost>>
    BY <1>1 DEF ClaimsRejection, Sweeps
  <1>5. rec \in SweepRows /\ rec.goals = sweep[a].goals /\ rec.claimed = v
    <2>1. sweep[a] \in SweepRows
      BY <1>1
    <2>. QED
      BY <2>1 DEF SweepRows
  <1>. HIDE DEF new, rec
  <1>6. /\ reading' \in [Readings -> ReadingRows] /\ reading'[v] = new
        /\ \A w \in Readings \ {v} : reading'[w] = reading[w]
    BY <1>1, <1>3, <1>4
  <1>7. /\ sweep' \in [Agents -> SweepRows] /\ sweep'[a] = rec
        /\ \A b \in Agents \ {a} : sweep'[b] = sweep[b]
        /\ \A b \in Agents : sweep'[b].goals = sweep[b].goals
    BY <1>1, <1>4, <1>5
  <1>8. Types'
    BY <1>4, <1>6, <1>7 DEF Inv, Types
  <1>9. Doers' /\ Snapshots'
    BY <1>4, <1>7 DEF Inv, Doers, Snapshots, Settled
  <1>10. Rows'
    <2>1. Sound(new)
      BY <1>1, <1>2, <1>3 DEF Sound
    <2>2. \A r : Sound(r)' <=> Sound(r)
      BY <1>4 DEF Sound, Settled
    <2>. QED
      BY <1>1, <1>3, <1>6, <2>1, <2>2 DEF Inv, Rows
  <1>11. Claims'
    <2>1. rework[v] = 0 /\ \A b \in Agents : sweep[b].claimed # v
      BY <1>1, VerificationConstants DEF Inv, Claims
    <2>2. \A w \in Readings : rework'[w] <= 1 /\ (~ reading'[w].followed => rework'[w] = 0)
      BY <1>3, <1>4, <1>6 DEF Inv, Claims
    <2>3. ASSUME NEW b \in Agents, sweep'[b].claimed # None
          PROVE  reading'[sweep'[b].claimed].followed /\ rework'[sweep'[b].claimed] = 0
      <3>1. CASE b = a
        BY <1>3, <1>4, <1>5, <1>6, <1>7, <2>1, <3>1
      <3>2. CASE b # a
        <4>1. sweep'[b] = sweep[b] /\ sweep[b].claimed \in Readings \ {v}
          BY <1>1, <1>7, <2>1, <2>3, <3>2 DEF SweepRows
        <4>. QED
          BY <1>4, <1>6, <2>3, <4>1 DEF Inv, Claims
      <3>. QED
        BY <3>1, <3>2
    <2>4. ASSUME NEW b \in Agents, NEW d \in Agents, b # d, sweep'[b].claimed # None
          PROVE  sweep'[b].claimed # sweep'[d].claimed
      BY <1>5, <1>7, <2>1, <2>4 DEF Inv, Claims
    <2>. QED
      BY <2>2, <2>3, <2>4 DEF Claims
  <1>12. Asked'
    <2>1. \A h \in Goals : ReadingsOf(h)' = ReadingsOf(h) /\ Askers(h)' = Askers(h)
      BY <1>1, <1>3, <1>6, <1>7 DEF ReadingsOf, Existing, Askers
    <2>. QED
      BY <2>1 DEF Inv, Asked
  <1>. QED
    BY <1>8, <1>9, <1>10, <1>11, <1>12 DEF Inv

(* The rework of a claimed rejection is opened, and the claim is used up. *)
LEMMA ReworkStep ==
    ASSUME Inv, NEW a \in Agents, OpensRework(a)
    PROVE  Inv'
  <1>. DEFINE v == sweep[a].claimed
              rec == [sweep[a] EXCEPT !.claimed = None]
  <1>1. /\ sweep \in [Agents -> SweepRows] /\ rework \in [Readings -> Nat] /\ v # None
    BY DEF Inv, Types, OpensRework
  <1>2. v \in Readings /\ reading[v].followed /\ rework[v] = 0
    BY <1>1 DEF Inv, Claims, SweepRows
  <1>3. /\ rework' = [rework EXCEPT ![v] = rework[v] + 1] /\ sweep' = [sweep EXCEPT ![a] = rec]
        /\ UNCHANGED <<goal, reading, judge, online, run, lost>>
    BY DEF OpensRework, Sweeps
  <1>4. rec \in SweepRows /\ rec.goals = sweep[a].goals /\ rec.claimed = None
    BY <1>1 DEF SweepRows
  <1>5. \A b \in Agents \ {a} : sweep[b].claimed # v
    BY <1>1 DEF Inv, Claims
  <1>. HIDE DEF v, rec
  <1>6. /\ rework' \in [Readings -> Nat] /\ rework'[v] = 1
        /\ \A w \in Readings \ {v} : rework'[w] = rework[w]
    BY <1>1, <1>2, <1>3
  <1>7. /\ sweep' \in [Agents -> SweepRows] /\ sweep'[a] = rec
        /\ \A b \in Agents \ {a} : sweep'[b] = sweep[b]
        /\ \A b \in Agents : sweep'[b].goals = sweep[b].goals
    BY <1>1, <1>3, <1>4
  <1>8. Types'
    BY <1>3, <1>6, <1>7 DEF Inv, Types
  <1>9. Doers' /\ Snapshots' /\ Rows'
    BY <1>3, <1>7 DEF Inv, Doers, Snapshots, Rows, Sound, Settled
  <1>10. Claims'
    <2>1. \A w \in Readings : rework'[w] <= 1 /\ (~ reading'[w].followed => rework'[w] = 0)
      BY <1>2, <1>3, <1>6 DEF Inv, Claims
    <2>2. ASSUME NEW b \in Agents, sweep'[b].claimed # None
          PROVE  reading'[sweep'[b].claimed].followed /\ rework'[sweep'[b].claimed] = 0
      <3>1. b # a /\ sweep'[b] = sweep[b] /\ sweep[b].claimed \in Readings \ {v}
        BY <1>1, <1>4, <1>5, <1>7, <2>2 DEF SweepRows
      <3>. QED
        BY <1>3, <1>6, <2>2, <3>1 DEF Inv, Claims
    <2>3. ASSUME NEW b \in Agents, NEW d \in Agents, b # d, sweep'[b].claimed # None
          PROVE  sweep'[b].claimed # sweep'[d].claimed
      BY <1>4, <1>7, <2>3 DEF Inv, Claims
    <2>. QED
      BY <2>1, <2>2, <2>3 DEF Claims
  <1>11. Asked'
    <2>1. \A h \in Goals : ReadingsOf(h)' = ReadingsOf(h) /\ Askers(h)' = Askers(h)
      BY <1>3, <1>7 DEF ReadingsOf, Existing, Askers
    <2>. QED
      BY <2>1 DEF Inv, Asked
  <1>. QED
    BY <1>8, <1>9, <1>10, <1>11 DEF Inv

----------------------------------------------------------------------------
(* Theorems                                                                 *)

LEMMA NextInv == Inv /\ [Next]_vars => Inv'
  <1>. SUFFICES ASSUME Inv, [Next]_vars PROVE Inv'
    OBVIOUS
  <1>1. ASSUME NEW a \in Agents, SweepStep(a) PROVE Inv'
    <2>1. ASSUME NEW v \in Readings, ClaimsRejection(a, v) PROVE Inv'
      BY <2>1, PassesRejection, TakesRejection
    <2>2. ASSUME NEW g \in sweep[a].goals, OpensVerification(a, g) PROVE Inv'
      BY <2>2, OpensStep
    <2>. QED
      BY <1>1, <2>1, <2>2, SweepKinds, ReworkStep DEF SweepStep
  <1>2. ASSUME NEW a \in Agents, Dies(a) \/ Returns(a) PROVE Inv'
    BY <1>2, SweepKinds, OthersStep, VerificationConstants
  <1>3. ASSUME NEW g \in Goals, SetAcceptance(g) \/ \E a \in Agents : Completes(a, g) PROVE Inv'
    BY <1>3, GoalStep
  <1>4. ASSUME NEW j \in Judges, SetJudge(j) PROVE Inv'
    BY <1>4, OthersStep, VerificationConstants
  <1>5. CASE RelaxDeadAssignments
    BY <1>5, RelaxStep
  <1>6. ASSUME NEW v \in Readings, ReapExhausted(v) \/ CancelTask(v) \/ LeaseEnds(v) PROVE Inv'
    BY <1>6, ReadingStep
  <1>7. ASSUME NEW v \in Readings, NEW a \in Agents,
               ClaimTask(a, v) \/ \E verdict \in Verdicts : FinishAgain(a, v, verdict)
        PROVE  Inv'
    BY <1>7, ReadingStep
  <1>8. ASSUME NEW a \in Agents, NEW verdict \in Verdicts, FinishTask(a, verdict) PROVE Inv'
    BY <1>8, FinishStep
  <1>9. CASE UNCHANGED vars
    BY <1>9, RowsStep DEF vars, Inv, Types
  <1>. QED
    BY <1>1, <1>2, <1>3, <1>4, <1>5, <1>6, <1>7, <1>8, <1>9 DEF Next

LEMMA InvHolds == Spec => []Inv
  BY InitInv, NextInv, PTL DEF Spec

(* Every variable keeps its type, with any number of gateways, goals and readings. *)
THEOREM TypeCorrect == Spec => []TypeOK
  <1>1. Inv => TypeOK
    BY DEF Inv, Types, TypeOK, GoalRows, ReadingRows, SweepRows
  <1>. QED
    BY InvHolds, <1>1, PTL

(* However many gateways sweep, die and come back, a rejection opens one task of    *)
(* rework (verify.go, FollowUpRejection), and only one that a reader gave.         *)
THEOREM RejectionsOpenOneRework == Spec => []OneReworkPerRejection
  <1>1. ASSUME Inv PROVE OneReworkPerRejection
    <2>. SUFFICES ASSUME NEW v \in Readings
                  PROVE  /\ rework[v] + Cardinality({a \in Agents : sweep[a].claimed = v}) <= 1
                         /\ rework[v] > 0 => reading[v].followed /\ reading[v].by # Nobody
      BY DEF OneReworkPerRejection
    <2>. DEFINE holders == {a \in Agents : sweep[a].claimed = v}
    <2>1. /\ rework[v] \in Nat /\ rework[v] <= 1 /\ v # None
          /\ ~ reading[v].followed => rework[v] = 0
      BY <1>1, VerificationConstants DEF Inv, Types, Claims
    <2>2. ASSUME holders = {} PROVE rework[v] + Cardinality(holders) <= 1
      <3>1. Cardinality(holders) = 0
        BY <2>2, FS_EmptySet
      <3>. QED
        BY <2>1, <3>1
    <2>3. ASSUME holders # {} PROVE rework[v] + Cardinality(holders) <= 1
      <3>1. PICK a \in Agents : sweep[a].claimed = v
        BY <2>3
      <3>2. holders = {a} /\ rework[v] = 0
        BY <1>1, <2>1, <3>1 DEF Inv, Claims
      <3>3. Cardinality(holders) = 1
        BY <3>2, FS_Singleton
      <3>. QED
        BY <3>2, <3>3
    <2>4. reading[v].followed => reading[v].by # Nobody
      BY <1>1, FreshRows, ReaderIsKnown, VerificationConstants DEF Inv, Rows
    <2>5. rework[v] > 0 => reading[v].followed /\ reading[v].by # Nobody
      BY <2>1, <2>4
    <2>6. rework[v] + Cardinality(holders) <= 1
      BY <2>2, <2>3
    <2>. QED
      BY <2>5, <2>6
  <1>. QED
    BY InvHolds, <1>1, PTL

(* A reading is never addressed to the agent whose work it reads, whoever the judge *)
(* is, however it changes, and whoever is online (runner.go, pickChecker).         *)
THEOREM ReadersArePeers == Spec => []AddressedToAPeer
  <1>1. Inv => AddressedToAPeer
    BY DEF Inv, AddressedToAPeer, Existing, Rows, Sound
  <1>. QED
    BY InvHolds, <1>1, PTL

(* The bar a reader was given stays the goal's: the criteria of a goal cannot be    *)
(* rewritten while it is read against them (verify.go, SetAcceptance).             *)
THEOREM TheBarStays == Spec => []BarIsNotMoved
  <1>1. Inv => BarIsNotMoved
    BY DEF Inv, BarIsNotMoved, Existing, Rows, Sound
  <1>. QED
    BY InvHolds, <1>1, PTL

(* A goal gets at most one reading per gateway, though nothing in the insert looks   *)
(* for another (verify.go, NeedsVerification and OpenVerification).               *)
THEOREM GoalsAreReadALittle == Spec => []ReadingsAreBounded
  <1>1. ASSUME Inv, NEW g \in Goals PROVE Cardinality(ReadingsOf(g)) <= Cardinality(Agents)
    BY <1>1, FiniteCounts DEF Inv, Asked
  <1>2. Inv => ReadingsAreBounded
    BY <1>1 DEF ReadingsAreBounded
  <1>. QED
    BY InvHolds, <1>2, PTL

(* All of it, at every moment of every run. *)
THEOREM VerificationIsSafe == Spec => []VerificationSafe
  BY TypeCorrect, RejectionsOpenOneRework, ReadersArePeers, TheBarStays, GoalsAreReadALittle, PTL
     DEF VerificationSafe

-----------------------------------------------------------------------------
(* The resolver of a turn's plugins, PluginKit.tla. *)

CONSTANTS Last, Forge

VARIABLES manifest, status, first, passes, done

Kit == INSTANCE PluginKit

(* Nobody runs that something stops by itself, every set that holds together still *)
(* runs, and the plugins that run bound the passes left.                        *)
KitInv ==
    /\ manifest \in [Kit!Plugins -> [needs : SUBSET (Kit!Plugins \union {Forge}), forge : BOOLEAN]]
    /\ \A p \in Kit!Plugins : manifest[p] \in Kit!Manifest(p)
    /\ status \in [Kit!Plugins -> {"stopped", "pending", "active"}]
    /\ done \in BOOLEAN /\ passes \in Nat
    /\ first \subseteq Kit!Plugins /\ Kit!Active(status) \subseteq first
    /\ \A S \in SUBSET first : Kit!Holds(S) => S \subseteq Kit!Active(status)
    /\ ~done => passes + Cardinality(Kit!Active(status)) <= Last
    /\ done => passes <= Last + 1 /\ Kit!Holds(Kit!Active(status))

LEMMA ActiveIsFinite ==
    ASSUME Last \in Nat, NEW st
    PROVE  /\ IsFiniteSet(Kit!Active(st)) /\ Cardinality(Kit!Active(st)) \in 0 .. Last
           /\ \A S \in SUBSET Kit!Active(st) :
                /\ Cardinality(S) <= Cardinality(Kit!Active(st))
                /\ S # Kit!Active(st) => Cardinality(S) < Cardinality(Kit!Active(st))
                /\ Cardinality(S) \in Nat
  <1>1. IsFiniteSet(Kit!Plugins) /\ Cardinality(Kit!Plugins) = Last
    BY FS_Interval DEF Kit!Plugins
  <1>2. Kit!Active(st) \subseteq Kit!Plugins
    BY DEF Kit!Active
  <1>3. IsFiniteSet(Kit!Active(st)) /\ Cardinality(Kit!Active(st)) <= Last
    BY <1>1, <1>2, FS_Subset
  <1>4. Cardinality(Kit!Active(st)) \in Nat
    BY <1>3, FS_CardinalityType
  <1>5. ASSUME NEW S \in SUBSET Kit!Active(st)
        PROVE  /\ Cardinality(S) <= Cardinality(Kit!Active(st))
               /\ S # Kit!Active(st) => Cardinality(S) < Cardinality(Kit!Active(st))
               /\ Cardinality(S) \in Nat
    <2>1. IsFiniteSet(S) /\ Cardinality(S) <= Cardinality(Kit!Active(st))
          /\ (Cardinality(Kit!Active(st)) = Cardinality(S) => Kit!Active(st) = S)
      BY <1>3, FS_Subset
    <2>2. Cardinality(S) \in Nat
      BY <2>1, FS_CardinalityType
    <2>. QED
      BY <1>4, <2>1, <2>2
  <1>. QED
    BY <1>3, <1>4, <1>5

LEMMA KitInit ==
    ASSUME Last \in Nat, Kit!Init
    PROVE  KitInv
  <1>1. manifest \in [Kit!Plugins -> [needs : SUBSET (Kit!Plugins \union {Forge}), forge : BOOLEAN]]
    BY DEF Kit!Init, Kit!Manifest
  <1>2. \A p \in Kit!Plugins : manifest[p] \in Kit!Manifest(p)
    <2>1. ASSUME NEW p \in Kit!Plugins
          PROVE  manifest[p] \in Kit!Manifest(p)
      <3>1. p \notin manifest[p].needs
        BY DEF Kit!Init
      <3>2. manifest[p] \in [needs : SUBSET (Kit!Plugins \union {Forge}), forge : BOOLEAN]
        BY <1>1
      <3>. QED
        BY <3>1, <3>2 DEF Kit!Manifest
    <2>. QED
      BY <2>1
  <1>3. Cardinality(Kit!Active(status)) <= Last /\ Cardinality(Kit!Active(status)) \in Nat
    BY ActiveIsFinite
  <1>4. /\ status \in [Kit!Plugins -> {"stopped", "pending", "active"}]
        /\ first = Kit!Active(status) /\ Kit!Active(status) \subseteq Kit!Plugins /\ passes = 0 /\ done = FALSE
    BY DEF Kit!Init, Kit!Active
  <1>5. \A S \in SUBSET first : Kit!Holds(S) => S \subseteq Kit!Active(status)
    BY <1>4
  <1>6. ~done /\ (~done => passes + Cardinality(Kit!Active(status)) <= Last)
    BY <1>3, <1>4
  <1>. QED
    BY <1>1, <1>2, <1>4, <1>5, <1>6 DEF KitInv

LEMMA KitStep ==
    ASSUME Last \in Nat, KitInv, [Kit!Next]_(Kit!vars)
    PROVE  KitInv'
  <1>1. CASE UNCHANGED Kit!vars
    BY <1>1 DEF KitInv, Kit!vars, Kit!Active, Kit!Holds, Kit!Manifest, Kit!Provided, Kit!Gives
  <1>2. CASE Kit!Pass
    <2>. USE DEF Kit!Plugins
    <2>1. /\ status' \in [Kit!Plugins -> {"stopped", "pending", "active"}]
          /\ UNCHANGED <<manifest, first>> /\ ~done /\ passes' = passes + 1
          /\ done' <=> status' = status
      BY <1>2 DEF KitInv, Kit!Pass, Kit!Changed
    <2>2. ASSUME NEW p \in Kit!Plugins
          PROVE  p \in Kit!Active(status') <=> (p \in Kit!Active(status) /\ manifest[p].needs \subseteq Kit!Provided(Kit!Active(status)))
      BY <1>2, <2>2 DEF Kit!Pass, Kit!Waits, Kit!Active, KitInv
    <2>3. Kit!Active(status') \subseteq Kit!Active(status)
      BY <2>2 DEF Kit!Active
    <2>4. \A S : Kit!Holds(S)' = Kit!Holds(S)
      BY <2>1 DEF Kit!Holds, Kit!Provided, Kit!Gives
    <2>5. ASSUME NEW S \in SUBSET first, Kit!Holds(S)
          PROVE  S \subseteq Kit!Active(status')
      <3>1. S \subseteq Kit!Active(status) /\ S \subseteq Kit!Plugins
        BY <2>5 DEF KitInv
      <3>2. Kit!Provided(S) \subseteq Kit!Provided(Kit!Active(status))
        BY <3>1 DEF Kit!Provided
      <3>3. \A p \in S : manifest[p].needs \subseteq Kit!Provided(Kit!Active(status))
        BY <2>5, <3>2 DEF Kit!Holds
      <3>. QED
        BY <2>2, <3>1, <3>3
    <2>6. CASE status' = status
      <3>1. Kit!Holds(Kit!Active(status'))
        BY <2>2, <2>6 DEF Kit!Holds, Kit!Active
      <3>2. passes' <= Last + 1
        BY <2>1, ActiveIsFinite DEF KitInv
      <3>3. /\ first' \subseteq Kit!Plugins /\ Kit!Active(status)' \subseteq first'
            /\ Kit!Active(status)' = Kit!Active(status')
        BY <2>1, <2>3 DEF KitInv, Kit!Active
      <3>5. \A S \in SUBSET first' : Kit!Holds(S)' => S \subseteq Kit!Active(status)'
        BY <2>1, <2>4, <2>5, <3>3
      <3>6. Kit!Holds(Kit!Active(status))'
        BY <2>1, <3>1 DEF Kit!Holds, Kit!Provided, Kit!Gives, Kit!Active
      <3>4. done' /\ done' \in BOOLEAN /\ passes' \in Nat
        BY <1>2, <2>1, <2>6 DEF KitInv, Kit!Pass, Kit!Changed
      <3>. QED
        BY <2>1, <3>2, <3>3, <3>4, <3>5, <3>6 DEF KitInv, Kit!Manifest
    <2>7. CASE status' # status
      <3>1. PICK p \in Kit!Plugins : status'[p] # status[p]
        BY <2>1, <2>7 DEF KitInv
      <3>2. p \in Kit!Active(status) /\ p \notin Kit!Active(status')
        BY <1>2, <3>1 DEF Kit!Pass, Kit!Waits, Kit!Active, KitInv
      <3>3. Cardinality(Kit!Active(status')) < Cardinality(Kit!Active(status)) /\ Cardinality(Kit!Active(status')) \in Nat
            /\ Cardinality(Kit!Active(status)) \in Nat
        BY <2>3, <3>2, ActiveIsFinite
      <3>4. passes' + Cardinality(Kit!Active(status')) <= Last
        BY <2>1, <3>3 DEF KitInv
      <3>5. ~done' /\ done' \in BOOLEAN /\ passes' \in Nat
        BY <1>2, <2>1, <2>7 DEF KitInv, Kit!Pass, Kit!Changed
      <3>6. first' \subseteq Kit!Plugins /\ Kit!Active(status)' \subseteq first' /\ Kit!Active(status)' = Kit!Active(status')
        BY <2>1, <2>3 DEF KitInv, Kit!Active
      <3>7. \A S \in SUBSET first' : Kit!Holds(S)' => S \subseteq Kit!Active(status)'
        BY <2>1, <2>4, <2>5, <3>6
      <3>. QED
        BY <2>1, <3>4, <3>5, <3>6, <3>7 DEF KitInv, Kit!Manifest
    <2>. QED
      BY <2>6, <2>7
  <1>. QED
    BY <1>1, <1>2 DEF Kit!Next

(* The passes over a turn's plugins come to an end, and what they leave running is *)
(* the largest set in which everybody finds what it needs (plugins/load.go,         *)
(* resolve): for any number of plugins, any manifests and any switches.             *)
THEOREM KitIsSafe ==
    Last \in Nat /\ Kit!Spec => [](Kit!TypeOK /\ Kit!KitIsGreatest)
  <1>1. Last \in Nat /\ Kit!Init => KitInv
    BY KitInit
  <1>2. Last \in Nat /\ KitInv /\ [Kit!Next]_(Kit!vars) => KitInv'
    BY KitStep
  <1>3. Last \in Nat /\ KitInv => Kit!TypeOK /\ Kit!KitIsGreatest
    <2>. SUFFICES ASSUME Last \in Nat, KitInv
                  PROVE  Kit!TypeOK /\ Kit!KitIsGreatest
      OBVIOUS
    <2>1. passes \in 0 .. (Last + 1)
      BY ActiveIsFinite DEF KitInv
    <2>2. ASSUME done
          PROVE  Kit!Active(status) = UNION {S \in SUBSET first : Kit!Holds(S)}
      <3>1. Kit!Active(status) \in {S \in SUBSET first : Kit!Holds(S)}
        BY <2>2 DEF KitInv
      <3>2. \A S \in {T \in SUBSET first : Kit!Holds(T)} : S \subseteq Kit!Active(status)
        BY DEF KitInv
      <3>. QED
        BY <3>1, <3>2
    <2>. QED
      BY <2>1, <2>2 DEF KitInv, Kit!TypeOK, Kit!KitIsGreatest
  <1>4. CASE Last \in Nat
    BY <1>1, <1>2, <1>3, <1>4, PTL DEF Kit!Spec
  <1>. QED
    BY <1>4

-----------------------------------------------------------------------------
(* The hooks of a turn's plugins, PluginHooks.tla. *)

CONSTANTS Behaviours, MaxHooks, Timeout, Slack, Drain

VARIABLES event, hooks, at, spent, answer

Hooks == INSTANCE PluginHooks

HookLimits == Behaviours \subseteq Hooks!Behaviour /\ {MaxHooks, Timeout, Slack, Drain} \subseteq Nat

RefusedBy(i) == hooks[i].match /\ Hooks!Refuses(hooks[i])

(* Everything before the next hook let the call through, unless it was refused. *)
HookInv ==
    /\ event \in {"pre_tool", "post_tool"}
    /\ hooks \in Seq(Behaviours)
    /\ Hooks!TypeOK
    /\ answer = "none" => \A i \in 1 .. at - 1 : ~RefusedBy(i)
    /\ answer = "deny" => \E i \in 1 .. Len(hooks) : RefusedBy(i)
    /\ answer = "allow" => \A i \in 1 .. Len(hooks) : ~RefusedBy(i)

LEMMA HookInit ==
    ASSUME HookLimits, Hooks!Init
    PROVE  HookInv
  <1>1. PICK n \in 0 .. MaxHooks : hooks \in [1 .. n -> Behaviours]
    BY DEF Hooks!Init
  <1>2. n \in Nat
    BY DEF HookLimits
  <1>3. hooks \in Seq(Behaviours) /\ Len(hooks) = n
    BY <1>1, <1>2
  <1>4. Hooks!Limit \in Nat
    BY <1>2, <1>3, SMT DEF Hooks!Limit, HookLimits
  <1>. QED
    BY <1>2, <1>3, <1>4 DEF Hooks!Init, HookInv, Hooks!TypeOK, HookLimits

LEMMA HookStep ==
    ASSUME HookLimits, HookInv, [Hooks!Next]_(Hooks!vars)
    PROVE  HookInv'
  <1>. USE DEF HookLimits
  <1>0. hooks \in Seq(Behaviours) /\ Len(hooks) \in Nat /\ at \in 1 .. Len(hooks) + 1 /\ spent \in 0 .. Hooks!Limit
    BY DEF HookInv, Hooks!TypeOK
  <1>1. ASSUME UNCHANGED <<event, hooks>>
        PROVE  Hooks!Limit' = Hooks!Limit /\ \A i : RefusedBy(i)' = RefusedBy(i)
    BY <1>1 DEF Hooks!Limit, RefusedBy, Hooks!Refuses
  <1>2. CASE UNCHANGED Hooks!vars
    BY <1>1, <1>2 DEF Hooks!vars, HookInv, Hooks!TypeOK
  <1>3. CASE Hooks!Skip
    <2>1. ~RefusedBy(at) /\ at \in 1 .. Len(hooks)
      BY <1>0, <1>3 DEF Hooks!Skip, RefusedBy, Hooks!Running
    <2>2. UNCHANGED <<event, hooks, spent, answer>> /\ at' = at + 1 /\ answer = "none"
      BY <1>3 DEF Hooks!Skip, Hooks!Running
    <2>3. \A i \in 1 .. at' - 1 : i \in 1 .. at - 1 \/ i = at
      BY <1>0, <2>2
    <2>. QED
      BY <1>0, <1>1, <2>1, <2>2, <2>3 DEF HookInv, Hooks!TypeOK
  <1>4. CASE Hooks!RunOne
    <2>1. /\ UNCHANGED <<event, hooks>> /\ at' = at + 1 /\ at \in 1 .. Len(hooks) /\ answer = "none"
          /\ answer' = IF RefusedBy(at) THEN "deny" ELSE "none"
      BY <1>0, <1>4 DEF Hooks!RunOne, RefusedBy, Hooks!Running
    <2>2. spent' \in 0 .. Hooks!Limit
      <3>1. PICK s \in Hooks!Seconds(hooks[at]) : spent + s <= Hooks!Limit /\ spent' = spent + s
        BY <1>4 DEF Hooks!RunOne
      <3>2. s \in Nat
        BY <3>1 DEF Hooks!Seconds
      <3>. QED
        BY <1>0, <3>1, <3>2
    <2>3. \A i \in 1 .. at' - 1 : i \in 1 .. at - 1 \/ i = at
      BY <1>0, <2>1
    <2>. QED
      BY <1>0, <1>1, <2>1, <2>2, <2>3 DEF HookInv, Hooks!TypeOK
  <1>5. CASE Hooks!CutOff
    BY <1>0, <1>1, <1>5 DEF Hooks!CutOff, HookInv, Hooks!TypeOK
  <1>6. CASE Hooks!Allow
    <2>1. \A i \in 1 .. Len(hooks) : i \in 1 .. at - 1
      BY <1>0, <1>6 DEF Hooks!Allow
    <2>. QED
      BY <1>0, <1>1, <1>6, <2>1 DEF Hooks!Allow, HookInv, Hooks!TypeOK
  <1>. QED
    BY <1>2, <1>3, <1>4, <1>5, <1>6 DEF Hooks!Next

(* What the backend hears of a tool call is what its hooks say together, whatever  *)
(* their order and number, their timeouts and the limit on the run.                 *)
THEOREM HooksAreSafe ==
    HookLimits /\ Hooks!Spec => [](Hooks!TypeOK /\ Hooks!AnswerIsOfAll)
  <1>1. HookLimits /\ Hooks!Init => HookInv
    BY HookInit
  <1>2. HookLimits /\ HookInv /\ [Hooks!Next]_(Hooks!vars) => HookInv'
    BY HookStep
  <1>3. HookInv => Hooks!TypeOK /\ Hooks!AnswerIsOfAll
    BY DEF HookInv, Hooks!AnswerIsOfAll, RefusedBy
  <1>4. CASE HookLimits
    BY <1>1, <1>2, <1>3, <1>4, PTL DEF Hooks!Spec
  <1>. QED
    BY <1>4

-----------------------------------------------------------------------------
(* A project's folder in the browser, ProjectEditor.tla. *)

CONSTANTS Paths, Slots, MaxEdits, MaxAsks, MaxWrites

VARIABLES files, clock, typed, tabs, requests, asks, races

Editor == INSTANCE ProjectEditor

Texts == 0 .. typed
Times == 0 .. clock
Given == 1 .. clock
Whys == {"open", "reload", "new"}

FileRows == [text : Texts, mtime : Times]

TabRows ==
    [open : {TRUE}, text : Texts, saved : Texts, mtime : Times, of : Given,
     dirty : BOOLEAN, conflict : BOOLEAN]

LookRows == [op : {"read"}, path : Paths, for : Whys, at : {"sent", "failed"}]

ReadRows == [op : {"read"}, path : Paths, for : Whys, at : {"read"}, text : Texts, of : Given]

SaveRows ==
    [op : {"save"}, path : Paths, at : {"sent", "checked", "conflict"}, for : {"tab", "new"}, text : Texts,
     base : Times, of : Times]

WrittenRows ==
    [op : {"save"}, path : Paths, for : {"tab", "new"}, at : {"written"}, text : Texts, of : Given]

DoneRows ==
    [op : {"read", "save"}, path : Paths, for : Whys \cup {"tab"}, at : {"done"}, text : Texts, of : Given,
     mtime : Times]

RenameRows ==
    [op : {"rename"}, path : Paths, to : Paths, at : {"sent", "failed", "done"}, open : BOOLEAN,
     unsaved : {FALSE}]

DeleteRows == [op : {"delete"}, path : Paths, at : {"sent", "failed", "done"}, open : BOOLEAN]

AskRows ==
    {Editor!Idle} \cup LookRows \cup ReadRows \cup SaveRows \cup WrittenRows \cup DoneRows \cup RenameRows
    \cup DeleteRows

(* A time a look returned is that of the text it goes with, or somebody wrote in between. *)
Pairs(m, of) == m = 0 \/ m = of \/ m \in races

(* What a request under way knows of its file. *)
RowOK(r) ==
    /\ r.op = "save" /\ r.at \in {"sent", "checked"} => Pairs(r.base, r.of)
    /\ r.op \in {"read", "save"} /\ r.at = "done" => Pairs(r.mtime, r.of)
    /\ (r.op = "read" /\ r.at = "read") \/ (r.op = "save" /\ r.at = "written")
          => Pairs(files[r.path].mtime, r.of)
    /\ r.op = "save" /\ r.at = "checked" /\ r.base # 0 => Pairs(files[r.path].mtime, r.base)

TabOK(t) == t.open => Pairs(t.mtime, t.of) /\ (t.dirty <=> t.text # t.saved)

EditTypes ==
    /\ clock \in 1 .. MaxWrites /\ typed \in 1 .. MaxEdits
    /\ files \in [Paths -> FileRows] /\ \A p \in Paths : Editor!Exists(p) => files[p].mtime # 0
    /\ tabs \in [Paths -> TabRows \cup {Editor!NoTab}]
    /\ requests \in [Slots -> AskRows]

EditInv ==
    /\ EditTypes
    /\ \A p \in Paths : TabOK(tabs[p])
    /\ \A s \in Slots : RowOK(requests[s])

LEMMA EditStarts == Editor!EditorConstants /\ Editor!Init => EditInv
  <1>. SUFFICES ASSUME Editor!EditorConstants, Editor!Init
                PROVE  EditInv
    OBVIOUS
  <1>1. clock = 1 /\ typed = 1 /\ 1 \in 1 .. MaxWrites /\ 1 \in 1 .. MaxEdits
    BY DEF Editor!Init, Editor!EditorConstants
  <1>2. Editor!NoFile \in FileRows /\ [text |-> 1, mtime |-> 1] \in FileRows /\ 0 \in Nat
    BY <1>1 DEF Editor!NoFile, FileRows, Texts, Times
  <1>3. files \in [Paths -> FileRows] /\ \A p \in Paths : Editor!Exists(p) => files[p].mtime # 0
    BY <1>2 DEF Editor!Init, Editor!Exists
  <1>4. Editor!NoTab.open = FALSE /\ tabs \in [Paths -> TabRows \cup {Editor!NoTab}] /\ \A p \in Paths : TabOK(tabs[p])
    BY DEF Editor!Init, Editor!NoTab, TabOK
  <1>5. requests \in [Slots -> AskRows] /\ \A s \in Slots : requests[s] = Editor!Idle
    BY DEF Editor!Init, AskRows
  <1>6. RowOK(Editor!Idle)
    BY DEF RowOK, Editor!Idle
  <1>. QED
    BY <1>1, <1>3, <1>4, <1>5, <1>6 DEF EditInv, EditTypes

(* What kind of request a row is tells what it holds. *)
LEMMA RowKinds ==
    ASSUME NEW r \in AskRows
    PROVE  /\ r.op = "none" <=> r = Editor!Idle
           /\ r.op = "read" /\ r.at \in {"sent", "failed"} => r \in LookRows
           /\ r.op = "read" /\ r.at = "read" => r \in ReadRows
           /\ r.op = "save" /\ r.at \in {"sent", "checked", "conflict"} => r \in SaveRows
           /\ r.op = "save" /\ r.at = "written" => r \in WrittenRows
           /\ r.at = "done" /\ r.op \in {"read", "save"} => r \in DoneRows
           /\ r.op = "rename" => r \in RenameRows
           /\ r.op = "delete" => r \in DeleteRows
           /\ r # Editor!Idle => r.path \in Paths
  <1>1. /\ r = Editor!Idle => r.op = "none"
        /\ r \in LookRows => r.op = "read" /\ r.at \in {"sent", "failed"} /\ r.path \in Paths
        /\ r \in ReadRows => r.op = "read" /\ r.at = "read" /\ r.path \in Paths
    BY DEF Editor!Idle, LookRows, ReadRows
  <1>2. /\ r \in SaveRows => r.op = "save" /\ r.at \in {"sent", "checked", "conflict"} /\ r.path \in Paths
        /\ r \in WrittenRows => r.op = "save" /\ r.at = "written" /\ r.path \in Paths
        /\ r \in DoneRows => r.op \in {"read", "save"} /\ r.at = "done" /\ r.path \in Paths
    BY DEF SaveRows, WrittenRows, DoneRows
  <1>3. /\ r \in RenameRows => r.op = "rename" /\ r.path \in Paths
        /\ r \in DeleteRows => r.op = "delete" /\ r.path \in Paths
    BY DEF RenameRows, DeleteRows
  <1>4. \/ r = Editor!Idle \/ r \in LookRows \/ r \in ReadRows \/ r \in SaveRows \/ r \in WrittenRows
        \/ r \in DoneRows \/ r \in RenameRows \/ r \in DeleteRows
    BY DEF AskRows
  <1>. QED
    BY <1>1, <1>2, <1>3, <1>4

(* A step of the page, or of a request that only looks: the folder stays as it is. *)
LEMMA PageKeeps ==
    ASSUME EditInv, UNCHANGED <<files, clock, typed, races>>, NEW s \in Slots, NEW r \in AskRows, RowOK(r),
           requests' = [requests EXCEPT ![s] = r],
           \/ tabs' = tabs
           \/ \E p \in Paths, t \in TabRows \cup {Editor!NoTab} : TabOK(t) /\ tabs' = [tabs EXCEPT ![p] = t]
    PROVE  EditInv'
  <1>1. /\ EditTypes /\ \A p \in Paths : TabOK(tabs[p])
        /\ \A t \in Slots : RowOK(requests[t])
    BY DEF EditInv
  <1>2. UNCHANGED <<AskRows, TabRows, FileRows>> /\ \A p \in Paths : Editor!Exists(p)' <=> Editor!Exists(p)
    BY DEF AskRows, TabRows, FileRows, Texts, Times, Given, LookRows, ReadRows, SaveRows, WrittenRows, DoneRows,
           RenameRows, DeleteRows, Editor!Exists
  <1>3. requests' \in [Slots -> AskRows] /\ \A t \in Slots : RowOK(requests'[t])
    BY <1>1 DEF EditTypes
  <1>4. \A t \in Slots : RowOK(requests[t])'
    BY <1>3 DEF RowOK, Pairs
  <1>5. tabs' \in [Paths -> TabRows \cup {Editor!NoTab}] /\ \A p \in Paths : TabOK(tabs'[p])
    BY <1>1 DEF EditTypes
  <1>6. \A p \in Paths : TabOK(tabs[p])'
    BY <1>5 DEF TabOK, Pairs
  <1>7. EditTypes'
    BY <1>1, <1>2, <1>3, <1>5 DEF EditTypes
  <1>. QED
    BY <1>4, <1>6, <1>7 DEF EditInv

(* The rows a request may become. *)
LEMMA Looks ==
    ASSUME NEW p \in Paths, NEW why \in Whys
    PROVE  Editor!Reading(p, why) \in AskRows /\ RowOK(Editor!Reading(p, why)) /\ Editor!Idle \in AskRows /\ RowOK(Editor!Idle)
  BY DEF Editor!Reading, AskRows, LookRows, RowOK, Editor!Idle

LEMMA TabHas ==
    ASSUME EditInv, NEW p \in Paths
    PROVE  /\ tabs[p].open \in BOOLEAN
           /\ tabs[p].open => tabs[p] \in TabRows /\ Pairs(tabs[p].mtime, tabs[p].of)
                              /\ (tabs[p].dirty <=> tabs[p].text # tabs[p].saved)
  <1>1. tabs[p] \in TabRows \cup {Editor!NoTab} /\ TabOK(tabs[p])
    BY DEF EditInv, EditTypes
  <1>2. Editor!NoTab.open = FALSE
    BY DEF Editor!NoTab
  <1>. QED
    BY <1>1, <1>2 DEF TabOK, TabRows

LEMMA AsksKeep ==
    ASSUME Editor!EditorConstants, EditInv, NEW s \in Slots, Editor!Asks(s)
    PROVE  EditInv'
  <1>1. \A p \in Paths, why \in Whys : Editor!Reading(p, why) \in AskRows /\ RowOK(Editor!Reading(p, why))
    BY Looks
  <1>2. ASSUME NEW p \in Paths, Editor!OpenFile(s, p) \/ Editor!ReloadFromDisk(s, p) \/ Editor!NewFile(s, p)
        PROVE  EditInv'
    <2>1. PICK why \in Whys : Editor!Ask(s, Editor!Reading(p, why))
      BY <1>2 DEF Editor!OpenFile, Editor!ReloadFromDisk, Editor!NewFile, Whys
    <2>2. UNCHANGED <<files, clock, typed, races>> /\ tabs' = tabs
      BY <1>2 DEF Editor!OpenFile, Editor!ReloadFromDisk, Editor!NewFile
    <2>. QED
      BY <1>1, <2>1, <2>2, PageKeeps DEF Editor!Ask
  <1>3. ASSUME NEW p \in Paths, Editor!Remove(s, p)
        PROVE  EditInv'
    <2>1. PICK r : r = [op |-> "delete", path |-> p, at |-> "sent", open |-> tabs[p].open]
      OBVIOUS
    <2>2. r \in DeleteRows /\ RowOK(r)
      BY <2>1, TabHas DEF DeleteRows, RowOK
    <2>3. r \in AskRows
      BY <2>2 DEF AskRows
    <2>. QED
      BY <1>3, <2>1, <2>2, <2>3, PageKeeps DEF Editor!Remove, Editor!Ask
  <1>4. ASSUME NEW p \in Paths, NEW force \in BOOLEAN, Editor!Save(s, p, force)
        PROVE  EditInv'
    <2>1. PICK r : r = [op |-> "save", path |-> p, at |-> "sent", for |-> "tab", text |-> tabs[p].text,
                        base |-> IF force THEN 0 ELSE tabs[p].mtime, of |-> IF force THEN 0 ELSE tabs[p].of]
      OBVIOUS
    <2>2. tabs[p] \in TabRows /\ Pairs(tabs[p].mtime, tabs[p].of)
      BY <1>4, TabHas DEF Editor!Save
    <2>3. 0 \in Times /\ Given \subseteq Times
      BY DEF EditInv, EditTypes, Times, Given
    <2>4. r \in SaveRows
      BY <2>1, <2>2, <2>3 DEF SaveRows, TabRows
    <2>5. RowOK(r)
      BY <2>1, <2>2 DEF RowOK, Pairs
    <2>6. r \in AskRows
      BY <2>4 DEF AskRows
    <2>. QED
      BY <1>4, <2>1, <2>5, <2>6, PageKeeps DEF Editor!Save, Editor!Ask
  <1>5. ASSUME NEW p \in Paths, NEW to \in Paths, Editor!Rename(s, p, to)
        PROVE  EditInv'
    <2>1. PICK r : r = [op |-> "rename", path |-> p, to |-> to, at |-> "sent", open |-> tabs[p].open,
                        unsaved |-> tabs[p].open /\ tabs[p].dirty]
      OBVIOUS
    <2>2. r \in RenameRows /\ RowOK(r)
      BY <1>5, <2>1, TabHas DEF RenameRows, RowOK, Editor!Rename, Editor!Renames
    <2>3. r \in AskRows
      BY <2>2 DEF AskRows
    <2>. QED
      BY <1>5, <2>1, <2>2, <2>3, PageKeeps DEF Editor!Rename, Editor!Ask
  <1>. QED
    BY <1>2, <1>3, <1>4, <1>5 DEF Editor!Asks

(* The row of a request at work. *)
LEMMA RowAt ==
    ASSUME EditInv, NEW s \in Slots
    PROVE  requests[s] \in AskRows /\ RowOK(requests[s]) /\ requests \in [Slots -> AskRows]
           /\ files \in [Paths -> FileRows] /\ \A p \in Paths : files[p] \in FileRows /\ (Editor!Exists(p) => files[p].mtime # 0)
  BY DEF EditInv, EditTypes

LEMMA LooksKeep ==
    ASSUME Editor!EditorConstants, EditInv, NEW s \in Slots, Editor!ReadFile(s) \/ Editor!StatFile(s) \/ Editor!CheckSave(s)
    PROVE  EditInv'
  <1>1. /\ UNCHANGED <<files, clock, typed, races>> /\ tabs' = tabs
    BY DEF Editor!ReadFile, Editor!StatFile, Editor!CheckSave
  <1>2. PICK r : r = requests[s]
    OBVIOUS
  <1>3. r \in AskRows /\ RowOK(r) /\ r # Editor!Idle /\ clock \in Nat
    BY <1>2, RowAt DEF Editor!ReadFile, Editor!StatFile, Editor!CheckSave, Editor!At, EditInv, EditTypes
  <1>4. r.path \in Paths /\ files[r.path] \in FileRows /\ (Editor!Exists(r.path) => files[r.path].mtime # 0)
    BY <1>3, RowKinds, RowAt
  <1>5. CASE Editor!ReadFile(s)
    <2>1. r \in LookRows /\ r.op = "read" /\ r.at = "sent"
      BY <1>2, <1>3, <1>5, RowKinds DEF Editor!ReadFile, Editor!At
    <2>2. CASE ~Editor!Exists(r.path)
      <3>1. PICK q : q = [r EXCEPT !.at = "failed"]
        OBVIOUS
      <3>2. q \in LookRows /\ q.op = "read" /\ q.at = "failed"
        BY <2>1, <3>1 DEF LookRows
      <3>3. q \in AskRows /\ RowOK(q)
        BY <3>2 DEF AskRows, RowOK
      <3>4. requests' = [requests EXCEPT ![s] = q]
        BY <1>2, <1>5, <2>2, <3>1 DEF Editor!ReadFile, Editor!Fails, Editor!Goes
      <3>. QED
        BY <1>1, <3>3, <3>4, PageKeeps
    <2>3. CASE Editor!Exists(r.path)
      <3>1. PICK q : q = [op |-> "read", path |-> r.path, for |-> r.for, at |-> "read",
                          text |-> files[r.path].text, of |-> files[r.path].mtime]
        OBVIOUS
      <3>2. files[r.path].mtime \in Given /\ files[r.path].text \in Texts
        BY <1>3, <1>4, <2>3 DEF FileRows, Times, Given
      <3>3. q \in ReadRows
        BY <1>4, <2>1, <3>1, <3>2 DEF ReadRows, LookRows
      <3>4. q \in AskRows
        BY <3>3 DEF AskRows
      <3>5. RowOK(q)
        BY <3>1 DEF RowOK, Pairs
      <3>6. requests' = [requests EXCEPT ![s] = q]
        BY <1>2, <1>5, <2>3, <3>1 DEF Editor!ReadFile, Editor!Goes
      <3>. QED
        BY <1>1, <3>4, <3>5, <3>6, PageKeeps
    <2>. QED
      BY <2>2, <2>3
  <1>6. CASE Editor!StatFile(s)
    <2>1. PICK q : q = [op |-> r.op, path |-> r.path, for |-> r.for, at |-> "done", text |-> r.text,
                        of |-> r.of, mtime |-> files[r.path].mtime]
      OBVIOUS
    <2>2. r \in ReadRows \cup WrittenRows
      BY <1>2, <1>3, <1>6, RowKinds DEF Editor!StatFile, Editor!At
    <2>3. q \in DoneRows
      <3>1. files[r.path].mtime \in Times
        BY <1>4 DEF FileRows
      <3>2. r.op \in {"read", "save"} /\ r.for \in Whys \cup {"tab"} /\ r.text \in Texts /\ r.of \in Given
        BY <2>2 DEF ReadRows, WrittenRows, Whys
      <3>. QED
        BY <1>4, <2>1, <3>1, <3>2 DEF DoneRows
    <2>4. q \in AskRows
      BY <2>3 DEF AskRows
    <2>5. Pairs(files[r.path].mtime, r.of)
      BY <1>3, <2>2 DEF RowOK, ReadRows, WrittenRows
    <2>6. RowOK(q)
      BY <2>1, <2>5 DEF RowOK
    <2>7. requests' = [requests EXCEPT ![s] = q]
      BY <1>2, <1>6, <2>1 DEF Editor!StatFile, Editor!Goes
    <2>. QED
      BY <1>1, <2>4, <2>6, <2>7, PageKeeps
  <1>7. CASE Editor!CheckSave(s)
    <2>1. PICK q : q = [r EXCEPT !.at = IF Editor!MovedOn(r) THEN "conflict" ELSE "checked"]
      OBVIOUS
    <2>2. r \in SaveRows /\ r.op = "save" /\ r.at = "sent"
      BY <1>2, <1>3, <1>7, RowKinds DEF Editor!CheckSave, Editor!At
    <2>3. q \in SaveRows /\ q.op = "save" /\ q.base = r.base /\ q.of = r.of /\ q.path = r.path
          /\ q.at = IF Editor!MovedOn(r) THEN "conflict" ELSE "checked"
      BY <2>1, <2>2 DEF SaveRows
    <2>4. q \in AskRows
      BY <2>3 DEF AskRows
    <2>5. ~Editor!MovedOn(r) /\ r.base # 0 => Pairs(files[r.path].mtime, r.base)
      BY DEF Editor!MovedOn, Editor!Exists, Editor!NoFile, Pairs
    <2>6. RowOK(q)
      BY <1>3, <2>2, <2>3, <2>5 DEF RowOK
    <2>7. requests' = [requests EXCEPT ![s] = q]
      BY <1>2, <1>7, <2>1 DEF Editor!CheckSave, Editor!Goes
    <2>. QED
      BY <1>1, <2>4, <2>6, <2>7, PageKeeps
  <1>. QED
    BY <1>5, <1>6, <1>7

LEMMA TakesKeep ==
    ASSUME Editor!EditorConstants, EditInv, NEW s \in Slots, Editor!Takes(s)
    PROVE  EditInv'
  <1>1. /\ UNCHANGED <<files, clock, typed, races>>
    BY DEF Editor!Takes, Editor!TakeOpen, Editor!TakeReload, Editor!TakeLook, Editor!TakeNew, Editor!TakeSave, Editor!TakeConflict, Editor!TakeRename, Editor!TakeDelete, Editor!TakeError
  <1>2. PICK r : r = requests[s]
    OBVIOUS
  <1>3. r \in AskRows /\ RowOK(r) /\ r # Editor!Idle /\ clock \in Nat /\ typed \in Nat /\ Editor!Idle \in AskRows /\ RowOK(Editor!Idle)
    BY <1>2, RowAt DEF Editor!Takes, Editor!TakeOpen, Editor!TakeReload, Editor!TakeLook, Editor!TakeNew, Editor!TakeSave, Editor!TakeConflict, Editor!TakeRename, Editor!TakeDelete,
                      Editor!TakeError, Editor!Answered, Editor!At, EditInv, EditTypes, AskRows, RowOK, Editor!Idle
  <1>4. r.path \in Paths /\ Editor!NoTab \in TabRows \cup {Editor!NoTab} /\ TabOK(Editor!NoTab)
    BY <1>3, RowKinds DEF Editor!NoTab, TabOK
  <1>5. CASE Editor!TakeOpen(s) \/ Editor!TakeReload(s)
    <2>1. PICK t : t = Editor!Fresh(r.text, r.mtime, r.of)
      OBVIOUS
    <2>2. r \in DoneRows /\ r.op = "read" /\ r.at = "done"
      BY <1>2, <1>3, <1>5, RowKinds DEF Editor!TakeOpen, Editor!TakeReload, Editor!Answered, Editor!At
    <2>3. t \in TabRows /\ TabOK(t)
      BY <1>3, <2>1, <2>2 DEF Editor!Fresh, TabRows, DoneRows, TabOK, RowOK
    <2>4. requests' = [requests EXCEPT ![s] = Editor!Idle] /\ (tabs' = tabs \/ tabs' = [tabs EXCEPT ![r.path] = t])
      BY <1>2, <1>5, <2>1 DEF Editor!TakeOpen, Editor!TakeReload, Editor!Goes
    <2>. QED
      BY <1>1, <1>3, <1>4, <2>3, <2>4, PageKeeps
  <1>6. CASE Editor!TakeLook(s)
    <2>1. PICK q : q = [op |-> "save", path |-> r.path, for |-> "new", at |-> "sent", text |-> 0, base |-> 0, of |-> 0]
      OBVIOUS
    <2>2. q \in SaveRows
      BY <1>3, <1>4, <2>1 DEF SaveRows, Texts, Times
    <2>3. q \in AskRows /\ RowOK(q)
      BY <2>1, <2>2 DEF AskRows, RowOK, Pairs
    <2>4. tabs' = tabs /\ \/ requests' = [requests EXCEPT ![s] = Editor!Idle]
                          \/ requests' = [requests EXCEPT ![s] = q]
      BY <1>2, <1>6, <2>1 DEF Editor!TakeLook, Editor!Goes
    <2>. QED
      BY <1>1, <1>3, <2>3, <2>4, PageKeeps
  <1>7. CASE Editor!TakeNew(s)
    <2>1. PICK q : q = IF tabs[r.path].open THEN Editor!Idle ELSE Editor!Reading(r.path, "open")
      OBVIOUS
    <2>2. q \in AskRows /\ RowOK(q)
      BY <1>4, <2>1, Looks DEF Whys
    <2>3. tabs' = tabs /\ requests' = [requests EXCEPT ![s] = q]
      BY <1>2, <1>7, <2>1 DEF Editor!TakeNew, Editor!Goes
    <2>. QED
      BY <1>1, <2>2, <2>3, PageKeeps
  <1>8. CASE Editor!TakeSave(s)
    <2>1. PICK t : t = Editor!SavedTab(tabs[r.path], r)
      OBVIOUS
    <2>2. r \in DoneRows /\ r.op = "save" /\ r.at = "done"
      BY <1>2, <1>3, <1>8, RowKinds DEF Editor!TakeSave, Editor!Answered, Editor!At
    <2>3. CASE tabs[r.path].open
      <3>1. tabs[r.path] \in TabRows
        BY <1>4, <2>3, TabHas
      <3>2. t \in TabRows /\ t.text = tabs[r.path].text /\ t.saved = r.text /\ t.mtime = r.mtime /\ t.of = r.of
            /\ t.dirty = (tabs[r.path].text # r.text)
        BY <2>1, <2>2, <3>1 DEF Editor!SavedTab, TabRows, DoneRows
      <3>3. TabOK(t)
        BY <1>3, <2>2, <3>2 DEF TabOK, RowOK
      <3>4. requests' = [requests EXCEPT ![s] = Editor!Idle] /\ tabs' = [tabs EXCEPT ![r.path] = t]
        BY <1>2, <1>8, <2>1, <2>3 DEF Editor!TakeSave, Editor!Goes
      <3>. QED
        BY <1>1, <1>3, <1>4, <3>2, <3>3, <3>4, PageKeeps
    <2>4. CASE ~tabs[r.path].open
      <3>1. requests' = [requests EXCEPT ![s] = Editor!Idle] /\ tabs' = tabs
        BY <1>2, <1>8, <2>4 DEF Editor!TakeSave, Editor!Goes
      <3>. QED
        BY <1>1, <1>3, <3>1, PageKeeps
    <2>. QED
      BY <2>3, <2>4
  <1>9. CASE Editor!TakeConflict(s)
    <2>1. PICK t : t = [tabs[r.path] EXCEPT !.conflict = TRUE]
      OBVIOUS
    <2>2. CASE tabs[r.path].open
      <3>1. tabs[r.path] \in TabRows /\ Pairs(tabs[r.path].mtime, tabs[r.path].of)
            /\ (tabs[r.path].dirty <=> tabs[r.path].text # tabs[r.path].saved)
        BY <1>4, <2>2, TabHas
      <3>2. t \in TabRows /\ t.text = tabs[r.path].text /\ t.saved = tabs[r.path].saved /\ t.mtime = tabs[r.path].mtime
            /\ t.of = tabs[r.path].of /\ t.dirty = tabs[r.path].dirty
        BY <2>1, <3>1 DEF TabRows
      <3>3. TabOK(t)
        BY <3>1, <3>2 DEF TabOK
      <3>4. requests' = [requests EXCEPT ![s] = Editor!Idle] /\ tabs' = [tabs EXCEPT ![r.path] = t]
        BY <1>2, <1>9, <2>1, <2>2 DEF Editor!TakeConflict, Editor!Goes
      <3>. QED
        BY <1>1, <1>3, <1>4, <3>2, <3>3, <3>4, PageKeeps
    <2>3. CASE ~tabs[r.path].open
      <3>1. requests' = [requests EXCEPT ![s] = Editor!Idle] /\ tabs' = tabs
        BY <1>2, <1>9, <2>3 DEF Editor!TakeConflict, Editor!Goes
      <3>. QED
        BY <1>1, <1>3, <3>1, PageKeeps
    <2>. QED
      BY <2>2, <2>3
  <1>10. CASE Editor!TakeRename(s)
    <2>1. PICK q : q = IF r.open /\ ~tabs[r.to].open THEN Editor!Reading(r.to, "open") ELSE Editor!Idle
      OBVIOUS
    <2>2. r \in RenameRows
      BY <1>2, <1>3, <1>10, RowKinds DEF Editor!TakeRename, Editor!At
    <2>3. q \in AskRows /\ RowOK(q)
      BY <1>3, <2>1, <2>2, Looks DEF Whys, RenameRows
    <2>4. requests' = [requests EXCEPT ![s] = q] /\ (tabs' = tabs \/ tabs' = [tabs EXCEPT ![r.path] = Editor!NoTab])
      BY <1>2, <1>10, <2>1 DEF Editor!TakeRename, Editor!Goes
    <2>. QED
      BY <1>1, <1>4, <2>3, <2>4, PageKeeps
  <1>11. CASE Editor!TakeDelete(s) \/ Editor!TakeError(s)
    <2>1. requests' = [requests EXCEPT ![s] = Editor!Idle] /\ (tabs' = tabs \/ tabs' = [tabs EXCEPT ![r.path] = Editor!NoTab])
      BY <1>2, <1>11 DEF Editor!TakeDelete, Editor!TakeError, Editor!Goes
    <2>. QED
      BY <1>1, <1>3, <1>4, <2>1, PageKeeps
  <1>. QED
    BY <1>5, <1>6, <1>7, <1>8, <1>9, <1>10, <1>11 DEF Editor!Takes

(* More texts and more times: a row is still one. *)
LEMMA EditWiden ==
    ASSUME EditInv, typed' \in Nat, clock' \in Nat, typed' >= typed, clock' >= clock
    PROVE  AskRows \subseteq AskRows' /\ TabRows \subseteq TabRows' /\ FileRows \subseteq FileRows'
  <1>1. Texts \subseteq Texts' /\ Times \subseteq Times' /\ Given \subseteq Given' /\ Whys' = Whys
    BY DEF EditInv, EditTypes, Texts, Times, Given, Whys
  <1>2. /\ LookRows \subseteq LookRows' /\ ReadRows \subseteq ReadRows' /\ WrittenRows \subseteq WrittenRows'
        /\ RenameRows \subseteq RenameRows' /\ DeleteRows \subseteq DeleteRows' /\ FileRows \subseteq FileRows'
    BY <1>1 DEF LookRows, ReadRows, WrittenRows, RenameRows, DeleteRows, FileRows
  <1>3. SaveRows \subseteq SaveRows'
    BY <1>1 DEF SaveRows
  <1>4. DoneRows \subseteq DoneRows'
    BY <1>1 DEF DoneRows
  <1>5. TabRows \subseteq TabRows'
    BY <1>1 DEF TabRows
  <1>. QED
    BY <1>2, <1>3, <1>4, <1>5 DEF AskRows

(* The folder changes: who is between two looks at a file has it in a race, or gone. *)
LEMMA LookersHold ==
    ASSUME EditInv, races \subseteq races', NEW t \in Slots, requests'[t] = requests[t],
           requests[t] # Editor!Idle =>
              files'[requests[t].path].mtime \in {0, files[requests[t].path].mtime} \cup races'
    PROVE  RowOK(requests[t])'
  <1>1. PICK r : r = requests[t]
    OBVIOUS
  <1>2. r \in AskRows /\ RowOK(r) /\ requests'[t] = r
    BY <1>1, RowAt
  <1>3. \A m, of : Pairs(m, of) => m = 0 \/ m = of \/ m \in races'
    BY DEF Pairs
  <1>4. r # Editor!Idle => \A of : Pairs(files[r.path].mtime, of)
                              => files'[r.path].mtime = 0 \/ files'[r.path].mtime = of \/ files'[r.path].mtime \in races'
    BY <1>1 DEF Pairs
  <1>5. r.op \in {"read", "save"} => r # Editor!Idle
    BY DEF Editor!Idle
  <1>. QED
    BY <1>2, <1>3, <1>4, <1>5 DEF RowOK, Pairs

LEMMA FolderKeeps ==
    ASSUME EditInv, typed' \in typed .. MaxEdits, clock' \in clock .. MaxWrites, MaxEdits \in Nat, MaxWrites \in Nat,
           races \subseteq races', tabs' = tabs, files' \in [Paths -> FileRows'],
           \A p \in Paths : files'[p] = Editor!NoFile \/ files'[p].mtime # 0,
           requests' \in [Slots -> AskRows'],
           \A t \in Slots :
              \/ RowOK(requests[t])'
              \/ /\ requests'[t] = requests[t]
                 /\ requests[t] # Editor!Idle =>
                       files'[requests[t].path].mtime \in {0, files[requests[t].path].mtime} \cup races'
    PROVE  EditInv'
  <1>1. /\ EditTypes /\ \A p \in Paths : TabOK(tabs[p])
    BY DEF EditInv
  <1>2. typed \in Nat /\ clock \in Nat /\ typed' \in Nat /\ clock' \in Nat /\ typed' >= typed /\ clock' >= clock
        /\ typed' \in 1 .. MaxEdits /\ clock' \in 1 .. MaxWrites
    BY <1>1 DEF EditTypes
  <1>3. TabRows \subseteq TabRows'
    BY <1>2, EditWiden
  <1>4. tabs' \in [Paths -> TabRows' \cup {Editor!NoTab}]
    BY <1>1, <1>3 DEF EditTypes
  <1>5. \A p \in Paths : TabOK(tabs[p])'
    BY <1>1 DEF TabOK, Pairs
  <1>6. \A t \in Slots : RowOK(requests[t])'
    BY LookersHold
  <1>7. EditTypes'
    BY <1>2, <1>4 DEF EditTypes, Editor!Exists
  <1>. QED
    BY <1>5, <1>6, <1>7 DEF EditInv

(* A write. *)
LEMMA Writes ==
    ASSUME Editor!EditorConstants, EditInv, NEW p \in Paths, NEW text \in 0 .. typed', NEW self, Editor!Write(p, text, self),
           typed' \in typed .. MaxEdits
    PROVE  /\ files' \in [Paths -> FileRows'] /\ clock' \in clock .. MaxWrites /\ clock' = clock + 1
           /\ races \subseteq races' /\ clock + 1 \in 1 .. clock'
           /\ files'[p].mtime = clock + 1 /\ \A q \in Paths \ {p} : files'[q] = files[q]
           /\ \A q \in Paths : files'[q] = Editor!NoFile \/ files'[q].mtime # 0
           /\ \A t \in Slots \ self : requests[t] # Editor!Idle =>
                 files'[requests[t].path].mtime \in {0, files[requests[t].path].mtime} \cup races'
  <1>1. clock \in Nat /\ clock >= 1 /\ typed \in Nat /\ MaxWrites \in Nat /\ clock' = clock + 1 /\ clock < MaxWrites
        /\ MaxEdits \in Nat
    BY DEF EditInv, EditTypes, Editor!EditorConstants, Editor!Write
  <1>2. PICK f : f = [text |-> text, mtime |-> clock + 1]
    OBVIOUS
  <1>3. files' = [files EXCEPT ![p] = f] /\ f.mtime = clock + 1
    BY <1>2 DEF Editor!Write
  <1>4. FileRows \subseteq FileRows'
    BY <1>1, EditWiden
  <1>5. f \in FileRows'
    BY <1>1, <1>2 DEF FileRows, Texts, Times
  <1>6. files \in [Paths -> FileRows] /\ \A q \in Paths : Editor!Exists(q) => files[q].mtime # 0
    BY DEF EditInv, EditTypes
  <1>7. files' \in [Paths -> FileRows']
    BY <1>3, <1>4, <1>5, <1>6
  <1>8. files'[p] = f /\ \A q \in Paths \ {p} : files'[q] = files[q]
    BY <1>3, <1>6
  <1>9. f.mtime # 0
    BY <1>1, <1>3
  <1>10. \A q \in Paths : files'[q] = Editor!NoFile \/ files'[q].mtime # 0
    BY <1>6, <1>8, <1>9 DEF Editor!Exists
  <1>11. races \subseteq races' /\ (Editor!Looking(p, self) => clock + 1 \in races')
    BY DEF Editor!Write
  <1>12. ASSUME NEW t \in Slots \ self, requests[t] # Editor!Idle
         PROVE  files'[requests[t].path].mtime \in {0, files[requests[t].path].mtime} \cup races'
    <2>1. requests[t].path \in Paths
      BY <1>12, RowAt, RowKinds
    <2>2. requests[t].path = p => Editor!Looking(p, self)
      BY <1>12 DEF Editor!Looking
    <2>. QED
      BY <1>3, <1>8, <1>11, <2>1, <2>2
  <1>13. clock' \in clock .. MaxWrites /\ clock + 1 \in 1 .. clock'
    BY <1>1
  <1>. QED
    BY <1>1, <1>3, <1>7, <1>8, <1>10, <1>11, <1>12, <1>13

LEMMA WritesKeep ==
    ASSUME Editor!EditorConstants, EditInv, NEW s \in Slots, Editor!WriteFile(s)
    PROVE  EditInv'
  <1>1. PICK r : r = requests[s]
    OBVIOUS
  <1>2. r \in SaveRows
    BY <1>1, RowAt, RowKinds DEF Editor!WriteFile, Editor!At
  <1>3. /\ Editor!Write(r.path, r.text, {s}) /\ UNCHANGED typed /\ tabs' = tabs
        /\ typed \in Nat /\ clock \in Nat /\ typed <= MaxEdits /\ MaxEdits \in Nat /\ MaxWrites \in Nat
    BY <1>1 DEF Editor!WriteFile, EditInv, EditTypes, Editor!EditorConstants
  <1>4. r.path \in Paths /\ r.text \in 0 .. typed' /\ r.for \in {"tab", "new"} /\ typed' \in typed .. MaxEdits
    BY <1>2, <1>3 DEF SaveRows, Texts
  <1>5. /\ files' \in [Paths -> FileRows'] /\ clock' \in clock .. MaxWrites /\ clock' = clock + 1
        /\ races \subseteq races' /\ clock + 1 \in 1 .. clock'
        /\ files'[r.path].mtime = clock + 1
        /\ \A q \in Paths : files'[q] = Editor!NoFile \/ files'[q].mtime # 0
        /\ \A t \in Slots \ {s} : requests[t] # Editor!Idle =>
                 files'[requests[t].path].mtime \in {0, files[requests[t].path].mtime} \cup races'
    BY <1>3, <1>4, Writes
  <1>6. PICK w : w = [op |-> "save", path |-> r.path, for |-> r.for, at |-> "written", text |-> r.text, of |-> clock + 1]
    OBVIOUS
  <1>7. w \in WrittenRows'
    BY <1>4, <1>5, <1>6 DEF WrittenRows, Texts, Given
  <1>8. w \in AskRows' /\ requests' = [requests EXCEPT ![s] = w]
    BY <1>1, <1>6, <1>7 DEF AskRows, Editor!WriteFile, Editor!Goes
  <1>9. AskRows \subseteq AskRows'
    BY <1>3, <1>5, EditWiden
  <1>10. requests' \in [Slots -> AskRows'] /\ requests'[s] = w /\ \A t \in Slots \ {s} : requests'[t] = requests[t]
    BY <1>8, <1>9, RowAt
  <1>11. RowOK(requests[s])'
    BY <1>5, <1>6, <1>10 DEF RowOK, Pairs
  <1>. QED
    BY <1>3, <1>4, <1>5, <1>10, <1>11, FolderKeeps

LEMMA AgentsKeep ==
    ASSUME Editor!EditorConstants, EditInv, NEW p \in Paths, Editor!AgentWrites(p)
    PROVE  EditInv'
  <1>1. /\ typed \in Nat /\ clock \in Nat /\ MaxEdits \in Nat /\ MaxWrites \in Nat
        /\ typed' = typed + 1 /\ typed < MaxEdits /\ Editor!Write(p, typed + 1, {}) /\ tabs' = tabs /\ requests' = requests
    BY DEF Editor!AgentWrites, EditInv, EditTypes, Editor!EditorConstants
  <1>2. typed + 1 \in 0 .. typed' /\ typed' \in typed .. MaxEdits
    BY <1>1
  <1>3. /\ files' \in [Paths -> FileRows'] /\ clock' \in clock .. MaxWrites /\ clock' = clock + 1
        /\ races \subseteq races'
        /\ \A q \in Paths : files'[q] = Editor!NoFile \/ files'[q].mtime # 0
        /\ \A t \in Slots \ {} : requests[t] # Editor!Idle =>
                 files'[requests[t].path].mtime \in {0, files[requests[t].path].mtime} \cup races'
    BY <1>1, <1>2, Writes
  <1>4. AskRows \subseteq AskRows'
    BY <1>1, <1>2, <1>3, EditWiden
  <1>5. requests' \in [Slots -> AskRows']
    BY <1>1, <1>4 DEF EditInv, EditTypes
  <1>. QED
    BY <1>1, <1>2, <1>3, <1>5, FolderKeeps

(* A file under another name, or none any more. *)
LEMMA MovesKeep ==
    ASSUME Editor!EditorConstants, EditInv, NEW s \in Slots, Editor!RenameFile(s) \/ Editor!DeleteFile(s)
    PROVE  EditInv'
  <1>1. PICK r : r = requests[s]
    OBVIOUS
  <1>2. r \in RenameRows \cup DeleteRows /\ r.at = "sent" /\ r.path \in Paths
    BY <1>1, RowAt, RowKinds DEF Editor!RenameFile, Editor!DeleteFile, Editor!At
  <1>3. /\ UNCHANGED <<clock, typed>> /\ tabs' = tabs /\ typed \in Nat /\ clock \in Nat
        /\ typed <= MaxEdits /\ MaxEdits \in Nat /\ MaxWrites \in Nat /\ clock <= MaxWrites
        /\ typed' \in typed .. MaxEdits /\ clock' \in clock .. MaxWrites
    BY DEF Editor!RenameFile, Editor!DeleteFile, EditInv, EditTypes, Editor!EditorConstants
  <1>4. PICK q \in {"failed", "done"} : requests' = [requests EXCEPT ![s] = [r EXCEPT !.at = q]]
    BY <1>1 DEF Editor!RenameFile, Editor!DeleteFile, Editor!Goes, Editor!Fails
  <1>5. PICK w : w = [r EXCEPT !.at = q]
    OBVIOUS
  <1>6. w \in RenameRows \cup DeleteRows
    BY <1>2, <1>5 DEF RenameRows, DeleteRows
  <1>7. AskRows' = AskRows /\ FileRows' = FileRows
    BY <1>3 DEF AskRows, FileRows, Texts, Times, Given, LookRows, ReadRows, SaveRows, WrittenRows, DoneRows,
                RenameRows, DeleteRows
  <1>8. w \in AskRows
    BY <1>6 DEF AskRows
  <1>9. requests' \in [Slots -> AskRows'] /\ requests'[s] = w /\ \A t \in Slots \ {s} : requests'[t] = requests[t]
    BY <1>4, <1>5, <1>7, <1>8, RowAt
  <1>10. RowOK(requests[s])'
    BY <1>6, <1>9 DEF RowOK, RenameRows, DeleteRows
  <1>11. /\ files \in [Paths -> FileRows] /\ \A p \in Paths : files[p] = Editor!NoFile \/ files[p].mtime # 0
    BY RowAt DEF Editor!Exists
  <1>12. Editor!NoFile \in FileRows /\ Editor!NoFile.mtime = 0
    BY <1>3 DEF Editor!NoFile, FileRows, Texts, Times
  <1>13. /\ files' \in [Paths -> FileRows] /\ \A p \in Paths : files'[p] = Editor!NoFile \/ files'[p].mtime # 0
         /\ races \subseteq races'
         /\ \A t \in Slots \ {s} : requests[t] # Editor!Idle =>
                 files'[requests[t].path].mtime \in {0, files[requests[t].path].mtime} \cup races'
    <2>1. \A t \in Slots : requests[t] # Editor!Idle => requests[t].path \in Paths
      BY RowAt, RowKinds
    <2>2. CASE UNCHANGED <<files, races>>
      BY <1>11, <2>2
    <2>3. CASE files' = [files EXCEPT ![r.path] = Editor!NoFile] /\ UNCHANGED races
      BY <1>2, <1>11, <1>12, <2>1, <2>3
    <2>4. CASE /\ Editor!RenameFile(s) /\ files' = [files EXCEPT ![r.to] = files[r.path], ![r.path] = Editor!NoFile]
               /\ races' = IF Editor!Looking(r.to, {s}) THEN races \union {files[r.path].mtime} ELSE races
      <3>1. r.to \in Paths
        BY <1>1, <2>4, RowAt, RowKinds DEF Editor!RenameFile, Editor!At, RenameRows
      <3>2. PICK f : f = files[r.path]
        OBVIOUS
      <3>3. files' = [files EXCEPT ![r.to] = f, ![r.path] = Editor!NoFile] /\ f \in FileRows /\ (f = Editor!NoFile \/ f.mtime # 0)
        BY <1>2, <1>11, <2>4, <3>2
      <3>4. files' \in [Paths -> FileRows] /\ \A p \in Paths : files'[p] \in {files[p], Editor!NoFile} \/ (p = r.to /\ files'[p] = f)
        BY <1>2, <1>11, <1>12, <3>1, <3>3
      <3>5. \A p \in Paths : files'[p] = Editor!NoFile \/ files'[p].mtime # 0
        BY <1>11, <3>3, <3>4
      <3>6. races \subseteq races' /\ (Editor!Looking(r.to, {s}) => f.mtime \in races')
        BY <2>4, <3>2
      <3>7. ASSUME NEW t \in Slots \ {s}, requests[t] # Editor!Idle
            PROVE  files'[requests[t].path].mtime \in {0, files[requests[t].path].mtime} \cup races'
        <4>1. requests[t].path = r.to => Editor!Looking(r.to, {s})
          BY <3>7 DEF Editor!Looking
        <4>. QED
          BY <1>12, <2>1, <3>4, <3>6, <3>7, <4>1
      <3>. QED
        BY <3>4, <3>5, <3>6, <3>7
    <2>. QED
      BY <1>1, <2>2, <2>3, <2>4 DEF Editor!RenameFile, Editor!DeleteFile
  <1>. QED
    BY <1>3, <1>7, <1>9, <1>10, <1>13, FolderKeeps

LEMMA TabsKeep ==
    ASSUME Editor!EditorConstants, EditInv, NEW p \in Paths, Editor!Edit(p) \/ Editor!CloseTab(p)
    PROVE  EditInv'
  <1>1. /\ EditTypes /\ (\A q \in Paths : TabOK(tabs[q])) /\ (\A s \in Slots : RowOK(requests[s]))
        /\ UNCHANGED <<files, clock, races, requests>> /\ tabs[p].open /\ tabs[p] \in TabRows /\ TabOK(tabs[p])
        /\ typed \in Nat /\ typed >= 1 /\ MaxEdits \in Nat /\ clock \in Nat /\ typed <= MaxEdits
    BY TabHas DEF EditInv, Editor!Edit, Editor!CloseTab, EditTypes, Editor!EditorConstants
  <1>2. typed' \in typed .. MaxEdits
    BY <1>1 DEF Editor!Edit, Editor!CloseTab
  <1>3. AskRows \subseteq AskRows' /\ TabRows \subseteq TabRows' /\ FileRows \subseteq FileRows'
    BY <1>1, <1>2, EditWiden
  <1>4. PICK t \in TabRows' \cup {Editor!NoTab} : TabOK(t) /\ tabs' = [tabs EXCEPT ![p] = t]
    <2>1. CASE Editor!CloseTab(p)
      BY <2>1 DEF Editor!CloseTab, TabOK, Editor!NoTab
    <2>2. ASSUME Editor!Edit(p), typed' = typed + 1, tabs' = [tabs EXCEPT ![p].text = typed + 1, ![p].dirty = TRUE]
          PROVE  \E t \in TabRows' \cup {Editor!NoTab} : TabOK(t) /\ tabs' = [tabs EXCEPT ![p] = t]
      <3>1. PICK t : t = [tabs[p] EXCEPT !.text = typed + 1, !.dirty = TRUE]
        OBVIOUS
      <3>2. tabs' = [tabs EXCEPT ![p] = t]
        BY <1>1, <2>2, <3>1 DEF EditTypes
      <3>3. typed + 1 \in Texts' /\ tabs[p] \in TabRows'
        BY <1>1, <1>3, <2>2 DEF Texts
      <3>4. t \in TabRows' /\ t.text = typed + 1 /\ t.dirty = TRUE /\ t.saved = tabs[p].saved
            /\ t.mtime = tabs[p].mtime /\ t.of = tabs[p].of
        BY <3>1, <3>3 DEF TabRows
      <3>5. tabs[p].saved # typed + 1
        <4>1. tabs[p].saved \in 0 .. typed
          BY <1>1 DEF TabRows, Texts
        <4>. QED
          BY <1>1, <4>1
      <3>6. TabOK(t)
        BY <1>1, <3>4, <3>5 DEF TabOK
      <3>. QED
        BY <3>2, <3>4, <3>6
    <2>3. ASSUME Editor!Edit(p), typed' = typed, tabs' = [tabs EXCEPT ![p].text = tabs[p].saved, ![p].dirty = FALSE]
          PROVE  \E t \in TabRows' \cup {Editor!NoTab} : TabOK(t) /\ tabs' = [tabs EXCEPT ![p] = t]
      <3>1. PICK t : t = [tabs[p] EXCEPT !.text = tabs[p].saved, !.dirty = FALSE]
        OBVIOUS
      <3>2. tabs' = [tabs EXCEPT ![p] = t]
        BY <1>1, <2>3, <3>1 DEF EditTypes
      <3>3. t \in TabRows /\ t.text = tabs[p].saved /\ t.dirty = FALSE /\ t.saved = tabs[p].saved
            /\ t.mtime = tabs[p].mtime /\ t.of = tabs[p].of
        BY <1>1, <3>1 DEF TabRows
      <3>4. TabOK(t)
        BY <1>1, <3>3 DEF TabOK
      <3>. QED
        BY <1>3, <3>2, <3>3, <3>4
    <2>. QED
      BY <2>1, <2>2, <2>3 DEF Editor!Edit
  <1>5. tabs' \in [Paths -> TabRows' \cup {Editor!NoTab}] /\ \A q \in Paths : TabOK(tabs'[q])
    BY <1>1, <1>3, <1>4 DEF EditTypes
  <1>6. \A q \in Paths : TabOK(tabs[q])'
    BY <1>1, <1>5 DEF TabOK, Pairs
  <1>7. \A s \in Slots : RowOK(requests[s])'
    BY <1>1 DEF RowOK, Pairs
  <1>8. typed' \in 1 .. MaxEdits /\ files' \in [Paths -> FileRows'] /\ requests' \in [Slots -> AskRows']
    BY <1>1, <1>2, <1>3 DEF EditTypes
  <1>9. EditTypes'
    BY <1>1, <1>5, <1>8 DEF EditTypes, Editor!Exists
  <1>. QED
    BY <1>6, <1>7, <1>9 DEF EditInv

LEMMA EditStep == Editor!EditorConstants /\ EditInv /\ [Editor!Next]_(Editor!vars) => EditInv'
  <1>. SUFFICES ASSUME Editor!EditorConstants, EditInv, [Editor!Next]_(Editor!vars)
                PROVE  EditInv'
    OBVIOUS
  <1>1. CASE UNCHANGED Editor!vars
    <2>1. UNCHANGED <<AskRows, TabRows, FileRows>>
      BY <1>1 DEF Editor!vars, AskRows, TabRows, FileRows, Texts, Times, Given, LookRows, ReadRows, SaveRows, WrittenRows,
                  DoneRows, RenameRows, DeleteRows
    <2>. QED
      BY <1>1, <2>1 DEF Editor!vars, EditInv, EditTypes, Editor!Exists, RowOK, TabOK, Pairs
  <1>2. ASSUME NEW s \in Slots, Editor!Answers(s)
        PROVE  EditInv'
    BY <1>2, LooksKeep, WritesKeep, MovesKeep DEF Editor!Answers
  <1>. QED
    BY <1>1, <1>2, AsksKeep, TakesKeep, TabsKeep, AgentsKeep DEF Editor!Next

LEMMA EditGives == EditInv => Editor!TypeOK /\ Editor!CleanIsSaved
  <1>. SUFFICES ASSUME EditInv
                PROVE  Editor!TypeOK /\ Editor!CleanIsSaved
    OBVIOUS
  <1>1. clock \in 1 .. MaxWrites /\ typed \in 1 .. MaxEdits
    BY DEF EditInv, EditTypes
  <1>2. \A p \in Paths : files[p].text \in 0 .. typed /\ files[p].mtime \in 0 .. clock
    BY DEF EditInv, EditTypes, FileRows, Texts, Times
  <1>3. \A p \in Paths : tabs[p].open =>
          /\ tabs[p].text \in 0 .. typed /\ tabs[p].saved \in 0 .. typed
          /\ tabs[p].mtime \in 0 .. clock /\ tabs[p].of \in 1 .. clock
    BY TabHas DEF TabRows, Texts, Times, Given
  <1>4. Editor!CleanIsSaved
    BY TabHas DEF Editor!CleanIsSaved
  <1>. QED
    BY <1>1, <1>2, <1>3, <1>4 DEF Editor!TypeOK

LEMMA OverwriteStep == EditInv => Editor!NoBlindOverwrite /\ Editor!EditsAreAskedFor
  <1>. SUFFICES ASSUME EditInv
                PROVE  Editor!NoBlindOverwrite /\ Editor!EditsAreAskedFor
    OBVIOUS
  <1>1. Editor!NoBlindOverwrite
    <2>. SUFFICES ASSUME NEW s \in Slots, Editor!At(s, "save", "checked"), requests[s].base # 0, Editor!Exists(requests[s].path)
                  PROVE  files[requests[s].path].mtime \in {requests[s].of} \union races
      BY DEF Editor!NoBlindOverwrite
    <2>1. requests[s] \in AskRows /\ RowOK(requests[s]) /\ requests[s].path \in Paths
      BY RowAt, RowKinds DEF Editor!At
    <2>2. files[requests[s].path].mtime # 0
      BY <2>1, RowAt
    <2>. QED
      BY <2>1, <2>2 DEF RowOK, Pairs, Editor!At
  <1>2. Editor!EditsAreAskedFor
    <2>. SUFFICES ASSUME NEW s \in Slots, Editor!At(s, "rename", "done")
                  PROVE  ~requests[s].unsaved
      BY DEF Editor!EditsAreAskedFor
    <2>1. requests[s] \in RenameRows
      BY RowAt, RowKinds DEF Editor!At
    <2>. QED
      BY <2>1 DEF RenameRows
  <1>. QED
    BY <1>1, <1>2

(* For any files, requests under way and order of their answers: a tab without a dot holds the   *)
(* text of the last read or save it knows of (ProjectEditor.tsx: onChange, save, reloadFromDisk). *)
THEOREM TabsTellTheTruth == Editor!EditorConstants /\ Editor!Spec => [](Editor!TypeOK /\ Editor!CleanIsSaved)
  <1>1. EditInv => Editor!TypeOK /\ Editor!CleanIsSaved
    BY EditGives
  <1>2. CASE Editor!EditorConstants
    BY <1>1, <1>2, EditStarts, EditStep, PTL DEF Editor!Spec
  <1>. QED
    BY <1>2

(* A save that was not forced replaces no text the person has not seen, but for one written inside *)
(* a request, and a rename closes no tab over text typed before it (channels.go, ProjectEditor.tsx). *)
THEOREM NothingIsWrittenOver == Editor!EditorConstants /\ Editor!Spec => [][Editor!NoBlindOverwrite /\ Editor!EditsAreAskedFor]_(Editor!vars)
  <1>1. EditInv /\ [Editor!Next]_(Editor!vars) => [Editor!NoBlindOverwrite /\ Editor!EditsAreAskedFor]_(Editor!vars)
    BY OverwriteStep
  <1>2. CASE Editor!EditorConstants
    BY <1>1, <1>2, EditStarts, EditStep, PTL DEF Editor!Spec
  <1>. QED
    BY <1>2
=============================================================================
