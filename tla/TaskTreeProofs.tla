--------------------------- MODULE TaskTreeProofs ---------------------------
(***************************************************************************)
(* Proofs about TaskTree, for any number of tasks, shells and gateways and  *)
(* any caps.                                                               *)
(***************************************************************************)
EXTENDS TaskTree, TLAPS, FiniteSetTheorems

----------------------------------------------------------------------------
(* The rows *)

LEMMA NewRow ==
    ASSUME NEW p \in Tasks \cup {NoTask}, NEW d \in 0..MaxDepth
    PROVE  Row(p, d) \in Rows
  BY DEF Row, Rows, Open

LEMMA AbsentRow == Absent \in Rows /\ Absent.state = "absent"
  <1>1. 0 \in 0..MaxDepth
    BY TreeConstants
  <1>2. Row(NoTask, 0) \in Rows
    BY <1>1, NewRow
  <1>3. Absent = [Row(NoTask, 0) EXCEPT !.state = "absent"]
    BY DEF Absent
  <1>. QED
    BY <1>2, <1>3 DEF Rows

LEMMA CanceledRows ==
    ASSUME TypeOK, NEW S \in SUBSET Tasks
    PROVE  /\ Canceled(S) \in [Tasks -> Rows]
           /\ \A t \in Tasks :
                /\ Canceled(S)[t].parent = task[t].parent
                /\ Canceled(S)[t].depth = task[t].depth
                /\ Canceled(S)[t].state = IF t \in S THEN "canceled"
                                          ELSE task[t].state
  <1>1. ASSUME NEW t \in Tasks
        PROVE  LET row == [task[t] EXCEPT !.state = "canceled", !.blocked_on = ""] IN
               /\ row \in Rows /\ row.parent = task[t].parent
               /\ row.depth = task[t].depth /\ row.state = "canceled"
    BY DEF TypeOK, Rows, Ended
  <1>2. task \in [Tasks -> Rows]
    BY DEF TypeOK
  <1>. QED
    BY <1>1, <1>2 DEF Canceled

LEMMA WokenRow ==
    ASSUME NEW row \in Rows, NEW n \in Nat
    PROVE  /\ Woken(row, n) \in Rows
           /\ Woken(row, n).parent = row.parent
           /\ Woken(row, n).depth = row.depth
           /\ Woken(row, n).state \in {row.state, "submitted"}
  <1>1. CASE n >= MaxFruitlessWaves
    BY <1>1 DEF Woken, Rows
  <1>2. CASE ~(n >= MaxFruitlessWaves)
    BY <1>2 DEF Woken, Rows, Open
  <1>. QED
    BY <1>1, <1>2

LEMMA FreshId ==
    ASSUME Existing # Tasks
    PROVE  NewId \in Tasks \ Existing
  BY DEF NewId, Existing

----------------------------------------------------------------------------
(* Types *)

LEMMA InitType == Init => TypeOK
  <1>. SUFFICES ASSUME Init PROVE TypeOK
    OBVIOUS
  <1>1. Row(NoTask, 0) \in Rows
    BY NewRow, TreeConstants
  <1>2. task \in [Tasks -> Rows]
    BY <1>1, AbsentRow DEF Init
  <1>3. shell \in [Shells -> Commands]
    BY DEF Init, Commands
  <1>4. Asleep \in Sweeps
    BY DEF Asleep, Sweeps
  <1>5. sweep \in [Gateways -> Sweeps]
    BY <1>4 DEF Init
  <1>. QED
    BY <1>2, <1>3, <1>5, TreeConstants DEF Init, TypeOK

(* What an action does to the type, where it touches one row only. *)
LEMMA OneRow ==
    ASSUME TypeOK, NEW t \in Tasks, NEW row \in Rows,
           task' = [task EXCEPT ![t] = row]
    PROVE  task' \in [Tasks -> Rows]
  BY DEF TypeOK

LEMMA RunStepType ==
    ASSUME TypeOK, NEW t \in Tasks, RunStep(t) \/ UnblockTask(t)
    PROVE  TypeOK'
  <1>. task[t] \in Rows /\ task[t].claims \in Nat
    BY DEF TypeOK, Rows
  <1>1. CASE Claim(t)
    <2>1. task[t].claims + 1 \in Nat /\ runs + 1 \in Nat
      BY DEF TypeOK
    <2>. QED
      BY <1>1, <2>1 DEF Claim, RunsUnchanged, TypeOK, Rows, Open
  <1>2. CASE ReapExhausted(t)
    BY <1>2 DEF ReapExhausted, RunsUnchanged, TypeOK, Rows, Ended
  <1>3. ASSUME NEW s \in RunEnds, EndRun(t, s, "")
        PROVE  TypeOK'
    <2>1. s \in Open \cup Ended
      BY TreeConstants DEF Open, Ended
    <2>. QED
      BY <1>3, <2>1 DEF EndRun, RunsUnchanged, TypeOK, Rows
  <1>4. ASSUME NEW on \in {"children", "human"}, EndRun(t, "blocked", on)
        PROVE  TypeOK'
    BY <1>4 DEF EndRun, RunsUnchanged, TypeOK, Rows, Open
  <1>5. CASE UnblockTask(t)
    BY <1>5 DEF UnblockTask, RunsUnchanged, TypeOK, Rows, Open
  <1>. QED
    BY <1>1, <1>2, <1>3, <1>4, <1>5 DEF RunStep

LEMMA ResumeType ==
    ASSUME TypeOK, NEW t \in Tasks, ResumeTask(t)
    PROVE  TypeOK'
  <1>1. task' \in [Tasks -> Rows]
    <2>. DEFINE row == [task[t] EXCEPT !.state = "submitted", !.claims = 0]
    <2>1. row \in Rows
      BY DEF TypeOK, Rows, Open
    <2>2. task' = [task EXCEPT ![t] = row]
      BY DEF ResumeTask
    <2>. QED
      BY <2>1, <2>2, OneRow
  <1>2. resumes' \in Nat /\ upsets' \in 0..MaxUpsets
    BY TreeConstants DEF TypeOK, ResumeTask, Upset
  <1>3. strays' \subseteq Tasks
    BY DEF TypeOK, ResumeTask
  <1>. QED
    BY <1>1, <1>2, <1>3 DEF TypeOK, ResumeTask

LEMMA CreateType ==
    ASSUME TypeOK, NEW s \in Shells, NEW t \in Tasks, CreateSubTask(s, t)
    PROVE  TypeOK'
  <1>1. [op |-> "inserting", task |-> t] \in Commands
    BY DEF Commands
  <1>. QED
    BY <1>1 DEF TypeOK, CreateSubTask, Does, CreateUnchanged

(* A walk that stands at a level has not passed the last one. *)
LEMMA WalkCommand ==
    ASSUME TypeOK, NEW s \in Shells, shell[s].op = "canceling"
    PROVE  /\ shell[s].frontier \subseteq Tasks /\ shell[s].next \subseteq Tasks
           /\ shell[s].level \in 0..(MaxDepth - 1)
           /\ ~LastLevel(shell[s].level) => shell[s].level + 1 \in 0..(MaxDepth - 1)
  <1>1. shell[s] \in Commands
    BY DEF TypeOK
  <1>2. /\ shell[s].frontier \subseteq Tasks /\ shell[s].next \subseteq Tasks
        /\ shell[s].level \in 0..(MaxDepth - 1)
    BY <1>1 DEF Commands, Idle
  <1>3. ASSUME NEW l \in 0..(MaxDepth - 1), ~LastLevel(l)
        PROVE  l + 1 \in 0..(MaxDepth - 1)
    BY <1>3, TreeConstants DEF LastLevel
  <1>. QED
    BY <1>2, <1>3

(* The command that names a task is typed. *)
LEMMA NamedTask ==
    ASSUME TypeOK, NEW s \in Shells, shell[s].op \in {"inserting", "closing"}
    PROVE  shell[s].task \in Tasks
  <1>1. shell[s] \in Commands
    BY DEF TypeOK
  <1>. QED
    BY <1>1 DEF Commands, Idle

LEMMA InsertType ==
    ASSUME TypeOK, NEW s \in Shells, InsertChild(s)
    PROVE  TypeOK'
  <1>. DEFINE p == shell[s].task
  <1>1. p \in Tasks /\ NewId \in Tasks
    BY NamedTask, FreshId DEF InsertChild
  <1>2. task' \in [Tasks -> Rows]
    <2>1. CASE task[p].depth < MaxDepth
      <3>1. task[p].depth \in 0..MaxDepth
        BY <1>1 DEF TypeOK, Rows
      <3>2. task[p].depth + 1 \in 0..MaxDepth
        BY <2>1, <3>1, TreeConstants
      <3>3. Row(p, task[p].depth + 1) \in Rows
        BY <1>1, <3>2, NewRow
      <3>4. task' = [task EXCEPT ![NewId] = Row(p, task[p].depth + 1)]
        BY <2>1 DEF InsertChild
      <3>. QED
        BY <1>1, <3>3, <3>4, OneRow
    <2>2. CASE ~(task[p].depth < MaxDepth)
      BY <2>2 DEF InsertChild, TypeOK
    <2>. QED
      BY <2>1, <2>2
  <1>3. strays' \subseteq Tasks
    BY <1>1 DEF InsertChild, TypeOK
  <1>4. shell' \in [Shells -> Commands]
    BY DEF InsertChild, Does, TypeOK, Commands
  <1>. QED
    BY <1>2, <1>3, <1>4 DEF InsertChild, CreateUnchanged, TypeOK

LEMMA CancelType ==
    ASSUME TypeOK, NEW s \in Shells, NEW t \in Tasks,
           CancelTask(s, t) \/ CancelChildren(s, t)
    PROVE  TypeOK'
  <1>1. CASE CancelTask(s, t)
    <2>1. task' \in [Tasks -> Rows]
      BY <1>1, CanceledRows DEF CancelTask
    <2>2. MaxDepth # 0 => Walking({t}, {}, 0) \in Commands
      <3>1. MaxDepth # 0 => 0 \in 0..(MaxDepth - 1)
        BY TreeConstants
      <3>. QED
        BY <3>1 DEF Walking, Commands
    <2>3. Idle \in Commands
      BY DEF Commands
    <2>4. shell' \in [Shells -> Commands]
      BY <1>1, <2>2, <2>3 DEF CancelTask, Does, TypeOK
    <2>5. upsets' \in 0..MaxUpsets
      BY <1>1, TreeConstants DEF CancelTask, Upset, TypeOK
    <2>. QED
      BY <1>1, <2>1, <2>4, <2>5 DEF CancelTask, CancelUnchanged, TypeOK
  <1>2. CASE CancelChildren(s, t)
    <2>. DEFINE w == shell[s]
                frontier == w.frontier \ {t}
                next == w.next \cup Flipped(t)
                cmd == IF frontier # {} THEN Walking(frontier, next, w.level)
                       ELSE IF next = {} \/ LastLevel(w.level) THEN Idle
                       ELSE Walking(next, {}, w.level + 1)
    <2>1. Flipped(t) \in SUBSET Tasks
      BY DEF Flipped, OpenOf, Children, Existing
    <2>2. task' \in [Tasks -> Rows]
      BY <1>2, <2>1, CanceledRows DEF CancelChildren
    <2>3. /\ w.frontier \subseteq Tasks /\ w.next \subseteq Tasks
          /\ w.level \in 0..(MaxDepth - 1)
          /\ ~LastLevel(w.level) => w.level + 1 \in 0..(MaxDepth - 1)
      BY <1>2, WalkCommand DEF CancelChildren
    <2>4. frontier \subseteq Tasks /\ next \subseteq Tasks
      BY <2>1, <2>3
    <2>5. cmd \in Commands
      <3>. HIDE DEF frontier, next
      <3>1. Idle \in Commands
        BY DEF Commands
      <3>2. Walking(frontier, next, w.level) \in Commands
        BY <2>3, <2>4 DEF Walking, Commands
      <3>3. ~LastLevel(w.level) => Walking(next, {}, w.level + 1) \in Commands
        BY <2>3, <2>4 DEF Walking, Commands
      <3>. QED
        BY <3>1, <3>2, <3>3
    <2>6. shell' = [shell EXCEPT ![s] = cmd]
      BY <1>2 DEF CancelChildren, Does
    <2>. HIDE DEF cmd
    <2>7. shell' \in [Shells -> Commands]
      BY <2>5, <2>6 DEF TypeOK
    <2>. QED
      BY <1>2, <2>2, <2>7 DEF CancelChildren, CancelUnchanged, TypeOK
  <1>. QED
    BY <1>1, <1>2

LEMMA CommandType ==
    ASSUME TypeOK, NEW s \in Shells,
           \/ \E t \in Tasks : CloseTask(s, t)
           \/ CloseRefused(s) \/ CommandDies(s)
    PROVE  TypeOK'
  <1>. Idle \in Commands
    BY DEF Commands
  <1>1. ASSUME NEW t \in Tasks, CloseTask(s, t)
        PROVE  TypeOK'
    <2>1. [op |-> "closing", task |-> t] \in Commands
      BY DEF Commands
    <2>2. upsets' \in 0..MaxUpsets
      BY <1>1, TreeConstants DEF CloseTask, Upset, TypeOK
    <2>. QED
      BY <1>1, <2>1, <2>2 DEF CloseTask, Does, CancelUnchanged, TypeOK
  <1>2. CASE CloseRefused(s)
    BY <1>2 DEF CloseRefused, Does, CancelUnchanged, TypeOK
  <1>3. CASE CommandDies(s)
    <2>1. upsets' \in 0..MaxUpsets
      BY <1>3, TreeConstants DEF CommandDies, Upset, TypeOK
    <2>2. strays' \subseteq Tasks
      BY <1>3 DEF CommandDies, TypeOK, Existing
    <2>. QED
      BY <1>3, <2>1, <2>2 DEF CommandDies, Does, TypeOK
  <1>. QED
    BY <1>1, <1>2, <1>3

LEMMA SweepType ==
    ASSUME TypeOK, NEW g \in Gateways, SweepStep(g) \/ SweepDies(g)
    PROVE  TypeOK'
  <1>. sweep[g] \in Sweeps
    BY DEF TypeOK
  <1>. Asleep \in Sweeps
    BY DEF Asleep, Sweeps
  <1>1. CASE ReadBlocked(g)
    <2>1. \A p \in Tasks : Snapshot(p) \in Snapshots
      BY DEF Snapshot, Snapshots, TypeOK, Rows
    <2>. DEFINE found == {p \in Tasks : Waiting(p) /\ ChildrenEnded(p)}
                seen == {Snapshot(p) : p \in found}
    <2>2. seen \subseteq Snapshots
      BY <2>1
    <2>3. sweep' = [sweep EXCEPT ![g].parents = seen]
      BY <1>1 DEF ReadBlocked
    <2>. HIDE DEF seen
    <2>4. sweep' \in [Gateways -> Sweeps]
      BY <2>2, <2>3 DEF TypeOK, Sweeps
    <2>. QED
      BY <1>1, <2>4 DEF ReadBlocked, SweepUnchanged, TypeOK
  <1>2. ASSUME NEW snap \in sweep[g].parents, ReadChildren(g, snap)
        PROVE  TypeOK'
    <2>1. snap \in Snapshots
      BY DEF Sweeps
    <2>2. snap.task \in Tasks /\ snap.fruitless + 1 \in Nat
      BY <2>1 DEF Snapshots
    <2>3. sweep[g].parents \ {snap} \in SUBSET Snapshots
      BY DEF Sweeps
    <2>4. sweep' \in [Gateways -> Sweeps]
      BY <1>2, <2>2, <2>3 DEF ReadChildren, TypeOK, Sweeps
    <2>. QED
      BY <1>2, <2>4 DEF ReadChildren, SweepUnchanged, TypeOK
  <1>3. CASE WakeParent(g)
    <2>. DEFINE p == sweep[g].parent
    <2>1. p \in Tasks /\ sweep[g].fruitless \in Nat
      BY <1>3 DEF WakeParent, Sweeps
    <2>2. Woken(task[p], sweep[g].fruitless) \in Rows
      BY <2>1, WokenRow DEF TypeOK
    <2>3. task' \in [Tasks -> Rows]
      BY <1>3, <2>1, <2>2 DEF WakeParent, TypeOK
    <2>4. [Asleep EXCEPT !.parents = sweep[g].parents] \in Sweeps
      BY DEF Asleep, Sweeps
    <2>5. sweep' \in [Gateways -> Sweeps]
      BY <1>3, <2>4 DEF WakeParent, NextParent, TypeOK
    <2>. QED
      BY <1>3, <2>3, <2>5 DEF WakeParent, SweepUnchanged, TypeOK
  <1>4. CASE SweepDies(g)
    <2>1. upsets' \in 0..MaxUpsets
      BY <1>4, TreeConstants DEF SweepDies, Upset, TypeOK
    <2>. QED
      BY <1>4, <2>1 DEF SweepDies, SweepUnchanged, TypeOK
  <1>. QED
    BY <1>1, <1>2, <1>3, <1>4 DEF SweepStep

(* The steps of the tree, told apart by what they may do to it. *)
LEMMA Steps ==
    ASSUME Next
    PROVE  \/ \E t \in Tasks : RunStep(t) \/ UnblockTask(t) \/ ResumeTask(t)
           \/ \E s \in Splitters, t \in Tasks : CreateSubTask(s, t)
           \/ \E s \in Shells : InsertChild(s)
           \/ \E s \in Shells, t \in Tasks : CancelTask(s, t) \/ CancelChildren(s, t)
           \/ \E s \in Shells, t \in Tasks : CloseTask(s, t)
           \/ \E s \in Shells : CloseRefused(s) \/ CommandDies(s)
           \/ \E g \in Gateways : SweepStep(g) \/ SweepDies(g)
           \/ \E s \in Shells : shell[s].op = "closing" /\ CancelTask(s, shell[s].task)
  BY DEF Next, ShellStep, Shells

LEMMA NextType == TypeOK /\ [Next]_vars => TypeOK'
  <1>. SUFFICES ASSUME TypeOK, [Next]_vars PROVE TypeOK'
    OBVIOUS
  <1>1. CASE UNCHANGED vars
    BY <1>1 DEF vars, TypeOK
  <1>2. ASSUME NEW s \in Shells, shell[s].op = "closing",
               CancelTask(s, shell[s].task)
        PROVE  TypeOK'
    BY <1>2, NamedTask, CancelType
  <1>3. CASE Next
    BY <1>2, <1>3, Steps, RunStepType, ResumeType, CreateType, InsertType,
       CancelType, CommandType, SweepType DEF Shells
  <1>. QED
    BY <1>1, <1>3

(* The rows, the commands and the sweeps keep their types.                   *)
THEOREM TypeCorrect == Spec => []TypeOK
  BY InitType, NextType, PTL DEF Spec

----------------------------------------------------------------------------
(* What a step leaves of the tree.  Runs and sweeps write the row of one open *)
(* task and never cancel it; the other steps are taken one by one.           *)

RunEffect(t) ==
    /\ task[t].state \in Open
    /\ task'[t].state \in (Open \cup Ended) \ {"canceled"}
    /\ task'[t].parent = task[t].parent /\ task'[t].depth = task[t].depth
    /\ \A u \in Tasks \ {t} : task'[u] = task[u]
    /\ UNCHANGED <<shell, strays, resumes>>

LEMMA RunStepEffect ==
    ASSUME TypeOK, NEW t \in Tasks, RunStep(t) \/ UnblockTask(t)
    PROVE  RunEffect(t)
  <1>. task \in [Tasks -> Rows] /\ task[t] \in Rows
    BY DEF TypeOK
  <1>1. CASE Claim(t)
    BY <1>1 DEF Claim, RunsUnchanged, RunEffect, Open, Ended, Rows
  <1>2. CASE ReapExhausted(t)
    BY <1>2 DEF ReapExhausted, RunsUnchanged, RunEffect, Open, Ended, Rows
  <1>3. ASSUME NEW s \in RunEnds, EndRun(t, s, "")
        PROVE  RunEffect(t)
    <2>1. s \in (Open \cup Ended) \ {"canceled"}
      BY TreeConstants DEF Open, Ended
    <2>2. task[t].state \in Open
      BY <1>3 DEF EndRun, Open
    <2>. QED
      BY <1>3, <2>1, <2>2 DEF EndRun, RunsUnchanged, RunEffect, Rows
  <1>4. ASSUME NEW on \in {"children", "human"}, EndRun(t, "blocked", on)
        PROVE  RunEffect(t)
    BY <1>4 DEF EndRun, RunsUnchanged, RunEffect, Open, Ended, Rows
  <1>5. CASE UnblockTask(t)
    BY <1>5 DEF UnblockTask, RunsUnchanged, RunEffect, Open, Ended, Rows
  <1>. QED
    BY <1>1, <1>2, <1>3, <1>4, <1>5 DEF RunStep

Untouched == UNCHANGED <<task, shell, strays, resumes>>

LEMMA SweepEffect ==
    ASSUME TypeOK, NEW g \in Gateways, SweepStep(g) \/ SweepDies(g)
    PROVE  Untouched \/ \E t \in Tasks : RunEffect(t)
  <1>. sweep[g] \in Sweeps
    BY DEF TypeOK
  <1>. DEFINE p == sweep[g].parent
  <1>1. CASE WakeParent(g) /\ Waiting(p)
    <2>1. p \in Tasks /\ sweep[g].fruitless \in Nat
      BY <1>1 DEF WakeParent, Sweeps
    <2>. task \in [Tasks -> Rows] /\ task[p] \in Rows
      BY <2>1 DEF TypeOK
    <2>. DEFINE row == Woken(task[p], sweep[g].fruitless)
    <2>2. /\ row.parent = task[p].parent /\ row.depth = task[p].depth
          /\ row.state \in {task[p].state, "submitted"}
      BY <2>1, WokenRow
    <2>3. task' = [task EXCEPT ![p] = row]
      BY <1>1 DEF WakeParent
    <2>4. task[p].state = "blocked"
      BY <1>1 DEF Waiting
    <2>5. UNCHANGED <<shell, strays, resumes>>
      BY <1>1 DEF WakeParent, SweepUnchanged
    <2>. HIDE DEF row
    <2>6. RunEffect(p)
      BY <2>1, <2>2, <2>3, <2>4, <2>5 DEF RunEffect, Open, Ended
    <2>. QED
      BY <2>1, <2>6
  <1>2. CASE WakeParent(g) /\ ~Waiting(p)
    BY <1>2 DEF WakeParent, SweepUnchanged, Untouched
  <1>3. CASE ReadBlocked(g) \/ SweepDies(g)
    BY <1>3 DEF ReadBlocked, SweepDies, SweepUnchanged, Untouched
  <1>4. ASSUME NEW snap \in sweep[g].parents, ReadChildren(g, snap)
        PROVE  Untouched
    BY <1>4 DEF ReadChildren, SweepUnchanged, Untouched
  <1>. QED
    BY <1>1, <1>2, <1>3, <1>4 DEF SweepStep

LEMMA Effects ==
    ASSUME TypeOK, [Next]_vars
    PROVE  \/ Untouched
           \/ \E t \in Tasks : RunEffect(t)
           \/ \E t \in Tasks : ResumeTask(t)
           \/ \E s \in Splitters, t \in Tasks : CreateSubTask(s, t)
           \/ \E s \in Shells : InsertChild(s)
           \/ \E s \in Shells, t \in Tasks : CancelTask(s, t)
           \/ \E s \in Shells, t \in Tasks : CancelChildren(s, t)
           \/ \E s \in Shells, t \in Tasks : CloseTask(s, t)
           \/ \E s \in Shells : CloseRefused(s)
           \/ \E s \in Shells : CommandDies(s)
  <1>1. CASE UNCHANGED vars
    BY <1>1 DEF vars, Untouched
  <1>2. ASSUME NEW s \in Shells, shell[s].op = "closing",
               CancelTask(s, shell[s].task)
        PROVE  \E t \in Tasks : CancelTask(s, t)
    BY <1>2, NamedTask
  <1>3. CASE Next
    BY <1>2, <1>3, Steps, RunStepEffect, SweepEffect
  <1>. QED
    BY <1>1, <1>3

----------------------------------------------------------------------------
(* What has ended *)

NotBack(t) ==
    task[t].state \in Ended =>
        \/ task'[t].state = task[t].state
        \/ task[t].state = "failed" /\ resumes' > resumes

LEMMA StepNotBack ==
    ASSUME TypeOK, [Next]_vars
    PROVE  \A t \in Tasks : NotBack(t)
  <1>. SUFFICES ASSUME NEW t \in Tasks PROVE NotBack(t)
    OBVIOUS
  <1>. task \in [Tasks -> Rows] /\ task[t] \in Rows
    BY DEF TypeOK
  <1>1. CASE Untouched
    BY <1>1 DEF Untouched, NotBack
  <1>2. ASSUME NEW u \in Tasks, RunEffect(u)
        PROVE  NotBack(t)
    BY <1>2 DEF RunEffect, NotBack, Open, Ended
  <1>3. ASSUME NEW u \in Tasks, ResumeTask(u)
        PROVE  NotBack(t)
    <2>1. resumes' > resumes
      BY <1>3 DEF ResumeTask, TypeOK
    <2>2. t # u => task'[t] = task[t]
      BY <1>3 DEF ResumeTask
    <2>3. task[u].state = "failed"
      BY <1>3 DEF ResumeTask
    <2>. QED
      BY <2>1, <2>2, <2>3 DEF NotBack
  <1>4. ASSUME NEW s \in Shells, InsertChild(s)
        PROVE  NotBack(t)
    <2>1. NewId \in Tasks \ Existing
      BY <1>4, FreshId DEF InsertChild
    <2>2. t # NewId => task'[t] = task[t]
      BY <1>4, <2>1 DEF InsertChild
    <2>3. t = NewId => task[t].state = "absent"
      BY <2>1 DEF Existing
    <2>. QED
      BY <2>2, <2>3 DEF NotBack, Ended
  <1>5. ASSUME NEW s \in Shells, NEW u \in Tasks,
               CancelTask(s, u) \/ CancelChildren(s, u)
        PROVE  NotBack(t)
    <2>1. PICK S \in SUBSET Tasks : task' = Canceled(S) /\ \A x \in S : IsOpen(x)
      <3>1. CASE CancelTask(s, u)
        BY <3>1 DEF CancelTask
      <3>2. CASE CancelChildren(s, u)
        <4>1. task' = Canceled(OpenOf(u))
          BY <3>2 DEF CancelChildren, Flipped
        <4>2. OpenOf(u) \in SUBSET Tasks /\ \A x \in OpenOf(u) : IsOpen(x)
          BY DEF OpenOf, Children, Existing
        <4>. QED
          BY <4>1, <4>2
      <3>. QED
        BY <1>5, <3>1, <3>2
    <2>2. task'[t].state = IF t \in S THEN "canceled" ELSE task[t].state
      BY <2>1, CanceledRows
    <2>. QED
      BY <2>1, <2>2 DEF NotBack, IsOpen, Open, Ended
  <1>6. CASE UNCHANGED task
    BY <1>6 DEF NotBack
  <1>7. ASSUME NEW s \in Shells,
               \/ CloseRefused(s) \/ CommandDies(s)
               \/ \E u \in Tasks : CloseTask(s, u) \/ CreateSubTask(s, u)
        PROVE  UNCHANGED task
    BY <1>7 DEF CloseRefused, CommandDies, CloseTask, CreateSubTask
  <1>. Splitters \subseteq Shells
    BY DEF Shells
  <1>. QED
    BY <1>1, <1>2, <1>3, <1>4, <1>5, <1>6, <1>7, Effects

(* No sweep and no command brings an ended task back: a person resumes what    *)
(* failed, and nothing else moves.                                          *)
THEOREM EndedForGood == Spec => EndedStaysEnded
  <1>1. TypeOK /\ [Next]_vars => [\A t \in Tasks : NotBack(t)]_vars
    BY StepNotBack
  <1>2. Spec => [][\A t \in Tasks : NotBack(t)]_vars
    BY <1>1, TypeCorrect, PTL DEF Spec
  <1>3. (\A t \in Tasks : NotBack(t)) <=>
        \A t \in Tasks : task[t].state \in Ended =>
          \/ task'[t].state = task[t].state
          \/ task[t].state = "failed" /\ resumes' > resumes
    BY DEF NotBack
  <1>. QED
    BY <1>2, <1>3, PTL DEF EndedStaysEnded

----------------------------------------------------------------------------
(* The tree and the walks.  A task lies one level below its parent, so the    *)
(* level of a walk bounds from below the depth of what it still has to       *)
(* reach: what it drops at the last level is too deep to have children.      *)

Shape ==
    /\ Root \in Existing /\ task[Root].parent = NoTask
    /\ \A t \in Existing \ {Root} :
         /\ task[t].parent \in Existing
         /\ task[t].depth = task[task[t].parent].depth + 1

Below(t, level) == t \in Existing /\ task[t].depth >= level

Names(s) ==
    /\ shell[s].op = "inserting" => shell[s].task \in Existing
    /\ shell[s].op = "canceling" =>
         /\ \A t \in shell[s].frontier : Below(t, shell[s].level)
         /\ \A t \in shell[s].next : Below(t, shell[s].level + 1)

TreeInv == TypeOK /\ Shape /\ \A s \in Shells : Names(s)

(* The tree only grows: no step moves a task or changes its parent.          *)
Grows ==
    \A t \in Existing : /\ t \in Existing'
                        /\ task'[t].parent = task[t].parent
                        /\ task'[t].depth = task[t].depth

SameTree == Grows /\ Existing' \subseteq Existing

LEMMA BelowGrows ==
    ASSUME Grows
    PROVE  \A t \in Existing, level \in Nat : Below(t, level) => Below(t, level)'
  BY DEF Grows, Below

LEMMA NamesGrow ==
    ASSUME TypeOK, Grows, NEW s \in Shells, Names(s), shell'[s] = shell[s]
    PROVE  Names(s)'
  <1>1. CASE shell[s].op = "inserting"
    BY <1>1 DEF Names, Grows
  <1>2. CASE shell[s].op = "canceling"
    BY <1>2, BelowGrows DEF Names, Grows, Below
  <1>. QED
    BY <1>1, <1>2 DEF Names

LEMMA ShapeSame ==
    ASSUME Shape, SameTree
    PROVE  Shape'
  <1>1. Existing' = Existing
    BY DEF SameTree, Grows
  <1>. QED
    BY <1>1 DEF Shape, SameTree, Grows

(* Every step but the insertion of a child keeps the tree as it is.          *)
LEMMA RunEffectTree ==
    ASSUME TypeOK, NEW t \in Tasks, RunEffect(t) \/ ResumeTask(t)
    PROVE  SameTree
  <1>1. \A u \in Tasks : /\ task'[u].parent = task[u].parent
                         /\ task'[u].depth = task[u].depth
                         /\ task'[u].state = "absent" <=> task[u].state = "absent"
    <2>. task \in [Tasks -> Rows] /\ task[t] \in Rows
      BY DEF TypeOK
    <2>1. CASE RunEffect(t)
      BY <2>1 DEF RunEffect, Open, Ended
    <2>2. CASE ResumeTask(t)
      BY <2>2 DEF ResumeTask, Rows
    <2>. QED
      BY <2>1, <2>2
  <1>. QED
    BY <1>1 DEF SameTree, Grows, Existing

LEMMA CanceledTree ==
    ASSUME TypeOK, NEW S \in SUBSET Existing, task' = Canceled(S)
    PROVE  SameTree
  <1>. S \in SUBSET Tasks
    BY DEF Existing
  <1>. QED
    BY CanceledRows DEF SameTree, Grows, Existing

LEMMA SameTaskTree ==
    ASSUME UNCHANGED task
    PROVE  SameTree
  BY DEF SameTree, Grows, Existing

(* A task has no children on the deepest level.                              *)
LEMMA TooDeep ==
    ASSUME TypeOK, Shape, NEW t \in Existing, task[t].depth >= MaxDepth
    PROVE  Children(t) = {}
  <1>. SUFFICES ASSUME NEW c \in Children(t) PROVE FALSE
    OBVIOUS
  <1>1. c \in Existing /\ task[c].parent = t /\ t \in Tasks /\ c \in Tasks
    BY DEF Children, Existing
  <1>2. c # Root
    BY <1>1, TreeConstants DEF Shape
  <1>3. task[c].depth = task[t].depth + 1
    BY <1>1, <1>2 DEF Shape
  <1>4. task[c].depth \in 0..MaxDepth /\ task[t].depth \in 0..MaxDepth
    BY <1>1 DEF TypeOK, Rows
  <1>. QED
    BY <1>3, <1>4, TreeConstants

LEMMA InitTree == Init => TreeInv
  <1>. SUFFICES ASSUME Init PROVE TreeInv
    OBVIOUS
  <1>1. Root \in Tasks
    BY TreeConstants
  <1>2. task[Root] = Row(NoTask, 0) /\ \A t \in Tasks \ {Root} : task[t] = Absent
    BY <1>1 DEF Init
  <1>3. Row(NoTask, 0).state = "submitted" /\ Row(NoTask, 0).parent = NoTask
    BY DEF Row
  <1>4. task[Root].state = "submitted" /\ task[Root].parent = NoTask
    BY <1>2, <1>3
  <1>5. \A t \in Tasks \ {Root} : task[t].state = "absent"
    BY <1>2, AbsentRow
  <1>6. Existing = {Root}
    BY <1>1, <1>4, <1>5 DEF Existing
  <1>7. Shape
    BY <1>4, <1>6 DEF Shape
  <1>8. \A s \in Shells : Names(s)
    BY DEF Init, Names, Idle
  <1>. QED
    BY <1>7, <1>8, InitType DEF TreeInv

LEMMA NamedDone ==
    ASSUME NEW s \in Shells, shell'[s] = Idle
    PROVE  Names(s)'
  BY DEF Names, Idle

(* A child is inserted below a task that exists.                             *)
LEMMA InsertTree ==
    ASSUME TreeInv, NEW s \in Shells, InsertChild(s)
    PROVE  Grows /\ Shape'
  <1>. DEFINE p == shell[s].task
  <1>1. p \in Existing /\ p \in Tasks
    BY DEF TreeInv, Names, InsertChild, Existing
  <1>2. CASE task[p].depth < MaxDepth
    <2>. DEFINE new == NewId
    <2>1. new \in Tasks \ Existing
      BY FreshId DEF InsertChild
    <2>2. task' = [task EXCEPT ![new] = Row(p, task[p].depth + 1)]
      BY <1>2 DEF InsertChild
    <2>. HIDE DEF new
    <2>3. task \in [Tasks -> Rows]
      BY DEF TreeInv, TypeOK
    <2>4. /\ task'[new].state = "submitted" /\ task'[new].parent = p
          /\ task'[new].depth = task[p].depth + 1
      BY <2>1, <2>2, <2>3 DEF Row
    <2>5. \A t \in Tasks \ {new} : task'[t] = task[t]
      BY <2>2, <2>3
    <2>6. Existing' = Existing \cup {new}
      BY <2>1, <2>4, <2>5 DEF Existing
    <2>7. \A t \in Existing : t # new /\ t \in Tasks
      BY <2>1 DEF Existing
    <2>8. Grows
      BY <2>5, <2>6, <2>7 DEF Grows
    <2>9. Shape'
      <3>1. Root \in Existing' /\ task'[Root].parent = NoTask
        BY <2>5, <2>6, <2>7 DEF TreeInv, Shape
      <3>2. ASSUME NEW t \in Existing \ {Root}
            PROVE  /\ task'[t].parent \in Existing'
                   /\ task'[t].depth = task'[task'[t].parent].depth + 1
        <4>1. task[t].parent \in Existing
          BY DEF TreeInv, Shape
        <4>. QED
          BY <4>1, <2>5, <2>6, <2>7 DEF TreeInv, Shape
      <3>3. task'[p] = task[p]
        BY <1>1, <2>5, <2>7
      <3>. QED
        BY <3>1, <3>2, <3>3, <1>1, <2>4, <2>6 DEF Shape
    <2>. QED
      BY <2>8, <2>9
  <1>3. CASE ~(task[p].depth < MaxDepth)
    <2>1. UNCHANGED task
      BY <1>3 DEF InsertChild
    <2>. QED
      BY <2>1, SameTaskTree, ShapeSame DEF TreeInv, SameTree
  <1>. QED
    BY <1>2, <1>3

(* A walk that goes on takes its children one level down.                    *)
LEMMA CancelTree ==
    ASSUME TreeInv, NEW s \in Shells, NEW p \in Tasks, CancelChildren(s, p)
    PROVE  SameTree /\ Names(s)'
  <1>. DEFINE w == shell[s]
              frontier == w.frontier \ {p}
              next == w.next \cup Flipped(p)
              cmd == IF frontier # {} THEN Walking(frontier, next, w.level)
                     ELSE IF next = {} \/ LastLevel(w.level) THEN Idle
                     ELSE Walking(next, {}, w.level + 1)
  <1>1. /\ w.op = "canceling" /\ p \in w.frontier
        /\ task' = Canceled(Flipped(p))
        /\ shell' = [shell EXCEPT ![s] = cmd]
    BY DEF CancelChildren, Does
  <1>2. Flipped(p) \subseteq Existing
    BY DEF Flipped, OpenOf, Children
  <1>3. SameTree
    BY <1>1, <1>2, CanceledTree DEF TreeInv
  <1>4. w.level \in 0..(MaxDepth - 1)
    BY <1>1, WalkCommand DEF TreeInv
  <1>5. w.level \in Nat /\ w.level + 1 \in Nat
    BY <1>4, TreeConstants
  <1>6. \A t \in frontier : Below(t, w.level)
    BY <1>1 DEF TreeInv, Names
  <1>7. \A t \in next : Below(t, w.level + 1)
    <2>1. ASSUME NEW t \in Flipped(p)
          PROVE  Below(t, w.level + 1)
      <3>1. t \in Existing /\ task[t].parent = p /\ t # Root
        BY <1>2, TreeConstants DEF Flipped, OpenOf, Children, TreeInv, Shape
      <3>2. task[t].depth = task[p].depth + 1
        BY <3>1 DEF TreeInv, Shape
      <3>3. task[p].depth >= w.level
        BY <1>1 DEF TreeInv, Names, Below
      <3>4. task[p].depth \in Nat
        <4>1. task[p].depth \in 0..MaxDepth
          BY DEF TreeInv, TypeOK, Rows
        <4>. QED
          BY <4>1, TreeConstants
      <3>. QED
        BY <3>1, <3>2, <3>3, <3>4, <1>5 DEF Below
    <2>2. \A t \in w.next : Below(t, w.level + 1)
      BY <1>1 DEF TreeInv, Names
    <2>. QED
      BY <2>1, <2>2
  <1>8. PICK l \in Nat : l = w.level /\ l + 1 \in Nat
    BY <1>5
  <1>9. PICK F \in SUBSET Tasks, N \in SUBSET Tasks : F = frontier /\ N = next
    BY <1>1, <1>2, WalkCommand DEF TreeInv, Existing
  <1>10. shell'[s] \in {Idle, Walking(F, N, l), Walking(N, {}, l + 1)}
    BY <1>1, <1>8, <1>9 DEF TreeInv, TypeOK
  <1>11. \A t \in F : Below(t, l)'
    BY <1>3, <1>6, <1>8, <1>9, BelowGrows DEF SameTree, Below
  <1>12. \A t \in N : Below(t, l + 1)'
    BY <1>3, <1>7, <1>8, <1>9, BelowGrows DEF SameTree, Below
  <1>13. Names(s)'
    <2>1. CASE shell'[s] = Idle
      BY <2>1, NamedDone
    <2>2. CASE shell'[s] = Walking(F, N, l)
      BY <2>2, <1>11, <1>12 DEF Names, Walking
    <2>3. CASE shell'[s] = Walking(N, {}, l + 1)
      BY <2>3, <1>12 DEF Names, Walking
    <2>. QED
      BY <1>10, <2>1, <2>2, <2>3
  <1>. QED
    BY <1>3, <1>13

LEMMA StepTree == TreeInv /\ [Next]_vars => TreeInv'
  <1>. SUFFICES ASSUME TreeInv, [Next]_vars PROVE TreeInv'
    OBVIOUS
  <1>0. TypeOK'
    BY NextType DEF TreeInv
  <1>. TypeOK /\ Shape /\ \A s \in Shells : Names(s)
    BY DEF TreeInv
  <1>. shell \in [Shells -> Commands]
    BY DEF TypeOK
  <1>1. CASE Untouched
    BY <1>0, <1>1, SameTaskTree, ShapeSame, NamesGrow DEF Untouched, TreeInv, SameTree
  <1>2. ASSUME NEW t \in Tasks, RunEffect(t) \/ ResumeTask(t)
        PROVE  TreeInv'
    <2>1. UNCHANGED shell
      BY <1>2 DEF RunEffect, ResumeTask
    <2>. QED
      BY <1>0, <1>2, <2>1, RunEffectTree, ShapeSame, NamesGrow DEF TreeInv, SameTree
  <1>3. ASSUME NEW s \in Shells, NEW t \in Tasks,
               CreateSubTask(s, t) \/ CloseTask(s, t)
        PROVE  TreeInv'
    <2>1. SameTree /\ Shape'
      BY <1>3, SameTaskTree, ShapeSame DEF CreateSubTask, CloseTask
    <2>2. \A r \in Shells \ {s} : Names(r)'
      BY <1>3, <2>1, NamesGrow DEF CreateSubTask, CloseTask, Does, SameTree
    <2>3. Names(s)'
      <3>1. CASE CreateSubTask(s, t)
        <4>1. t \in Existing'
          BY <3>1, <2>1 DEF CreateSubTask, IsOpen, Open, Existing, SameTree, Grows
        <4>2. shell'[s] = [op |-> "inserting", task |-> t]
          BY <3>1 DEF CreateSubTask, Does
        <4>. QED
          BY <4>1, <4>2 DEF Names
      <3>2. CASE CloseTask(s, t)
        <4>1. shell'[s] = [op |-> "closing", task |-> t]
          BY <3>2 DEF CloseTask, Does
        <4>. QED
          BY <4>1 DEF Names
      <3>. QED
        BY <1>3, <3>1, <3>2
    <2>. QED
      BY <1>0, <2>1, <2>2, <2>3 DEF TreeInv
  <1>4. ASSUME NEW s \in Shells, InsertChild(s)
        PROVE  TreeInv'
    <2>1. Grows /\ Shape'
      BY <1>4, InsertTree
    <2>2. shell' = [shell EXCEPT ![s] = Idle]
      BY <1>4 DEF InsertChild, Does
    <2>. QED
      BY <1>0, <2>1, <2>2, NamesGrow, NamedDone DEF TreeInv
  <1>5. ASSUME NEW s \in Shells, NEW t \in Tasks, CancelTask(s, t)
        PROVE  TreeInv'
    <2>1. t \in Existing
      BY <1>5 DEF CancelTask, IsOpen, Open, Existing
    <2>2. SameTree
      BY <1>5, <2>1, CanceledTree DEF CancelTask
    <2>3. \A r \in Shells \ {s} : Names(r)'
      BY <1>5, <2>2, NamesGrow DEF CancelTask, Does, SameTree
    <2>4. Below(t, 0)'
      <3>1. task[t].depth \in 0..MaxDepth
        BY DEF TypeOK, Rows
      <3>. QED
        BY <2>1, <2>2, <3>1, TreeConstants DEF SameTree, Grows, Below
    <2>5. shell'[s] \in {Idle, Walking({t}, {}, 0)}
      BY <1>5 DEF CancelTask, Does
    <2>6. Names(s)'
      BY <2>4, <2>5 DEF Names, Walking, Idle
    <2>. QED
      BY <1>0, <2>2, <2>3, <2>6, ShapeSame DEF TreeInv
  <1>6. ASSUME NEW s \in Shells, NEW t \in Tasks, CancelChildren(s, t)
        PROVE  TreeInv'
    <2>1. SameTree /\ Names(s)'
      BY <1>6, CancelTree
    <2>2. \A r \in Shells \ {s} : shell'[r] = shell[r]
      BY <1>6 DEF CancelChildren, Does
    <2>3. \A r \in Shells \ {s} : Names(r)'
      BY <2>1, <2>2, NamesGrow DEF SameTree
    <2>. QED
      BY <1>0, <2>1, <2>3, ShapeSame DEF TreeInv
  <1>7. ASSUME NEW s \in Shells, CloseRefused(s) \/ CommandDies(s)
        PROVE  TreeInv'
    <2>1. UNCHANGED task /\ shell' = [shell EXCEPT ![s] = Idle]
      BY <1>7 DEF CloseRefused, CommandDies, Does
    <2>. QED
      BY <1>0, <2>1, SameTaskTree, ShapeSame, NamesGrow, NamedDone DEF TreeInv, SameTree
  <1>. Splitters \subseteq Shells
    BY DEF Shells
  <1>. QED
    BY <1>1, <1>2, <1>3, <1>4, <1>5, <1>6, <1>7, Effects

LEMMA TreeAlways == Spec => []TreeInv
  BY InitTree, StepTree, PTL DEF Spec

----------------------------------------------------------------------------
(* Cancellation reaches the whole tree *)

(* A child that is open below a canceled task is accounted for. *)
Reached(p, c) ==
    \/ c \in strays
    \/ \E s \in Shells : /\ shell[s].op = "canceling"
                        /\ p \in shell[s].frontier \cup shell[s].next

Orphan(p, c) == task[p].state = "canceled" /\ c \in OpenOf(p)

Accounted == \A p \in Tasks, c \in Tasks : Orphan(p, c) => Reached(p, c)

LEMMA AccountedIsReached == CancelReachesTree <=> Accounted
  BY DEF CancelReachesTree, Accounted, Orphan, Reached, OpenOf, Children, Existing

(* A step that leaves the walks and the strays alone needs to create no       *)
(* orphan; and a walk keeps what it has to reach while its shell is left alone. *)
LEMMA ReachedKept ==
    ASSUME NEW p, NEW c, Reached(p, c), strays \subseteq strays',
           \A s \in Shells : shell[s].op = "canceling" => shell'[s] = shell[s]
    PROVE  Reached(p, c)'
  BY DEF Reached

LEMMA AccountedKept ==
    ASSUME Accounted, strays \subseteq strays',
           \A s \in Shells : shell[s].op = "canceling" => shell'[s] = shell[s],
           \A p \in Tasks, c \in Tasks : Orphan(p, c)' => Orphan(p, c) \/ c \in strays'
    PROVE  Accounted'
  <1>. SUFFICES ASSUME NEW p \in Tasks, NEW c \in Tasks, Orphan(p, c)'
                PROVE  Reached(p, c)'
    BY DEF Accounted
  <1>1. CASE Orphan(p, c)
    BY <1>1, ReachedKept DEF Accounted
  <1>2. CASE c \in strays'
    BY <1>2 DEF Reached
  <1>. QED
    BY <1>1, <1>2

LEMMA RunEffectAccounted ==
    ASSUME TreeInv, Accounted, NEW t \in Tasks, RunEffect(t)
    PROVE  Accounted'
  <1>1. SameTree
    BY RunEffectTree DEF TreeInv
  <1>2. ASSUME NEW p \in Tasks, NEW c \in Tasks, Orphan(p, c)'
        PROVE  Orphan(p, c)
    <2>1. task'[p].state = "canceled" /\ c \in Existing' /\ task'[c].parent = p
          /\ task'[c].state \in Open
      BY <1>2 DEF Orphan, OpenOf, Children, IsOpen
    <2>2. task[p].state = "canceled"
      BY <2>1 DEF RunEffect
    <2>3. c \in Existing /\ task[c].parent = p
      BY <1>1, <2>1 DEF SameTree, Grows
    <2>4. task[c].state \in Open
      BY <2>1 DEF RunEffect
    <2>. QED
      BY <2>2, <2>3, <2>4 DEF Orphan, OpenOf, Children, IsOpen
  <1>3. UNCHANGED <<shell, strays>>
    BY DEF RunEffect
  <1>. QED
    BY <1>2, <1>3, AccountedKept

(* The resumed child of a task that has ended is a stray. *)
LEMMA ResumeAccounted ==
    ASSUME TreeInv, Accounted, NEW t \in Tasks, ResumeTask(t)
    PROVE  Accounted'
  <1>1. SameTree
    BY RunEffectTree DEF TreeInv
  <1>2. \A u \in Tasks \ {t} : task'[u] = task[u]
    BY DEF ResumeTask, TreeInv, TypeOK
  <1>3. task'[t].state = "submitted"
    BY DEF ResumeTask, TreeInv, TypeOK, Rows
  <1>4. ASSUME NEW p \in Tasks, NEW c \in Tasks, Orphan(p, c)'
        PROVE  Orphan(p, c) \/ c \in strays'
    <2>1. /\ task'[p].state = "canceled" /\ c \in Existing' /\ task'[c].parent = p
          /\ task'[c].state \in Open
      BY <1>4 DEF Orphan, OpenOf, Children, IsOpen
    <2>2. p # t /\ task[p].state = "canceled"
      BY <1>2, <1>3, <2>1
    <2>3. c \in Existing /\ task[c].parent = p
      BY <1>1, <2>1 DEF SameTree, Grows
    <2>4. CASE c = t
      <3>1. c # Root
        BY <2>3, TreeConstants DEF TreeInv, Shape
      <3>2. ~IsOpen(p)
        BY <2>2 DEF IsOpen, Open
      <3>. QED
        BY <2>3, <2>4, <3>1, <3>2 DEF ResumeTask
    <2>5. CASE c # t
      BY <1>2, <2>1, <2>2, <2>3, <2>5 DEF Orphan, OpenOf, Children, IsOpen
    <2>. QED
      BY <2>4, <2>5
  <1>. QED
    BY <1>4, AccountedKept DEF ResumeTask

(* So is a child inserted under a task that has ended. *)
LEMMA InsertAccounted ==
    ASSUME TreeInv, Accounted, NEW s \in Shells, InsertChild(s)
    PROVE  Accounted'
  <1>. DEFINE p == shell[s].task
  <1>0. strays \subseteq strays'
        /\ \A r \in Shells : shell[r].op = "canceling" => shell'[r] = shell[r]
    BY DEF InsertChild, Does
  <1>1. CASE task[p].depth < MaxDepth
    <2>. DEFINE new == NewId
    <2>1. new \in Tasks \ Existing
      BY FreshId DEF InsertChild
    <2>2. /\ task' = [task EXCEPT ![new] = Row(p, task[p].depth + 1)]
          /\ strays' = IF IsOpen(p) THEN strays ELSE strays \cup {new}
      BY <1>1 DEF InsertChild
    <2>. HIDE DEF new
    <2>3. task \in [Tasks -> Rows]
      BY DEF TreeInv, TypeOK
    <2>4. task'[new].state = "submitted" /\ task'[new].parent = p
      BY <2>1, <2>2, <2>3 DEF Row
    <2>5. \A t \in Tasks \ {new} : task'[t] = task[t]
      BY <2>2, <2>3
    <2>6. ASSUME NEW q \in Tasks, NEW c \in Tasks, Orphan(q, c)'
          PROVE  Orphan(q, c) \/ c \in strays'
      <3>1. /\ task'[q].state = "canceled" /\ c \in Existing' /\ task'[c].parent = q
            /\ task'[c].state \in Open
        BY <2>6 DEF Orphan, OpenOf, Children, IsOpen
      <3>2. q # new /\ task[q].state = "canceled"
        BY <2>4, <2>5, <3>1
      <3>3. CASE c = new
        <4>1. q = p
          BY <2>4, <3>1, <3>3
        <4>2. ~IsOpen(p)
          BY <3>2, <4>1 DEF IsOpen, Open
        <4>. QED
          BY <2>2, <3>3, <4>2
      <3>4. CASE c # new
        <4>1. task[c].state # "absent"
          BY <2>5, <3>1, <3>4 DEF Open
        <4>. QED
          BY <2>5, <3>1, <3>2, <3>4, <4>1 DEF Orphan, OpenOf, Children, Existing, IsOpen
      <3>. QED
        BY <3>3, <3>4
    <2>. QED
      BY <1>0, <2>6, AccountedKept
  <1>2. CASE ~(task[p].depth < MaxDepth)
    <2>1. UNCHANGED task
      BY <1>2 DEF InsertChild
    <2>2. \A q \in Tasks, c \in Tasks : Orphan(q, c)' => Orphan(q, c)
      BY <2>1 DEF Orphan, OpenOf, Children, Existing, IsOpen
    <2>. QED
      BY <1>0, <2>2, AccountedKept
  <1>. QED
    BY <1>1, <1>2

(* What a task canceled now leaves open is its own: it was open, or canceled   *)
(* before.                                                                  *)
LEMMA CanceledOrphans ==
    ASSUME TreeInv, NEW S \in SUBSET Existing, task' = Canceled(S),
           NEW p \in Tasks, NEW c \in Tasks, Orphan(p, c)'
    PROVE  /\ c \in Children(p) /\ c \notin S
           /\ p \in S \/ Orphan(p, c)
  <1>. S \in SUBSET Tasks /\ TypeOK
    BY DEF Existing, TreeInv
  <1>1. SameTree
    BY CanceledTree
  <1>2. \A t \in Tasks : task'[t].state = IF t \in S THEN "canceled"
                                           ELSE task[t].state
    BY CanceledRows
  <1>3. /\ task'[p].state = "canceled" /\ c \in Existing' /\ task'[c].parent = p
        /\ task'[c].state \in Open
    BY DEF Orphan, OpenOf, Children, IsOpen
  <1>4. c \in Children(p)
    BY <1>1, <1>3 DEF SameTree, Grows, Children
  <1>5. c \notin S /\ task[c].state \in Open
    BY <1>2, <1>3 DEF Open
  <1>6. p \in S \/ task[p].state = "canceled"
    BY <1>2, <1>3
  <1>. QED
    BY <1>4, <1>5, <1>6 DEF Orphan, OpenOf, IsOpen

LEMMA CancelTaskAccounted ==
    ASSUME TreeInv, Accounted, NEW s \in Shells, NEW t \in Tasks, CancelTask(s, t)
    PROVE  Accounted'
  <1>1. t \in Existing /\ task' = Canceled({t}) /\ strays' = strays
    BY DEF CancelTask, IsOpen, Open, Existing, CancelUnchanged
  <1>2. \A r \in Shells : shell[r].op = "canceling" => shell'[r] = shell[r]
    BY DEF CancelTask, Does, Idle, TreeInv, TypeOK
  <1>3. ASSUME NEW p \in Tasks, NEW c \in Tasks, Orphan(p, c)'
        PROVE  Reached(p, c)'
    <2>1. c \in Children(p) /\ (p = t \/ Orphan(p, c))
      BY <1>1, <1>3, CanceledOrphans
    <2>2. CASE Orphan(p, c)
      BY <1>1, <1>2, <2>2, ReachedKept DEF Accounted
    <2>3. CASE p = t
      <3>1. MaxDepth # 0
        <4>1. task[t].depth \in 0..MaxDepth
          BY DEF TreeInv, TypeOK, Rows
        <4>2. MaxDepth = 0 => task[t].depth >= MaxDepth
          BY <4>1
        <4>. QED
          BY <1>1, <2>1, <2>3, <4>2, TooDeep DEF TreeInv
      <3>2. shell'[s] = Walking({t}, {}, 0)
        BY <3>1 DEF CancelTask, Does, TreeInv, TypeOK
      <3>. QED
        BY <2>3, <3>2 DEF Reached, Walking
    <2>. QED
      BY <2>1, <2>2, <2>3
  <1>. QED
    BY <1>3 DEF Accounted

(* A task that a level cancels is on the next one; one the walk drops at the   *)
(* last level is too deep to have children.                                  *)
LEMMA WalkAccounted ==
    ASSUME TreeInv, Accounted, NEW s \in Shells, NEW t \in Tasks, CancelChildren(s, t)
    PROVE  Accounted'
  <1>. DEFINE w == shell[s]
              frontier == w.frontier \ {t}
              next == w.next \cup Flipped(t)
              cmd == IF frontier # {} THEN Walking(frontier, next, w.level)
                     ELSE IF next = {} \/ LastLevel(w.level) THEN Idle
                     ELSE Walking(next, {}, w.level + 1)
  <1>1. /\ w.op = "canceling" /\ t \in w.frontier
        /\ task' = Canceled(Flipped(t))
        /\ shell' = [shell EXCEPT ![s] = cmd]
        /\ strays' = strays
    BY DEF CancelChildren, Does, CancelUnchanged
  <1>2. Flipped(t) \subseteq Existing
    BY DEF Flipped, OpenOf, Children
  <1>3. shell'[s] = cmd /\ \A r \in Shells \ {s} : shell'[r] = shell[r]
    BY <1>1 DEF TreeInv, TypeOK
  <1>4. w.level \in 0..(MaxDepth - 1)
    BY <1>1, WalkCommand DEF TreeInv
  <1>5. \A q \in next : q \in Existing /\ (LastLevel(w.level) => Children(q) = {})
    <2>. SUFFICES ASSUME NEW q \in next
                  PROVE  q \in Existing /\ (LastLevel(w.level) => Children(q) = {})
      OBVIOUS
    <2>1. q \in Existing /\ task[q].depth >= w.level + 1
      <3>1. CASE q \in w.next
        BY <1>1, <3>1 DEF TreeInv, Names, Below
      <3>2. CASE q \in Flipped(t)
        <4>1. q \in Existing /\ task[q].parent = t /\ q # Root
          BY <3>2, TreeConstants DEF Flipped, OpenOf, Children, TreeInv, Shape
        <4>2. task[q].depth = task[t].depth + 1
          BY <4>1 DEF TreeInv, Shape
        <4>3. task[t].depth >= w.level
          BY <1>1 DEF TreeInv, Names, Below
        <4>4. task[t].depth \in 0..MaxDepth
          BY DEF TreeInv, TypeOK, Rows
        <4>. QED
          BY <1>4, <4>1, <4>2, <4>3, <4>4, TreeConstants
      <3>. QED
        BY <3>1, <3>2
    <2>2. LastLevel(w.level) => task[q].depth >= MaxDepth
      BY <2>1 DEF LastLevel
    <2>. QED
      BY <2>1, <2>2, TooDeep DEF TreeInv
  <1>6. ASSUME NEW q \in Tasks, q \in frontier \cup next, Children(q) # {}
        PROVE  /\ shell'[s].op = "canceling"
               /\ q \in shell'[s].frontier \cup shell'[s].next
    <2>1. CASE frontier # {}
      BY <1>3, <1>6, <2>1 DEF Walking
    <2>2. CASE frontier = {}
      <3>1. q \in next /\ ~LastLevel(w.level)
        BY <1>5, <1>6, <2>2
      <3>2. shell'[s] = Walking(next, {}, w.level + 1)
        BY <1>3, <2>2, <3>1
      <3>. QED
        BY <3>1, <3>2 DEF Walking
    <2>. QED
      BY <2>1, <2>2
  <1>7. ASSUME NEW p \in Tasks, NEW c \in Tasks, Orphan(p, c)'
        PROVE  Reached(p, c)'
    <2>1. /\ c \in Children(p) /\ c \notin Flipped(t)
          /\ p \in Flipped(t) \/ Orphan(p, c)
      BY <1>1, <1>2, <1>7, CanceledOrphans
    <2>2. CASE p \in frontier \cup next
      BY <1>6, <2>1, <2>2 DEF Reached
    <2>3. CASE p \notin frontier \cup next
      <3>1. Orphan(p, c) /\ p # t
        BY <2>1, <2>3 DEF Orphan, Flipped
      <3>2. Reached(p, c)
        BY <3>1 DEF Accounted
      <3>3. p \notin w.frontier \cup w.next
        BY <2>3, <3>1
      <3>. QED
        BY <1>1, <1>3, <3>2, <3>3 DEF Reached
    <2>. QED
      BY <2>2, <2>3
  <1>. QED
    BY <1>7 DEF Accounted

(* A walk that dies leaves strays. *)
LEMMA DiesAccounted ==
    ASSUME TreeInv, Accounted, NEW s \in Shells, CommandDies(s)
    PROVE  Accounted'
  <1>1. task' = task /\ strays \subseteq strays'
        /\ \A r \in Shells \ {s} : shell'[r] = shell[r]
    BY DEF CommandDies, Does
  <1>2. ASSUME NEW p \in Tasks, NEW c \in Tasks, Orphan(p, c)'
        PROVE  Reached(p, c)'
    <2>1. Orphan(p, c) /\ c \in Existing /\ task[c].parent = p
      BY <1>1, <1>2 DEF Orphan, OpenOf, Children, Existing, IsOpen
    <2>2. Reached(p, c)
      BY <2>1 DEF Accounted
    <2>3. CASE shell[s].op = "canceling" /\ p \in shell[s].frontier \cup shell[s].next
      <3>1. c \in strays'
        BY <2>1, <2>3 DEF CommandDies
      <3>. QED
        BY <3>1 DEF Reached
    <2>4. CASE ~(shell[s].op = "canceling" /\ p \in shell[s].frontier \cup shell[s].next)
      BY <1>1, <2>2, <2>4 DEF Reached
    <2>. QED
      BY <2>3, <2>4
  <1>. QED
    BY <1>2 DEF Accounted

LEMMA StepAccounted == TreeInv /\ Accounted /\ [Next]_vars => Accounted'
  <1>. SUFFICES ASSUME TreeInv, Accounted, [Next]_vars PROVE Accounted'
    OBVIOUS
  <1>1. ASSUME UNCHANGED <<task, strays>>,
               \A s \in Shells : shell[s].op = "canceling" => shell'[s] = shell[s]
        PROVE  Accounted'
    <2>1. \A p \in Tasks, c \in Tasks : Orphan(p, c)' => Orphan(p, c)
      BY <1>1 DEF Orphan, OpenOf, Children, Existing, IsOpen
    <2>. QED
      BY <1>1, <2>1, AccountedKept
  <1>2. CASE Untouched
    BY <1>1, <1>2 DEF Untouched
  <1>3. ASSUME NEW s \in Shells,
               \/ CloseRefused(s)
               \/ \E t \in Tasks : CloseTask(s, t) \/ CreateSubTask(s, t)
        PROVE  Accounted'
    <2>1. UNCHANGED <<task, strays>>
      BY <1>3 DEF CloseRefused, CloseTask, CreateSubTask, CancelUnchanged
    <2>2. shell[s].op # "canceling"
      <3>1. Idle.op = "idle"
        BY DEF Idle
      <3>2. shell[s] = Idle \/ shell[s].op = "closing"
        BY <1>3 DEF CloseRefused, CloseTask, CreateSubTask
      <3>. QED
        BY <3>1, <3>2
    <2>3. \A r \in Shells \ {s} : shell'[r] = shell[r]
      BY <1>3 DEF CloseRefused, CloseTask, CreateSubTask, Does, TreeInv, TypeOK
    <2>. QED
      BY <1>1, <2>1, <2>2, <2>3
  <1>. Splitters \subseteq Shells
    BY DEF Shells
  <1>. QED
    BY <1>2, <1>3, Effects, RunEffectAccounted, ResumeAccounted, InsertAccounted,
       CancelTaskAccounted, WalkAccounted, DiesAccounted DEF TreeInv

(* Canceling a goal cancels its tree: every child still open under a canceled  *)
(* task is one a walk has still to reach, or one that came when its parent    *)
(* had ended, or that a walk left when it died.                              *)
THEOREM CancellationReachesTree == Spec => []CancelReachesTree
  <1>1. Init => Accounted
    <2>1. Row(NoTask, 0).state = "submitted"
      BY DEF Row
    <2>2. Init => \A p \in Tasks : task[p].state \in {"submitted", "absent"}
      BY <2>1, AbsentRow DEF Init
    <2>. QED
      BY <2>2 DEF Accounted, Orphan
  <1>2. Spec => []Accounted
    BY <1>1, StepAccounted, TreeAlways, PTL DEF Spec
  <1>. QED
    BY <1>2, AccountedIsReached, PTL

----------------------------------------------------------------------------
(* The caps.  A shell that has read a count holds a place in it until it has   *)
(* inserted its child: the count and the places taken together stay below the *)
(* cap and one place for each shell that splits.                             *)

LEMMA FiniteTree ==
    /\ IsFiniteSet(Existing) /\ IsFiniteSet(Inserting) /\ IsFiniteSet(Splitters)
    /\ \A p \in Tasks : IsFiniteSet(OpenOf(p)) /\ IsFiniteSet(Splitting(p))
  <1>1. Existing \subseteq Tasks /\ \A p \in Tasks : OpenOf(p) \subseteq Tasks
    BY DEF Existing, OpenOf, Children
  <1>2. Inserting \subseteq Shells /\ Splitters \subseteq Shells
        /\ \A p \in Tasks : Splitting(p) \subseteq Shells
    BY DEF Inserting, Splitting, Shells
  <1>3. IsFiniteSet(Tasks) /\ IsFiniteSet(Shells)
    BY TreeConstants DEF Shells
  <1>. QED
    BY <1>1, <1>2, <1>3, FS_Subset

(* Only splitters split. *)
OnlySplitters == Inserting \subseteq Splitters

LEMMA SplittingInserts ==
    ASSUME NEW p
    PROVE  Splitting(p) \subseteq Inserting
  BY DEF Splitting, Inserting

LEMMA OneMore ==
    ASSUME NEW S, NEW x, IsFiniteSet(S)
    PROVE  IsFiniteSet(S \cup {x}) /\ Cardinality(S \cup {x}) <= Cardinality(S) + 1
  <1>1. Cardinality(S) \in Nat
    BY FS_CardinalityType
  <1>2. /\ IsFiniteSet(S \cup {x})
        /\ Cardinality(S \cup {x}) = Cardinality(S)
           \/ Cardinality(S \cup {x}) = Cardinality(S) + 1
    BY FS_AddElement
  <1>. QED
    BY <1>1, <1>2

LEMMA CardBelow ==
    ASSUME NEW S, NEW T, IsFiniteSet(T), S \subseteq T
    PROVE  /\ IsFiniteSet(S) /\ Cardinality(S) \in Nat /\ Cardinality(T) \in Nat
           /\ Cardinality(S) <= Cardinality(T)
  BY FS_Subset, FS_CardinalityType

(* A step that adds no task, or takes a place back for the one it adds.       *)
LEMMA Room ==
    ASSUME NEW S, NEW P, NEW S1, NEW P1, IsFiniteSet(S), IsFiniteSet(P),
           NEW cap \in Nat, Cardinality(S) + Cardinality(P) < cap,
           \/ S1 \subseteq S /\ P1 \subseteq P
           \/ \E x, y : S1 \subseteq S \cup {x} /\ y \in P /\ P1 \subseteq P \ {y}
    PROVE  Cardinality(S1) + Cardinality(P1) < cap
  <1>. Cardinality(S) \in Nat /\ Cardinality(P) \in Nat
    BY FS_CardinalityType
  <1>1. CASE S1 \subseteq S /\ P1 \subseteq P
    <2>1. /\ Cardinality(S1) \in Nat /\ Cardinality(S1) <= Cardinality(S)
          /\ Cardinality(P1) \in Nat /\ Cardinality(P1) <= Cardinality(P)
      BY <1>1, CardBelow
    <2>. QED
      BY <2>1
  <1>2. ASSUME NEW x, NEW y, S1 \subseteq S \cup {x}, y \in P, P1 \subseteq P \ {y}
        PROVE  Cardinality(S1) + Cardinality(P1) < cap
    <2>1. /\ IsFiniteSet(S \cup {x}) /\ Cardinality(S \cup {x}) <= Cardinality(S) + 1
      BY OneMore
    <2>2. /\ IsFiniteSet(P \ {y}) /\ Cardinality(P \ {y}) = Cardinality(P) - 1
      BY <1>2, FS_RemoveElement
    <2>3. /\ Cardinality(S1) \in Nat /\ Cardinality(S1) <= Cardinality(S \cup {x})
          /\ Cardinality(S \cup {x}) \in Nat
      BY <1>2, <2>1, CardBelow
    <2>4. /\ Cardinality(P1) \in Nat /\ Cardinality(P1) <= Cardinality(P \ {y})
      BY <1>2, <2>2, CardBelow
    <2>. QED
      BY <2>1, <2>2, <2>3, <2>4
  <1>. QED
    BY <1>1, <1>2

(* A step that leaves who is splitting alone, or sends one home.              *)
LEMMA SplittersKept ==
    ASSUME \A s \in Shells : shell'[s] = shell[s] \/ shell'[s].op # "inserting"
    PROVE  /\ Inserting' \subseteq Inserting
           /\ OnlySplitters => OnlySplitters'
           /\ \A p \in Tasks : Splitting(p)' \subseteq Splitting(p)
  <1>1. Inserting' \subseteq Inserting
    BY DEF Inserting
  <1>2. \A p \in Tasks : Splitting(p)' \subseteq Splitting(p)
    BY DEF Splitting
  <1>. QED
    BY <1>1, <1>2 DEF OnlySplitters

CapInv == OnlySplitters /\ TreeCap /\ \A p \in Tasks : ChildrenCap(p)

CapsAreNaturals ==
    /\ Cardinality(Splitters) \in Nat
    /\ MaxTasksPerContext \in Nat /\ MaxOpenChildren \in Nat

LEMMA Caps == CapsAreNaturals
  BY FiniteTree, FS_CardinalityType, TreeConstants DEF CapsAreNaturals

LEMMA CapsKept ==
    ASSUME TypeOK, CapInv, Existing' \subseteq Existing, resumes' = resumes,
           \A p \in Tasks : OpenOf(p)' \subseteq OpenOf(p),
           \A s \in Shells : shell'[s] = shell[s] \/ shell'[s].op # "inserting"
    PROVE  CapInv'
  <1>1. /\ Inserting' \subseteq Inserting /\ OnlySplitters'
        /\ \A p \in Tasks : Splitting(p)' \subseteq Splitting(p)
    BY SplittersKept DEF CapInv
  <1>2. TreeCap'
    <2>1. MaxTasksPerContext + Cardinality(Splitters) \in Nat
      BY Caps DEF CapsAreNaturals
    <2>. QED
      BY <1>1, <2>1, FiniteTree, Room DEF CapInv, TreeCap
  <1>3. ASSUME NEW p \in Tasks
        PROVE  ChildrenCap(p)'
    <2>1. MaxOpenChildren + Cardinality(Splitters) + resumes \in Nat
      BY Caps DEF CapsAreNaturals, TypeOK
    <2>. QED
      BY <1>1, <2>1, FiniteTree, Room DEF CapInv, ChildrenCap
  <1>. QED
    BY <1>1, <1>2, <1>3 DEF CapInv

(* A shell that begins to split has seen a count below the cap. *)
LEMMA CreateCaps ==
    ASSUME TypeOK, CapInv, NEW s \in Splitters, NEW t \in Tasks, CreateSubTask(s, t)
    PROVE  CapInv'
  <1>0. s \in Shells
    BY DEF Shells
  <1>1. /\ UNCHANGED <<task, resumes>>
        /\ shell' = [shell EXCEPT ![s] = [op |-> "inserting", task |-> t]]
        /\ Cardinality(OpenOf(t)) < MaxOpenChildren
        /\ Cardinality(Existing) < MaxTasksPerContext
    BY DEF CreateSubTask, CreateUnchanged, Does, UnderCaps
  <1>2. Existing' = Existing /\ \A p \in Tasks : OpenOf(p)' = OpenOf(p)
    BY <1>1 DEF Existing, OpenOf, Children, IsOpen
  <1>3. \A r \in Shells \ {s} : shell'[r] = shell[r]
    BY <1>1 DEF TypeOK
  <1>4. OnlySplitters'
    BY <1>3 DEF CapInv, OnlySplitters, Inserting
  <1>5. Cardinality(Inserting') \in Nat /\ Cardinality(Inserting') <= Cardinality(Splitters)
    BY <1>4, FiniteTree, CardBelow DEF OnlySplitters
  <1>6. TreeCap'
    <2>1. Cardinality(Existing) \in Nat
      BY FiniteTree, FS_CardinalityType
    <2>. QED
      BY <1>1, <1>2, <1>5, <2>1, Caps DEF TreeCap, CapsAreNaturals
  <1>7. ASSUME NEW p \in Tasks
        PROVE  ChildrenCap(p)'
    <2>0. /\ Cardinality(OpenOf(p)) \in Nat /\ Cardinality(Splitting(p)) \in Nat
          /\ resumes \in Nat
      BY FiniteTree, FS_CardinalityType DEF TypeOK
    <2>1. CASE p = t
      <3>1. Splitting(p)' \subseteq Splitters
        BY <1>4 DEF OnlySplitters, Splitting, Inserting
      <3>2. /\ Cardinality(Splitting(p)') \in Nat
            /\ Cardinality(Splitting(p)') <= Cardinality(Splitters)
        BY <3>1, FiniteTree, CardBelow
      <3>3. Cardinality(OpenOf(p)') < MaxOpenChildren /\ resumes' = resumes
            /\ OpenOf(p)' = OpenOf(p)
        BY <1>1, <1>2, <2>1
      <3>. QED
        BY <2>0, <3>2, <3>3, Caps DEF ChildrenCap, CapsAreNaturals
    <2>2. CASE p # t
      <3>1. Splitting(p)' \subseteq Splitting(p)
        BY <1>0, <1>1, <1>3, <2>2 DEF Splitting, TypeOK
      <3>2. MaxOpenChildren + Cardinality(Splitters) + resumes \in Nat
        BY <2>0, Caps DEF CapsAreNaturals
      <3>. QED
        BY <1>1, <1>2, <3>1, <3>2, FiniteTree, Room DEF CapInv, ChildrenCap
    <2>. QED
      BY <2>1, <2>2
  <1>. QED
    BY <1>4, <1>6, <1>7 DEF CapInv

(* The child that is inserted takes the place its shell held. *)
LEMMA InsertCaps ==
    ASSUME TypeOK, CapInv, NEW s \in Shells, InsertChild(s)
    PROVE  CapInv'
  <1>. DEFINE p == shell[s].task
              new == NewId
  <1>1. /\ shell[s].op = "inserting" /\ resumes' = resumes
        /\ shell' = [shell EXCEPT ![s] = Idle]
    BY DEF InsertChild, Does, CreateUnchanged
  <1>2. /\ shell'[s].op # "inserting"
        /\ \A r \in Shells \ {s} : shell'[r] = shell[r]
    BY <1>1 DEF TypeOK, Idle
  <1>3. CASE task[p].depth < MaxDepth
    <2>1. new \in Tasks \ Existing /\ p \in Tasks
      BY FreshId, NamedTask DEF InsertChild
    <2>2. task' = [task EXCEPT ![new] = Row(p, task[p].depth + 1)]
      BY <1>3 DEF InsertChild
    <2>. HIDE DEF new
    <2>3. task'[new].state = "submitted" /\ task'[new].parent = p
      BY <2>1, <2>2 DEF TypeOK, Row
    <2>4. \A t \in Tasks \ {new} : task'[t] = task[t]
      BY <2>1, <2>2 DEF TypeOK
    <2>5. Existing' \subseteq Existing \cup {new}
      BY <2>4 DEF Existing
    <2>6. \A q \in Tasks : OpenOf(q)' \subseteq OpenOf(q) \cup {new}
      BY <2>4 DEF OpenOf, Children, Existing, IsOpen
    <2>7. \A q \in Tasks \ {p} : OpenOf(q)' \subseteq OpenOf(q)
      BY <2>3, <2>4 DEF OpenOf, Children, Existing, IsOpen
    <2>8. /\ OnlySplitters' /\ \A q \in Tasks : Splitting(q)' \subseteq Splitting(q)
      BY <1>2, SplittersKept DEF CapInv
    <2>9. s \in Inserting /\ Inserting' \subseteq Inserting \ {s}
      BY <1>1, <1>2 DEF Inserting
    <2>10. s \in Splitting(p) /\ \A q \in Tasks : Splitting(q)' \subseteq Splitting(q) \ {s}
      <3>1. shell[s] = [op |-> "inserting", task |-> p]
        <4>1. shell[s] \in Commands
          BY DEF TypeOK
        <4>. QED
          BY <1>1, <4>1 DEF Commands, Idle
      <3>. QED
        BY <1>2, <2>8, <3>1 DEF Splitting
    <2>11. TreeCap'
      <3>1. MaxTasksPerContext + Cardinality(Splitters) \in Nat
        BY Caps DEF CapsAreNaturals
      <3>2. \E x, y : Existing' \subseteq Existing \cup {x} /\ y \in Inserting
                     /\ Inserting' \subseteq Inserting \ {y}
        BY <2>5, <2>9
      <3>. QED
        BY <3>1, <3>2, FiniteTree, Room DEF CapInv, TreeCap
    <2>12. ASSUME NEW q \in Tasks
           PROVE  ChildrenCap(q)'
      <3>1. MaxOpenChildren + Cardinality(Splitters) + resumes \in Nat
        BY Caps DEF CapsAreNaturals, TypeOK
      <3>2. \/ OpenOf(q)' \subseteq OpenOf(q) /\ Splitting(q)' \subseteq Splitting(q)
            \/ \E x, y : OpenOf(q)' \subseteq OpenOf(q) \cup {x} /\ y \in Splitting(q)
                        /\ Splitting(q)' \subseteq Splitting(q) \ {y}
        BY <2>6, <2>7, <2>8, <2>10
      <3>3. Cardinality(OpenOf(q)) + Cardinality(Splitting(q))
               < MaxOpenChildren + Cardinality(Splitters) + resumes
        BY DEF CapInv, ChildrenCap
      <3>4. Cardinality(OpenOf(q)') + Cardinality(Splitting(q)')
               < MaxOpenChildren + Cardinality(Splitters) + resumes
        BY <3>1, <3>2, <3>3, FiniteTree, Room
      <3>. QED
        BY <1>1, <3>4 DEF ChildrenCap
    <2>. QED
      BY <2>8, <2>11, <2>12 DEF CapInv
  <1>4. CASE ~(task[p].depth < MaxDepth)
    <2>1. UNCHANGED task
      BY <1>4 DEF InsertChild
    <2>2. Existing' = Existing /\ \A q \in Tasks : OpenOf(q)' = OpenOf(q)
      BY <2>1 DEF Existing, OpenOf, Children, IsOpen
    <2>. QED
      BY <1>1, <1>2, <2>2, CapsKept
  <1>. QED
    BY <1>3, <1>4

(* A resumed child counts among the open ones once more. *)
LEMMA ResumeCaps ==
    ASSUME TypeOK, CapInv, NEW t \in Tasks, ResumeTask(t)
    PROVE  CapInv'
  <1>1. UNCHANGED shell /\ resumes' = resumes + 1
    BY DEF ResumeTask
  <1>2. Existing' \subseteq Existing
    BY RunEffectTree DEF SameTree
  <1>3. \A u \in Tasks \ {t} : task'[u] = task[u]
    BY DEF ResumeTask, TypeOK
  <1>4. \A p \in Tasks : task'[t].parent = task[t].parent
    BY DEF ResumeTask, TypeOK, Rows
  <1>5. \A p \in Tasks : OpenOf(p)' \subseteq OpenOf(p) \cup {t}
    BY <1>2, <1>3 DEF OpenOf, Children, Existing, IsOpen
  <1>6. /\ Inserting' = Inserting /\ \A p \in Tasks : Splitting(p)' = Splitting(p)
    BY <1>1 DEF Inserting, Splitting
  <1>7. TreeCap'
    <2>1. MaxTasksPerContext + Cardinality(Splitters) \in Nat
      BY Caps DEF CapsAreNaturals
    <2>. QED
      BY <1>2, <1>6, <2>1, FiniteTree, Room DEF CapInv, TreeCap
  <1>8. ASSUME NEW p \in Tasks
        PROVE  ChildrenCap(p)'
    <2>1. /\ Cardinality(OpenOf(p)) \in Nat /\ Cardinality(Splitting(p)) \in Nat
          /\ resumes \in Nat
      BY FiniteTree, FS_CardinalityType DEF TypeOK
    <2>2. /\ IsFiniteSet(OpenOf(p) \cup {t})
          /\ Cardinality(OpenOf(p) \cup {t}) <= Cardinality(OpenOf(p)) + 1
      BY FiniteTree, OneMore
    <2>3. /\ Cardinality(OpenOf(p)') \in Nat /\ Cardinality(OpenOf(p) \cup {t}) \in Nat
          /\ Cardinality(OpenOf(p)') <= Cardinality(OpenOf(p) \cup {t})
      BY <1>5, <2>2, CardBelow
    <2>4. Cardinality(OpenOf(p)) + Cardinality(Splitting(p))
             < MaxOpenChildren + Cardinality(Splitters) + resumes
      BY DEF CapInv, ChildrenCap
    <2>. QED
      BY <1>1, <1>6, <2>1, <2>2, <2>3, <2>4, Caps DEF ChildrenCap, CapsAreNaturals
  <1>. QED
    BY <1>6, <1>7, <1>8 DEF CapInv, OnlySplitters

(* Nothing else adds a task or a splitting shell. *)
LEMMA CancelCaps ==
    ASSUME TypeOK, CapInv, NEW s \in Shells, NEW t \in Tasks,
           CancelTask(s, t) \/ CancelChildren(s, t)
    PROVE  CapInv'
  <1>1. PICK S \in SUBSET Existing : task' = Canceled(S)
    <2>1. CASE CancelTask(s, t)
      BY <2>1 DEF CancelTask, IsOpen, Open, Existing
    <2>2. CASE CancelChildren(s, t)
      BY <2>2 DEF CancelChildren, Flipped, OpenOf, Children
    <2>. QED
      BY <2>1, <2>2
  <1>2. SameTree
    BY <1>1, CanceledTree
  <1>3. \A u \in Tasks : task'[u].state \in Open => task[u].state \in Open
    BY <1>1, CanceledRows DEF Existing, Open
  <1>4. \A p \in Tasks : OpenOf(p)' \subseteq OpenOf(p)
    BY <1>2, <1>3 DEF SameTree, Grows, OpenOf, Children, Existing, IsOpen
  <1>5. resumes' = resumes
    BY DEF CancelTask, CancelChildren, CancelUnchanged
  <1>6. PICK cmd : shell' = [shell EXCEPT ![s] = cmd] /\ cmd.op # "inserting"
    BY DEF CancelTask, CancelChildren, Does, Walking, Idle
  <1>7. \A r \in Shells : shell'[r] = shell[r] \/ shell'[r].op # "inserting"
    BY <1>6 DEF TypeOK
  <1>. QED
    BY <1>2, <1>4, <1>5, <1>7, CapsKept DEF SameTree

LEMMA RunEffectCaps ==
    ASSUME TypeOK, CapInv, NEW t \in Tasks, RunEffect(t)
    PROVE  CapInv'
  <1>1. SameTree
    BY RunEffectTree
  <1>2. \A u \in Tasks : task'[u].state \in Open => task[u].state \in Open
    BY DEF RunEffect
  <1>3. \A p \in Tasks : OpenOf(p)' \subseteq OpenOf(p)
    BY <1>1, <1>2 DEF SameTree, Grows, OpenOf, Children, Existing, IsOpen
  <1>. QED
    BY <1>1, <1>3, CapsKept DEF RunEffect, SameTree

LEMMA StepCaps == TypeOK /\ CapInv /\ [Next]_vars => CapInv'
  <1>. SUFFICES ASSUME TypeOK, CapInv, [Next]_vars PROVE CapInv'
    OBVIOUS
  <1>1. ASSUME UNCHANGED <<task, resumes>>,
               \A s \in Shells : shell'[s] = shell[s] \/ shell'[s].op # "inserting"
        PROVE  CapInv'
    <2>1. Existing' = Existing /\ \A p \in Tasks : OpenOf(p)' = OpenOf(p)
      BY <1>1 DEF Existing, OpenOf, Children, IsOpen
    <2>. QED
      BY <1>1, <2>1, CapsKept
  <1>2. CASE Untouched
    BY <1>1, <1>2 DEF Untouched
  <1>3. ASSUME NEW s \in Shells,
               \/ CloseRefused(s) \/ CommandDies(s)
               \/ \E t \in Tasks : CloseTask(s, t)
        PROVE  CapInv'
    <2>1. UNCHANGED <<task, resumes>>
      BY <1>3 DEF CloseRefused, CommandDies, CloseTask, CancelUnchanged
    <2>2. PICK cmd : shell' = [shell EXCEPT ![s] = cmd] /\ cmd.op # "inserting"
      BY <1>3 DEF CloseRefused, CommandDies, CloseTask, Does, Idle
    <2>3. \A r \in Shells : shell'[r] = shell[r] \/ shell'[r].op # "inserting"
      BY <2>2 DEF TypeOK
    <2>. QED
      BY <1>1, <2>1, <2>3
  <1>. QED
    BY <1>2, <1>3, Effects, RunEffectCaps, ResumeCaps, CreateCaps, InsertCaps, CancelCaps

(* The caps on a goal's tree and on a task's open children are overshot by     *)
(* less than there are shells that split (and each resumed child counts once *)
(* more), if any does.                                                       *)
THEOREM CapsHold ==
    ASSUME Splitters # {}
    PROVE  Spec => []CapsOvershoot
  <1>1. Init => CapInv
    <2>. SUFFICES ASSUME Init PROVE CapInv
      OBVIOUS
    <2>1. Inserting = {} /\ \A p \in Tasks : Splitting(p) = {}
      BY DEF Init, Inserting, Splitting, Idle
    <2>2. Existing \subseteq {Root} /\ \A p \in Tasks : OpenOf(p) = {}
      <3>1. TreeInv
        BY InitTree
      <3>2. \A t \in Tasks \ {Root} : task[t] = Absent
        BY DEF Init
      <3>3. Existing \subseteq {Root}
        BY <3>2, AbsentRow DEF Existing
      <3>. QED
        BY <3>1, <3>3, TreeConstants DEF TreeInv, Shape, OpenOf, Children
    <2>3. Cardinality(Existing) \in Nat /\ Cardinality(Existing) <= 1
      <3>1. IsFiniteSet({Root}) /\ Cardinality({Root}) = 1
        BY FS_Singleton
      <3>. QED
        BY <2>2, <3>1, CardBelow
    <2>4. Cardinality({}) = 0
      BY FS_EmptySet
    <2>5. Cardinality(Splitters) >= 1
      BY FiniteTree, FS_EmptySet, Caps DEF CapsAreNaturals
    <2>6. MaxTasksPerContext >= 1 /\ MaxOpenChildren >= 1
      BY TreeConstants
    <2>7. TreeCap
      BY <2>1, <2>3, <2>4, <2>5, <2>6, Caps DEF TreeCap, CapsAreNaturals
    <2>8. ASSUME NEW p \in Tasks
          PROVE  ChildrenCap(p)
      <3>1. /\ Cardinality(OpenOf(p)) = 0 /\ Cardinality(Splitting(p)) = 0
            /\ resumes = 0
        BY <2>1, <2>2, <2>4 DEF Init
      <3>2. 0 + 0 < MaxOpenChildren + Cardinality(Splitters) + 0
        BY <2>5, <2>6, Caps DEF CapsAreNaturals
      <3>. QED
        BY <3>1, <3>2 DEF ChildrenCap
    <2>. QED
      BY <2>1, <2>7, <2>8 DEF CapInv, OnlySplitters
  <1>2. CapInv => CapsOvershoot
    BY DEF CapInv, CapsOvershoot
  <1>. QED
    BY <1>1, <1>2, StepCaps, TypeCorrect, PTL DEF Spec

-----------------------------------------------------------------------------
(* The part that opens an agent's own database (OwnSchema.tla), for every value of its constants. *)

CONSTANTS Openers, Gateway, Telegram, Web, Sessions, None, Found, MaxDeaths

VARIABLES store, sess, active, conversations, bound, opener, torn, before, deaths

Own == INSTANCE OwnSchema

Columns == {"memory_flushed", "provider", "account"}

OwnStates ==
    [at : {"down", "failed", "create", "migrate", "stamp", "import", "ready", "open"}, ver : 0 .. 7]

OwnTypes ==
    /\ store \in [ver : 0 .. 7, cols : SUBSET Columns, legacy : BOOLEAN]
    /\ sess \in [Sessions -> Own!Chats \cup {None}] /\ before \in [Sessions -> Own!Chats \cup {None}]
    /\ active \in [Own!Chats -> Sessions \cup {None}] /\ conversations \subseteq Own!Chats
    /\ bound \in [Own!Chats -> Own!Chats \cup {None}] /\ opener \in [Openers -> OwnStates]
    /\ torn \in BOOLEAN /\ deaths \in 0 .. MaxDeaths

(* A Telegram chat is bound to itself, if it is bound at all. *)
BoundInv == \A c \in Telegram : bound[c] \in {None, c}

(* The version an opener believes in has its columns, unless a stamp went wrong. *)
ColsInv ==
    ~torn => /\ Own!ColumnsAt(store.ver) \subseteq store.cols
             /\ \A o \in Openers : opener[o].at \in {"migrate", "stamp", "import", "ready", "open"}
                                      => Own!ColumnsAt(opener[o].ver) \subseteq store.cols

Folded == store.ver >= 6 \/ \E o \in Openers : opener[o].ver >= 6

(* A dashboard's chat that was not merged away is bound to itself from version 6 on. *)
WebInv ==
    (\E s \in Sessions : sess[s] = Web) => bound[Web] \in {None, Web} /\ (Folded => bound[Web] = Web)

ReadyInv == \A o \in Openers : opener[o].at \in {"import", "ready", "open"} => opener[o].ver = 7

(* The gateway has bound what it knows. *)
LeadInv ==
    Own!At(Gateway, "open") /\ ~torn => \A s \in Sessions : sess[s] \in Telegram => bound[sess[s]] = sess[s]

(* A file that was not there: created whole, then filled from the files of before. *)
FreshMode ==
    /\ store.ver \in {0, 7} /\ store.cols \in {{}, Columns}
    /\ \A s \in Sessions : before[s] # Web
    /\ store.legacy => sess = [s \in Sessions |-> None] /\ active = [c \in Own!Chats |-> None]
    /\ ~store.legacy => sess = before
    /\ \A o \in Openers : /\ opener[o].at # "migrate" /\ (opener[o].at = "stamp" => opener[o].ver = 7)
                          /\ opener[o].at \in {"ready", "open"} /\ ~torn => ~store.legacy

(* A file that was there: climbed rung by rung, its rows kept. *)
ClimbMode ==
    /\ store.ver # 0 /\ ~store.legacy
    /\ \A o \in Openers : /\ opener[o].at \notin {"create", "import"}
                          /\ opener[o].at = "stamp" => opener[o].ver # 0
    /\ \A s \in Sessions : before[s] # None => sess[s] # None

OwnInv ==
    /\ OwnTypes /\ BoundInv /\ ColsInv /\ WebInv /\ ReadyInv /\ LeadInv /\ Own!ActiveIsItsOwn
    /\ FreshMode \/ ClimbMode

(* Which columns a version has. *)
LEMMA ColumnsOf ==
    /\ DOMAIN Own!Adds = {3, 5, 7} /\ Own!Adds[3] = "memory_flushed" /\ Own!Adds[5] = "provider" /\ Own!Adds[7] = "account"
    /\ Columns = {Own!Adds[v] : v \in DOMAIN Own!Adds} /\ Own!ColumnsAt(7) = Columns
    /\ \A v \in {0, 1, 2} : Own!ColumnsAt(v) = {}
    /\ \A v \in Nat : Own!ColumnsAt(v) \subseteq Columns
    /\ \A v \in 0 .. 6 : Own!ColumnsAt(v + 1) = Own!ColumnsAt(v) \cup (IF v + 1 \in DOMAIN Own!Adds THEN {Own!Adds[v + 1]} ELSE {})
  <1>1. DOMAIN Own!Adds = {3, 5, 7} /\ Own!Adds[3] = "memory_flushed" /\ Own!Adds[5] = "provider" /\ Own!Adds[7] = "account"
    BY DEF Own!Adds
  <1>2. Columns = {Own!Adds[v] : v \in DOMAIN Own!Adds}
    BY <1>1 DEF Columns
  <1>3. \A v \in Nat : Own!ColumnsAt(v) = {Own!Adds[w] : w \in {w \in {3, 5, 7} : w <= v}}
    BY <1>1 DEF Own!ColumnsAt
  <1>4. \A v \in Nat : \A x : x \in Own!ColumnsAt(v) <=> \E w \in {3, 5, 7} : w <= v /\ x = Own!Adds[w]
    BY <1>3
  <1>5. Own!ColumnsAt(7) = Columns
    BY <1>1, <1>4 DEF Columns
  <1>6. \A v \in {0, 1, 2} : Own!ColumnsAt(v) = {}
    BY <1>4
  <1>7. \A v \in Nat : Own!ColumnsAt(v) \subseteq Columns
    BY <1>1, <1>4 DEF Columns
  <1>8. ASSUME NEW v \in 0 .. 6
        PROVE  Own!ColumnsAt(v + 1) = Own!ColumnsAt(v) \cup (IF v + 1 \in DOMAIN Own!Adds THEN {Own!Adds[v + 1]} ELSE {})
    <2>1. v + 1 \in Nat /\ v \in Nat /\ \A w \in {3, 5, 7} : w <= v + 1 <=> w <= v \/ w = v + 1
      OBVIOUS
    <2>. QED
      BY <1>1, <1>4, <2>1
  <1>. QED
    BY <1>1, <1>2, <1>5, <1>6, <1>7, <1>8

LEMMA OwnStarts == Own!OwnSchemaConstants /\ Own!Init => OwnInv
  <1>. SUFFICES ASSUME Own!OwnSchemaConstants, Own!Init
                PROVE  OwnInv
    OBVIOUS
  <1>0. PICK v \in Found, file \in [Sessions -> Own!Chats \cup {None}] :
          /\ v = 0 => \A s \in Sessions : file[s] # Web
          /\ before = file
          /\ store = [ver |-> v, cols |-> IF v = 0 THEN {} ELSE Own!ColumnsAt(v), legacy |-> v = 0]
          /\ sess = IF v = 0 THEN [s \in Sessions |-> None] ELSE file
          /\ \E a \in [Own!Chats -> Sessions \cup {None}] :
                /\ active = a
                /\ \A c \in Own!Chats :
                      IF v >= 2 /\ \E s \in Sessions : file[s] = c
                      THEN a[c] # None /\ file[a[c]] = c ELSE a[c] = None
          /\ conversations = IF v >= 6 THEN {file[s] : s \in Sessions} \ {None} ELSE {}
          /\ bound = [c \in Own!Chats |-> IF v >= 6 /\ \E s \in Sessions : file[s] = c THEN c ELSE None]
    BY DEF Own!Init
  <1>1. PICK a \in [Own!Chats -> Sessions \cup {None}] :
          /\ v = 0 => \A s \in Sessions : file[s] # Web
          /\ before = file
          /\ store = [ver |-> v, cols |-> IF v = 0 THEN {} ELSE Own!ColumnsAt(v), legacy |-> v = 0]
          /\ sess = IF v = 0 THEN [s \in Sessions |-> None] ELSE file
          /\ active = a
          /\ \A c \in Own!Chats :
                IF v >= 2 /\ \E s \in Sessions : file[s] = c
                THEN a[c] # None /\ file[a[c]] = c ELSE a[c] = None
          /\ conversations = IF v >= 6 THEN {file[s] : s \in Sessions} \ {None} ELSE {}
          /\ bound = [c \in Own!Chats |-> IF v >= 6 /\ \E s \in Sessions : file[s] = c THEN c ELSE None]
    BY <1>0
  <1>2. v \in 0 .. 7 /\ v \in Nat /\ 0 \in 0 .. MaxDeaths
    BY DEF Own!OwnSchemaConstants
  <1>3. /\ opener = [o \in Openers |-> [at |-> "down", ver |-> 0]] /\ torn = FALSE /\ deaths = 0
    BY DEF Own!Init
  <1>4. /\ opener \in [Openers -> OwnStates] /\ \A o \in Openers : opener[o].at = "down" /\ opener[o].ver = 0
    BY <1>3 DEF OwnStates
  <1>5. store.ver = v /\ store.cols = (IF v = 0 THEN {} ELSE Own!ColumnsAt(v)) /\ store.legacy = (v = 0)
    BY <1>1
  <1>6. OwnTypes
    <2>1. Own!ColumnsAt(v) \subseteq Columns /\ (v = 0) \in BOOLEAN
      BY <1>2, ColumnsOf
    <2>2. store \in [ver : 0 .. 7, cols : SUBSET Columns, legacy : BOOLEAN]
      BY <1>1, <1>2, <2>1
    <2>3. sess \in [Sessions -> Own!Chats \cup {None}] /\ before \in [Sessions -> Own!Chats \cup {None}]
      BY <1>1
    <2>4. conversations \subseteq Own!Chats
      BY <1>1
    <2>5. bound \in [Own!Chats -> Own!Chats \cup {None}]
      BY <1>1
    <2>. QED
      BY <1>1, <1>2, <1>3, <1>4, <2>2, <2>3, <2>4, <2>5 DEF OwnTypes
  <1>7. Own!ColumnsAt(store.ver) \subseteq store.cols
    BY <1>5, ColumnsOf
  <1>8. ColsInv /\ ReadyInv /\ LeadInv
    BY <1>4, <1>7 DEF ColsInv, ReadyInv, LeadInv, Own!At, Own!OwnSchemaConstants
  <1>9. BoundInv
    BY <1>1 DEF BoundInv, Own!Chats
  <1>10. WebInv
    <2>1. ~\E o \in Openers : opener[o].ver >= 6
      BY <1>4
    <2>2. Folded => v >= 6
      BY <1>5, <2>1 DEF Folded
    <2>3. None # Web /\ Web \in Own!Chats
      BY DEF Own!OwnSchemaConstants, Own!Chats
    <2>4. ASSUME NEW s \in Sessions, sess[s] = Web
          PROVE  v # 0 /\ file[s] = Web
      BY <1>1, <2>3, <2>4
    <2>. QED
      BY <1>1, <2>2, <2>3, <2>4 DEF WebInv
  <1>11. Own!ActiveIsItsOwn
    <2>1. ASSUME NEW c \in Own!Chats, active[c] # None
          PROVE  sess[active[c]] = c
      BY <1>1, <1>2, <2>1
    <2>. QED
      BY <2>1 DEF Own!ActiveIsItsOwn
  <1>12. FreshMode \/ ClimbMode
    <2>1. CASE v = 0
      <3>1. active = [c \in Own!Chats |-> None]
        <4>1. \A c \in Own!Chats : a[c] = None
          BY <1>1, <2>1
        <4>. QED
          BY <1>1, <4>1
      <3>2. store.ver \in {0, 7} /\ store.cols \in {{}, Columns} /\ store.legacy /\ sess = [s \in Sessions |-> None]
            /\ \A s \in Sessions : before[s] # Web
        BY <1>1, <1>5, <2>1
      <3>. QED
        BY <1>4, <3>1, <3>2 DEF FreshMode
    <2>2. CASE v # 0
      BY <1>1, <1>4, <1>5, <2>2 DEF ClimbMode
    <2>. QED
      BY <2>1, <2>2
  <1>. QED
    BY <1>6, <1>8, <1>9, <1>10, <1>11, <1>12 DEF OwnInv

(* What stays when an opener goes somewhere: its own row, and what the others are. *)
LEMMA Moves ==
    ASSUME OwnTypes, NEW o \in Openers, NEW where, NEW v, Own!Goes(o, where, v)
    PROVE  /\ opener'[o].at = where /\ opener'[o].ver = v
           /\ \A p \in Openers \ {o} : opener'[p] = opener[p]
           /\ where \in {"down", "failed", "create", "migrate", "stamp", "import", "ready", "open"} /\ v \in 0 .. 7
                 => opener' \in [Openers -> OwnStates]
           /\ opener[o].ver \in 0 .. 7 /\ store.ver \in 0 .. 7 /\ store.cols \subseteq Columns
  <1>1. opener \in [Openers -> OwnStates] /\ store \in [ver : 0 .. 7, cols : SUBSET Columns, legacy : BOOLEAN]
    BY DEF OwnTypes
  <1>2. PICK r : r = [at |-> where, ver |-> v]
    OBVIOUS
  <1>3. r.at = where /\ r.ver = v /\ opener' = [opener EXCEPT ![o] = r]
    BY <1>2 DEF Own!Goes
  <1>4. opener'[o] = r /\ \A p \in Openers \ {o} : opener'[p] = opener[p]
    BY <1>1, <1>3
  <1>5. where \in {"down", "failed", "create", "migrate", "stamp", "import", "ready", "open"} /\ v \in 0 .. 7
           => r \in OwnStates
    BY <1>2 DEF OwnStates
  <1>. QED
    BY <1>1, <1>3, <1>4, <1>5 DEF OwnStates

(* A step of one opener that leaves every row where it is. *)
LEMMA RowsStayAndBindings ==
    ASSUME Own!OwnSchemaConstants, OwnInv, UNCHANGED <<sess, active, bound, before>>,
           Folded' => Folded, ReadyInv', OwnTypes', torn => torn',
           Own!At(Gateway, "open")' => Own!At(Gateway, "open")
    PROVE  BoundInv' /\ WebInv' /\ LeadInv' /\ Own!ActiveIsItsOwn'
  <1>1. BoundInv /\ WebInv /\ LeadInv /\ Own!ActiveIsItsOwn
    BY DEF OwnInv
  <1>2. BoundInv'
    BY <1>1 DEF BoundInv
  <1>3. WebInv'
    BY <1>1 DEF WebInv
  <1>4. LeadInv'
    BY <1>1 DEF LeadInv
  <1>5. Own!ActiveIsItsOwn'
    BY <1>1 DEF Own!ActiveIsItsOwn
  <1>. QED
    BY <1>2, <1>3, <1>4, <1>5

LEMMA ReadsKeep ==
    ASSUME Own!OwnSchemaConstants, OwnInv, NEW o \in Openers, Own!Reads(o)
    PROVE  OwnInv'
  <1>1. /\ OwnTypes /\ ColsInv /\ ReadyInv /\ (FreshMode \/ ClimbMode)
        /\ UNCHANGED <<store, sess, active, conversations, bound, before, deaths>>
        /\ torn' = (torn \/ (store.ver = 7 /\ store.legacy))
    BY DEF OwnInv, Own!Reads
  <1>2. PICK where \in {"create", "ready", "migrate"}, v \in {0, 7, store.ver} :
           /\ Own!Goes(o, where, v) /\ v = store.ver
           /\ where = "create" <=> store.ver = 0
           /\ where = "ready" <=> store.ver = 7
    BY DEF Own!Reads
  <1>3. /\ opener'[o].at = where /\ opener'[o].ver = v /\ \A p \in Openers \ {o} : opener'[p] = opener[p]
        /\ opener' \in [Openers -> OwnStates] /\ v \in 0 .. 7 /\ torn' \in BOOLEAN
    BY <1>1, <1>2, Moves DEF OwnTypes
  <1>4. OwnTypes' /\ (torn => torn')
    BY <1>1, <1>3 DEF OwnTypes
  <1>5. ReadyInv'
    BY <1>1, <1>2, <1>3 DEF ReadyInv
  <1>6. Folded' => Folded
    BY <1>1, <1>2, <1>3 DEF Folded
  <1>7. Own!At(Gateway, "open")' => Own!At(Gateway, "open")
    BY <1>3 DEF Own!At, Own!OwnSchemaConstants
  <1>8. ColsInv'
    BY <1>1, <1>2, <1>3 DEF ColsInv
  <1>9. FreshMode => FreshMode'
    BY <1>1, <1>2, <1>3 DEF FreshMode
  <1>10. ClimbMode => ClimbMode'
    BY <1>1, <1>2, <1>3 DEF ClimbMode
  <1>. QED
    BY <1>1, <1>4, <1>5, <1>6, <1>7, <1>8, <1>9, <1>10, RowsStayAndBindings DEF OwnInv

(* The columns after a rung. *)
LEMMA ColsKeep ==
    ASSUME OwnTypes, ColsInv, NEW o \in Openers, \A p \in Openers \ {o} : opener'[p] = opener[p],
           ~torn' => ~torn /\ store.cols \subseteq store'.cols,
           ~torn' => Own!ColumnsAt(store'.ver) \subseteq store'.cols,
           ~torn' /\ opener'[o].at \in {"migrate", "stamp", "import", "ready", "open"}
                => Own!ColumnsAt(opener'[o].ver) \subseteq store'.cols
    PROVE  ColsInv'
  BY DEF ColsInv

LEMMA CreatesKeep ==
    ASSUME Own!OwnSchemaConstants, OwnInv, NEW o \in Openers, Own!CreatesTables(o)
    PROVE  OwnInv'
  <1>1. /\ OwnTypes /\ ColsInv /\ ReadyInv /\ FreshMode /\ opener[o].at = "create"
        /\ UNCHANGED <<sess, active, conversations, bound, torn, before, deaths>> /\ Own!Goes(o, "stamp", 7)
    BY DEF OwnInv, Own!CreatesTables, ClimbMode, Own!At
  <1>2. /\ opener'[o].at = "stamp" /\ opener'[o].ver = 7 /\ \A p \in Openers \ {o} : opener'[p] = opener[p]
        /\ opener' \in [Openers -> OwnStates]
    BY <1>1, Moves
  <1>3. store' \in [ver : 0 .. 7, cols : SUBSET Columns, legacy : BOOLEAN] /\ store'.cols = Columns
        /\ store'.ver = store.ver /\ store'.legacy = store.legacy
    BY <1>1, ColumnsOf DEF Own!CreatesTables, OwnTypes, FreshMode
  <1>4. OwnTypes'
    BY <1>1, <1>2, <1>3 DEF OwnTypes
  <1>5. ReadyInv'
    BY <1>1, <1>2 DEF ReadyInv
  <1>6. ~\E s \in Sessions : sess[s] = Web
    BY <1>1 DEF FreshMode, Own!OwnSchemaConstants
  <1>7. Own!At(Gateway, "open")' => Own!At(Gateway, "open")
    BY <1>2 DEF Own!At, Own!OwnSchemaConstants
  <1>8. store.ver \in Nat /\ 7 \in Nat /\ store.cols \subseteq Columns
    BY <1>1 DEF OwnTypes
  <1>9. ColsInv'
    BY <1>1, <1>2, <1>3, <1>8, ColsKeep, ColumnsOf
  <1>10. FreshMode'
    BY <1>1, <1>2, <1>3 DEF FreshMode
  <1>11. BoundInv' /\ WebInv' /\ LeadInv' /\ Own!ActiveIsItsOwn'
    BY <1>1, <1>6, <1>7 DEF OwnInv, BoundInv, WebInv, LeadInv, Own!ActiveIsItsOwn
  <1>. QED
    BY <1>4, <1>5, <1>9, <1>10, <1>11 DEF OwnInv

(* A rung of the ladder whose rows stay: the columns grow, or there were none. *)
LEMMA RungsKeep ==
    ASSUME Own!OwnSchemaConstants, OwnInv, NEW o \in Openers, Own!AddsColumn(o) \/ Own!RecreatesSessions(o) \/ Own!AddsUsers(o)
    PROVE  OwnInv'
  <1>1. /\ OwnTypes /\ ColsInv /\ ReadyInv /\ BoundInv /\ WebInv /\ LeadInv /\ Own!ActiveIsItsOwn /\ ClimbMode
        /\ opener[o].at = "migrate"
        /\ UNCHANGED <<sess, conversations, bound, before, deaths>>
    BY DEF OwnInv, Own!AddsColumn, Own!RecreatesSessions, Own!AddsUsers, FreshMode, Own!At
  <1>2. store \in [ver : 0 .. 7, cols : SUBSET Columns, legacy : BOOLEAN] /\ opener[o].ver \in 0 .. 7
        /\ store.ver \in Nat /\ opener \in [Openers -> OwnStates] /\ torn \in BOOLEAN
    BY <1>1 DEF OwnTypes, OwnStates
  <1>3. PICK v : v = opener[o].ver
    OBVIOUS
  <1>4. PICK where \in {"stamp", "failed"}, w \in {0, v + 1} :
          /\ Own!Goes(o, where, w) /\ w \in 0 .. 7 /\ (where = "failed" => w = 0)
          /\ where = "stamp" => w = v + 1 /\ v + 1 # 6 /\ v \in 0 .. 6
    <2>1. v + 1 \in {3, 5, 7} => v + 1 \in 0 .. 7 /\ v + 1 # 6 /\ v \in 0 .. 6
      BY <1>2, <1>3
    <2>2. CASE Own!AddsColumn(o)
      BY <1>3, <2>1, <2>2, ColumnsOf DEF Own!AddsColumn, Own!Alters
    <2>3. CASE Own!RecreatesSessions(o)
      BY <1>3, <2>3 DEF Own!RecreatesSessions
    <2>4. CASE Own!AddsUsers(o)
      BY <1>3, <2>4 DEF Own!AddsUsers
    <2>. QED
      BY <2>2, <2>3, <2>4
  <1>5. /\ opener'[o].at = where /\ opener'[o].ver = w /\ \A p \in Openers \ {o} : opener'[p] = opener[p]
        /\ opener' \in [Openers -> OwnStates]
    BY <1>1, <1>4, Moves
  <1>6. /\ store' \in [ver : 0 .. 7, cols : SUBSET Columns, legacy : BOOLEAN]
        /\ store'.ver = store.ver /\ store'.legacy = store.legacy /\ torn' \in BOOLEAN
        /\ ~torn' => ~torn /\ store.cols \subseteq store'.cols
        /\ ~torn' /\ where = "stamp" /\ Own!ColumnsAt(v) \subseteq store.cols => Own!ColumnsAt(v + 1) \subseteq store'.cols
    <2>1. CASE Own!AddsColumn(o)
      <3>1. torn' = torn /\ v + 1 \in {3, 5, 7}
        BY <1>3, <2>1, ColumnsOf DEF Own!AddsColumn
      <3>2. v \in 0 .. 6 /\ Own!Adds[v + 1] \in Columns
        BY <1>2, <1>3, <3>1, ColumnsOf
      <3>3. CASE store' = store /\ where = "failed"
        BY <1>2, <3>1, <3>3
      <3>4. CASE store' = [store EXCEPT !.cols = store.cols \cup {Own!Adds[v + 1]}]
        <4>1. store'.cols = store.cols \cup {Own!Adds[v + 1]}
              /\ store' \in [ver : 0 .. 7, cols : SUBSET Columns, legacy : BOOLEAN]
              /\ store'.ver = store.ver /\ store'.legacy = store.legacy
          BY <1>2, <3>2, <3>4
        <4>2. Own!ColumnsAt(v + 1) \subseteq Own!ColumnsAt(v) \cup {Own!Adds[v + 1]}
          BY <3>2, ColumnsOf
        <4>. QED
          BY <1>2, <3>1, <4>1, <4>2
      <3>5. (store' = store /\ opener'[o].at = "failed") \/ store' = [store EXCEPT !.cols = store.cols \cup {Own!Adds[v + 1]}]
        <4>1. CASE Own!Adds[v + 1] \in store.cols
          BY <1>1, <1>3, <2>1, <4>1, Moves DEF Own!AddsColumn, Own!Alters
        <4>2. CASE Own!Adds[v + 1] \notin store.cols
          BY <1>3, <2>1, <4>2 DEF Own!AddsColumn, Own!Alters
        <4>. QED
          BY <4>1, <4>2
      <3>. QED
        BY <1>5, <3>3, <3>4, <3>5
    <2>2. CASE Own!RecreatesSessions(o)
      <3>1. store' = [store EXCEPT !.cols = {}] /\ torn' = (torn \/ store.cols # {}) /\ v = 1
        BY <1>3, <2>2 DEF Own!RecreatesSessions
      <3>2. store'.cols = {} /\ store' \in [ver : 0 .. 7, cols : SUBSET Columns, legacy : BOOLEAN]
            /\ store'.ver = store.ver /\ store'.legacy = store.legacy
        BY <1>2, <3>1
      <3>3. Own!ColumnsAt(v + 1) = {}
        BY <3>1, ColumnsOf
      <3>. QED
        BY <1>2, <3>1, <3>2, <3>3
    <2>3. CASE Own!AddsUsers(o)
      <3>1. store' = store /\ torn' = torn /\ v = 3
        BY <1>3, <2>3 DEF Own!AddsUsers
      <3>2. v \in 0 .. 6 /\ v + 1 \notin DOMAIN Own!Adds
        BY <3>1, ColumnsOf
      <3>3. Own!ColumnsAt(v + 1) = Own!ColumnsAt(v)
        BY <3>2, ColumnsOf
      <3>. QED
        BY <1>2, <3>1, <3>3
    <2>. QED
      BY <2>1, <2>2, <2>3
  <1>7. active' \in [Own!Chats -> Sessions \cup {None}] /\ Own!ActiveIsItsOwn'
    <2>1. CASE active' = active
      BY <1>1, <2>1 DEF OwnTypes, Own!ActiveIsItsOwn
    <2>2. CASE active' = Own!Activated
      <3>1. \A c \in Own!Chats : (\E s \in Sessions : sess[s] = c)
               => (CHOOSE s \in Sessions : sess[s] = c) \in Sessions /\ sess[CHOOSE s \in Sessions : sess[s] = c] = c
        OBVIOUS
      <3>2. ASSUME NEW c \in Own!Chats
            PROVE  active'[c] \in Sessions \cup {None} /\ (active'[c] # None => sess[active'[c]] = c)
        BY <1>1, <2>2, <3>1 DEF Own!Activated, OwnTypes, Own!ActiveIsItsOwn
      <3>. QED
        BY <1>1, <2>2, <3>2 DEF Own!Activated, Own!ActiveIsItsOwn
    <2>. QED
      BY <2>1, <2>2 DEF Own!AddsColumn, Own!RecreatesSessions, Own!AddsUsers
  <1>8. OwnTypes'
    BY <1>1, <1>5, <1>6, <1>7 DEF OwnTypes
  <1>9. ReadyInv'
    BY <1>1, <1>4, <1>5 DEF ReadyInv
  <1>10. Folded' => Folded
    BY <1>2, <1>3, <1>4, <1>5, <1>6 DEF Folded
  <1>11. Own!At(Gateway, "open")' => Own!At(Gateway, "open")
    BY <1>4, <1>5 DEF Own!At, Own!OwnSchemaConstants
  <1>12. ColsInv'
    <2>1. ~torn' => Own!ColumnsAt(v) \subseteq store.cols /\ Own!ColumnsAt(store.ver) \subseteq store.cols
      BY <1>1, <1>3, <1>6 DEF ColsInv
    <2>. QED
      BY <1>1, <1>4, <1>5, <1>6, <2>1, ColsKeep
  <1>13. BoundInv' /\ WebInv' /\ LeadInv'
    BY <1>1, <1>6, <1>10, <1>11 DEF BoundInv, WebInv, LeadInv
  <1>14. ClimbMode'
    BY <1>1, <1>4, <1>5, <1>6 DEF ClimbMode
  <1>. QED
    BY <1>7, <1>8, <1>9, <1>12, <1>13, <1>14 DEF OwnInv

(* The part counts with a Cardinality of its own. *)
LEMMA OneTalk ==
    ASSUME NEW S, Own!Cardinality(S) = 1
    PROVE  S # {}
  <1>1. Own!Cardinality(S) = Cardinality(S)
    BY DEF Own!Cardinality, Cardinality
  <1>2. Cardinality({}) = 0
    BY FS_EmptySet
  <1>. QED
    BY <1>1, <1>2

(* The three ways the dashboard's chat can go when the chats become conversations. *)
LEMMA FoldsChatsIs ==
    ASSUME Own!OwnSchemaConstants, OwnTypes, Own!ActiveIsItsOwn, BoundInv, NEW o \in Openers, Own!FoldsChats(o)
    PROVE  /\ conversations' \subseteq Own!Chats /\ bound' \in [Own!Chats -> Own!Chats \cup {None}]
           /\ \A c \in Own!Chats : bound[c] # None => bound'[c] = bound[c]
           /\ \A c \in Telegram : bound'[c] \in {None, c}
           /\ \/ /\ UNCHANGED <<sess, active>>
                 /\ (\E s \in Sessions : sess[s] = Web) => bound'[Web] = (IF bound[Web] = None THEN Web ELSE bound[Web])
              \/ \E to \in Telegram :
                    /\ sess' = Own!MergedSessions(to) /\ active' = Own!MergedActive(to) /\ bound'[to] = to
  <1>. DEFINE chats == Own!Known \cup {c \in Own!Chats : active[c] # None}
              talks == chats \cap Telegram
              self == [c \in Own!Chats |-> IF c \in talks /\ bound[c] = None THEN c ELSE bound[c]]
  <1>1. /\ sess \in [Sessions -> Own!Chats \cup {None}] /\ conversations \subseteq Own!Chats
        /\ bound \in [Own!Chats -> Own!Chats \cup {None}] /\ Web \in Own!Chats /\ Web \notin Telegram /\ None \notin Own!Chats
        /\ Telegram \subseteq Own!Chats
    BY DEF OwnTypes, Own!Chats, Own!OwnSchemaConstants
  <1>2. Own!Known \subseteq Own!Chats
    BY <1>1 DEF Own!Known
  <1>3. \A s \in Sessions : sess[s] = Web => Web \in chats
    BY <1>1 DEF Own!Known
  <1>4. /\ self \in [Own!Chats -> Own!Chats \cup {None}] /\ \A c \in Own!Chats : bound[c] # None => self[c] = bound[c]
        /\ \A c \in Telegram : self[c] \in {None, c} /\ (c \in talks => self[c] = c)
        /\ self[Web] = bound[Web]
    BY <1>1, <1>2 DEF BoundInv
  <1>5. CASE Web \notin chats
    <2>1. conversations' = conversations \cup chats /\ bound' = self /\ UNCHANGED <<sess, active>>
      BY <1>5 DEF Own!FoldsChats
    <2>. QED
      BY <1>1, <1>2, <1>3, <1>4, <1>5, <2>1
  <1>6. CASE Web \in chats /\ Own!Cardinality(talks) = 1
    <2>1. PICK to : to = CHOOSE c \in talks : TRUE
      OBVIOUS
    <2>2. to \in talks
      BY <1>6, <2>1, OneTalk
    <2>3. /\ sess' = Own!MergedSessions(to) /\ active' = Own!MergedActive(to)
          /\ conversations' = (conversations \cup chats) \ {Web}
          /\ bound' = [self EXCEPT ![Web] = IF @ = None THEN to ELSE @]
      BY <1>6, <2>1 DEF Own!FoldsChats
    <2>4. /\ bound' \in [Own!Chats -> Own!Chats \cup {None}] /\ \A c \in Own!Chats \ {Web} : bound'[c] = self[c]
          /\ bound'[Web] = (IF bound[Web] = None THEN to ELSE bound[Web])
      BY <1>1, <1>4, <2>2, <2>3
    <2>5. to \in Telegram /\ to \in Own!Chats /\ to # Web /\ bound'[to] = to
      BY <1>1, <1>4, <2>2, <2>4
    <2>6. conversations' \subseteq Own!Chats
      BY <1>1, <1>2, <2>3
    <2>7. ASSUME NEW c \in Own!Chats, bound[c] # None
          PROVE  bound'[c] = bound[c]
      <3>1. CASE c = Web
        BY <2>4, <2>7, <3>1
      <3>2. CASE c # Web
        <4>1. self[c] = bound[c]
          BY <1>4, <2>7
        <4>. QED
          BY <2>4, <3>2, <4>1
      <3>. QED
        BY <3>1, <3>2
    <2>8. \A c \in Telegram : bound'[c] \in {None, c}
      BY <1>1, <1>4, <2>4
    <2>. QED
      BY <2>3, <2>4, <2>5, <2>6, <2>7, <2>8
  <1>7. CASE Web \in chats /\ ~ (Own!Cardinality(talks) = 1)
    <2>1. /\ conversations' = conversations \cup chats /\ UNCHANGED <<sess, active>>
          /\ bound' = [self EXCEPT ![Web] = IF @ = None THEN Web ELSE @]
      BY <1>7 DEF Own!FoldsChats
    <2>2. /\ bound' \in [Own!Chats -> Own!Chats \cup {None}] /\ \A c \in Own!Chats \ {Web} : bound'[c] = self[c]
          /\ bound'[Web] = (IF bound[Web] = None THEN Web ELSE bound[Web])
      BY <1>1, <1>4, <2>1
    <2>. QED
      BY <1>1, <1>2, <1>4, <2>1, <2>2
  <1>. QED
    BY <1>5, <1>6, <1>7

LEMMA FoldsKeep ==
    ASSUME Own!OwnSchemaConstants, OwnInv, NEW o \in Openers, Own!FoldsChats(o)
    PROVE  OwnInv'
  <1>1. /\ OwnTypes /\ ColsInv /\ ReadyInv /\ BoundInv /\ WebInv /\ LeadInv /\ Own!ActiveIsItsOwn /\ ClimbMode
        /\ opener[o].at = "migrate" /\ opener[o].ver = 5 /\ Own!Goes(o, "stamp", 6)
        /\ UNCHANGED <<store, torn, before, deaths>>
    BY DEF OwnInv, Own!FoldsChats, FreshMode, Own!At
  <1>2. /\ opener'[o].at = "stamp" /\ opener'[o].ver = 6 /\ \A p \in Openers \ {o} : opener'[p] = opener[p]
        /\ opener' \in [Openers -> OwnStates] /\ store.ver \in Nat /\ 5 \in 0 .. 6 /\ 5 + 1 = 6
    BY <1>1, Moves DEF OwnTypes
  <1>3. /\ conversations' \subseteq Own!Chats /\ bound' \in [Own!Chats -> Own!Chats \cup {None}]
        /\ \A c \in Own!Chats : bound[c] # None => bound'[c] = bound[c]
        /\ \A c \in Telegram : bound'[c] \in {None, c}
        /\ \/ /\ UNCHANGED <<sess, active>>
              /\ (\E s \in Sessions : sess[s] = Web) => bound'[Web] = (IF bound[Web] = None THEN Web ELSE bound[Web])
           \/ \E to \in Telegram :
                 /\ sess' = Own!MergedSessions(to) /\ active' = Own!MergedActive(to) /\ bound'[to] = to
    BY <1>1, FoldsChatsIs
  <1>4. /\ Web \in Own!Chats /\ Web \notin Telegram /\ None \notin Own!Chats /\ Telegram \subseteq Own!Chats /\ None \notin Sessions
        /\ sess \in [Sessions -> Own!Chats \cup {None}] /\ active \in [Own!Chats -> Sessions \cup {None}]
        /\ \A c \in Own!Chats : c # Web => c \in Telegram
    BY <1>1 DEF OwnTypes, Own!Chats, Own!OwnSchemaConstants
  <1>5. /\ sess' \in [Sessions -> Own!Chats \cup {None}] /\ active' \in [Own!Chats -> Sessions \cup {None}]
        /\ Own!ActiveIsItsOwn' /\ WebInv'
        /\ \A s \in Sessions : sess[s] # None => sess'[s] # None
        /\ \A s \in Sessions : sess'[s] \in Telegram => sess[s] = sess'[s] \/ bound'[sess'[s]] = sess'[s]
    <2>1. CASE UNCHANGED <<sess, active>> /\
               ((\E s \in Sessions : sess[s] = Web) => bound'[Web] = (IF bound[Web] = None THEN Web ELSE bound[Web]))
      <3>1. Own!ActiveIsItsOwn'
        BY <1>1, <2>1 DEF Own!ActiveIsItsOwn
      <3>2. WebInv'
        BY <1>1, <1>4, <2>1 DEF WebInv
      <3>. QED
        BY <1>4, <2>1, <3>1, <3>2
    <2>2. CASE \E to \in Telegram : sess' = Own!MergedSessions(to) /\ active' = Own!MergedActive(to) /\ bound'[to] = to
      <3>1. PICK to \in Telegram : sess' = Own!MergedSessions(to) /\ active' = Own!MergedActive(to) /\ bound'[to] = to
        BY <2>2
      <3>2. \A s \in Sessions : sess'[s] = IF sess[s] = Web THEN to ELSE sess[s]
        BY <3>1 DEF Own!MergedSessions
      <3>3. active'[Web] = None /\ \A c \in Own!Chats \ {Web} : active'[c] = active[c]
        BY <1>4, <3>1 DEF Own!MergedActive
      <3>4. sess' \in [Sessions -> Own!Chats \cup {None}] /\ active' \in [Own!Chats -> Sessions \cup {None}]
        BY <1>4, <3>1 DEF Own!MergedSessions, Own!MergedActive
      <3>5. ASSUME NEW c \in Own!Chats, active'[c] # None
            PROVE  sess'[active'[c]] = c
        BY <1>1, <1>4, <3>2, <3>3, <3>5 DEF Own!ActiveIsItsOwn
      <3>6. Own!ActiveIsItsOwn'
        BY <3>5 DEF Own!ActiveIsItsOwn
      <3>7. ~\E s \in Sessions : sess'[s] = Web
        BY <1>4, <3>2
      <3>8. WebInv'
        BY <3>7 DEF WebInv
      <3>. QED
        BY <1>4, <3>1, <3>2, <3>4, <3>6, <3>8
    <2>. QED
      BY <1>3, <2>1, <2>2
  <1>6. OwnTypes'
    BY <1>1, <1>2, <1>3, <1>5 DEF OwnTypes
  <1>7. ReadyInv' /\ BoundInv'
    BY <1>1, <1>2, <1>3 DEF ReadyInv, BoundInv
  <1>8. ASSUME Own!At(Gateway, "open")', ~torn', NEW s \in Sessions, sess'[s] \in Telegram
        PROVE  bound'[sess'[s]] = sess'[s]
    <2>1. Own!At(Gateway, "open") /\ ~torn
      BY <1>1, <1>2, <1>8 DEF Own!At, Own!OwnSchemaConstants
    <2>2. sess[s] = sess'[s] => bound[sess'[s]] = sess'[s]
      BY <1>1, <1>8, <2>1 DEF LeadInv
    <2>. QED
      BY <1>3, <1>4, <1>5, <1>8, <2>2
  <1>9. LeadInv'
    BY <1>8 DEF LeadInv
  <1>10. ColsInv'
    <2>1. Own!ColumnsAt(6) = Own!ColumnsAt(5)
      BY <1>2, ColumnsOf
    <2>2. ~torn' => Own!ColumnsAt(5) \subseteq store.cols /\ Own!ColumnsAt(store.ver) \subseteq store.cols
      BY <1>1 DEF ColsInv
    <2>. QED
      BY <1>1, <1>2, <2>1, <2>2, ColsKeep
  <1>11. ClimbMode'
    BY <1>1, <1>2, <1>5 DEF ClimbMode
  <1>. QED
    BY <1>5, <1>6, <1>7, <1>9, <1>10, <1>11 DEF OwnInv

LEMMA StampsKeep ==
    ASSUME Own!OwnSchemaConstants, OwnInv, NEW o \in Openers, Own!StampsVersion(o)
    PROVE  OwnInv'
  <1>1. /\ OwnTypes /\ ColsInv /\ ReadyInv /\ (FreshMode \/ ClimbMode) /\ opener[o].at = "stamp"
        /\ UNCHANGED <<sess, active, conversations, bound, before, deaths>>
    BY DEF OwnInv, Own!StampsVersion, Own!At
  <1>2. PICK v : v = opener[o].ver
    OBVIOUS
  <1>3. /\ store' = [store EXCEPT !.ver = v] /\ torn' = (torn \/ v < store.ver)
        /\ IF store.legacy THEN Own!Goes(o, "import", v) ELSE Own!Goes(o, Own!NextRung(v), v)
    BY <1>2 DEF Own!StampsVersion, Own!Stamped
  <1>4. /\ store \in [ver : 0 .. 7, cols : SUBSET Columns, legacy : BOOLEAN] /\ torn \in BOOLEAN
        /\ opener[o].ver \in 0 .. 7 /\ store.ver \in Nat /\ v \in 0 .. 7
    BY <1>1, <1>2 DEF OwnTypes, OwnStates
  <1>5. /\ store' \in [ver : 0 .. 7, cols : SUBSET Columns, legacy : BOOLEAN] /\ store'.ver = v
        /\ store'.cols = store.cols /\ store'.legacy = store.legacy /\ torn' \in BOOLEAN
        /\ (~torn' => ~torn)
    BY <1>3, <1>4
  <1>6. PICK where \in {"import", "ready", "migrate"} :
          /\ Own!Goes(o, where, v) /\ (where = "import" <=> store.legacy)
          /\ where = "ready" => v = 7
          /\ where = "migrate" => v # 7
    BY <1>3 DEF Own!NextRung
  <1>7. /\ opener'[o].at = where /\ opener'[o].ver = v /\ \A p \in Openers \ {o} : opener'[p] = opener[p]
        /\ opener' \in [Openers -> OwnStates]
    BY <1>1, <1>4, <1>6, Moves
  <1>8. OwnTypes'
    BY <1>1, <1>5, <1>7 DEF OwnTypes
  <1>9. FreshMode => v = 7
    BY <1>1, <1>2 DEF FreshMode
  <1>10. ReadyInv'
    BY <1>1, <1>6, <1>7, <1>9 DEF ReadyInv, ClimbMode
  <1>11. Folded' => Folded
    BY <1>2, <1>5, <1>7 DEF Folded
  <1>12. Own!At(Gateway, "open")' => Own!At(Gateway, "open")
    BY <1>6, <1>7 DEF Own!At, Own!OwnSchemaConstants
  <1>13. ColsInv'
    <2>1. ~torn' => Own!ColumnsAt(v) \subseteq store.cols
      BY <1>1, <1>2, <1>5 DEF ColsInv
    <2>. QED
      BY <1>1, <1>5, <1>7, <2>1, ColsKeep
  <1>14. FreshMode => FreshMode'
    <2>1. ASSUME FreshMode, NEW p \in Openers
          PROVE  /\ opener'[p].at # "migrate" /\ (opener'[p].at = "stamp" => opener'[p].ver = 7)
                 /\ opener'[p].at \in {"ready", "open"} /\ ~torn' => ~store'.legacy
      BY <1>5, <1>6, <1>7, <1>9, <2>1 DEF FreshMode
    <2>. QED
      BY <1>1, <1>5, <1>9, <2>1 DEF FreshMode
  <1>15. ClimbMode => ClimbMode'
    BY <1>1, <1>2, <1>5, <1>6, <1>7 DEF ClimbMode
  <1>. QED
    BY <1>1, <1>5, <1>8, <1>10, <1>11, <1>12, <1>13, <1>14, <1>15, RowsStayAndBindings DEF OwnInv

(* The files of before, read once for all: only a file that was not there has them. *)
LEMMA ImportsKeep ==
    ASSUME Own!OwnSchemaConstants, OwnInv, NEW o \in Openers, Own!Imports(o)
    PROVE  OwnInv'
  <1>1. /\ OwnTypes /\ ColsInv /\ ReadyInv /\ BoundInv /\ LeadInv /\ Own!ActiveIsItsOwn /\ FreshMode
        /\ opener[o].at = "import" /\ opener[o].ver = 7
        /\ sess' = before /\ store' = [store EXCEPT !.legacy = FALSE] /\ Own!Goes(o, "ready", 7)
        /\ UNCHANGED <<conversations, bound, torn, before, deaths>>
    BY DEF OwnInv, Own!Imports, ClimbMode, Own!At, ReadyInv
  <1>2. /\ opener'[o].at = "ready" /\ opener'[o].ver = 7 /\ \A p \in Openers \ {o} : opener'[p] = opener[p]
        /\ opener' \in [Openers -> OwnStates] /\ store.ver \in Nat
    BY <1>1, Moves DEF OwnTypes
  <1>3. /\ store' \in [ver : 0 .. 7, cols : SUBSET Columns, legacy : BOOLEAN]
        /\ store'.ver = store.ver /\ store'.cols = store.cols /\ store'.legacy = FALSE
    BY <1>1 DEF OwnTypes
  <1>4. ~store.legacy => sess = before
    BY <1>1 DEF FreshMode
  <1>5. /\ active' \in [Own!Chats -> Sessions \cup {None}] /\ Own!ActiveIsItsOwn'
    <2>1. \A c \in Own!Chats : active'[c] = IF active[c] = None /\ \E s \in Sessions : before[s] = c
                                       THEN CHOOSE s \in Sessions : before[s] = c ELSE active[c]
      BY DEF Own!Imports
    <2>2. \A c \in Own!Chats : (\E s \in Sessions : before[s] = c)
             => /\ (CHOOSE s \in Sessions : before[s] = c) \in Sessions
                /\ before[CHOOSE s \in Sessions : before[s] = c] = c
      OBVIOUS
    <2>3. \A c \in Own!Chats : active[c] # None => before[active[c]] = c
      <3>1. CASE store.legacy
        BY <1>1, <3>1 DEF FreshMode
      <3>2. CASE ~store.legacy
        BY <1>1, <1>4, <3>2 DEF Own!ActiveIsItsOwn
      <3>. QED
        BY <3>1, <3>2
    <2>4. ASSUME NEW c \in Own!Chats
          PROVE  active'[c] \in Sessions \cup {None} /\ (active'[c] # None => before[active'[c]] = c)
      BY <1>1, <2>1, <2>2, <2>3 DEF OwnTypes
    <2>5. active' \in [Own!Chats -> Sessions \cup {None}]
      BY <2>4 DEF Own!Imports
    <2>. QED
      BY <1>1, <2>4, <2>5 DEF Own!ActiveIsItsOwn
  <1>6. OwnTypes'
    BY <1>1, <1>2, <1>3, <1>5 DEF OwnTypes
  <1>7. ReadyInv' /\ BoundInv'
    BY <1>1, <1>2 DEF ReadyInv, BoundInv
  <1>8. WebInv'
    BY <1>1 DEF WebInv, FreshMode
  <1>9. LeadInv'
    <2>1. Own!At(Gateway, "open")' /\ ~torn' => Own!At(Gateway, "open") /\ ~torn /\ ~store.legacy
      BY <1>1, <1>2 DEF Own!At, Own!OwnSchemaConstants, FreshMode
    <2>. QED
      BY <1>1, <1>4, <2>1 DEF LeadInv
  <1>10. ColsInv'
    <2>1. ~torn' => Own!ColumnsAt(7) \subseteq store.cols /\ Own!ColumnsAt(store.ver) \subseteq store.cols
      BY <1>1 DEF ColsInv
    <2>. QED
      BY <1>1, <1>2, <1>3, <2>1, ColsKeep
  <1>11. FreshMode'
    <2>1. \A p \in Openers : /\ opener'[p].at # "migrate" /\ (opener'[p].at = "stamp" => opener'[p].ver = 7)
      BY <1>1, <1>2 DEF FreshMode
    <2>. QED
      BY <1>1, <1>3, <2>1 DEF FreshMode
  <1>. QED
    BY <1>5, <1>6, <1>7, <1>8, <1>9, <1>10, <1>11 DEF OwnInv

(* What an opener that only goes on to be open, or dies, leaves as it is. *)
LEMMA ModesStay ==
    ASSUME OwnTypes, FreshMode \/ ClimbMode, UNCHANGED <<store, sess, active, before>>, torn => torn',
           NEW o \in Openers, \A p \in Openers \ {o} : opener'[p] = opener[p],
           opener'[o].at = "down" \/ (opener'[o].at = "open" /\ opener[o].at = "ready")
    PROVE  FreshMode' \/ ClimbMode'
  <1>1. FreshMode => FreshMode'
    <2>1. ASSUME FreshMode, NEW p \in Openers
          PROVE  /\ opener'[p].at # "migrate" /\ (opener'[p].at = "stamp" => opener'[p].ver = 7)
                 /\ opener'[p].at \in {"ready", "open"} /\ ~torn' => ~store'.legacy
      BY <2>1 DEF FreshMode
    <2>. QED
      BY <2>1 DEF FreshMode
  <1>2. ClimbMode => ClimbMode'
    BY DEF ClimbMode
  <1>. QED
    BY <1>1, <1>2

LEMMA EnsuresKeep ==
    ASSUME Own!OwnSchemaConstants, OwnInv, NEW o \in Openers, Own!EnsuresBindings(o)
    PROVE  OwnInv'
  <1>1. /\ OwnTypes /\ ColsInv /\ ReadyInv /\ BoundInv /\ WebInv /\ LeadInv /\ Own!ActiveIsItsOwn
        /\ (FreshMode \/ ClimbMode) /\ opener[o].at = "ready" /\ opener[o].ver = 7 /\ Own!Goes(o, "open", 7)
        /\ UNCHANGED <<store, sess, active, torn, before, deaths>>
    BY DEF OwnInv, Own!EnsuresBindings, Own!At, ReadyInv
  <1>2. /\ opener'[o].at = "open" /\ opener'[o].ver = 7 /\ \A p \in Openers \ {o} : opener'[p] = opener[p]
        /\ opener' \in [Openers -> OwnStates] /\ store.ver \in Nat
    BY <1>1, Moves DEF OwnTypes
  <1>3. PICK chats \in SUBSET Own!Chats :
          /\ chats = (IF o = Gateway THEN {c \in Own!Known \ {Web} : bound[c] = None} ELSE {})
          /\ conversations' = conversations \cup chats
          /\ bound' = [c \in Own!Chats |-> IF c \in chats THEN c ELSE bound[c]]
    <2>1. Own!Known \subseteq Own!Chats
      BY <1>1 DEF Own!Known, OwnTypes
    <2>. QED
      BY <2>1 DEF Own!EnsuresBindings
  <1>4. /\ Web \in Own!Chats /\ Web \notin Telegram /\ None \notin Own!Chats /\ Telegram \subseteq Own!Chats
        /\ \A c \in Own!Chats : c # Web => c \in Telegram
    BY DEF Own!Chats, Own!OwnSchemaConstants
  <1>5. /\ bound' \in [Own!Chats -> Own!Chats \cup {None}] /\ conversations' \subseteq Own!Chats /\ bound'[Web] = bound[Web]
        /\ \A c \in Telegram : bound'[c] = (IF c \in chats THEN c ELSE bound[c])
    BY <1>1, <1>3, <1>4 DEF OwnTypes
  <1>6. OwnTypes'
    BY <1>1, <1>2, <1>5 DEF OwnTypes
  <1>7. ReadyInv' /\ BoundInv' /\ Own!ActiveIsItsOwn'
    BY <1>1, <1>2, <1>5 DEF ReadyInv, BoundInv, Own!ActiveIsItsOwn
  <1>8. WebInv'
    BY <1>1, <1>2, <1>5 DEF WebInv, Folded
  <1>9. LeadInv'
    <2>1. ASSUME Own!At(Gateway, "open")', ~torn', NEW s \in Sessions, sess'[s] \in Telegram
          PROVE  bound'[sess'[s]] = sess'[s]
      <3>1. sess[s] \in Telegram /\ sess[s] \in Own!Chats /\ sess[s] # Web /\ sess[s] # None /\ sess[s] \in Own!Known
            /\ bound[sess[s]] \in {None, sess[s]}
        BY <1>1, <1>4, <2>1 DEF Own!Known, BoundInv
      <3>2. CASE o = Gateway
        BY <1>1, <1>3, <1>5, <3>1, <3>2
      <3>3. CASE o # Gateway
        BY <1>1, <1>2, <1>5, <2>1, <3>1, <3>3 DEF LeadInv, Own!At, Own!OwnSchemaConstants
      <3>. QED
        BY <3>2, <3>3
    <2>. QED
      BY <2>1 DEF LeadInv
  <1>10. ColsInv'
    <2>1. ~torn' => Own!ColumnsAt(7) \subseteq store.cols /\ Own!ColumnsAt(store.ver) \subseteq store.cols
      BY <1>1 DEF ColsInv
    <2>. QED
      BY <1>1, <1>2, <2>1, ColsKeep
  <1>11. FreshMode' \/ ClimbMode'
    BY <1>1, <1>2, ModesStay
  <1>. QED
    BY <1>6, <1>7, <1>8, <1>9, <1>10, <1>11 DEF OwnInv

LEMMA ResolvesKeep ==
    ASSUME Own!OwnSchemaConstants, OwnInv, Own!ResolvesWeb
    PROVE  OwnInv'
  <1>1. /\ OwnTypes /\ ColsInv /\ ReadyInv /\ BoundInv /\ WebInv /\ LeadInv /\ Own!ActiveIsItsOwn
        /\ (FreshMode \/ ClimbMode) /\ Own!At(Gateway, "open") /\ bound[Web] = None
        /\ UNCHANGED <<store, sess, active, opener, torn, before, deaths>>
    BY DEF OwnInv, Own!ResolvesWeb
  <1>2. PICK to \in Own!Chats : bound' = [bound EXCEPT ![Web] = to] /\ conversations' = conversations \cup {to}
    <2>1. PICK talks : talks = {bound[c] : c \in Telegram} \ {None}
      OBVIOUS
    <2>2. PICK to : to = IF Own!Cardinality(talks) = 1 THEN CHOOSE c \in talks : TRUE ELSE Web
      OBVIOUS
    <2>3. bound' = [bound EXCEPT ![Web] = to] /\ conversations' = conversations \cup {to}
      BY <2>1, <2>2 DEF Own!ResolvesWeb
    <2>4. talks \subseteq Own!Chats /\ Web \in Own!Chats
      BY <1>1, <2>1 DEF OwnTypes, Own!Chats
    <2>5. to \in Own!Chats
      <3>1. Own!Cardinality(talks) = 1 => to \in talks
        BY <2>2, OneTalk
      <3>. QED
        BY <2>2, <2>4, <3>1
    <2>. QED
      BY <2>3, <2>5
  <1>3. bound' \in [Own!Chats -> Own!Chats \cup {None}] /\ (\A c \in Telegram : bound'[c] = bound[c])
        /\ conversations' \subseteq Own!Chats
    BY <1>1, <1>2 DEF OwnTypes, Own!Chats, Own!OwnSchemaConstants
  <1>4. ~\E s \in Sessions : sess[s] = Web
    <2>1. opener[Gateway].ver = 7 /\ Gateway \in Openers /\ 7 >= 6
      BY <1>1 DEF ReadyInv, Own!At, Own!OwnSchemaConstants
    <2>2. Folded
      BY <2>1 DEF Folded
    <2>. QED
      BY <1>1, <2>2 DEF WebInv, Own!OwnSchemaConstants
  <1>5. OwnTypes'
    BY <1>1, <1>3 DEF OwnTypes
  <1>6. ReadyInv' /\ BoundInv' /\ Own!ActiveIsItsOwn' /\ ColsInv' /\ WebInv'
    BY <1>1, <1>3, <1>4 DEF ReadyInv, BoundInv, Own!ActiveIsItsOwn, ColsInv, WebInv
  <1>7. LeadInv'
    BY <1>1, <1>3 DEF LeadInv, Own!At
  <1>8. FreshMode' \/ ClimbMode'
    <2>1. FreshMode => FreshMode'
      BY <1>1 DEF FreshMode
    <2>2. ClimbMode => ClimbMode'
      BY <1>1 DEF ClimbMode
    <2>. QED
      BY <1>1, <2>1, <2>2
  <1>. QED
    BY <1>5, <1>6, <1>7, <1>8 DEF OwnInv

LEMMA DiesKeep ==
    ASSUME Own!OwnSchemaConstants, OwnInv, NEW o \in Openers, Own!Dies(o)
    PROVE  OwnInv'
  <1>1. /\ OwnTypes /\ ColsInv /\ ReadyInv /\ (FreshMode \/ ClimbMode) /\ Own!Goes(o, "down", 0)
        /\ UNCHANGED <<store, sess, active, conversations, bound, before>>
        /\ deaths < MaxDeaths /\ deaths' = deaths + 1
        /\ torn' = (torn \/ (Own!At(o, "stamp") /\ opener[o].ver \in DOMAIN Own!Adds /\ store.ver # 0))
    BY DEF OwnInv, Own!Dies
  <1>2. /\ opener'[o].at = "down" /\ opener'[o].ver = 0 /\ \A p \in Openers \ {o} : opener'[p] = opener[p]
        /\ opener' \in [Openers -> OwnStates] /\ store.ver \in Nat /\ torn' \in BOOLEAN /\ (torn => torn')
    BY <1>1, Moves DEF OwnTypes
  <1>3. deaths' \in 0 .. MaxDeaths
    BY <1>1 DEF OwnTypes, Own!OwnSchemaConstants
  <1>4. OwnTypes'
    BY <1>1, <1>2, <1>3 DEF OwnTypes
  <1>5. ReadyInv'
    BY <1>1, <1>2 DEF ReadyInv
  <1>6. Folded' => Folded
    BY <1>1, <1>2 DEF Folded
  <1>7. Own!At(Gateway, "open")' => Own!At(Gateway, "open")
    BY <1>2 DEF Own!At, Own!OwnSchemaConstants
  <1>8. ColsInv'
    BY <1>1, <1>2 DEF ColsInv
  <1>9. FreshMode' \/ ClimbMode'
    BY <1>1, <1>2, ModesStay
  <1>. QED
    BY <1>1, <1>2, <1>4, <1>5, <1>6, <1>7, <1>8, <1>9, RowsStayAndBindings DEF OwnInv

LEMMA OwnStep == Own!OwnSchemaConstants /\ OwnInv /\ [Own!Next]_(Own!vars) => OwnInv'
  <1>. SUFFICES ASSUME Own!OwnSchemaConstants, OwnInv, [Own!Next]_(Own!vars)
                PROVE  OwnInv'
    OBVIOUS
  <1>1. CASE UNCHANGED Own!vars
    BY <1>1 DEF Own!vars, OwnInv, OwnTypes, BoundInv, ColsInv, WebInv, Folded, ReadyInv, LeadInv, Own!At, Own!ActiveIsItsOwn,
                FreshMode, ClimbMode
  <1>2. CASE Own!ResolvesWeb
    BY <1>2, ResolvesKeep
  <1>3. ASSUME NEW o \in Openers, Own!Opening(o) \/ Own!Dies(o)
        PROVE  OwnInv'
    BY <1>3, ReadsKeep, CreatesKeep, RungsKeep, FoldsKeep, StampsKeep, ImportsKeep, EnsuresKeep, DiesKeep
       DEF Own!Opening
  <1>. QED
    BY <1>1, <1>2, <1>3 DEF Own!Next

LEMMA OwnGives == Own!OwnSchemaConstants /\ OwnInv => Own!TypeOK /\ Own!SessionsAreKept /\ Own!ActiveIsItsOwn
  <1>. SUFFICES ASSUME Own!OwnSchemaConstants, OwnInv
                PROVE  Own!TypeOK /\ Own!SessionsAreKept /\ Own!ActiveIsItsOwn
    OBVIOUS
  <1>1. OwnTypes /\ ColsInv /\ ReadyInv /\ WebInv /\ LeadInv /\ Own!ActiveIsItsOwn /\ (FreshMode \/ ClimbMode)
    BY DEF OwnInv
  <1>2. Own!TypeOK
    BY <1>1, ColumnsOf DEF OwnTypes, OwnStates, Own!TypeOK
  <1>3. ASSUME Own!At(Gateway, "open"), ~torn
        PROVE  /\ store.cols = Own!ColumnsAt(7)
               /\ \A s \in Sessions : before[s] # None =>
                     sess[s] # None /\ \E c \in Own!Chats : bound[c] = sess[s]
    <2>1. opener[Gateway].at = "open" /\ opener[Gateway].ver = 7 /\ Gateway \in Openers
      BY <1>1, <1>3 DEF Own!At, ReadyInv, Own!OwnSchemaConstants
    <2>2. store.cols = Own!ColumnsAt(7)
      <3>1. Own!ColumnsAt(7) \subseteq store.cols
        BY <1>1, <1>3, <2>1 DEF ColsInv
      <3>. QED
        BY <1>1, <3>1, ColumnsOf DEF OwnTypes
    <2>3. ASSUME NEW s \in Sessions, before[s] # None
          PROVE  sess[s] # None /\ \E c \in Own!Chats : bound[c] = sess[s]
      <3>1. sess[s] # None
        BY <1>1, <1>3, <2>1, <2>3 DEF FreshMode, ClimbMode
      <3>2. sess[s] \in Own!Chats
        BY <1>1, <3>1 DEF OwnTypes
      <3>3. CASE sess[s] = Web
        <4>1. 7 >= 6
          OBVIOUS
        <4>2. Folded
          BY <2>1, <4>1 DEF Folded
        <4>. QED
          BY <1>1, <3>1, <3>2, <3>3, <4>2 DEF WebInv
      <3>4. CASE sess[s] # Web
        BY <1>1, <1>3, <3>1, <3>2, <3>4 DEF LeadInv, Own!Chats
      <3>. QED
        BY <3>3, <3>4
    <2>. QED
      BY <2>2, <2>3
  <1>. QED
    BY <1>1, <1>2, <1>3 DEF Own!SessionsAreKept

LEMMA TalksStay == Own!OwnSchemaConstants /\ OwnInv /\ [Own!Next]_(Own!vars) => [Own!LiveTalkStays]_(Own!vars)
  <1>. SUFFICES ASSUME Own!OwnSchemaConstants, OwnInv, [Own!Next]_(Own!vars), NEW c \in Telegram, active[c] # None
                PROVE  active'[c] = active[c]
    BY DEF Own!LiveTalkStays
  <1>1. c \in Own!Chats /\ c # Web /\ active \in [Own!Chats -> Sessions \cup {None}]
    BY DEF Own!Chats, Own!OwnSchemaConstants, OwnInv, OwnTypes
  <1>2. CASE active' = active
    BY <1>2
  <1>3. CASE active' = Own!Activated
    BY <1>1, <1>3 DEF Own!Activated
  <1>4. ASSUME NEW o \in Openers, Own!FoldsChats(o)
        PROVE  active'[c] = active[c]
    <2>1. active' = active \/ \E to \in Telegram : active' = Own!MergedActive(to)
      BY <1>4, FoldsChatsIs DEF OwnInv
    <2>. QED
      BY <1>1, <2>1 DEF Own!MergedActive
  <1>5. ASSUME NEW o \in Openers, Own!Imports(o)
        PROVE  active'[c] = active[c]
    BY <1>1, <1>5 DEF Own!Imports
  <1>. QED
    BY <1>2, <1>3, <1>4, <1>5
       DEF Own!Next, Own!vars, Own!Opening, Own!ResolvesWeb, Own!Dies, Own!Reads, Own!CreatesTables, Own!AddsColumn, Own!RecreatesSessions, Own!AddsUsers,
           Own!StampsVersion, Own!EnsuresBindings

(* Whatever version the database of an agent was found in, however many processes open it at once and wherever they
   die: once the gateway is open, unless a stamp was left out or overtaken, every session that was found is there, in
   a chat some channel leads to, with the columns this build reads; and chat_state never names a session of another
   chat. *)
THEOREM SessionsSurvive == Own!OwnSchemaConstants /\ Own!Spec => [](Own!TypeOK /\ Own!SessionsAreKept /\ Own!ActiveIsItsOwn)
  <1>1. CASE Own!OwnSchemaConstants
    <2>1. Own!OwnSchemaConstants /\ Own!Init => OwnInv
      BY OwnStarts
    <2>2. Own!OwnSchemaConstants /\ OwnInv /\ [Own!Next]_(Own!vars) => OwnInv'
      BY OwnStep
    <2>3. Own!OwnSchemaConstants /\ OwnInv => Own!TypeOK /\ Own!SessionsAreKept /\ Own!ActiveIsItsOwn
      BY OwnGives
    <2>. QED
      BY <1>1, <2>1, <2>2, <2>3, PTL DEF Own!Spec
  <1>. QED
    BY <1>1

(* No rung of the ladder, no import and no merge takes a Telegram chat's active session from it. *)
THEOREM LiveTalksStay == Own!OwnSchemaConstants /\ Own!Spec => [][Own!LiveTalkStays]_(Own!vars)
  <1>1. CASE Own!OwnSchemaConstants
    <2>1. Own!OwnSchemaConstants /\ Own!Init => OwnInv
      BY OwnStarts
    <2>2. Own!OwnSchemaConstants /\ OwnInv /\ [Own!Next]_(Own!vars) => OwnInv'
      BY OwnStep
    <2>3. Own!OwnSchemaConstants /\ OwnInv /\ [Own!Next]_(Own!vars) => [Own!LiveTalkStays]_(Own!vars)
      BY TalksStay
    <2>. QED
      BY <1>1, <2>1, <2>2, <2>3, PTL DEF Own!Spec
  <1>. QED
    BY <1>1

-----------------------------------------------------------------------------
(***************************************************************************)
(* What runs on the owner's machine (Infra.tla), for every set of apps, jobs,    *)
(* process numbers and requests.  The invariant: a manager's process number is    *)
(* that of a process of its own, what has a parent has a living one, and a        *)
(* request is for a target of its kind.                                        *)
(***************************************************************************)

CONSTANTS Apps, Jobs, Self, Pids, Requests, MaxActs, MaxMoves, MaxFaults

VARIABLES procs, app, dump, job, request, missed, acts, moves, faults

Hub == INSTANCE Infra

Statuses == {"gone", "stopped", "online"}
Owners == Hub!Managed \union {"stray", "system", "child", "none"}
AskedPlaces == {"pm2", "services", "listeners", "processes", "act", "pending", "save"}
Asked == [at : AskedPlaces, kind : {"pm2", "launchd", "pid"}, target : Apps \union Jobs \union Pids,
          verb : {"restart", "stop", "start", "delete", "kill"}, owner : SUBSET (Pids \X Hub!Managed),
          apps : SUBSET Apps, jobs : SUBSET Jobs, listening : SUBSET Pids,
          parents : {<<>>} \union [Pids -> Pids \union {1}], exes : SUBSET Pids, failed : SUBSET AskedPlaces,
          young : SUBSET Pids]

(* Each request is of one kind, and its target of that kind. *)
Aimed(q) == /\ q \in Asked
            /\ q.kind = "launchd" => q.target \in Jobs
            /\ q.kind = "pid" => q.target \in Pids

HubTypes ==
    /\ procs \in [Pids -> [who : Owners, parent : Pids \union {1}]]
    /\ app \in [Apps -> [status : Statuses, pid : Pids \union {0}]]
    /\ dump \in [Apps -> Statuses]
    /\ job \in [Jobs -> [loaded : BOOLEAN, pid : Pids \union {0}]]
    /\ \A r \in Requests : request[r] = Hub!Idle \/ Aimed(request[r])
    /\ DOMAIN request = Requests /\ request = [r \in Requests |-> request[r]]
    /\ missed \in BOOLEAN

(* Whose process a manager's is, and that what has a parent has a living one. *)
TableInv ==
    /\ \A a \in Apps : app[a].pid # 0 => procs[app[a].pid].who = a
    /\ \A j \in Jobs : job[j].pid # 0 => job[j].loaded /\ procs[job[j].pid].who = j
    /\ \A p \in Pids : procs[p].parent # 1 => Hub!Alive(procs[p].parent) /\ procs[p].who = "child"

HubInv == HubTypes /\ TableInv /\ Hub!DumpFollows

LEMMA HubStarts == Hub!InfraConstants /\ Hub!Init => HubInv
  <1>. SUFFICES ASSUME Hub!InfraConstants, Hub!Init
                PROVE  HubInv
    OBVIOUS
  <1>1. procs \in [Pids -> [who : Owners, parent : Pids \union {1}]] /\ \A p \in Pids : procs[p].parent = 1
    BY DEF Hub!Init, Hub!Free, Owners
  <1>2. app \in [Apps -> [status : Statuses, pid : Pids \union {0}]] /\ \A a \in Apps : app[a].pid = 0 /\ app[a].status = "stopped"
    BY DEF Hub!Init, Statuses
  <1>3. dump \in [Apps -> Statuses] /\ dump = [a \in Apps |-> app[a].status]
    BY <1>2 DEF Hub!Init, Statuses
  <1>4. job \in [Jobs -> [loaded : BOOLEAN, pid : Pids \union {0}]] /\ \A j \in Jobs : job[j].pid = 0
    BY DEF Hub!Init
  <1>5. request = [r \in Requests |-> Hub!Idle] /\ missed = FALSE
    BY DEF Hub!Init
  <1>. QED
    BY <1>1, <1>2, <1>3, <1>4, <1>5 DEF HubInv, HubTypes, TableInv, Hub!DumpFollows

(* A request that goes on, of its kind and with its target. *)
LEMMA OneGoes ==
    ASSUME HubTypes, NEW r \in Requests, NEW q, q = Hub!Idle \/ Aimed(q), request' = [request EXCEPT ![r] = q]
    PROVE  /\ \A s \in Requests : request'[s] = Hub!Idle \/ Aimed(request'[s])
           /\ DOMAIN request' = Requests /\ request' = [s \in Requests |-> request'[s]]
           /\ request'[r] = q /\ \A s \in Requests \ {r} : request'[s] = request[s]
  BY DEF HubTypes

(* What was last chosen is saved, or being saved, or missed, if it was. *)
LEMMA DumpKeeps ==
    ASSUME HubInv, [a \in Apps |-> app'[a].status] = [a \in Apps |-> app[a].status], dump' = dump, missed => missed',
           \A r \in Requests : Hub!At(r, "save") => Hub!At(r, "save")' \/ missed'
    PROVE  Hub!DumpFollows'
  BY DEF HubInv, Hub!DumpFollows

LEMMA OneDumpKeeps ==
    ASSUME HubInv, NEW r \in Requests, NEW q, ~Hub!At(r, "save"), request' = [request EXCEPT ![r] = q],
           [a \in Apps |-> app'[a].status] = [a \in Apps |-> app[a].status], dump' = dump, missed' = missed
    PROVE  Hub!DumpFollows'
  <1>1. \A s \in Requests \ {r} : request'[s] = request[s]
    BY DEF HubInv, HubTypes
  <1>2. \A s \in Requests : Hub!At(s, "save") => Hub!At(s, "save")'
    BY <1>1 DEF Hub!At
  <1>. QED
    BY <1>2, DumpKeeps

(* A process starts under a free number: nobody's process and nobody's parent before. *)
LEMMA StartsAre ==
    ASSUME Hub!InfraConstants, HubInv, NEW p \in Pids, NEW who \in Owners \ {"none"}, NEW parent \in Pids \union {1},
           parent = 1 \/ (who = "child" /\ Hub!Alive(parent)), Hub!Starts(p, who, parent)
    PROVE  /\ procs' \in [Pids -> [who : Owners, parent : Pids \union {1}]]
           /\ procs'[p].who = who /\ \A q \in Pids \ {p} : procs'[q] = procs[q]
           /\ \A a \in Apps : app[a].pid # p
           /\ \A j \in Jobs : job[j].pid # p
           /\ \A q \in Pids : procs'[q].parent # 1 => procs'[procs'[q].parent].who # "none" /\ procs'[q].who = "child"
           /\ \A r \in Requests : request'[r] = Hub!Idle \/ Aimed(request'[r])
           /\ DOMAIN request' = Requests /\ request' = [r \in Requests |-> request'[r]]
           /\ \A r \in Requests : Hub!At(r, "save") => Hub!At(r, "save")'
  <1>1. HubTypes /\ TableInv /\ 0 \notin Pids /\ 1 \notin Pids
    BY DEF HubInv, Hub!InfraConstants
  <1>2. ~Hub!Alive(p) /\ procs' = [procs EXCEPT ![p] = [who |-> who, parent |-> parent]]
    BY DEF Hub!Starts
  <1>3. /\ procs' \in [Pids -> [who : Owners, parent : Pids \union {1}]]
        /\ procs'[p].who = who /\ procs'[p].parent = parent /\ \A q \in Pids \ {p} : procs'[q] = procs[q]
    BY <1>1, <1>2 DEF HubTypes
  <1>4. \A a \in Apps : app[a].pid # p
    BY <1>1, <1>2 DEF Hub!InfraConstants, TableInv, HubTypes, Hub!Alive
  <1>5. \A j \in Jobs : job[j].pid # p
    BY <1>1, <1>2 DEF Hub!InfraConstants, TableInv, HubTypes, Hub!Alive
  <1>6. \A q \in Pids : procs'[q].parent # 1 => procs'[procs'[q].parent].who # "none" /\ procs'[q].who = "child"
    <2>1. \A q \in Pids : procs[q].parent # 1 => procs[q].parent \in Pids /\ procs[q].parent # p
      BY <1>1, <1>2 DEF HubTypes, TableInv
    <2>. QED
      BY <1>1, <1>2, <1>3, <2>1 DEF HubTypes, TableInv, Hub!Alive
  <1>7. \A r \in Requests : /\ request'[r] = Hub!Idle \/ Aimed(request'[r])
                            /\ Hub!At(r, "save") => Hub!At(r, "save")'
    <2>. SUFFICES ASSUME NEW r \in Requests
                  PROVE  /\ request'[r] = Hub!Idle \/ Aimed(request'[r])
                         /\ Hub!At(r, "save") => Hub!At(r, "save")'
      OBVIOUS
    <2>0. request' = [s \in Requests |-> IF request[s] = Hub!Idle THEN Hub!Idle
                                         ELSE [request[s] EXCEPT !.young = request[s].young \union {p}]]
      BY DEF Hub!Starts
    <2>1. CASE request[r] = Hub!Idle
      BY <2>0, <2>1 DEF Hub!At
    <2>2. CASE request[r] # Hub!Idle
      <3>1. PICK q : q = request[r]
        OBVIOUS
      <3>2. PICK new : new = [q EXCEPT !.young = q.young \union {p}]
        OBVIOUS
      <3>3. Aimed(q)
        BY <1>1, <2>2, <3>1 DEF HubTypes
      <3>4. new \in Asked /\ new.at = q.at /\ new.kind = q.kind /\ new.target = q.target
        BY <3>2, <3>3 DEF Aimed, Asked
      <3>5. request'[r] = new /\ Hub!Idle.at = "none"
        BY <2>0, <2>2, <3>1, <3>2 DEF Hub!Idle
      <3>6. Aimed(new)
        BY <3>3, <3>4 DEF Aimed
      <3>7. Hub!At(r, "save") => new.at = "save" /\ new # Hub!Idle
        BY <3>1, <3>4, <3>5 DEF Hub!At
      <3>. QED
        BY <3>5, <3>6, <3>7 DEF Hub!At
    <2>. QED
      BY <2>1, <2>2
  <1>8. DOMAIN request' = Requests /\ request' = [r \in Requests |-> request'[r]]
    BY DEF Hub!Starts
  <1>. QED
    BY <1>3, <1>4, <1>5, <1>6, <1>7, <1>8

(* A process ends: what it was the parent of is nobody's child. *)
LEMMA EndedIs ==
    ASSUME Hub!InfraConstants, HubInv, NEW p \in Pids, procs' = Hub!Ended(p)
    PROVE  /\ procs' \in [Pids -> [who : Owners, parent : Pids \union {1}]]
           /\ \A q \in Pids : procs'[q].parent # 1 => procs'[procs'[q].parent].who # "none" /\ procs'[q].who = "child"
           /\ \A q \in Pids \ {p} : procs[q].who \in Hub!Managed => procs'[q].who = procs[q].who
  <1>1. HubTypes /\ TableInv /\ 0 \notin Pids /\ 1 \notin Pids /\ Hub!Managed \cap {"stray", "system", "child", "none"} = {}
    BY DEF HubInv, Hub!InfraConstants, Hub!Managed
  <1>2. PICK free, stray : free = [who |-> "none", parent |-> 1] /\ stray = [who |-> "stray", parent |-> 1]
    OBVIOUS
  <1>3. free \in [who : Owners, parent : Pids \union {1}] /\ stray \in [who : Owners, parent : Pids \union {1}]
        /\ free.parent = 1 /\ stray.parent = 1 /\ stray.who = "stray" /\ free.who = "none"
    BY <1>2 DEF Owners
  <1>4. procs' = [q \in Pids |-> IF q = p THEN free ELSE IF procs[q].parent = p THEN stray ELSE procs[q]]
    BY <1>2 DEF Hub!Ended, Hub!Free
  <1>5. procs' \in [Pids -> [who : Owners, parent : Pids \union {1}]]
    BY <1>1, <1>3, <1>4 DEF HubTypes
  <1>6. \A q \in Pids \ {p} : procs[q].who \in Hub!Managed => procs'[q].who = procs[q].who
    <2>1. \A q \in Pids : procs[q].who \in Hub!Managed => procs[q].parent = 1
      BY <1>1 DEF TableInv
    <2>. QED
      BY <1>1, <1>4, <2>1
  <1>7. ASSUME NEW q \in Pids, procs'[q].parent # 1
        PROVE  procs'[procs'[q].parent].who # "none" /\ procs'[q].who = "child"
    <2>1. q # p /\ procs[q].parent # p /\ procs'[q] = procs[q]
      BY <1>3, <1>4, <1>7
    <2>2. procs[q].parent \in Pids /\ procs[procs[q].parent].who # "none" /\ procs[q].who = "child"
      BY <1>1, <1>7, <2>1 DEF HubTypes, TableInv, Hub!Alive
    <2>3. procs'[procs[q].parent].who # "none"
      BY <1>3, <1>4, <2>1, <2>2
    <2>. QED
      BY <2>1, <2>2, <2>3
  <1>. QED
    BY <1>5, <1>6, <1>7

(* pm2's and launchd's lists without an ended process. *)
LEMMA WithoutAre ==
    ASSUME HubTypes, 0 \notin Pids, NEW p \in Pids
    PROVE  /\ Hub!WithoutPid(app, p) \in [Apps -> [status : Statuses, pid : Pids \union {0}]]
           /\ \A a \in Apps : /\ Hub!WithoutPid(app, p)[a].status = app[a].status
                              /\ Hub!WithoutPid(app, p)[a].pid = IF app[a].pid = p THEN 0 ELSE app[a].pid
           /\ Hub!WithoutPid(job, p) \in [Jobs -> [loaded : BOOLEAN, pid : Pids \union {0}]]
           /\ \A j \in Jobs : /\ Hub!WithoutPid(job, p)[j].loaded = job[j].loaded
                              /\ Hub!WithoutPid(job, p)[j].pid = IF job[j].pid = p THEN 0 ELSE job[j].pid
  <1>1. ASSUME NEW a \in Apps
        PROVE  /\ [app[a] EXCEPT !.pid = IF app[a].pid = p THEN 0 ELSE app[a].pid] \in [status : Statuses, pid : Pids \union {0}]
               /\ [app[a] EXCEPT !.pid = IF app[a].pid = p THEN 0 ELSE app[a].pid].status = app[a].status
               /\ [app[a] EXCEPT !.pid = IF app[a].pid = p THEN 0 ELSE app[a].pid].pid = IF app[a].pid = p THEN 0 ELSE app[a].pid
    <2>1. PICK row, n : row = app[a] /\ n = (IF row.pid = p THEN 0 ELSE row.pid)
      OBVIOUS
    <2>2. row \in [status : Statuses, pid : Pids \union {0}] /\ n \in Pids \union {0}
      BY <2>1 DEF HubTypes
    <2>3. [row EXCEPT !.pid = n] \in [status : Statuses, pid : Pids \union {0}] /\ [row EXCEPT !.pid = n].status = row.status
          /\ [row EXCEPT !.pid = n].pid = n
      BY <2>2
    <2>. QED
      BY <2>1, <2>3
  <1>2. ASSUME NEW j \in Jobs
        PROVE  /\ [job[j] EXCEPT !.pid = IF job[j].pid = p THEN 0 ELSE job[j].pid] \in [loaded : BOOLEAN, pid : Pids \union {0}]
               /\ [job[j] EXCEPT !.pid = IF job[j].pid = p THEN 0 ELSE job[j].pid].loaded = job[j].loaded
               /\ [job[j] EXCEPT !.pid = IF job[j].pid = p THEN 0 ELSE job[j].pid].pid = IF job[j].pid = p THEN 0 ELSE job[j].pid
    <2>1. PICK row, n : row = job[j] /\ n = (IF row.pid = p THEN 0 ELSE row.pid)
      OBVIOUS
    <2>2. row \in [loaded : BOOLEAN, pid : Pids \union {0}] /\ n \in Pids \union {0}
      BY <2>1 DEF HubTypes
    <2>3. [row EXCEPT !.pid = n] \in [loaded : BOOLEAN, pid : Pids \union {0}] /\ [row EXCEPT !.pid = n].loaded = row.loaded
          /\ [row EXCEPT !.pid = n].pid = n
      BY <2>2
    <2>. QED
      BY <2>1, <2>3
  <1>3. DOMAIN app = Apps /\ DOMAIN job = Jobs
    BY DEF HubTypes
  <1>. QED
    BY <1>1, <1>2, <1>3 DEF Hub!WithoutPid

LEMMA StartsKeep ==
    ASSUME Hub!InfraConstants, HubInv, NEW p \in Pids, NEW who \in {"stray", "system", "child"}, NEW parent \in Pids \union {1},
           parent = 1 \/ (who = "child" /\ Hub!Alive(parent)), Hub!Starts(p, who, parent), UNCHANGED <<app, dump, job, missed>>
    PROVE  HubInv'
  <1>1. HubTypes /\ TableInv /\ 0 \notin Pids /\ 1 \notin Pids
    BY DEF HubInv, Hub!InfraConstants
  <1>2. /\ procs' \in [Pids -> [who : Owners, parent : Pids \union {1}]]
        /\ procs'[p].who = who /\ \A q \in Pids \ {p} : procs'[q] = procs[q]
        /\ \A a \in Apps : app[a].pid # p
        /\ \A j \in Jobs : job[j].pid # p
        /\ \A q \in Pids : procs'[q].parent # 1 => procs'[procs'[q].parent].who # "none" /\ procs'[q].who = "child"
        /\ \A r \in Requests : request'[r] = Hub!Idle \/ Aimed(request'[r])
        /\ DOMAIN request' = Requests /\ request' = [r \in Requests |-> request'[r]]
        /\ \A r \in Requests : Hub!At(r, "save") => Hub!At(r, "save")'
    <2>1. who \in Owners \ {"none"}
      BY DEF Owners
    <2>. QED
      BY <2>1, StartsAre
  <1>3. HubTypes'
    BY <1>1, <1>2 DEF HubTypes
  <1>4. TableInv'
    <2>1. \A a \in Apps : app[a].pid # 0 => procs'[app[a].pid].who = a
      BY <1>1, <1>2 DEF TableInv, HubTypes
    <2>2. \A j \in Jobs : job[j].pid # 0 => job[j].loaded /\ procs'[job[j].pid].who = j
      BY <1>1, <1>2 DEF TableInv, HubTypes
    <2>. QED
      BY <1>2, <2>1, <2>2 DEF TableInv, Hub!Alive
  <1>5. Hub!DumpFollows'
    BY <1>2, DumpKeeps
  <1>. QED
    BY <1>3, <1>4, <1>5 DEF HubInv

LEMMA LaunchKeeps == ASSUME Hub!InfraConstants, HubInv, NEW p \in Pids, Hub!Launch(p)
                     PROVE  HubInv'
  <1>1. HubTypes /\ TableInv /\ 0 \notin Pids /\ 1 \notin Pids /\ UNCHANGED <<dump, missed>> /\ Apps \cap Jobs = {}
    BY DEF HubInv, Hub!InfraConstants, Hub!Launch
  <1>2. ASSUME NEW a \in Apps, app[a].status = "online", app[a].pid = 0, app' = [app EXCEPT ![a].pid = p], Hub!Starts(p, a, 1),
               job' = job
        PROVE  HubInv'
    <2>1. /\ procs' \in [Pids -> [who : Owners, parent : Pids \union {1}]]
          /\ procs'[p].who = a /\ \A q \in Pids \ {p} : procs'[q] = procs[q]
          /\ \A b \in Apps : app[b].pid # p
          /\ \A j \in Jobs : job[j].pid # p
          /\ \A q \in Pids : procs'[q].parent # 1 => procs'[procs'[q].parent].who # "none" /\ procs'[q].who = "child"
          /\ \A r \in Requests : request'[r] = Hub!Idle \/ Aimed(request'[r])
          /\ DOMAIN request' = Requests /\ request' = [r \in Requests |-> request'[r]]
          /\ \A r \in Requests : Hub!At(r, "save") => Hub!At(r, "save")'
      <3>1. a \in Owners \ {"none"} /\ 1 \in Pids \union {1}
        BY DEF Owners, Hub!Managed, Hub!InfraConstants
      <3>. QED
        BY <1>2, <3>1, StartsAre
    <2>2. PICK row : row = [app[a] EXCEPT !.pid = p]
      OBVIOUS
    <2>3. row \in [status : Statuses, pid : Pids \union {0}] /\ row.pid = p /\ row.status = app[a].status /\ app' = [app EXCEPT ![a] = row]
      <3>1. app[a] \in [status : Statuses, pid : Pids \union {0}] /\ app \in [Apps -> [status : Statuses, pid : Pids \union {0}]]
        BY <1>1 DEF HubTypes
      <3>. QED
        BY <1>2, <2>2, <3>1
    <2>4. /\ app' \in [Apps -> [status : Statuses, pid : Pids \union {0}]] /\ app'[a] = row
          /\ \A b \in Apps \ {a} : app'[b] = app[b]
      BY <1>1, <2>3 DEF HubTypes
    <2>5. HubTypes'
      BY <1>1, <1>2, <2>1, <2>4 DEF HubTypes
    <2>6. TableInv'
      <3>1. \A b \in Apps : app'[b].pid # 0 => procs'[app'[b].pid].who = b
        BY <1>1, <2>1, <2>3, <2>4 DEF TableInv, HubTypes
      <3>2. \A j \in Jobs : job[j].pid # 0 => job[j].loaded /\ procs'[job[j].pid].who = j
        BY <1>1, <2>1 DEF TableInv, HubTypes
      <3>. QED
        BY <1>2, <2>1, <3>1, <3>2 DEF TableInv, Hub!Alive
    <2>7. Hub!DumpFollows'
      <3>1. [b \in Apps |-> app'[b].status] = [b \in Apps |-> app[b].status]
        BY <2>3, <2>4
      <3>. QED
        BY <1>1, <2>1, <3>1, DumpKeeps
    <2>. QED
      BY <2>5, <2>6, <2>7 DEF HubInv
  <1>3. ASSUME NEW j \in Jobs, job[j].loaded, job[j].pid = 0, job' = [job EXCEPT ![j].pid = p], Hub!Starts(p, j, 1), app' = app
        PROVE  HubInv'
    <2>1. /\ procs' \in [Pids -> [who : Owners, parent : Pids \union {1}]]
          /\ procs'[p].who = j /\ \A q \in Pids \ {p} : procs'[q] = procs[q]
          /\ \A b \in Apps : app[b].pid # p
          /\ \A k \in Jobs : job[k].pid # p
          /\ \A q \in Pids : procs'[q].parent # 1 => procs'[procs'[q].parent].who # "none" /\ procs'[q].who = "child"
          /\ \A r \in Requests : request'[r] = Hub!Idle \/ Aimed(request'[r])
          /\ DOMAIN request' = Requests /\ request' = [r \in Requests |-> request'[r]]
          /\ \A r \in Requests : Hub!At(r, "save") => Hub!At(r, "save")'
      <3>1. j \in Owners \ {"none"} /\ 1 \in Pids \union {1}
        BY DEF Owners, Hub!Managed, Hub!InfraConstants
      <3>. QED
        BY <1>3, <3>1, StartsAre
    <2>2. PICK row : row = [job[j] EXCEPT !.pid = p]
      OBVIOUS
    <2>3. /\ row \in [loaded : BOOLEAN, pid : Pids \union {0}] /\ row.pid = p /\ row.loaded = job[j].loaded
          /\ job' = [job EXCEPT ![j] = row]
      <3>1. job[j] \in [loaded : BOOLEAN, pid : Pids \union {0}] /\ job \in [Jobs -> [loaded : BOOLEAN, pid : Pids \union {0}]]
        BY <1>1 DEF HubTypes
      <3>. QED
        BY <1>3, <2>2, <3>1
    <2>4. /\ job' \in [Jobs -> [loaded : BOOLEAN, pid : Pids \union {0}]] /\ job'[j] = row
          /\ \A k \in Jobs \ {j} : job'[k] = job[k]
      BY <1>1, <2>3 DEF HubTypes
    <2>5. HubTypes'
      BY <1>1, <1>3, <2>1, <2>4 DEF HubTypes
    <2>6. TableInv'
      <3>1. \A b \in Apps : app[b].pid # 0 => procs'[app[b].pid].who = b
        BY <1>1, <2>1 DEF TableInv, HubTypes
      <3>2. \A k \in Jobs : job'[k].pid # 0 => job'[k].loaded /\ procs'[job'[k].pid].who = k
        BY <1>1, <1>3, <2>1, <2>3, <2>4 DEF TableInv, HubTypes
      <3>. QED
        BY <1>3, <2>1, <3>1, <3>2 DEF TableInv, Hub!Alive
    <2>7. Hub!DumpFollows'
      BY <1>1, <1>3, <2>1, DumpKeeps
    <2>. QED
      BY <2>5, <2>6, <2>7 DEF HubInv
  <1>. QED
    BY <1>2, <1>3 DEF Hub!Launch

(* The tables without an ended process: it was p, and everybody's list knows. *)
LEMMA GoneKeeps ==
    ASSUME Hub!InfraConstants, HubInv, NEW p \in Pids, procs' = Hub!Ended(p), app' = Hub!WithoutPid(app, p), job' = Hub!WithoutPid(job, p),
           UNCHANGED <<dump, missed>>,
           \A r \in Requests : request'[r] = Hub!Idle \/ Aimed(request'[r]),
           DOMAIN request' = Requests /\ request' = [r \in Requests |-> request'[r]],
           \A r \in Requests : Hub!At(r, "save") => Hub!At(r, "save")'
    PROVE  HubInv'
  <1>1. HubTypes /\ TableInv /\ 0 \notin Pids /\ 1 \notin Pids
    BY DEF HubInv, Hub!InfraConstants
  <1>2. /\ procs' \in [Pids -> [who : Owners, parent : Pids \union {1}]]
        /\ \A q \in Pids : procs'[q].parent # 1 => procs'[procs'[q].parent].who # "none" /\ procs'[q].who = "child"
        /\ \A q \in Pids \ {p} : procs[q].who \in Hub!Managed => procs'[q].who = procs[q].who
    BY EndedIs
  <1>3. /\ app' \in [Apps -> [status : Statuses, pid : Pids \union {0}]]
        /\ \A a \in Apps : app'[a].status = app[a].status /\ app'[a].pid = IF app[a].pid = p THEN 0 ELSE app[a].pid
        /\ job' \in [Jobs -> [loaded : BOOLEAN, pid : Pids \union {0}]]
        /\ \A j \in Jobs : job'[j].loaded = job[j].loaded /\ job'[j].pid = IF job[j].pid = p THEN 0 ELSE job[j].pid
    BY <1>1, WithoutAre
  <1>4. HubTypes'
    BY <1>1, <1>2, <1>3 DEF HubTypes
  <1>5. TableInv'
    <2>1. \A a \in Apps : app'[a].pid # 0 => procs'[app'[a].pid].who = a
      BY <1>1, <1>2, <1>3 DEF TableInv, HubTypes, Hub!Managed
    <2>2. \A j \in Jobs : job'[j].pid # 0 => job'[j].loaded /\ procs'[job'[j].pid].who = j
      BY <1>1, <1>2, <1>3 DEF TableInv, HubTypes, Hub!Managed
    <2>. QED
      BY <1>2, <2>1, <2>2 DEF TableInv, Hub!Alive
  <1>6. Hub!DumpFollows'
    <2>1. [a \in Apps |-> app'[a].status] = [a \in Apps |-> app[a].status]
      BY <1>3
    <2>. QED
      BY <2>1, DumpKeeps
  <1>. QED
    BY <1>4, <1>5, <1>6 DEF HubInv

LEMMA EndsKeeps == ASSUME Hub!InfraConstants, HubInv, NEW p \in Pids, Hub!Ends(p)
                   PROVE  HubInv'
  <1>1. /\ procs' = Hub!Ended(p) /\ app' = Hub!WithoutPid(app, p) /\ job' = Hub!WithoutPid(job, p)
        /\ UNCHANGED <<dump, request, missed>>
    BY DEF Hub!Ends
  <1>2. (\A r \in Requests : request'[r] = Hub!Idle \/ Aimed(request'[r]))
        /\ DOMAIN request' = Requests /\ request' = [r \in Requests |-> request'[r]]
        /\ \A r \in Requests : Hub!At(r, "save") => Hub!At(r, "save")'
    BY <1>1 DEF HubInv, HubTypes, Hub!At
  <1>. QED
    BY <1>1, <1>2, GoneKeeps

(* A step of a request that leaves the machine alone. *)
LEMMA QuietGoes ==
    ASSUME Hub!InfraConstants, HubInv, NEW r \in Requests, ~Hub!At(r, "save"), NEW q, q = Hub!Idle \/ Aimed(q),
           request' = [request EXCEPT ![r] = q], UNCHANGED <<procs, app, dump, job, missed>>
    PROVE  HubInv'
  <1>1. HubTypes /\ TableInv
    BY DEF HubInv
  <1>2. /\ \A s \in Requests : request'[s] = Hub!Idle \/ Aimed(request'[s])
        /\ DOMAIN request' = Requests /\ request' = [s \in Requests |-> request'[s]]
    BY <1>1, OneGoes
  <1>3. HubTypes' /\ TableInv'
    BY <1>1, <1>2 DEF HubTypes, TableInv, Hub!Alive
  <1>4. Hub!DumpFollows'
    BY OneDumpKeeps
  <1>. QED
    BY <1>3, <1>4 DEF HubInv

LEMMA DoKeeps == ASSUME Hub!InfraConstants, HubInv, NEW r \in Requests, NEW kind, NEW target, NEW verb, Hub!Do(r, kind, target, verb),
                        \/ kind = "pm2" /\ target \in Apps /\ verb \in {"restart", "stop", "start", "delete"}
                        \/ kind = "launchd" /\ target \in Jobs /\ verb \in {"restart", "stop", "start"}
                        \/ kind = "pid" /\ target \in Pids /\ verb = "kill"
                 PROVE  HubInv'
  <1>1. PICK q : q = [at |-> "pm2", kind |-> kind, target |-> target, verb |-> verb,
                      owner |-> {}, apps |-> {}, jobs |-> {}, listening |-> {}, parents |-> <<>>,
                      exes |-> {}, failed |-> {}, young |-> {}]
    OBVIOUS
  <1>2. q \in Asked /\ q.kind = kind /\ q.target = target
    BY <1>1 DEF Asked, AskedPlaces
  <1>3. Aimed(q)
    BY <1>2 DEF Aimed
  <1>4. request' = [request EXCEPT ![r] = q] /\ request[r] = Hub!Idle /\ UNCHANGED <<procs, app, dump, job, missed>>
    BY <1>1 DEF Hub!Do
  <1>. QED
    BY <1>3, <1>4, QuietGoes DEF Hub!At

(* A command of the look at the machine answers or fails. *)
LEMMA ReadKeeps ==
    ASSUME Hub!InfraConstants, HubInv, NEW r \in Requests, NEW here \in AskedPlaces \ {"save"}, NEW seen, NEW next \in AskedPlaces,
           Hub!Read(r, here, seen, next), Hub!At(r, here) => seen \in Asked /\ seen.kind = request[r].kind /\ seen.target = request[r].target
    PROVE  HubInv'
  <1>1. Hub!At(r, here) /\ UNCHANGED <<procs, app, dump, job, missed>>
    BY DEF Hub!Read
  <1>2. ~Hub!At(r, "save") /\ Aimed(request[r])
    BY <1>1 DEF Hub!At, HubInv, HubTypes
  <1>3. PICK q, failed : q = request[r] /\ failed = q.failed \union {here}
    OBVIOUS
  <1>4. q \in Asked /\ failed \in SUBSET AskedPlaces
    BY <1>2, <1>3 DEF Aimed, Asked
  <1>5. PICK told : told = [seen EXCEPT !.at = next]
    OBVIOUS
  <1>6. PICK mute : mute = [q EXCEPT !.at = next, !.failed = failed]
    OBVIOUS
  <1>7. told \in Asked /\ told.kind = q.kind /\ told.target = q.target
    BY <1>1, <1>3, <1>5 DEF Asked
  <1>8. mute \in Asked /\ mute.kind = q.kind /\ mute.target = q.target
    BY <1>4, <1>6 DEF Asked
  <1>9. Aimed(told) /\ Aimed(mute)
    BY <1>2, <1>3, <1>7, <1>8 DEF Aimed
  <1>10. request' = [request EXCEPT ![r] = told] \/ request' = [request EXCEPT ![r] = mute]
    BY <1>3, <1>5, <1>6 DEF Hub!Read
  <1>. QED
    BY <1>1, <1>2, <1>9, <1>10, QuietGoes

LEMMA LooksKeep == ASSUME Hub!InfraConstants, HubInv, NEW r \in Requests,
                          Hub!PM2List(r) \/ Hub!Services(r) \/ Hub!Listeners(r) \/ Hub!ListsProcesses(r)
                   PROVE  HubInv'
  <1>1. HubTypes /\ (request[r] # Hub!Idle => Aimed(request[r]))
    BY DEF HubInv, HubTypes
  <1>2. PICK q : q = request[r]
    OBVIOUS
  <1>3. CASE Hub!PM2List(r)
    <2>1. PICK owner, apps : owner = q.owner \union Hub!Owns(app) /\ apps = {a \in Apps : app[a].status # "gone"}
      OBVIOUS
    <2>2. PICK seen : seen = [q EXCEPT !.owner = owner, !.apps = apps]
      OBVIOUS
    <2>3. Hub!Read(r, "pm2", seen, "services")
      BY <1>2, <1>3, <2>1, <2>2 DEF Hub!PM2List
    <2>4. Hub!Owns(app) \subseteq Pids \X Hub!Managed /\ apps \in SUBSET Apps
      BY <1>1, <2>1 DEF HubTypes, Hub!Owns, Hub!Managed
    <2>5. Hub!At(r, "pm2") => seen \in Asked /\ seen.kind = q.kind /\ seen.target = q.target
      <3>1. ASSUME Hub!At(r, "pm2")
            PROVE  seen \in Asked /\ seen.kind = q.kind /\ seen.target = q.target
        <4>1. q \in Asked
          BY <1>1, <1>2, <3>1 DEF Hub!At, Aimed
        <4>2. owner \in SUBSET (Pids \X Hub!Managed)
          BY <2>1, <2>4, <4>1 DEF Asked
        <4>. QED
          BY <2>2, <2>4, <4>1, <4>2 DEF Asked
      <3>. QED
        BY <3>1
    <2>. QED
      BY <1>2, <2>3, <2>5, ReadKeeps DEF AskedPlaces
  <1>4. CASE Hub!Services(r)
    <2>1. PICK owner, jobs : owner = q.owner \union Hub!Owns(job) /\ jobs = {j \in Jobs : job[j].loaded}
      OBVIOUS
    <2>2. PICK seen : seen = [q EXCEPT !.owner = owner, !.jobs = jobs]
      OBVIOUS
    <2>3. Hub!Read(r, "services", seen, "listeners")
      BY <1>2, <1>4, <2>1, <2>2 DEF Hub!Services
    <2>4. Hub!Owns(job) \subseteq Pids \X Hub!Managed /\ jobs \in SUBSET Jobs
      BY <1>1, <2>1 DEF HubTypes, Hub!Owns, Hub!Managed
    <2>5. Hub!At(r, "services") => seen \in Asked /\ seen.kind = q.kind /\ seen.target = q.target
      <3>1. ASSUME Hub!At(r, "services")
            PROVE  seen \in Asked /\ seen.kind = q.kind /\ seen.target = q.target
        <4>1. q \in Asked
          BY <1>1, <1>2, <3>1 DEF Hub!At, Aimed
        <4>2. owner \in SUBSET (Pids \X Hub!Managed)
          BY <2>1, <2>4, <4>1 DEF Asked
        <4>. QED
          BY <2>2, <2>4, <4>1, <4>2 DEF Asked
      <3>. QED
        BY <3>1
    <2>. QED
      BY <1>2, <2>3, <2>5, ReadKeeps DEF AskedPlaces
  <1>5. CASE Hub!Listeners(r)
    <2>1. PICK listening : listening = {p \in Pids : Hub!Alive(p)}
      OBVIOUS
    <2>2. PICK seen : seen = [q EXCEPT !.listening = listening]
      OBVIOUS
    <2>3. Hub!Read(r, "listeners", seen, "processes")
      BY <1>2, <1>5, <2>1, <2>2 DEF Hub!Listeners
    <2>4. listening \in SUBSET Pids
      BY <2>1
    <2>5. Hub!At(r, "listeners") => seen \in Asked /\ seen.kind = q.kind /\ seen.target = q.target
      <3>1. ASSUME Hub!At(r, "listeners")
            PROVE  seen \in Asked /\ seen.kind = q.kind /\ seen.target = q.target
        <4>1. q \in Asked
          BY <1>1, <1>2, <3>1 DEF Hub!At, Aimed
        <4>. QED
          BY <2>2, <2>4, <4>1 DEF Asked
      <3>. QED
        BY <3>1
    <2>. QED
      BY <1>2, <2>3, <2>5, ReadKeeps DEF AskedPlaces
  <1>6. CASE Hub!ListsProcesses(r)
    <2>1. PICK parents, exes : parents = [p \in Pids |-> procs[p].parent] /\ exes = {p \in Pids : procs[p].who = "system"}
      OBVIOUS
    <2>2. PICK seen : seen = [q EXCEPT !.parents = parents, !.exes = exes]
      OBVIOUS
    <2>3. Hub!Read(r, "processes", seen, "act")
      BY <1>2, <1>6, <2>1, <2>2 DEF Hub!ListsProcesses
    <2>4. parents \in [Pids -> Pids \union {1}] /\ exes \in SUBSET Pids
      BY <1>1, <2>1 DEF HubTypes
    <2>5. Hub!At(r, "processes") => seen \in Asked /\ seen.kind = q.kind /\ seen.target = q.target
      <3>1. ASSUME Hub!At(r, "processes")
            PROVE  seen \in Asked /\ seen.kind = q.kind /\ seen.target = q.target
        <4>1. q \in Asked
          BY <1>1, <1>2, <3>1 DEF Hub!At, Aimed
        <4>. QED
          BY <2>2, <2>4, <4>1 DEF Asked
      <3>. QED
        BY <3>1
    <2>. QED
      BY <1>2, <2>3, <2>5, ReadKeeps DEF AskedPlaces
  <1>. QED
    BY <1>3, <1>4, <1>5, <1>6

(* What a manager's verb does to the process table: the old process, if it is given up, ends. *)
LEMMA LeavesAre ==
    ASSUME Hub!InfraConstants, HubInv, NEW old \in Pids \union {0}, NEW new \in {0, old}, Hub!Leaves(old, new)
    PROVE  /\ procs' \in [Pids -> [who : Owners, parent : Pids \union {1}]]
           /\ \A q \in Pids : procs'[q].parent # 1 => procs'[procs'[q].parent].who # "none" /\ procs'[q].who = "child"
           /\ \A q \in Pids : (q # old \/ new # 0) /\ procs[q].who \in Hub!Managed => procs'[q].who = procs[q].who
  <1>1. HubTypes /\ TableInv /\ 0 \notin Pids /\ 1 \notin Pids
    BY DEF HubInv, Hub!InfraConstants
  <1>2. CASE old # 0 /\ new # old
    <2>1. old \in Pids /\ procs' = Hub!Ended(old) /\ new = 0
      BY <1>2 DEF Hub!Leaves
    <2>. QED
      BY <2>1, EndedIs
  <1>3. CASE ~(old # 0 /\ new # old)
    <2>1. procs' = procs
      BY <1>3 DEF Hub!Leaves
    <2>. QED
      BY <1>1, <2>1 DEF HubTypes, TableInv, Hub!Alive
  <1>. QED
    BY <1>2, <1>3

LEMMA PM2Keeps == ASSUME Hub!InfraConstants, HubInv, NEW r \in Requests, Hub!PM2(r)
                  PROVE  HubInv'
  <1>1. HubTypes /\ TableInv /\ 0 \notin Pids /\ 1 \notin Pids /\ Apps \cap Jobs = {}
    BY DEF HubInv, Hub!InfraConstants
  <1>2. request[r].at = "act" /\ ~Hub!At(r, "save") /\ Aimed(request[r]) /\ request[r].kind = "pm2"
    BY <1>1 DEF Hub!PM2, Hub!At, HubTypes
  <1>3. CASE Hub!Refuse(r)
    BY <1>2, <1>3, QuietGoes DEF Hub!Refuse
  <1>4. PICK q, a, new : q = request[r] /\ a = q.target /\ new = Hub!AppAfter(a, q.verb)
    OBVIOUS
  <1>5. CASE /\ a \in q.apps /\ app[a].status # "gone" /\ app' = [app EXCEPT ![a] = new] /\ Hub!Leaves(app[a].pid, new.pid)
             /\ request' = [request EXCEPT ![r].at = "save"] /\ UNCHANGED <<dump, job, missed>>
    <2>1. q \in Asked /\ a \in Apps
      BY <1>2, <1>4, <1>5 DEF Aimed, Asked
    <2>2. PICK old : old = app[a].pid
      OBVIOUS
    <2>3. old \in Pids \union {0}
      BY <1>1, <2>1, <2>2 DEF HubTypes
    <2>4. new \in [status : Statuses, pid : Pids \union {0}] /\ new.pid \in {0, old}
      <3>1. new \in {[status |-> "stopped", pid |-> 0], [status |-> "gone", pid |-> 0], [status |-> "online", pid |-> old],
                     [status |-> "online", pid |-> 0]}
        BY <1>4, <2>2 DEF Hub!AppAfter
      <3>. QED
        BY <2>3, <3>1 DEF Statuses
    <2>5. /\ procs' \in [Pids -> [who : Owners, parent : Pids \union {1}]]
          /\ \A p \in Pids : procs'[p].parent # 1 => procs'[procs'[p].parent].who # "none" /\ procs'[p].who = "child"
          /\ \A p \in Pids : (p # old \/ new.pid # 0) /\ procs[p].who \in Hub!Managed => procs'[p].who = procs[p].who
      <3>1. Hub!Leaves(old, new.pid)
        BY <1>5, <2>2
      <3>. QED
        BY <2>3, <2>4, <3>1, LeavesAre
    <2>6. /\ app' \in [Apps -> [status : Statuses, pid : Pids \union {0}]] /\ app'[a] = new
          /\ \A b \in Apps \ {a} : app'[b] = app[b]
      BY <1>1, <1>5, <2>1, <2>4 DEF HubTypes
    <2>7. PICK row : row = [q EXCEPT !.at = "save"]
      OBVIOUS
    <2>8. Aimed(row) /\ row.at = "save" /\ request' = [request EXCEPT ![r] = row]
      <3>1. row \in Asked /\ row.kind = q.kind /\ row.target = q.target /\ row.at = "save"
        BY <2>1, <2>7 DEF Asked, AskedPlaces
      <3>2. request' = [request EXCEPT ![r] = row]
        BY <1>4, <1>5, <2>7
      <3>. QED
        BY <1>2, <1>4, <3>1, <3>2 DEF Aimed
    <2>9. /\ \A s \in Requests : request'[s] = Hub!Idle \/ Aimed(request'[s])
          /\ DOMAIN request' = Requests /\ request' = [s \in Requests |-> request'[s]] /\ request'[r] = row
      BY <1>1, <2>8, OneGoes
    <2>10. HubTypes'
      BY <1>1, <1>5, <2>5, <2>6, <2>9 DEF HubTypes
    <2>11. TableInv'
      <3>1. \A b \in Apps : app'[b].pid # 0 => procs'[app'[b].pid].who = b
        <4>1. ASSUME NEW b \in Apps, b # a, app[b].pid # 0
              PROVE  procs'[app[b].pid].who = b
          <5>1. app[b].pid \in Pids /\ procs[app[b].pid].who = b /\ app[b].pid # old
            BY <1>1, <2>1, <2>2, <4>1 DEF TableInv, HubTypes
          <5>. QED
            BY <2>5, <5>1 DEF Hub!Managed
        <4>2. ASSUME new.pid # 0
              PROVE  procs'[new.pid].who = a
          <5>1. new.pid = old /\ old \in Pids /\ procs[old].who = a
            BY <1>1, <2>1, <2>2, <2>3, <2>4, <4>2 DEF TableInv
          <5>. QED
            BY <2>1, <2>5, <4>2, <5>1 DEF Hub!Managed
        <4>. QED
          BY <2>6, <4>1, <4>2
      <3>2. \A j \in Jobs : job[j].pid # 0 => job[j].loaded /\ procs'[job[j].pid].who = j
        <4>1. ASSUME NEW j \in Jobs, job[j].pid # 0
              PROVE  job[j].loaded /\ procs'[job[j].pid].who = j
          <5>1. job[j].loaded /\ job[j].pid \in Pids /\ procs[job[j].pid].who = j /\ job[j].pid # old
            BY <1>1, <2>1, <2>2, <4>1 DEF TableInv, HubTypes
          <5>. QED
            BY <2>5, <5>1 DEF Hub!Managed
        <4>. QED
          BY <4>1
      <3>. QED
        BY <1>5, <2>5, <3>1, <3>2 DEF TableInv, Hub!Alive
    <2>12. Hub!DumpFollows'
      <3>1. Hub!At(r, "save")'
        BY <2>8, <2>9 DEF Hub!At, Hub!Idle
      <3>. QED
        BY <3>1 DEF Hub!DumpFollows
    <2>. QED
      BY <2>10, <2>11, <2>12 DEF HubInv
  <1>. QED
    BY <1>3, <1>4, <1>5 DEF Hub!PM2

LEMMA SaveKeeps == ASSUME Hub!InfraConstants, HubInv, NEW r \in Requests, Hub!Save(r)
                   PROVE  HubInv'
  <1>1. HubTypes /\ TableInv
    BY DEF HubInv
  <1>2. /\ (dump' = Hub!Saved /\ missed' = FALSE) \/ (dump' = dump /\ missed' = TRUE)
        /\ request' = [request EXCEPT ![r] = Hub!Idle] /\ UNCHANGED <<procs, app, job>>
    BY DEF Hub!Save
  <1>3. /\ \A s \in Requests : request'[s] = Hub!Idle \/ Aimed(request'[s])
        /\ DOMAIN request' = Requests /\ request' = [s \in Requests |-> request'[s]]
    BY <1>1, <1>2, OneGoes
  <1>4. Hub!Saved \in [Apps -> Statuses]
    BY <1>1 DEF Hub!Saved, HubTypes
  <1>5. HubTypes' /\ TableInv'
    BY <1>1, <1>2, <1>3, <1>4 DEF HubTypes, TableInv, Hub!Alive
  <1>6. Hub!DumpFollows'
    BY <1>2 DEF Hub!DumpFollows, Hub!Saved
  <1>. QED
    BY <1>5, <1>6 DEF HubInv

LEMMA LaunchctlKeeps == ASSUME Hub!InfraConstants, HubInv, NEW r \in Requests, Hub!Launchctl(r)
                        PROVE  HubInv'
  <1>1. HubTypes /\ TableInv /\ 0 \notin Pids /\ 1 \notin Pids /\ Apps \cap Jobs = {}
    BY DEF HubInv, Hub!InfraConstants
  <1>2. request[r].at \in {"act", "pending"} /\ ~Hub!At(r, "save") /\ Aimed(request[r]) /\ request[r].kind = "launchd"
    BY <1>1 DEF Hub!Launchctl, Hub!At, HubTypes
  <1>3. CASE Hub!Refuse(r)
    BY <1>2, <1>3, QuietGoes DEF Hub!Refuse
  <1>4. PICK j, new : j = request[r].target /\ new = Hub!JobAfter(j, Hub!Command(request[r]))
    OBVIOUS
  <1>5. CASE /\ job' = [job EXCEPT ![j] = new] /\ Hub!Leaves(job[j].pid, new.pid)
             /\ request' = [request EXCEPT ![r] = Hub!Idle] /\ UNCHANGED <<app, dump, missed>>
    <2>1. j \in Jobs
      BY <1>2, <1>4 DEF Aimed
    <2>2. PICK row, old : row = job[j] /\ old = row.pid
      OBVIOUS
    <2>3. row \in [loaded : BOOLEAN, pid : Pids \union {0}] /\ old \in Pids \union {0}
      BY <1>1, <2>1, <2>2 DEF HubTypes
    <2>4. /\ new \in [loaded : BOOLEAN, pid : Pids \union {0}] /\ new.pid \in {0, old}
          /\ new.pid # 0 => (new.pid = old /\ (row.loaded => new.loaded))
      <3>1. PICK cleared, up : cleared = [row EXCEPT !.pid = 0] /\ up = [row EXCEPT !.loaded = TRUE]
        OBVIOUS
      <3>2. new \in {[loaded |-> FALSE, pid |-> 0], cleared, up, row}
        BY <1>4, <2>2, <3>1 DEF Hub!JobAfter
      <3>3. /\ cleared \in [loaded : BOOLEAN, pid : Pids \union {0}] /\ cleared.pid = 0
            /\ up \in [loaded : BOOLEAN, pid : Pids \union {0}] /\ up.pid = old /\ up.loaded
        BY <2>2, <2>3, <3>1
      <3>4. PICK none : none = [loaded |-> FALSE, pid |-> 0]
        OBVIOUS
      <3>5. none \in [loaded : BOOLEAN, pid : Pids \union {0}] /\ none.pid = 0
        BY <3>4
      <3>6. new = none \/ new = cleared \/ new = up \/ new = row
        BY <3>2, <3>4
      <3>7. (row.loaded => new.loaded) \/ new.pid = 0
        BY <3>3, <3>5, <3>6
      <3>8. new \in [loaded : BOOLEAN, pid : Pids \union {0}]
        BY <2>3, <3>3, <3>5, <3>6
      <3>. QED
        BY <2>2, <3>3, <3>5, <3>6, <3>7, <3>8
    <2>5. /\ procs' \in [Pids -> [who : Owners, parent : Pids \union {1}]]
          /\ \A p \in Pids : procs'[p].parent # 1 => procs'[procs'[p].parent].who # "none" /\ procs'[p].who = "child"
          /\ \A p \in Pids : (p # old \/ new.pid # 0) /\ procs[p].who \in Hub!Managed => procs'[p].who = procs[p].who
      <3>1. Hub!Leaves(old, new.pid)
        BY <1>5, <2>2
      <3>. QED
        BY <2>3, <2>4, <3>1, LeavesAre
    <2>6. /\ job' \in [Jobs -> [loaded : BOOLEAN, pid : Pids \union {0}]] /\ job'[j] = new
          /\ \A k \in Jobs \ {j} : job'[k] = job[k]
      BY <1>1, <1>5, <2>1, <2>4 DEF HubTypes
    <2>7. /\ \A s \in Requests : request'[s] = Hub!Idle \/ Aimed(request'[s])
          /\ DOMAIN request' = Requests /\ request' = [s \in Requests |-> request'[s]]
      BY <1>1, <1>5, OneGoes
    <2>8. HubTypes'
      BY <1>1, <1>5, <2>5, <2>6, <2>7 DEF HubTypes
    <2>9. TableInv'
      <3>1. \A b \in Apps : app[b].pid # 0 => procs'[app[b].pid].who = b
        <4>1. ASSUME NEW b \in Apps, app[b].pid # 0
              PROVE  procs'[app[b].pid].who = b
          <5>1. app[b].pid \in Pids /\ procs[app[b].pid].who = b /\ app[b].pid # old
            BY <1>1, <2>1, <2>2, <4>1 DEF TableInv, HubTypes
          <5>. QED
            BY <2>5, <5>1 DEF Hub!Managed
        <4>. QED
          BY <4>1
      <3>2. \A k \in Jobs : job'[k].pid # 0 => job'[k].loaded /\ procs'[job'[k].pid].who = k
        <4>1. ASSUME NEW k \in Jobs, k # j, job[k].pid # 0
              PROVE  job[k].loaded /\ procs'[job[k].pid].who = k
          <5>1. job[k].loaded /\ job[k].pid \in Pids /\ procs[job[k].pid].who = k /\ job[k].pid # old
            BY <1>1, <2>1, <2>2, <4>1 DEF TableInv, HubTypes
          <5>. QED
            BY <2>5, <5>1 DEF Hub!Managed
        <4>2. ASSUME new.pid # 0
              PROVE  new.loaded /\ procs'[new.pid].who = j
          <5>1. new.pid = old /\ old \in Pids /\ procs[old].who = j /\ row.loaded
            BY <1>1, <2>1, <2>2, <2>3, <2>4, <4>2 DEF TableInv
          <5>. QED
            BY <2>1, <2>4, <2>5, <4>2, <5>1 DEF Hub!Managed
        <4>. QED
          BY <2>6, <4>1, <4>2
      <3>. QED
        BY <1>5, <2>5, <3>1, <3>2 DEF TableInv, Hub!Alive
    <2>10. Hub!DumpFollows'
      BY <1>2, <1>5, OneDumpKeeps
    <2>. QED
      BY <2>8, <2>9, <2>10 DEF HubInv
  <1>. QED
    BY <1>3, <1>4, <1>5 DEF Hub!Launchctl

LEMMA KillKeeps == ASSUME Hub!InfraConstants, HubInv, NEW r \in Requests, Hub!Kill(r)
                   PROVE  HubInv'
  <1>1. HubTypes
    BY DEF HubInv
  <1>2. ~Hub!At(r, "save") /\ Aimed(request[r]) /\ request[r].kind = "pid"
    BY <1>1 DEF Hub!Kill, Hub!At, HubTypes
  <1>3. CASE Hub!Refuse(r)
    BY <1>2, <1>3, QuietGoes DEF Hub!Refuse
  <1>4. PICK p : p = request[r].target
    OBVIOUS
  <1>5. CASE /\ procs' = Hub!Ended(p) /\ app' = Hub!WithoutPid(app, p) /\ job' = Hub!WithoutPid(job, p)
             /\ request' = [request EXCEPT ![r] = Hub!Idle] /\ UNCHANGED <<dump, missed>>
    <2>1. p \in Pids
      BY <1>2, <1>4 DEF Aimed
    <2>2. /\ \A s \in Requests : request'[s] = Hub!Idle \/ Aimed(request'[s])
          /\ DOMAIN request' = Requests /\ request' = [s \in Requests |-> request'[s]]
          /\ \A s \in Requests \ {r} : request'[s] = request[s]
      BY <1>1, <1>5, OneGoes
    <2>3. \A s \in Requests : Hub!At(s, "save") => Hub!At(s, "save")'
      BY <1>2, <2>2 DEF Hub!At
    <2>. QED
      BY <1>5, <2>1, <2>2, <2>3, GoneKeeps
  <1>. QED
    BY <1>3, <1>4, <1>5 DEF Hub!Kill

LEMMA AnswersKeep == ASSUME Hub!InfraConstants, HubInv, NEW r \in Requests, Hub!AnswerFirst(r) \/ Hub!Cut(r)
                     PROVE  HubInv'
  <1>1. HubTypes /\ TableInv
    BY DEF HubInv
  <1>2. CASE Hub!AnswerFirst(r)
    <2>1. PICK q, row : q = request[r] /\ row = [q EXCEPT !.at = "pending"]
      OBVIOUS
    <2>2. Aimed(q) /\ ~Hub!At(r, "save")
      BY <1>1, <1>2, <2>1 DEF Hub!AnswerFirst, Hub!At, HubTypes
    <2>3. row \in Asked /\ row.kind = q.kind /\ row.target = q.target
      BY <2>1, <2>2 DEF Aimed, Asked, AskedPlaces
    <2>4. Aimed(row)
      BY <2>2, <2>3 DEF Aimed
    <2>5. request' = [request EXCEPT ![r] = row] /\ UNCHANGED <<procs, app, dump, job, missed>>
      BY <1>2, <2>1 DEF Hub!AnswerFirst
    <2>. QED
      BY <2>2, <2>4, <2>5, QuietGoes
  <1>3. CASE Hub!Cut(r)
    <2>1. request' = [request EXCEPT ![r] = Hub!Idle] /\ missed' = (missed \/ Hub!At(r, "save")) /\ UNCHANGED <<procs, app, dump, job>>
      BY <1>3 DEF Hub!Cut
    <2>2. /\ \A s \in Requests : request'[s] = Hub!Idle \/ Aimed(request'[s])
          /\ DOMAIN request' = Requests /\ request' = [s \in Requests |-> request'[s]]
          /\ \A s \in Requests \ {r} : request'[s] = request[s]
      BY <1>1, <2>1, OneGoes
    <2>3. missed' \in BOOLEAN
      BY <2>1
    <2>4. HubTypes' /\ TableInv'
      BY <1>1, <2>1, <2>2, <2>3 DEF HubTypes, TableInv, Hub!Alive
    <2>5. (missed => missed') /\ \A s \in Requests : Hub!At(s, "save") => Hub!At(s, "save")' \/ missed'
      BY <2>1, <2>2 DEF Hub!At
    <2>6. Hub!DumpFollows'
      BY <2>1, <2>5, DumpKeeps
    <2>. QED
      BY <2>4, <2>6 DEF HubInv
  <1>. QED
    BY <1>2, <1>3

LEMMA HubStep == Hub!InfraConstants /\ HubInv /\ [Hub!Next]_(Hub!vars) => HubInv'
  <1>. SUFFICES ASSUME Hub!InfraConstants, HubInv, [Hub!Next]_(Hub!vars)
                PROVE  HubInv'
    OBVIOUS
  <1>1. CASE UNCHANGED Hub!vars
    BY <1>1 DEF Hub!vars, HubInv, HubTypes, TableInv, Hub!Alive, Hub!DumpFollows, Hub!At
  <1>2. ASSUME NEW r \in Requests, Hub!Step(r)
        PROVE  HubInv'
    <2>1. ASSUME NEW a \in Apps, NEW verb \in Hub!Kinds.pm2, Hub!Do(r, "pm2", a, verb)
          PROVE  HubInv'
      BY <2>1, DoKeeps DEF Hub!Kinds
    <2>2. ASSUME NEW j \in Jobs, NEW verb \in Hub!Kinds.launchd, Hub!Do(r, "launchd", j, verb)
          PROVE  HubInv'
      BY <2>2, DoKeeps DEF Hub!Kinds
    <2>3. ASSUME NEW p \in Pids, Hub!Do(r, "pid", p, "kill")
          PROVE  HubInv'
      BY <2>3, DoKeeps
    <2>4. CASE Hub!PM2List(r) \/ Hub!Services(r) \/ Hub!Listeners(r) \/ Hub!ListsProcesses(r)
      BY <2>4, LooksKeep
    <2>5. CASE Hub!Kill(r) \/ Hub!PM2(r) \/ Hub!Save(r) \/ Hub!Launchctl(r) \/ Hub!AnswerFirst(r)
      BY <2>5, KillKeeps, PM2Keeps, SaveKeeps, LaunchctlKeeps, AnswersKeep
    <2>. QED
      BY <1>2, <2>1, <2>2, <2>3, <2>4, <2>5 DEF Hub!Step
  <1>3. ASSUME NEW r \in Requests, Hub!Cut(r)
        PROVE  HubInv'
    BY <1>3, AnswersKeep
  <1>4. ASSUME NEW p \in Pids, Hub!Launch(p) \/ Hub!Ends(p)
        PROVE  HubInv'
    BY <1>4, LaunchKeeps, EndsKeeps
  <1>5. ASSUME NEW p \in Pids, NEW who \in {"stray", "system"}, Hub!Stray(p, who)
        PROVE  HubInv'
    BY <1>5, StartsKeep DEF Hub!Stray
  <1>6. ASSUME NEW p \in Pids, NEW q \in Pids, Hub!Child(p, q)
        PROVE  HubInv'
    BY <1>6, StartsKeep DEF Hub!Child
  <1>. QED
    BY <1>1, <1>2, <1>3, <1>4, <1>5, <1>6 DEF Hub!Next

LEMMA HubHolds == HubInv => Hub!TypeOK /\ Hub!DumpFollows
  BY DEF HubInv, HubTypes, TableInv, Hub!TypeOK, Owners, Statuses

(* The machine's managers: pm2's and launchd's process numbers are those of their own living processes whatever ends, is
   killed or is started anew under a number used before, and what a reboot brings back is what the owner last chose,
   unless that is being saved or its save was lost. *)
THEOREM ManagersKnowTheirs == Hub!InfraConstants /\ Hub!Spec => [](Hub!TypeOK /\ Hub!DumpFollows)
  <1>1. CASE Hub!InfraConstants
    <2>1. Hub!Init => HubInv
      BY <1>1, HubStarts
    <2>2. HubInv /\ [Hub!Next]_(Hub!vars) => HubInv'
      BY <1>1, HubStep
    <2>3. HubInv => Hub!TypeOK /\ Hub!DumpFollows
      BY HubHolds
    <2>. QED
      BY <2>1, <2>2, <2>3, PTL DEF Hub!Spec
  <1>. QED
    BY <1>1
=============================================================================
