------------------------------ MODULE TaskTree ------------------------------
(***************************************************************************)
(* One goal and the tree of sub-tasks split from it (internal/coord:        *)
(* children.go, progress.go, CancelTaskTree and CloseTask of tasks.go).     *)
(*                                                                         *)
(* Shells split, cancel and close in several statements each; the sweep of  *)
(* every gateway wakes parents in several statements; runs begin and end    *)
(* between any two of them.  How a run comes to its end is TaskLedger's:    *)
(* here a run ends in any way.                                             *)
(***************************************************************************)
EXTENDS Naturals, FiniteSets

CONSTANTS
    Tasks, Root, NoTask,
    Splitters, Stoppers,    \* shells that split; that cancel and close
    Gateways,           \* processes that sweep
    MaxOpenChildren, MaxTasksPerContext, MaxDepth, MaxFruitlessWaves,
    RunsPerGoal, GoalExtensions,
    RunEnds,            \* states a run may leave its task in, besides blocked
    MaxClaims,          \* how often a task may be claimed
    MaxUpsets           \* bound: cancels, closes, resumes, and commands and
                        \* sweeps that die half-way

ASSUME TreeConstants ==
    /\ Root \in Tasks /\ NoTask \notin Tasks
    /\ IsFiniteSet(Tasks) /\ IsFiniteSet(Splitters \cup Stoppers)
    /\ {MaxDepth, MaxUpsets, GoalExtensions} \subseteq Nat
    /\ {MaxOpenChildren, MaxTasksPerContext, MaxFruitlessWaves,
        RunsPerGoal} \subseteq Nat \ {0}
    /\ MaxClaims \in [Tasks -> Nat \ {0}]
    /\ RunEnds \subseteq {"completed", "failed", "rejected", "submitted"}

Shells == Splitters \cup Stoppers

VARIABLES
    task,       \* the rows of the tree
    runs,       \* its rows in task_runs
    shell,      \* each shell's command
    sweep,      \* each gateway's WakeParents
    strays,     \* history: children a cancel could not see, or died before
    resumes, upsets

vars == <<task, runs, shell, sweep, strays, resumes, upsets>>

Ended   == {"completed", "failed", "canceled", "rejected"}
Open    == {"submitted", "working", "blocked"}

Row(parent, depth) ==
    [state |-> "submitted", parent |-> parent, depth |-> depth,
     blocked_on |-> "", fruitless |-> 0, claims |-> 0]

Absent == [Row(NoTask, 0) EXCEPT !.state = "absent"]

Idle   == [op |-> "idle"]
Asleep == [parents |-> {}, parent |-> NoTask, fruitless |-> 0]

Init ==
    /\ task = [t \in Tasks |-> IF t = Root THEN Row(NoTask, 0) ELSE Absent]
    /\ runs = 0
    /\ shell = [s \in Shells |-> Idle]
    /\ sweep = [g \in Gateways |-> Asleep]
    /\ strays = {}
    /\ resumes = 0 /\ upsets = 0

Existing    == {t \in Tasks : task[t].state # "absent"}
IsOpen(t)   == task[t].state \in Open
Children(t) == {c \in Existing : task[c].parent = t}
OpenOf(t)   == {c \in Children(t) : IsOpen(c)}

Upset == upsets < MaxUpsets /\ upsets' = upsets + 1

Does(s, call) == shell' = [shell EXCEPT ![s] = call]

----------------------------------------------------------------------------
(* The runs of a task *)

RunsUnchanged == UNCHANGED <<shell, sweep, strays, resumes, upsets>>

Claim(t) ==
    /\ task[t].state = "submitted" /\ task[t].claims < MaxClaims[t]
    /\ task' = [task EXCEPT ![t].state = "working", ![t].claims = @ + 1]
    /\ runs' = runs + 1
    /\ RunsUnchanged

(* A run ends its task, returns it to the queue or parks it. *)
EndRun(t, state, on) ==
    /\ task[t].state = "working"
    /\ task' = [task EXCEPT ![t].state = state, ![t].blocked_on = on]
    /\ RunsUnchanged /\ UNCHANGED runs

ReapExhausted(t) ==
    /\ task[t].state = "submitted" /\ task[t].claims = MaxClaims[t]
    /\ task' = [task EXCEPT ![t].state = "failed"]
    /\ RunsUnchanged /\ UNCHANGED runs

UnblockTask(t) ==
    /\ task[t].state = "blocked"
    /\ task' = [task EXCEPT ![t].state = "submitted", ![t].blocked_on = ""]
    /\ RunsUnchanged /\ UNCHANGED runs

(* A resumed child may find its parent canceled. *)
ResumeTask(t) ==
    /\ task[t].state = "failed" /\ Upset
    /\ task' = [task EXCEPT ![t].state = "submitted", ![t].claims = 0]
    /\ strays' = IF t # Root /\ ~IsOpen(task[t].parent) THEN strays \cup {t}
                 ELSE strays
    /\ resumes' = resumes + 1
    /\ UNCHANGED <<runs, shell, sweep>>

----------------------------------------------------------------------------
(* CreateSubTask: the parent and the counts are read (here at once), the      *)
(* child is inserted by a later statement that compares with none of them.   *)

CreateUnchanged == UNCHANGED <<sweep, resumes, upsets>>

(* GoalBudgetSpent: a tree whose last wave produced something extends it. *)
GoalLimit ==
    IF task[Root].fruitless = 0 /\ Cardinality(Existing) > 1
    THEN RunsPerGoal * (1 + GoalExtensions) ELSE RunsPerGoal

(* Mutant: the cap is compared with one too many. *)
UnderCapsOrAt(p) ==
    /\ Cardinality(OpenOf(p)) <= MaxOpenChildren
    /\ Cardinality(Existing) <= MaxTasksPerContext
    /\ runs < GoalLimit

UnderCaps(p) ==
    /\ Cardinality(OpenOf(p)) < MaxOpenChildren
    /\ Cardinality(Existing) < MaxTasksPerContext
    /\ runs < GoalLimit

CreateSubTask(s, p) ==
    /\ shell[s] = Idle /\ IsOpen(p) /\ UnderCaps(p)
    /\ Does(s, [op |-> "inserting", task |-> p])
    /\ CreateUnchanged /\ UNCHANGED <<task, runs, strays>>

NewId == CHOOSE t \in Tasks : t \notin Existing

InsertChild(s) ==
    LET p == shell[s].task IN
    /\ shell[s].op = "inserting" /\ Existing # Tasks
    /\ Does(s, Idle)
    /\ IF task[p].depth < MaxDepth
       THEN /\ task' = [task EXCEPT ![NewId] = Row(p, task[p].depth + 1)]
            /\ strays' = IF IsOpen(p) THEN strays ELSE strays \cup {NewId}
       ELSE UNCHANGED <<task, strays>>
    /\ CreateUnchanged /\ UNCHANGED runs

----------------------------------------------------------------------------
(* CancelTaskTree: the task, then level by level the children of every task  *)
(* a statement of this walk canceled.                                        *)

Canceled(S) ==
    [t \in Tasks |-> IF t \in S THEN [task[t] EXCEPT !.state = "canceled",
                                                     !.blocked_on = ""]
                     ELSE task[t]]

CancelUnchanged == UNCHANGED <<runs, sweep, strays, resumes>>

Walking(frontier, next, level) ==
    [op |-> "canceling", frontier |-> frontier, next |-> next, level |-> level]

CancelTask(s, t) ==
    /\ \/ shell[s] = Idle /\ Upset
       \/ shell[s] = [op |-> "closing", task |-> t] /\ UNCHANGED upsets
    /\ IsOpen(t)
    /\ task' = Canceled({t})
    /\ Does(s, IF MaxDepth = 0 THEN Idle ELSE Walking({t}, {}, 0))
    /\ CancelUnchanged

(* CloseTask looks first whether the task is running for another agent. *)
CloseTask(s, t) ==
    /\ shell[s] = Idle /\ Upset
    /\ IsOpen(t) /\ task[t].state # "working"
    /\ Does(s, [op |-> "closing", task |-> t])
    /\ CancelUnchanged /\ UNCHANGED task

CloseRefused(s) ==
    /\ shell[s].op = "closing" /\ ~IsOpen(shell[s].task)
    /\ Does(s, Idle)
    /\ CancelUnchanged /\ UNCHANGED <<task, upsets>>

(* Mutant: the walk goes one level deeper. *)
OneLevelMore(level) == level = MaxDepth

LastLevel(level) == level + 1 = MaxDepth

(* Mutant: the walk does not see parked children. *)
QueuedOrRunning(p) == {c \in OpenOf(p) : task[c].state # "blocked"}

Flipped(p) == OpenOf(p)

CancelChildren(s, p) ==
    LET w        == shell[s]
        frontier == w.frontier \ {p}
        next     == w.next \cup Flipped(p)
    IN
    /\ w.op = "canceling" /\ p \in w.frontier
    /\ task' = Canceled(Flipped(p))
    /\ Does(s, IF frontier # {} THEN Walking(frontier, next, w.level)
               ELSE IF next = {} \/ LastLevel(w.level) THEN Idle
               ELSE Walking(next, {}, w.level + 1))
    /\ CancelUnchanged /\ UNCHANGED upsets

(* A command dies, or one of its statements fails: what it had left to do is *)
(* not done.                                                               *)
CommandDies(s) ==
    /\ shell[s] # Idle /\ Upset
    /\ Does(s, Idle)
    /\ strays' = IF shell[s].op = "canceling"
                 THEN strays \cup {c \in Existing :
                        task[c].parent \in shell[s].frontier \cup shell[s].next}
                 ELSE strays
    /\ UNCHANGED <<task, runs, sweep, resumes>>

----------------------------------------------------------------------------
(* WakeParents: the parents are read, then for each its children, then it is *)
(* updated if it is still blocked on children.                               *)

SweepUnchanged == UNCHANGED <<runs, shell, strays, resumes>>

(* Mutant: only children that completed count as ended. *)
ChildrenCompleted(p) == \A c \in Children(p) : task[c].state = "completed"

ChildrenEnded(p) == OpenOf(p) = {}

Waiting(p) == task[p].state = "blocked" /\ task[p].blocked_on = "children"

Snapshot(p) == [task |-> p, fruitless |-> task[p].fruitless]

ReadBlocked(g) ==
    LET found == {p \in Tasks : Waiting(p) /\ ChildrenEnded(p)} IN
    /\ sweep[g] = Asleep /\ found # {}
    /\ sweep' = [sweep EXCEPT ![g].parents = {Snapshot(p) : p \in found}]
    /\ SweepUnchanged /\ UNCHANGED <<task, upsets>>

(* A wave counts as fruitless when no child, of this wave or an earlier one, *)
(* has completed.                                                          *)
ReadChildren(g, snap) ==
    LET fruitful == \E c \in Children(snap.task) : task[c].state = "completed" IN
    /\ sweep[g].parent = NoTask /\ snap \in sweep[g].parents
    /\ sweep' = [sweep EXCEPT ![g] =
                   [parents   |-> @.parents \ {snap},
                    parent    |-> snap.task,
                    fruitless |-> IF fruitful THEN 0 ELSE snap.fruitless + 1]]
    /\ SweepUnchanged /\ UNCHANGED <<task, upsets>>

Woken(row, fruitless) ==
    IF fruitless >= MaxFruitlessWaves
    THEN [row EXCEPT !.blocked_on = "human", !.fruitless = fruitless]
    ELSE [row EXCEPT !.state = "submitted", !.blocked_on = "",
                     !.fruitless = fruitless]

(* On to the next parent of this pass. *)
NextParent(g) ==
    sweep' = [sweep EXCEPT ![g] = [Asleep EXCEPT !.parents = sweep[g].parents]]

(* Mutant: the update does not ask whether the parent is still waiting. *)
WakeAnyway(g) ==
    LET p == sweep[g].parent IN
    /\ p # NoTask
    /\ task' = [task EXCEPT ![p] = Woken(@, sweep[g].fruitless)]
    /\ NextParent(g)
    /\ SweepUnchanged /\ UNCHANGED upsets

WakeParent(g) ==
    LET p == sweep[g].parent IN
    /\ p # NoTask
    /\ task' = IF Waiting(p) THEN [task EXCEPT ![p] = Woken(@, sweep[g].fruitless)]
               ELSE task
    /\ NextParent(g)
    /\ SweepUnchanged /\ UNCHANGED upsets

SweepDies(g) ==
    /\ sweep[g] # Asleep /\ Upset
    /\ sweep' = [sweep EXCEPT ![g] = Asleep]
    /\ SweepUnchanged /\ UNCHANGED task

----------------------------------------------------------------------------
RunStep(t) ==
    \/ Claim(t) \/ ReapExhausted(t)
    \/ \E s \in RunEnds : EndRun(t, s, "")
    \/ \E on \in {"children", "human"} : EndRun(t, "blocked", on)

(* What a command does once it has begun. *)
ShellStep(s) ==
    \/ InsertChild(s) \/ CloseRefused(s)
    \/ \E t \in Tasks : CancelChildren(s, t)
    \/ shell[s].op = "closing" /\ CancelTask(s, shell[s].task)

SweepStep(g) ==
    \/ ReadBlocked(g) \/ WakeParent(g)
    \/ \E snap \in sweep[g].parents : ReadChildren(g, snap)

Next ==
    \/ \E t \in Tasks : RunStep(t) \/ UnblockTask(t) \/ ResumeTask(t)
    \/ \E s \in Shells :
         \/ ShellStep(s) \/ CommandDies(s)
         \/ s \in Splitters /\ \E t \in Tasks : CreateSubTask(s, t)
         \/ s \in Stoppers /\ \E t \in Tasks : CancelTask(s, t) \/ CloseTask(s, t)
    \/ \E g \in Gateways : SweepStep(g) \/ SweepDies(g)

(* Queued work is claimed, runs end, a command that has begun goes on, and    *)
(* the sweeps come round.  What people type carries no fairness.             *)
Spec ==
    /\ Init /\ [][Next]_vars
    /\ \A t \in Tasks : WF_vars(RunStep(t))
    /\ \A s \in Shells : WF_vars(ShellStep(s))
    /\ \A g \in Gateways : WF_vars(SweepStep(g))

----------------------------------------------------------------------------
(* Properties *)

Rows == [state : Open \cup Ended \cup {"absent"}, parent : Tasks \cup {NoTask},
         depth : 0..MaxDepth, blocked_on : {"", "children", "human"},
         fruitless : Nat, claims : Nat]

Commands ==
    {Idle}
    \cup [op : {"inserting", "closing"}, task : Tasks]
    \cup [op : {"canceling"}, frontier : SUBSET Tasks, next : SUBSET Tasks,
          level : 0..(MaxDepth - 1)]

Snapshots == [task : Tasks, fruitless : Nat]

Sweeps == [parents : SUBSET Snapshots, parent : Tasks \cup {NoTask}, fruitless : Nat]

TypeOK ==
    /\ task \in [Tasks -> Rows] /\ runs \in Nat
    /\ shell \in [Shells -> Commands]
    /\ sweep \in [Gateways -> Sweeps]
    /\ strays \subseteq Tasks
    /\ resumes \in Nat /\ upsets \in 0..MaxUpsets

Inserting    == {s \in Shells : shell[s].op = "inserting"}
Splitting(p) == {s \in Shells : shell[s] = [op |-> "inserting", task |-> p]}

(* The caps are read in one statement and used in a later one, so splits      *)
(* typed together overshoot them - but by one task less than there are shells *)
(* that split, in all, and a resumed child counts as one more.               *)
TreeCap ==
    Cardinality(Existing) + Cardinality(Inserting)
        < MaxTasksPerContext + Cardinality(Splitters)

ChildrenCap(p) ==
    Cardinality(OpenOf(p)) + Cardinality(Splitting(p))
        < MaxOpenChildren + Cardinality(Splitters) + resumes

CapsOvershoot == TreeCap /\ \A p \in Tasks : ChildrenCap(p)

(* A canceled task leaves no open child, however the walk, new children and   *)
(* the ends of runs interleave: one the walk has still to reach, or one it    *)
(* could not see (inserted or resumed under a parent that had ended, or left *)
(* by a walk that died).                                                    *)
CancelReachesTree ==
    \A p \in Tasks : task[p].state = "canceled" =>
        \A c \in OpenOf(p) :
            \/ c \in strays
            \/ \E s \in Shells : /\ shell[s].op = "canceling"
                                /\ p \in shell[s].frontier \cup shell[s].next

(* No sweep or command brings a task back that has ended while it looked      *)
(* elsewhere; only a person resumes, and only what failed.                   *)
EndedStaysEnded ==
    [][\A t \in Tasks : task[t].state \in Ended =>
          \/ task'[t].state = task[t].state
          \/ task[t].state = "failed" /\ resumes' > resumes]_vars

(* The tree rests only on people: whatever is parked on children and however  *)
(* those end, each open task ends unless some task waits for an answer.      *)
TreeSettles ==
    \A t \in Tasks :
        IsOpen(t) ~> \/ ~IsOpen(t)
                     \/ \E h \in Tasks : /\ task[h].state = "blocked"
                                        /\ task[h].blocked_on = "human"

=============================================================================
