----------------------------- MODULE TaskLedger -----------------------------
(***************************************************************************)
(* The task queue several gateways share through one coord.db: the `tasks`  *)
(* and `task_runs` tables (internal/coord), the runner of each gateway      *)
(* (internal/taskrunner), the commands an agent types from its shell and    *)
(* the ones a person types (cmd/bomclaw).  One SQL statement, or one        *)
(* transaction, is one action; everything between two of them interleaves.  *)
(*                                                                         *)
(* Time is abstract.  A lease is live or it has lapsed; a run's time cap,   *)
(* the age bound of ReapOrphanRuns and the heartbeat cutoff may strike at   *)
(* any moment the code allows.  The goal's run budget and the children of a *)
(* task are other rows of the same database: what they say is an input.     *)
(***************************************************************************)
EXTENDS Naturals, FiniteSets

CONSTANTS
    Agents,             \* gateways, one agent each
    Tasks,              \* rows of `tasks`
    Runs,               \* claims in flight: a run's ledger row and its process
    Notes,              \* contents a checkpoint may have
    Verdicts,           \* what `task done`, `fail` and `reject` set
    Nobody, NoRun, NoNote,
    MaxAttempts,        \* max_attempts of a new task (3 in CreateTask)
    MaxContinuations,   \* max_continuations of a new task
    MaxEmptyRuns,       \* maxEmptyRuns
    MaxCriteriaAsks,    \* maxCriteriaAsks
    Concurrency,        \* runner slots of one gateway
    ResumeGrant,        \* --more of `task resume`
    MaxResumes,         \* bound: how often a person resumes a task
    MaxOutages          \* bound: crashes, shutdowns, database errors, naps

ASSUME ConstantsAssumption ==
    /\ Verdicts \subseteq {"completed", "failed", "rejected"}
    /\ Nobody \notin Agents \cup Tasks /\ NoRun \notin Runs /\ NoNote \notin Notes
    /\ {MaxAttempts, MaxEmptyRuns, Concurrency, ResumeGrant} \subseteq Nat \ {0}
    /\ {MaxContinuations, MaxCriteriaAsks, MaxResumes, MaxOutages} \subseteq Nat

VARIABLES
    task,       \* the `tasks` table
    run,        \* the `task_runs` rows somebody may still write
    proc,       \* the goroutine executing a run, in its agent's gateway
    gateway,    \* what each agent's process is doing
    found,      \* rows ReleaseInterruptedRuns has still to put back
    requeue,    \* the one whose row it has closed and whose task it has not
    superseded, \* history: runs whose task was claimed again after them
    resumes,    \* bound counter
    outages     \* bound counter

vars == <<task, run, proc, gateway, found, requeue,
          superseded, resumes, outages>>

----------------------------------------------------------------------------
(* States *)

Terminal == {"completed", "failed", "canceled", "rejected"}
Open     == {"submitted", "working", "blocked"}
States   == Open \cup Terminal \cup {"absent"}

FailReasons == {"", "exhausted", "continuations-exhausted", "empty-exhausted"}
Livenesses  == {"completed", "advanced", "empty", "blocked", "failed",
                "timed_out", "canceled"}
MaybeNotes  == Notes \cup {NoNote}

TaskRows ==
    [state : States, claimed_by : Agents \cup {Nobody},
     assigned_to : Agents \cup {Nobody}, leased : BOOLEAN,
     attempts : Nat, max_attempts : Nat,
     continuations : Nat, max_continuations : Nat,
     checkpoint : MaybeNotes, blocked_on : {"", "children", "human"},
     fail_reason : FailReasons, empties : Nat]

RunOutcomes == [liveness : Livenesses, note : MaybeNotes,
                blocked_on : {"", "children", "human"}]

(* "unused": nobody can write this row any more.  "unrecorded": claimed, the *)
(* row not inserted yet.  "lost", "interrupted": closed, but its process or  *)
(* its agent's start-up is still going to look at it.                        *)
RunRows == [task : Tasks \cup {Nobody}, agent : Agents \cup {Nobody},
            attempt : Nat,
            liveness : {"unused", "unrecorded", "running", "lost", "interrupted"}]

Procs == [phase : {"none", "claimed", "running", "closing"},
          cause : {"none", "deadline", "canceled"},
          before : MaybeNotes, outcome : RunOutcomes]

NoOutcome == [liveness |-> "canceled", note |-> NoNote, blocked_on |-> ""]
FreeRow   == [task |-> Nobody, agent |-> Nobody, attempt |-> 0,
              liveness |-> "unused"]
NoProc    == [phase |-> "none", cause |-> "none", before |-> NoNote,
              outcome |-> NoOutcome]

NoTask == [state |-> "absent", claimed_by |-> Nobody, assigned_to |-> Nobody,
           leased |-> FALSE, attempts |-> 0, max_attempts |-> 0,
           continuations |-> 0, max_continuations |-> 0,
           checkpoint |-> NoNote, blocked_on |-> "", fail_reason |-> "",
           empties |-> 0]

Alive(r)     == proc[r].phase # "none"
RunsOf(t)    == {r \in Runs : run[r].task = t}
ProcsOf(a)   == {r \in Runs : run[r].agent = a /\ Alive(r)}
SomeoneIsUp  == \E a \in Agents : gateway[a] = "up"
Outage       == outages < MaxOutages /\ outages' = outages + 1

(* Mutant: fenced on the agent's name, as RenewLease is. *)
HoldsByName(r, states) ==
    LET t == task[run[r].task] IN
    t.state \in states /\ t.claimed_by = run[r].agent

(* The fence: the task is still held by this run's agent at this attempt. *)
Holds(r, states) ==
    LET t == task[run[r].task] IN
    /\ t.state \in states
    /\ t.claimed_by = run[r].agent
    /\ t.attempts = run[r].attempt
Fenced(r) == run[r].task \in Tasks /\ Holds(r, {"working"})

Init ==
    /\ task = [t \in Tasks |-> NoTask]
    /\ run = [r \in Runs |-> FreeRow]
    /\ proc = [r \in Runs |-> NoProc]
    /\ gateway = [a \in Agents |-> "up"]
    /\ found = [a \in Agents |-> {}]
    /\ requeue = [a \in Agents |-> NoRun]
    /\ superseded = {}
    /\ resumes = 0
    /\ outages = 0

----------------------------------------------------------------------------
(* Creating and claiming *)

(* A new row is claimable at once: its lease is already in the past. *)
CreateTask(t, to) ==
    /\ task[t].state = "absent"
    /\ task' = [task EXCEPT ![t] =
                  [NoTask EXCEPT !.state = "submitted", !.assigned_to = to,
                                 !.max_attempts = MaxAttempts,
                                 !.max_continuations = MaxContinuations]]
    /\ UNCHANGED <<run, proc, gateway, found, requeue, superseded, resumes, outages>>

Claimable(t, a) ==
    /\ task[t].state \in {"submitted", "working"}
    /\ ~task[t].leased
    /\ task[t].attempts < task[t].max_attempts
    /\ task[t].assigned_to \in {Nobody, a}

(* Mutant: a claim does not count. *)
ClaimedUncounted(row, a) ==
    [row EXCEPT !.state = "working", !.claimed_by = a, !.leased = TRUE]

(* The claim's single UPDATE.  Which claimable row it takes is decided by    *)
(* priority and age, which this module does not rank.                       *)
Claimed(row, a) == [row EXCEPT !.state = "working", !.claimed_by = a,
                               !.leased = TRUE, !.attempts = @ + 1]

(* A runner with a free slot claims and starts the run's goroutine. *)
ClaimTask(a, r, t) ==
    /\ gateway[a] = "up"
    /\ Cardinality(ProcsOf(a)) < Concurrency
    /\ run[r].liveness = "unused"
    /\ Claimable(t, a)
    /\ task' = [task EXCEPT ![t] = Claimed(task[t], a)]
    /\ run' = [run EXCEPT ![r] = [task |-> t, agent |-> a,
                                  attempt |-> task[t].attempts + 1,
                                  liveness |-> "unrecorded"]]
    /\ proc' = [proc EXCEPT ![r] = [NoProc EXCEPT !.phase = "claimed",
                                           !.before = task[t].checkpoint]]
    /\ superseded' = superseded \cup RunsOf(t)
    /\ UNCHANGED <<gateway, found, requeue, resumes, outages>>

(* `bomclaw task claim`: the same claim with no runner behind it. *)
CliClaim(a, t) ==
    /\ Claimable(t, a)
    /\ task' = [task EXCEPT ![t] = Claimed(task[t], a)]
    /\ superseded' = superseded \cup RunsOf(t)
    /\ UNCHANGED <<run, proc, gateway, found, requeue, resumes, outages>>

(* StartRun inserts the ledger row, in a statement of its own. *)
StartRun(r) ==
    /\ proc[r].phase = "claimed"
    /\ proc' = [proc EXCEPT ![r].phase = "running"]
    /\ run' = [run EXCEPT ![r].liveness = "running"]
    /\ UNCHANGED <<task, gateway, found, requeue, superseded, resumes, outages>>

(* Nobody can write row r any more: its slot in Runs is free again. *)
Released(rs) ==
    /\ run' = [r \in Runs |-> IF r \in rs THEN FreeRow ELSE run[r]]
    /\ superseded' = superseded \ rs

(* execute returns when StartRun keeps failing, and leaves the claim. *)
StartRunFails(r) ==
    /\ proc[r].phase = "claimed"
    /\ Outage
    /\ proc' = [proc EXCEPT ![r] = NoProc]
    /\ Released({r})
    /\ UNCHANGED <<task, gateway, found, requeue, resumes>>

----------------------------------------------------------------------------
(* The lease *)

(* Ten minutes without a renewal.  With its process alive that takes an     *)
(* outage - the machine slept, the database was locked.                     *)
LapseLease(t) ==
    /\ task[t].state = "working" /\ task[t].leased
    /\ \/ /\ ~\E r \in RunsOf(t) : Alive(r) /\ Fenced(r)
          /\ UNCHANGED outages
       \/ Outage
    /\ task' = [task EXCEPT ![t].leased = FALSE]
    /\ UNCHANGED <<run, proc, gateway, found, requeue, superseded, resumes>>

(* The renewal goroutine ticks: fenced on the agent's name and the state,   *)
(* not on the attempt.  A refusal cancels the run's context, and classify   *)
(* reads ErrLeaseLost as it reads a shutdown.                               *)
RenewLease(r) ==
    LET t == run[r].task IN
    /\ Alive(r) /\ proc[r].cause = "none"
    /\ IF task[t].claimed_by = run[r].agent /\ task[t].state = "working"
         THEN /\ task' = [task EXCEPT ![t].leased = TRUE]
              /\ UNCHANGED proc
         ELSE /\ proc' = [proc EXCEPT ![r].cause = "canceled"]
              /\ UNCHANGED task
    /\ UNCHANGED <<run, gateway, found, requeue, superseded, resumes, outages>>

(* Any error of that statement stops the run, a busy database included. *)
RenewError(r) ==
    /\ Alive(r) /\ proc[r].cause = "none"
    /\ Outage
    /\ proc' = [proc EXCEPT ![r].cause = "canceled"]
    /\ UNCHANGED <<task, run, gateway, found, requeue, superseded, resumes>>

RunCap(r) ==
    /\ proc[r].phase \in {"claimed", "running"} /\ proc[r].cause = "none"
    /\ proc' = [proc EXCEPT ![r].cause = "deadline"]
    /\ UNCHANGED <<task, run, gateway, found, requeue, superseded, resumes, outages>>

----------------------------------------------------------------------------
(* What an agent types.  Any shell acting as agent a may type it - the CLI   *)
(* of a run, one that outlived its run, a chat turn - and without --attempts *)
(* the command reads the fencing token from the row it is about to write.   *)

(* Mutant: the legacy state FinishTask still accepts. *)
FinishTaskAsInput(a, t, s) ==
    /\ task[t].claimed_by = a
    /\ task' = [task EXCEPT ![t].state = "input-required"]
    /\ UNCHANGED <<run, proc, gateway, found, requeue, superseded, resumes, outages>>

(* `task done`, `task fail`, `task reject`: no condition on the state. *)
FinishTask(a, t, s) ==
    /\ task[t].claimed_by = a
    /\ task' = [task EXCEPT ![t].state = s]
    /\ UNCHANGED <<run, proc, gateway, found, requeue, superseded, resumes, outages>>

(* `task progress` *)
SetCheckpoint(a, t, n) ==
    /\ task[t].claimed_by = a /\ task[t].state = "working"
    /\ task' = [task EXCEPT ![t].checkpoint = n]
    /\ UNCHANGED <<run, proc, gateway, found, requeue, superseded, resumes, outages>>

(* Mutant: parking gives the attempt back while the run is still open. *)
BlockTaskRefunding(a, t, on, n) ==
    /\ task[t].claimed_by = a /\ task[t].state = "working"
    /\ task' = [task EXCEPT ![t] =
                  [@ EXCEPT !.state = "blocked", !.blocked_on = on,
                            !.leased = FALSE, !.attempts = @ - 1]]
    /\ UNCHANGED <<run, proc, gateway, found, requeue, superseded, resumes, outages>>

Noted(row, n) == [row EXCEPT !.checkpoint = IF n = NoNote THEN @ ELSE n]

(* `task block` *)
BlockTask(a, t, on, n) ==
    /\ task[t].claimed_by = a /\ task[t].state = "working"
    /\ task' = [task EXCEPT ![t] = [Noted(task[t], n) EXCEPT
                  !.state = "blocked", !.blocked_on = on, !.leased = FALSE]]
    /\ UNCHANGED <<run, proc, gateway, found, requeue, superseded, resumes, outages>>

----------------------------------------------------------------------------
(* The end of a run *)

Outcome(l, n, on) == [liveness |-> l, note |-> n, blocked_on |-> on]

(* classify, in its order: what the agent typed, what stopped the run, what  *)
(* the reply looks like.  `bar`: "none" asks nothing of the reply, "unset"   *)
(* is a goal without acceptance criteria, "set" a task that has some.  `row` *)
(* is the task as re-read after the run, `reloaded` whether that worked.      *)
(* FinishRun treats plan_only as advanced, so it is called that here.        *)
Classify(row, p, reloaded, reply, bar) ==
    LET note == IF reloaded /\ row.checkpoint # p.before
                  THEN row.checkpoint ELSE NoNote
    IN
    CASE reloaded /\ row.state \in {"completed", "failed"} ->
             Outcome(row.state, NoNote, "")
      [] reloaded /\ row.state = "blocked" ->
             Outcome("blocked", NoNote, row.blocked_on)
      [] OTHER ->
         CASE p.cause = "deadline"                  -> Outcome("timed_out", note, "")
           [] p.cause = "canceled" -> Outcome("canceled", note, "")
           [] p.cause = "none" /\ reply = "error"   -> Outcome("failed", note, "")
           [] p.cause = "none" /\ reply # "error" /\ note # NoNote ->
                  Outcome("advanced", note, "")
           [] OTHER ->
              CASE reply = "empty" -> Outcome("empty", NoNote, "")
                [] reply = "todo"  -> Outcome("advanced", NoNote, "")
                [] reply = "text" /\ bar = "unset" ->
                     IF row.continuations >= MaxCriteriaAsks
                       THEN Outcome("blocked", NoNote, "human")
                       ELSE Outcome("advanced", NoNote, "")
                [] reply = "text" /\ bar = "set"  -> Outcome("advanced", NoNote, "")
                [] reply = "text" /\ bar = "none" -> Outcome("completed", NoNote, "")

(* The CLI call returned; the runner re-reads the task and classifies.  The  *)
(* continuations of the claim are still the row's unless the claim was lost. *)
ReadOutcome(r, reloaded, reply, bar) ==
    /\ proc[r].phase = "running"
    /\ IF reloaded THEN UNCHANGED outages ELSE Outage
    /\ proc' = [proc EXCEPT ![r] =
                  [NoProc EXCEPT !.phase = "closing",
                                 !.outcome = Classify(task[run[r].task], proc[r],
                                                      reloaded, reply, bar)]]
    /\ UNCHANGED <<task, run, gateway, found, requeue, superseded, resumes>>

(* Back to the queue, the attempt handed back. *)
Requeued(row) == [row EXCEPT !.state = "submitted", !.leased = FALSE,
                             !.attempts = IF @ > 0 THEN @ - 1 ELSE 0]

(* "Call me back": the attempt is refunded, the task pinned to the agent.    *)
(* `spent` is what GoalBudgetSpent says of the task's tree.                  *)
NotDone(row, a, spent) ==
    IF spent THEN
      [row EXCEPT !.state = "blocked", !.blocked_on = "human", !.leased = FALSE]
    ELSE IF row.continuations + 1 >= row.max_continuations THEN
      [row EXCEPT !.state = "failed", !.continuations = @ + 1,
                  !.fail_reason = "continuations-exhausted"]
    ELSE
      [Requeued(row) EXCEPT !.continuations = @ + 1, !.assigned_to = a]

(* FinishRun's switch: the row a held run leaves behind. *)
Moved(row, o, a, spent) ==
    LET kept  == Noted(row, o.note)
        spentAttempts == row.attempts >= row.max_attempts
        empty == [kept EXCEPT !.empties = @ + 1]
        given == [kept EXCEPT !.state = "submitted", !.leased = FALSE]
        exhausted == [kept EXCEPT !.state = "failed", !.fail_reason = "exhausted"]
    IN
    CASE o.liveness = "completed" ->
           [kept EXCEPT !.state = "completed", !.fail_reason = ""]
      [] o.liveness = "advanced" -> NotDone(kept, a, spent)
      [] o.liveness = "empty" ->
           IF row.empties + 1 >= MaxEmptyRuns
             THEN [empty EXCEPT !.state = "failed", !.fail_reason = "empty-exhausted"]
             ELSE NotDone(empty, a, spent)
      [] o.liveness = "timed_out" ->
           IF o.note # NoNote THEN NotDone(kept, a, spent)
           ELSE IF spentAttempts THEN exhausted
           ELSE [given EXCEPT !.assigned_to = a]
      [] o.liveness = "blocked" ->
           [kept EXCEPT !.state = "blocked", !.leased = FALSE,
                        !.blocked_on = IF o.blocked_on = "" THEN "human"
                                       ELSE o.blocked_on]
      [] o.liveness = "failed" -> IF spentAttempts THEN exhausted ELSE given
      [] o.liveness = "canceled" ->
           Requeued(kept)

(* The ledger row alone is written, with the liveness the run ended in. *)
CountedEmpty(t, o) ==
    IF o.liveness = "empty" THEN [task EXCEPT ![t].empties = @ + 1] ELSE task

(* One transaction: the row of a finished task is left alone, a task parked  *)
(* during the run is where it should be, a lost claim's result is dropped,   *)
(* and only the holder's outcome moves the task.                             *)
FinishRun(r, spent) ==
    LET t == run[r].task
        o == proc[r].outcome
    IN
    /\ proc[r].phase = "closing"
    /\ \/ /\ task[t].state \in Terminal
          /\ task' = CountedEmpty(t, o)
       \/ /\ Holds(r, {"blocked"})
          /\ UNCHANGED task
       \/ /\ task[t].state \notin Terminal /\ ~Holds(r, {"blocked", "working"})
          /\ task' = CountedEmpty(t, o)
       \/ /\ Fenced(r)
          /\ task' = [task EXCEPT ![t] = Moved(task[t], o, run[r].agent, spent)]
    /\ proc' = [proc EXCEPT ![r] = NoProc]
    /\ Released({r})
    /\ UNCHANGED <<gateway, found, requeue, resumes, outages>>

(* Every retry of the transaction failed: the row says "running" for ever,   *)
(* or a sweep's "lost", and nobody is coming back for it.                    *)
FinishRunFails(r) ==
    /\ proc[r].phase = "closing"
    /\ Outage
    /\ proc' = [proc EXCEPT ![r] = NoProc]
    /\ Released(IF run[r].liveness = "running" THEN {} ELSE {r})
    /\ UNCHANGED <<task, gateway, found, requeue, resumes>>

----------------------------------------------------------------------------
(* The sweeps every gateway runs before it claims *)

(* Mutant: the sweep as it was, blind to stranded submitted tasks. *)
ReapExhaustedWorking(t) ==
    /\ SomeoneIsUp
    /\ task[t].state = "working" /\ ~task[t].leased
    /\ task[t].attempts >= task[t].max_attempts
    /\ task' = [task EXCEPT ![t].state = "failed", ![t].fail_reason = "exhausted"]
    /\ UNCHANGED <<run, proc, gateway, found, requeue, superseded, resumes, outages>>

(* Working or submitted, nobody holding it, its attempts spent. *)
ReapExhausted(t) ==
    /\ SomeoneIsUp
    /\ task[t].state \in {"working", "submitted"} /\ ~task[t].leased
    /\ task[t].attempts >= task[t].max_attempts
    /\ task' = [task EXCEPT ![t].state = "failed", ![t].fail_reason = "exhausted"]
    /\ UNCHANGED <<run, proc, gateway, found, requeue, superseded, resumes, outages>>

(* The assignee stopped heartbeating: anybody may take the task. *)
RelaxDeadAssignments(t) ==
    /\ SomeoneIsUp
    /\ task[t].state = "submitted" /\ task[t].assigned_to \in Agents
    /\ gateway[task[t].assigned_to] \in {"down", "starting"}
    /\ task' = [task EXCEPT ![t].assigned_to = Nobody]
    /\ UNCHANGED <<run, proc, gateway, found, requeue, superseded, resumes, outages>>

(* Mutant: only the rows of finished tasks are swept. *)
ReapFinishedRuns(r) ==
    /\ SomeoneIsUp
    /\ run[r].liveness = "running" /\ ~Alive(r)
    /\ task[run[r].task].state \in Terminal
    /\ Released({r})
    /\ UNCHANGED <<task, proc, gateway, found, requeue, resumes, outages>>

(* A row whose claim is over and that is old enough.  Age is wall-clock time *)
(* while a run's cap is not, so a process may outlive the bound; FinishRun   *)
(* still closes a lost row.                                                 *)
ReapOrphanRuns(r) ==
    LET a == run[r].agent IN
    /\ SomeoneIsUp
    /\ run[r].liveness = "running"
    /\ ~(Fenced(r) /\ task[run[r].task].leased)
    /\ IF Alive(r) \/ r \in found[a] \/ requeue[a] = r
         THEN /\ run' = [run EXCEPT ![r].liveness = "lost"]
              /\ UNCHANGED superseded
         ELSE Released({r})
    /\ UNCHANGED <<task, proc, gateway, found, requeue, resumes, outages>>

(* WakeParents on a task blocked on its children: back to the agent that     *)
(* held it, or `stalled` - two waves without a completed child - to a person.*)
Woken(row, n) ==
    [row EXCEPT !.state = "submitted", !.blocked_on = "", !.checkpoint = n,
                !.leased = FALSE,
                !.assigned_to = IF row.claimed_by = Nobody THEN @
                                ELSE row.claimed_by]
Stalled(row, n) ==
    [row EXCEPT !.blocked_on = "human", !.checkpoint = n, !.leased = FALSE]

WakeParents(t, stalled, n) ==
    /\ SomeoneIsUp
    /\ task[t].state = "blocked" /\ task[t].blocked_on = "children"
    /\ task' = [task EXCEPT ![t] = IF stalled THEN Stalled(task[t], n)
                                   ELSE Woken(task[t], n)]
    /\ UNCHANGED <<run, proc, gateway, found, requeue, superseded, resumes, outages>>

----------------------------------------------------------------------------
(* People *)

CancelTask(t) ==
    /\ task[t].state \in Open
    /\ task' = [task EXCEPT ![t].state = "canceled", ![t].blocked_on = ""]
    /\ UNCHANGED <<run, proc, gateway, found, requeue, superseded, resumes, outages>>

(* Mutant: an answer gives the attempt back. *)
UnblockTaskRefunding(t, n) ==
    /\ task[t].state = "blocked"
    /\ task' = [task EXCEPT ![t] =
                  [@ EXCEPT !.state = "submitted", !.blocked_on = "",
                            !.leased = FALSE, !.attempts = @ - 1]]
    /\ UNCHANGED <<run, proc, gateway, found, requeue, superseded, resumes, outages>>

(* `n` is the checkpoint as an earlier statement read it, the answer appended:*)
(* it may be older than the one it replaces.                                 *)
UnblockTask(t, n) ==
    /\ task[t].state = "blocked"
    /\ task' = [task EXCEPT ![t] = [task[t] EXCEPT
                  !.state = "submitted", !.blocked_on = "", !.leased = FALSE,
                  !.checkpoint = n]]
    /\ UNCHANGED <<run, proc, gateway, found, requeue, superseded, resumes, outages>>

(* More of whichever allowance ran out, for a failed task or a stranded one. *)
Granted(row) ==
    IF row.fail_reason \in {"continuations-exhausted", "empty-exhausted"}
      THEN [row EXCEPT !.max_continuations = @ + ResumeGrant]
      ELSE [row EXCEPT !.max_attempts = @ + ResumeGrant]

ResumeTask(t) ==
    /\ resumes < MaxResumes /\ resumes' = resumes + 1
    /\ \/ task[t].state = "failed"
       \/ task[t].state = "submitted" /\ task[t].attempts >= task[t].max_attempts
    /\ task' = [task EXCEPT ![t] = [Granted(task[t]) EXCEPT
                  !.state = "submitted", !.fail_reason = "", !.leased = FALSE]]
    /\ UNCHANGED <<run, proc, gateway, found, requeue, superseded, outages>>

----------------------------------------------------------------------------
(* The gateway's process *)

(* A signal cancels every run's context; no claim is made after it. *)
Shutdown(a) ==
    /\ gateway[a] = "up"
    /\ Outage
    /\ gateway' = [gateway EXCEPT ![a] = "stopping"]
    /\ proc' = [r \in Runs |->
                  IF r \in ProcsOf(a) /\ proc[r].cause = "none"
                    THEN [proc[r] EXCEPT !.cause = "canceled"] ELSE proc[r]]
    /\ UNCHANGED <<task, run, found, requeue, superseded, resumes>>

(* The process is gone, whatever it was in the middle of.  Rows it had       *)
(* opened stay "running"; the rest of what it knew is lost with it.          *)
Exit(a) ==
    /\ gateway' = [gateway EXCEPT ![a] = "down"]
    /\ proc' = [r \in Runs |-> IF r \in ProcsOf(a) THEN NoProc ELSE proc[r]]
    /\ Released({r \in Runs : run[r].agent = a /\ run[r].liveness # "running"})
    /\ found' = [found EXCEPT ![a] = {}]
    /\ requeue' = [requeue EXCEPT ![a] = NoRun]
    /\ UNCHANGED <<task, resumes>>

Crash(a) == gateway[a] # "down" /\ Outage /\ Exit(a)

(* Nothing waits for the runs in flight on the way out. *)
Stopped(a) == gateway[a] = "stopping" /\ Exit(a) /\ UNCHANGED outages

(* Mutant: not restricted to the agent's own rows. *)
RestartAny(a) ==
    /\ gateway[a] = "down"
    /\ gateway' = [gateway EXCEPT ![a] = "starting"]
    /\ found' = [found EXCEPT ![a] = {r \in Runs : run[r].liveness = "running"}]
    /\ UNCHANGED <<task, run, proc, requeue, superseded, resumes, outages>>

(* The service manager starts it again; ReleaseInterruptedRuns begins by     *)
(* reading which rows of this agent still say "running".                     *)
Restart(a) ==
    /\ gateway[a] = "down"
    /\ gateway' = [gateway EXCEPT ![a] = "starting"]
    /\ found' = [found EXCEPT ![a] =
                   {r \in Runs : run[r].agent = a /\ run[r].liveness = "running"}]
    /\ UNCHANGED <<task, run, proc, requeue, superseded, resumes, outages>>

(* First statement of its loop: close the row, if it is still open. *)
CloseInterrupted(a, r) ==
    /\ gateway[a] = "starting" /\ requeue[a] = NoRun /\ r \in found[a]
    /\ found' = [found EXCEPT ![a] = @ \ {r}]
    /\ requeue' = [requeue EXCEPT ![a] = r]
    /\ run' = [run EXCEPT ![r].liveness = IF @ = "running" THEN "interrupted" ELSE @]
    /\ UNCHANGED <<task, proc, gateway, superseded, resumes, outages>>

(* Second statement: give the task back, only for the claim that run is. *)
RequeueInterrupted(a) ==
    LET r == requeue[a]
        t == run[r].task
    IN
    /\ gateway[a] = "starting" /\ r \in Runs
    /\ task' = IF Fenced(r) THEN [task EXCEPT ![t] = Requeued(task[t])] ELSE task
    /\ requeue' = [requeue EXCEPT ![a] = NoRun]
    /\ Released({r})
    /\ UNCHANGED <<proc, gateway, found, resumes, outages>>

StartServing(a) ==
    /\ gateway[a] = "starting" /\ found[a] = {} /\ requeue[a] = NoRun
    /\ gateway' = [gateway EXCEPT ![a] = "up"]
    /\ UNCHANGED <<task, run, proc, found, requeue, superseded, resumes, outages>>

----------------------------------------------------------------------------
AgentCommand(a, t) ==
    \/ CliClaim(a, t)
    \/ \E s \in Verdicts : FinishTask(a, t, s)
    \/ \E n \in Notes : SetCheckpoint(a, t, n)
    \/ \E on \in {"children", "human"}, n \in MaybeNotes : BlockTask(a, t, on, n)

PersonCommand(t) ==
    \/ \E to \in Agents \cup {Nobody} : CreateTask(t, to)
    \/ CancelTask(t)
    \/ \E n \in MaybeNotes : UnblockTask(t, n)
    \/ ResumeTask(t)

Sweep(t) ==
    \/ ReapExhausted(t)
    \/ RelaxDeadAssignments(t)
    \/ \E stalled \in BOOLEAN, n \in Notes : WakeParents(t, stalled, n)

Returned(r) ==
    \E reloaded \in BOOLEAN, reply \in {"text", "empty", "todo", "error"},
       bar \in {"none", "unset", "set"} : ReadOutcome(r, reloaded, reply, bar)

Closed(r) == \E spent \in BOOLEAN : FinishRun(r, spent)

RunStep(r) ==
    \/ StartRun(r) \/ StartRunFails(r)
    \/ RenewLease(r) \/ RenewError(r) \/ RunCap(r)
    \/ Returned(r) \/ Closed(r) \/ FinishRunFails(r)
    \/ ReapOrphanRuns(r)

GatewayStep(a) ==
    \/ Shutdown(a) \/ Crash(a) \/ Stopped(a)
    \/ Restart(a) \/ StartServing(a) \/ RequeueInterrupted(a)
    \/ \E r \in Runs : CloseInterrupted(a, r)

Next ==
    \/ \E a \in Agents, t \in Tasks : AgentCommand(a, t)
    \/ \E a \in Agents, r \in Runs, t \in Tasks : ClaimTask(a, r, t)
    \/ \E t \in Tasks : PersonCommand(t) \/ Sweep(t) \/ LapseLease(t)
    \/ \E r \in Runs : RunStep(r)
    \/ \E a \in Agents : GatewayStep(a)

Spec == Init /\ [][Next]_vars

(* What the code schedules: the claim loop and its sweeps tick, a claimed    *)
(* run is started, its CLI returns (the run cap kills it) and is closed, a   *)
(* lease nobody renews runs out.                                            *)
Fairness ==
    /\ \A t \in Tasks :
         /\ WF_vars(\E a \in Agents, r \in Runs : ClaimTask(a, r, t))
         /\ WF_vars(ReapExhausted(t))
         /\ WF_vars(RelaxDeadAssignments(t))
         /\ WF_vars(LapseLease(t))
    /\ \A r \in Runs :
         WF_vars(StartRun(r) \/ Returned(r) \/ Closed(r)) /\ WF_vars(ReapOrphanRuns(r))
    /\ \A a \in Agents :
         /\ WF_vars(\E r \in Runs : CloseInterrupted(a, r))
         /\ WF_vars(RequeueInterrupted(a) \/ StartServing(a))
         /\ WF_vars(Stopped(a))

(* The service manager (Restart=always, KeepAlive) brings gateways back; one  *)
(* may be switched off for good, but not all of them.                        *)
FairSpec == Spec /\ Fairness /\ WF_vars(~SomeoneIsUp /\ \E a \in Agents : Restart(a))

----------------------------------------------------------------------------
(* Properties *)

TypeOK ==
    /\ task \in [Tasks -> TaskRows]
    /\ run \in [Runs -> RunRows]
    /\ proc \in [Runs -> Procs]
    /\ gateway \in [Agents -> {"up", "stopping", "down", "starting"}]
    /\ found \in [Agents -> SUBSET Runs]
    /\ requeue \in [Agents -> Runs \cup {NoRun}]
    /\ superseded \subseteq Runs
    /\ resumes \in 0..MaxResumes /\ outages \in 0..MaxOutages

(* The fence holds although attempts is handed back.  A run whose task was   *)
(* claimed again can never present a token FinishRun would accept, even when *)
(* the same agent claimed it and even after refunds brought the counter back *)
(* down: its result is dropped, as ErrLostLease promises.                    *)
FenceHolds == \A r \in superseded : ~Fenced(r)

(* Two runs that may still be closed never carry one token for one task, so  *)
(* at most one of them can be the holder.                                   *)
TokensDistinct ==
    \A r, s \in Runs :
        r # s /\ run[r].task = run[s].task /\ run[r].task \in Tasks
            => run[r].attempt # run[s].attempt

(* The stack discipline behind both: attempts never sinks below the token of *)
(* a run that may still report in, and is above it once the task is working  *)
(* for somebody else.                                                       *)
AttemptsCoverRuns ==
    \A r \in Runs : run[r].task \in Tasks =>
        LET t == task[run[r].task] IN
        /\ 0 < run[r].attempt /\ run[r].attempt <= t.attempts
        /\ r \in superseded /\ t.state = "working" => run[r].attempt < t.attempts

(* Who may still write a row.  A row in use names its task; a gateway that is *)
(* down runs nothing; and what a start-up is giving back are rows of its own  *)
(* agent whose process is dead, never a peer's run.                          *)
RowsAreOwned ==
    /\ \A t \in Tasks : task[t].state = "absent" => task[t].attempts = 0
    /\ \A r \in Runs : run[r].liveness = "unused" <=> run[r].task = Nobody
    /\ \A r \in Runs : Alive(r) \/ r \in superseded => run[r].task \in Tasks
    /\ \A a \in Agents : gateway[a] \in {"down", "starting"} => ProcsOf(a) = {}
    /\ \A a \in Agents : requeue[a] \notin found[a]
    /\ \A a \in Agents, r \in Runs : r \in found[a] \/ requeue[a] = r =>
          /\ run[r].agent = a /\ run[r].task \in Tasks
          /\ ~Alive(r) /\ gateway[a] = "starting"

(* Closing a superseded run changes nothing of its task but the count of     *)
(* empty replies its ledger row adds to.                                    *)
SupersededRunIsDiscarded ==
    [][\A r \in superseded : Closed(r) =>
          \A t \in Tasks : [task'[t] EXCEPT !.empties = 0] =
                           [task[t] EXCEPT !.empties = 0]]_vars

(* The ledger keeps the promise Holding states: the run the fence lets through  *)
(* is the holder, a claim ends the previous holder's part for good, and nothing  *)
(* but a claim makes a holder.                                               *)
Promise == INSTANCE Holding WITH
    of <- [r \in Runs |-> run[r].task],
    stage <- [r \in Runs |-> IF run[r].task = Nobody THEN "idle"
                             ELSE IF Fenced(r) THEN "holder" ELSE "past"],
    working <- {t \in Tasks : task[t].state = "working"}

ClaimsAreHeldOnce == Promise!Spec

(* A restarted gateway takes a task back, and hands its attempt back, only   *)
(* for the claim its own dead run was: never one made since.                 *)
RestartReleasesOnlyItsOwn ==
    [][\A a \in Agents : RequeueInterrupted(a) /\ task' # task =>
          requeue[a] \notin superseded]_vars

(* When every gateway returns, a task somebody may work on ends or parks,    *)
(* whatever died on the way: no crash between claim and ledger row, lost     *)
(* close or spent allowance leaves it waiting for good.                      *)
TasksSettle ==
    (\A a \in Agents : []<>(gateway[a] = "up")) =>
    \A t \in Tasks : task[t].state \in {"submitted", "working"} ~>
                     task[t].state \notin {"submitted", "working"}

(* Even when its assignee is switched off for good, a queued task does not   *)
(* stay queued: the sweep opens it to the other agents.                      *)
QueueMoves ==
    \A t \in Tasks : task[t].state = "submitted" ~> task[t].state # "submitted"

(* A ledger row whose process is gone is closed in the end. *)
OrphanRowsClose ==
    \A r \in Runs : (run[r].liveness = "running" /\ ~Alive(r)) ~>
                    ~(run[r].liveness = "running" /\ ~Alive(r))

(* Neither the queue nor a row of the ledger waits for ever. *)
NothingHangs == QueueMoves /\ OrphanRowsClose

----------------------------------------------------------------------------
(* What the repository says and the code does not do *)

(* tasks.go: "TerminalTaskStates are the states a task never leaves" - but   *)
(* FinishTask does not look at the state (failed is left out: a person may   *)
(* resume it).                                                             *)
FinishedStaysFinished ==
    [][\A t \in Tasks : task[t].state \in {"completed", "canceled", "rejected"} =>
          task'[t].state = task[t].state]_vars

=============================================================================
