-------------------------- MODULE TaskLedgerProofs --------------------------
(***************************************************************************)
(* Proofs about TaskLedger, for any number of agents, tasks and runs and    *)
(* any allowances.                                                         *)
(***************************************************************************)
EXTENDS TaskLedger, Sequences, TLAPS

----------------------------------------------------------------------------
(* The rows of `tasks`: what each operator that writes one leaves of the     *)
(* state and the attempts, the two columns the fence reads.                  *)

LEMMA ClaimedRow ==
    ASSUME NEW row \in TaskRows, NEW a \in Agents
    PROVE  /\ Claimed(row, a) \in TaskRows
           /\ Claimed(row, a).state = "working"
           /\ Claimed(row, a).attempts = row.attempts + 1
  <1>. row.attempts \in Nat
    BY DEF TaskRows
  <1>1. row.attempts + 1 \in Nat
    OBVIOUS
  <1>2. Claimed(row, a).attempts = row.attempts + 1
    BY DEF Claimed, TaskRows
  <1>. QED
    BY <1>1, <1>2 DEF Claimed, TaskRows, States, Open

LEMMA NotedRow ==
    ASSUME NEW row \in TaskRows, NEW n \in MaybeNotes
    PROVE  /\ Noted(row, n) \in TaskRows
           /\ Noted(row, n).state = row.state
           /\ Noted(row, n).attempts = row.attempts
  BY DEF Noted, TaskRows

LEMMA RequeuedRow ==
    ASSUME NEW row \in TaskRows
    PROVE  /\ Requeued(row) \in TaskRows
           /\ Requeued(row).state = "submitted"
           /\ row.attempts - 1 <= Requeued(row).attempts
  <1>. DEFINE left == IF row.attempts > 0 THEN row.attempts - 1 ELSE 0
  <1>. row.attempts \in Nat
    BY DEF TaskRows
  <1>1. left \in Nat /\ row.attempts - 1 <= left
    OBVIOUS
  <1>2. Requeued(row) = [row EXCEPT !.state = "submitted", !.leased = FALSE,
                                    !.attempts = left]
    BY DEF Requeued, TaskRows
  <1>3. Requeued(row).attempts = left
    BY <1>2 DEF TaskRows
  <1>. HIDE DEF left
  <1>. QED
    BY <1>1, <1>2, <1>3 DEF TaskRows, States, Open

LEMMA NotDoneRow ==
    ASSUME NEW row \in TaskRows, NEW a \in Agents \cup {Nobody},
           NEW spent \in BOOLEAN
    PROVE  /\ NotDone(row, a, spent) \in TaskRows
           /\ NotDone(row, a, spent).state \in {"submitted", "blocked", "failed"}
           /\ row.attempts - 1 <= NotDone(row, a, spent).attempts
  <1>. row.continuations \in Nat /\ row.attempts \in Nat
    BY DEF TaskRows
  <1>1. row.continuations + 1 \in Nat /\ row.attempts - 1 <= row.attempts
    OBVIOUS
  <1>2. CASE spent
    BY <1>1, <1>2 DEF NotDone, TaskRows, States, Open
  <1>3. CASE ~spent /\ row.continuations + 1 >= row.max_continuations
    BY <1>1, <1>3 DEF NotDone, TaskRows, States, Terminal, FailReasons
  <1>4. CASE ~spent /\ ~(row.continuations + 1 >= row.max_continuations)
    <2>. DEFINE q == Requeued(row)
    <2>1. q \in TaskRows /\ q.state = "submitted" /\ row.attempts - 1 <= q.attempts
      BY RequeuedRow
    <2>. q.continuations \in Nat
      BY <2>1 DEF TaskRows
    <2>2. q.continuations + 1 \in Nat
      OBVIOUS
    <2>3. NotDone(row, a, spent) = [q EXCEPT !.continuations = @ + 1, !.assigned_to = a]
      BY <1>4 DEF NotDone
    <2>. HIDE DEF q
    <2>. QED
      BY <2>1, <2>2, <2>3 DEF TaskRows
  <1>. QED
    BY <1>2, <1>3, <1>4

(* A held run never leaves its task working, and hands at most its own        *)
(* attempt back.                                                             *)
LEMMA MovedRow ==
    ASSUME NEW row \in TaskRows, NEW o \in RunOutcomes,
           NEW a \in Agents \cup {Nobody}, NEW spent \in BOOLEAN
    PROVE  /\ Moved(row, o, a, spent) \in TaskRows
           /\ Moved(row, o, a, spent).state \notin {"working", "absent"}
           /\ row.attempts - 1 <= Moved(row, o, a, spent).attempts
  <1>. DEFINE kept == Noted(row, o.note)
              empty == [kept EXCEPT !.empties = @ + 1]
              new == Moved(row, o, a, spent)
              spentAttempts == row.attempts >= row.max_attempts
  <1>1. o.note \in MaybeNotes /\ o.liveness \in Livenesses
        /\ o.blocked_on \in {"", "children", "human"}
    BY DEF RunOutcomes
  <1>2. kept \in TaskRows /\ kept.attempts = row.attempts
    BY <1>1, NotedRow
  <1>3. row.attempts \in Nat /\ kept.empties \in Nat
    BY <1>2 DEF TaskRows
  <1>4. row.attempts - 1 <= row.attempts
    BY <1>3
  <1>5. kept.empties + 1 \in Nat
    BY <1>3
  <1>6. empty \in TaskRows /\ empty.attempts = row.attempts
    BY <1>2, <1>5 DEF TaskRows
  <1>7. /\ NotDone(kept, a, spent) \in TaskRows
        /\ NotDone(kept, a, spent).state \in {"submitted", "blocked", "failed"}
        /\ row.attempts - 1 <= NotDone(kept, a, spent).attempts
    BY <1>2, NotDoneRow
  <1>8. /\ NotDone(empty, a, spent) \in TaskRows
        /\ NotDone(empty, a, spent).state \in {"submitted", "blocked", "failed"}
        /\ row.attempts - 1 <= NotDone(empty, a, spent).attempts
    BY <1>6, NotDoneRow
  <1>. DEFINE ended(s, why) == [kept EXCEPT !.state = s, !.fail_reason = why]
              given == [kept EXCEPT !.state = "submitted", !.leased = FALSE]
              pinned == [given EXCEPT !.assigned_to = a]
              parked == [kept EXCEPT !.state = "blocked", !.leased = FALSE,
                                     !.blocked_on = IF o.blocked_on = "" THEN "human"
                                                    ELSE o.blocked_on]
              drained == [empty EXCEPT !.state = "failed",
                                       !.fail_reason = "empty-exhausted"]
  <1>9. \A s \in Terminal, why \in FailReasons :
          /\ ended(s, why) \in TaskRows
          /\ ended(s, why).state = s /\ ended(s, why).attempts = row.attempts
    BY <1>2 DEF TaskRows, States
  <1>10. given \in TaskRows /\ given.state = "submitted" /\ given.attempts = row.attempts
    BY <1>2 DEF TaskRows, States, Open
  <1>11. pinned \in TaskRows /\ pinned.state = "submitted" /\ pinned.attempts = row.attempts
    BY <1>2 DEF TaskRows, States, Open
  <1>12. parked \in TaskRows /\ parked.state = "blocked" /\ parked.attempts = row.attempts
    <2>1. \A on \in {"", "children", "human"} :
            LET put == [kept EXCEPT !.state = "blocked", !.leased = FALSE, !.blocked_on = on]
            IN  put \in TaskRows /\ put.state = "blocked" /\ put.attempts = row.attempts
      BY <1>2 DEF TaskRows, States, Open
    <2>2. (IF o.blocked_on = "" THEN "human" ELSE o.blocked_on) \in {"", "children", "human"}
      BY <1>1
    <2>. QED
      BY <2>1, <2>2
  <1>13. drained \in TaskRows /\ drained.state = "failed" /\ drained.attempts = row.attempts
    BY <1>6 DEF TaskRows, States, Terminal, FailReasons
  <1>14. /\ Requeued(kept) \in TaskRows /\ Requeued(kept).state = "submitted"
         /\ row.attempts - 1 <= Requeued(kept).attempts
    BY <1>2, RequeuedRow
  <1>15. \/ \E s \in Terminal, why \in FailReasons : new = ended(s, why)
         \/ new \in {NotDone(kept, a, spent), NotDone(empty, a, spent),
                     given, pinned, parked, drained, Requeued(kept)}
    <2>1. "completed" \in Terminal /\ "failed" \in Terminal
          /\ "" \in FailReasons /\ "exhausted" \in FailReasons
      BY DEF Terminal, FailReasons
    <2>2. CASE o.liveness = "completed"
      BY <2>1, <2>2 DEF Moved
    <2>3. CASE o.liveness = "advanced"
      BY <2>3 DEF Moved
    <2>4. CASE o.liveness = "empty"
      BY <2>4 DEF Moved
    <2>5. CASE o.liveness = "timed_out"
      BY <2>1, <2>5 DEF Moved
    <2>6. CASE o.liveness = "blocked"
      BY <2>6 DEF Moved
    <2>7. CASE o.liveness = "failed"
      BY <2>1, <2>7 DEF Moved
    <2>8. CASE o.liveness = "canceled"
      BY <2>8 DEF Moved
    <2>. QED
      BY <1>1, <2>2, <2>3, <2>4, <2>5, <2>6, <2>7, <2>8 DEF Livenesses
  <1>. HIDE DEF kept, empty, new, ended, given, pinned, parked, drained
  <1>16. "working" \notin Terminal /\ "absent" \notin Terminal
    BY DEF Terminal
  <1>17. CASE \E s \in Terminal, why \in FailReasons : new = ended(s, why)
    BY <1>4, <1>9, <1>16, <1>17 DEF new
  <1>18. CASE new \in {NotDone(kept, a, spent), NotDone(empty, a, spent),
                       given, pinned, parked, drained, Requeued(kept)}
    BY <1>4, <1>7, <1>8, <1>10, <1>11, <1>12, <1>13, <1>14, <1>18 DEF new
  <1>. QED
    BY <1>15, <1>17, <1>18

(* The other rows a step writes. *)
LEMMA PersonRows ==
    ASSUME NEW row \in TaskRows, NEW n \in MaybeNotes
    PROVE  /\ Woken(row, n) \in TaskRows /\ Stalled(row, n) \in TaskRows
           /\ Woken(row, n).state = "submitted" /\ Stalled(row, n).state = row.state
           /\ Woken(row, n).attempts = row.attempts
           /\ Stalled(row, n).attempts = row.attempts
  BY DEF Woken, Stalled, TaskRows, States, Open

LEMMA GrantedRow ==
    ASSUME NEW row \in TaskRows
    PROVE  /\ Granted(row) \in TaskRows
           /\ Granted(row).attempts = row.attempts
  <1>. row.max_attempts \in Nat /\ row.max_continuations \in Nat
    BY DEF TaskRows
  <1>. DEFINE c == row.max_continuations + ResumeGrant
              m == row.max_attempts + ResumeGrant
  <1>1. c \in Nat /\ m \in Nat
    BY ConstantsAssumption
  <1>2. Granted(row) \in {[row EXCEPT !.max_continuations = c],
                          [row EXCEPT !.max_attempts = m]}
    BY DEF Granted
  <1>. HIDE DEF c, m
  <1>. QED
    BY <1>1, <1>2 DEF TaskRows

(* What classify returns is an outcome FinishRun accepts, whatever the task's *)
(* row became meanwhile: none of its switches falls through.                 *)
LEMMA ClassifyOutcome ==
    ASSUME NEW row \in TaskRows, NEW p \in Procs, NEW reloaded \in BOOLEAN,
           NEW reply \in {"text", "empty", "todo", "error"},
           NEW bar \in {"none", "unset", "set"}
    PROVE  Classify(row, p, reloaded, reply, bar) \in RunOutcomes
  <1>. DEFINE note == IF reloaded /\ row.checkpoint # p.before
                        THEN row.checkpoint ELSE NoNote
  <1>1. /\ row.checkpoint \in MaybeNotes /\ row.state \in States
        /\ row.blocked_on \in {"", "children", "human"}
        /\ p.cause \in {"none", "deadline", "canceled"}
    BY DEF TaskRows, Procs
  <1>2. note \in MaybeNotes /\ NoNote \in MaybeNotes
    BY <1>1 DEF MaybeNotes
  <1>3. \A l \in Livenesses, n \in MaybeNotes, on \in {"", "children", "human"} :
          Outcome(l, n, on) \in RunOutcomes
    BY DEF Outcome, RunOutcomes
  <1>4. {"completed", "failed", "blocked", "timed_out", "canceled", "advanced",
         "empty"} \subseteq Livenesses
    BY DEF Livenesses
  <1>. HIDE DEF note
  <1>5. CASE reloaded /\ row.state \in {"completed", "failed", "blocked"}
    BY <1>1, <1>2, <1>3, <1>4, <1>5 DEF Classify
  <1>6. CASE ~(reloaded /\ row.state \in {"completed", "failed", "blocked"})
    <2>1. CASE p.cause # "none" \/ reply = "error" \/ note # NoNote
      BY <1>1, <1>2, <1>3, <1>4, <1>6, <2>1 DEF Classify, note
    <2>2. CASE ~(p.cause # "none" \/ reply = "error" \/ note # NoNote)
      BY <1>1, <1>2, <1>3, <1>4, <1>6, <2>2 DEF Classify, note
    <2>. QED
      BY <2>1, <2>2
  <1>. QED
    BY <1>5, <1>6

----------------------------------------------------------------------------
(* Types *)

LEMMA TypeInit == Init => TypeOK
  <1>. SUFFICES ASSUME Init PROVE TypeOK
    OBVIOUS
  <1>1. NoTask \in TaskRows
    BY DEF NoTask, TaskRows, States, FailReasons, MaybeNotes
  <1>2. FreeRow \in RunRows
    BY DEF FreeRow, RunRows
  <1>3. NoProc \in Procs
    BY DEF NoProc, Procs, NoOutcome, RunOutcomes, Livenesses, MaybeNotes
  <1>4. 0 \in 0..MaxResumes /\ 0 \in 0..MaxOutages
    BY ConstantsAssumption
  <1>. QED
    BY <1>1, <1>2, <1>3, <1>4 DEF Init, TypeOK

(* The bounds on the environment keep their range. *)
LEMMA BoundsStep ==
    ASSUME TypeOK
    PROVE  /\ Outage => outages' \in 0..MaxOutages
           /\ resumes < MaxResumes /\ resumes' = resumes + 1 => resumes' \in 0..MaxResumes
  <1>. /\ outages \in Nat /\ resumes \in Nat
       /\ outages \in 0..MaxOutages /\ resumes \in 0..MaxResumes
       /\ MaxOutages \in Nat /\ MaxResumes \in Nat
    BY ConstantsAssumption DEF TypeOK
  <1>. QED
    BY DEF Outage

LEMMA ReleasedType ==
    ASSUME TypeOK, NEW rs, Released(rs)
    PROVE  run' \in [Runs -> RunRows] /\ superseded' \subseteq Runs
  <1>1. FreeRow \in RunRows
    BY DEF FreeRow, RunRows
  <1>. QED
    BY <1>1 DEF Released, TypeOK

(* What an agent types. *)
LEMMA AgentType ==
    ASSUME TypeOK, NEW a \in Agents, NEW t \in Tasks, AgentCommand(a, t)
    PROVE  TypeOK'
  <1>0. task[t] \in TaskRows
    BY DEF TypeOK
  <1>1. CASE CliClaim(a, t)
    <2>1. Claimed(task[t], a) \in TaskRows
      BY <1>0, ClaimedRow
    <2>. QED
      BY <1>1, <2>1 DEF CliClaim, TypeOK, RunsOf
  <1>2. ASSUME NEW s \in Verdicts, FinishTask(a, t, s) PROVE TypeOK'
    <2>1. s \in States
      BY ConstantsAssumption DEF States, Terminal
    <2>2. [task[t] EXCEPT !.state = s] \in TaskRows
      BY <1>0, <2>1 DEF TaskRows
    <2>. QED
      BY <1>2, <2>2 DEF FinishTask, TypeOK
  <1>3. ASSUME NEW n \in Notes, SetCheckpoint(a, t, n) PROVE TypeOK'
    <2>1. [task[t] EXCEPT !.checkpoint = n] \in TaskRows
      BY <1>0 DEF TaskRows, MaybeNotes
    <2>. QED
      BY <1>3, <2>1 DEF SetCheckpoint, TypeOK
  <1>4. ASSUME NEW on \in {"children", "human"}, NEW n \in MaybeNotes,
               BlockTask(a, t, on, n)
        PROVE  TypeOK'
    <2>1. Noted(task[t], n) \in TaskRows
      BY <1>0, NotedRow
    <2>2. [Noted(task[t], n) EXCEPT !.state = "blocked", !.blocked_on = on,
                                    !.leased = FALSE] \in TaskRows
      BY <2>1 DEF TaskRows, States, Open
    <2>. QED
      BY <1>4, <2>2 DEF BlockTask, TypeOK
  <1>. QED
    BY <1>1, <1>2, <1>3, <1>4 DEF AgentCommand

(* What a person types. *)
LEMMA PersonType ==
    ASSUME TypeOK, NEW t \in Tasks, PersonCommand(t)
    PROVE  TypeOK'
  <1>0. task[t] \in TaskRows
    BY DEF TypeOK
  <1>1. ASSUME NEW to \in Agents \cup {Nobody}, CreateTask(t, to) PROVE TypeOK'
    <2>1. NoTask \in TaskRows
      BY DEF NoTask, TaskRows, States, FailReasons, MaybeNotes
    <2>2. MaxAttempts \in Nat /\ MaxContinuations \in Nat
      BY ConstantsAssumption
    <2>3. [NoTask EXCEPT !.state = "submitted", !.assigned_to = to,
                         !.max_attempts = MaxAttempts,
                         !.max_continuations = MaxContinuations] \in TaskRows
      BY <2>1, <2>2 DEF TaskRows, States, Open
    <2>. QED
      BY <1>1, <2>3 DEF CreateTask, TypeOK
  <1>2. CASE CancelTask(t)
    <2>1. [task[t] EXCEPT !.state = "canceled", !.blocked_on = ""] \in TaskRows
      BY <1>0 DEF TaskRows, States, Terminal
    <2>2. task' = [task EXCEPT ![t] = [task[t] EXCEPT !.state = "canceled",
                                                     !.blocked_on = ""]]
      BY <1>2 DEF CancelTask, TypeOK
    <2>. QED
      BY <1>2, <2>1, <2>2 DEF CancelTask, TypeOK
  <1>3. ASSUME NEW n \in MaybeNotes, UnblockTask(t, n) PROVE TypeOK'
    <2>1. [task[t] EXCEPT !.state = "submitted", !.blocked_on = "", !.leased = FALSE,
                          !.checkpoint = n] \in TaskRows
      BY <1>0 DEF TaskRows, States, Open
    <2>. QED
      BY <1>3, <2>1 DEF UnblockTask, TypeOK
  <1>4. CASE ResumeTask(t)
    <2>1. Granted(task[t]) \in TaskRows
      BY <1>0, GrantedRow
    <2>2. [Granted(task[t]) EXCEPT !.state = "submitted", !.fail_reason = "",
                                   !.leased = FALSE] \in TaskRows
      BY <2>1 DEF TaskRows, States, Open, FailReasons
    <2>3. resumes' \in 0..MaxResumes
      BY <1>4, BoundsStep DEF ResumeTask
    <2>. QED
      BY <1>4, <2>2, <2>3 DEF ResumeTask, TypeOK
  <1>. QED
    BY <1>1, <1>2, <1>3, <1>4 DEF PersonCommand

(* Sweeps, and a lease running out. *)
LEMMA SweepType ==
    ASSUME TypeOK, NEW t \in Tasks, Sweep(t) \/ LapseLease(t)
    PROVE  TypeOK'
  <1>0. task[t] \in TaskRows
    BY DEF TypeOK
  <1>1. CASE ReapExhausted(t)
    <2>1. [task[t] EXCEPT !.state = "failed", !.fail_reason = "exhausted"] \in TaskRows
      BY <1>0 DEF TaskRows, States, Terminal, FailReasons
    <2>2. task' = [task EXCEPT ![t] = [task[t] EXCEPT !.state = "failed",
                                                      !.fail_reason = "exhausted"]]
      BY <1>1 DEF ReapExhausted, TypeOK
    <2>. QED
      BY <1>1, <2>1, <2>2 DEF ReapExhausted, TypeOK
  <1>2. CASE RelaxDeadAssignments(t)
    <2>1. [task[t] EXCEPT !.assigned_to = Nobody] \in TaskRows
      BY <1>0 DEF TaskRows
    <2>. QED
      BY <1>2, <2>1 DEF RelaxDeadAssignments, TypeOK
  <1>3. ASSUME NEW stalled \in BOOLEAN, NEW n \in Notes, WakeParents(t, stalled, n)
        PROVE  TypeOK'
    <2>1. Woken(task[t], n) \in TaskRows /\ Stalled(task[t], n) \in TaskRows
      BY <1>0, PersonRows DEF MaybeNotes
    <2>. QED
      BY <1>3, <2>1 DEF WakeParents, TypeOK
  <1>4. CASE LapseLease(t)
    <2>1. [task[t] EXCEPT !.leased = FALSE] \in TaskRows
      BY <1>0 DEF TaskRows
    <2>2. outages' \in 0..MaxOutages
      BY <1>4, BoundsStep DEF LapseLease, TypeOK
    <2>. QED
      BY <1>4, <2>1, <2>2 DEF LapseLease, TypeOK
  <1>. QED
    BY <1>1, <1>2, <1>3, <1>4 DEF Sweep

LEMMA ClaimType ==
    ASSUME TypeOK, NEW a \in Agents, NEW r \in Runs, NEW t \in Tasks,
           ClaimTask(a, r, t)
    PROVE  TypeOK'
  <1>1. Claimed(task[t], a) \in TaskRows
    BY ClaimedRow DEF TypeOK
  <1>2. task[t].attempts \in Nat /\ task[t].checkpoint \in MaybeNotes
    BY DEF TypeOK, TaskRows
  <1>3. task[t].attempts + 1 \in Nat
    BY <1>2
  <1>4. [task |-> t, agent |-> a, attempt |-> task[t].attempts + 1,
         liveness |-> "unrecorded"] \in RunRows
    BY <1>3 DEF RunRows
  <1>5. [NoProc EXCEPT !.phase = "claimed", !.before = task[t].checkpoint] \in Procs
    <2>1. NoProc \in Procs
      BY DEF NoProc, Procs, NoOutcome, RunOutcomes, Livenesses, MaybeNotes
    <2>. QED
      BY <1>2, <2>1 DEF Procs
  <1>. QED
    BY <1>1, <1>4, <1>5 DEF ClaimTask, TypeOK, RunsOf

(* A run's process, and the sweep of its ledger row. *)
LEMMA RunType ==
    ASSUME TypeOK, RowsAreOwned, NEW r \in Runs, RunStep(r)
    PROVE  TypeOK'
  <1>. DEFINE t == run[r].task
  <1>0. NoProc \in Procs
    BY DEF NoProc, Procs, NoOutcome, RunOutcomes, Livenesses, MaybeNotes
  <1>1. Alive(r) => t \in Tasks /\ task[t] \in TaskRows /\ run[r].agent \in Agents \cup {Nobody}
    BY DEF RowsAreOwned, TypeOK, RunRows
  <1>2. CASE StartRun(r)
    <2>1. [proc[r] EXCEPT !.phase = "running"] \in Procs
      BY DEF TypeOK, Procs
    <2>2. [run[r] EXCEPT !.liveness = "running"] \in RunRows
      BY DEF TypeOK, RunRows
    <2>. QED
      BY <1>2, <2>1, <2>2 DEF StartRun, TypeOK
  <1>3. CASE StartRunFails(r) \/ FinishRunFails(r)
    <2>1. Alive(r)
      BY <1>3 DEF StartRunFails, FinishRunFails, Alive
    <2>2. outages' \in 0..MaxOutages
      BY <1>3, BoundsStep DEF StartRunFails, FinishRunFails
    <2>3. run' \in [Runs -> RunRows] /\ superseded' \subseteq Runs
      BY <1>3, ReleasedType DEF StartRunFails, FinishRunFails
    <2>. QED
      BY <1>0, <1>1, <1>3, <2>1, <2>2, <2>3 DEF StartRunFails, FinishRunFails, TypeOK
  <1>4. CASE RenewLease(r)
    <2>1. [task[t] EXCEPT !.leased = TRUE] \in TaskRows
      BY <1>1, <1>4 DEF RenewLease, TaskRows
    <2>2. [proc[r] EXCEPT !.cause = "canceled"] \in Procs
      BY DEF TypeOK, Procs
    <2>. QED
      BY <1>1, <1>4, <2>1, <2>2 DEF RenewLease, TypeOK
  <1>5. CASE RenewError(r) \/ RunCap(r)
    <2>1. /\ [proc[r] EXCEPT !.cause = "canceled"] \in Procs
          /\ [proc[r] EXCEPT !.cause = "deadline"] \in Procs
      BY DEF TypeOK, Procs
    <2>2. outages' \in 0..MaxOutages
      BY <1>5, BoundsStep DEF RenewError, RunCap, TypeOK
    <2>. QED
      BY <1>5, <2>1, <2>2 DEF RenewError, RunCap, TypeOK
  <1>6. CASE Returned(r)
    <2>. PICK reloaded \in BOOLEAN, reply \in {"text", "empty", "todo", "error"},
              bar \in {"none", "unset", "set"} : ReadOutcome(r, reloaded, reply, bar)
      BY <1>6 DEF Returned
    <2>. DEFINE o == Classify(task[t], proc[r], reloaded, reply, bar)
    <2>1. o \in RunOutcomes
      BY <1>1, ClassifyOutcome DEF ReadOutcome, Alive, TypeOK
    <2>. HIDE DEF o
    <2>2. [NoProc EXCEPT !.phase = "closing", !.outcome = o] \in Procs
      BY <1>0, <2>1 DEF Procs
    <2>3. outages' \in 0..MaxOutages
      BY BoundsStep DEF ReadOutcome, TypeOK
    <2>. QED
      BY <2>2, <2>3 DEF ReadOutcome, TypeOK, o
  <1>7. CASE Closed(r)
    <2>. PICK spent \in BOOLEAN : FinishRun(r, spent)
      BY <1>7 DEF Closed
    <2>. DEFINE o == proc[r].outcome
    <2>0. t \in Tasks /\ task[t] \in TaskRows
      BY <1>1 DEF FinishRun, Alive
    <2>1. o \in RunOutcomes
      BY DEF TypeOK, Procs
    <2>2. task[t].empties \in Nat
      BY <2>0 DEF TaskRows
    <2>3. task[t].empties + 1 \in Nat
      BY <2>2
    <2>4. [task[t] EXCEPT !.empties = @ + 1] \in TaskRows
      BY <2>0, <2>3 DEF TaskRows
    <2>5. CountedEmpty(t, o) \in [Tasks -> TaskRows]
      BY <2>0, <2>4 DEF CountedEmpty, TypeOK
    <2>6. Moved(task[t], o, run[r].agent, spent) \in TaskRows
      <3>1. run[r].agent \in Agents \cup {Nobody}
        BY DEF TypeOK, RunRows
      <3>. QED
        BY <2>0, <2>1, <3>1, MovedRow
    <2>7. task' \in [Tasks -> TaskRows]
      BY <2>0, <2>5, <2>6 DEF FinishRun, TypeOK
    <2>8. run' \in [Runs -> RunRows] /\ superseded' \subseteq Runs
      BY ReleasedType DEF FinishRun
    <2>. QED
      BY <1>0, <2>7, <2>8 DEF FinishRun, TypeOK
  <1>8. CASE ReapOrphanRuns(r)
    <2>1. [run[r] EXCEPT !.liveness = "lost"] \in RunRows
      BY DEF TypeOK, RunRows
    <2>2. run' \in [Runs -> RunRows] /\ superseded' \subseteq Runs
      BY <1>8, <2>1, ReleasedType DEF ReapOrphanRuns, TypeOK
    <2>. QED
      BY <1>8, <2>2 DEF ReapOrphanRuns, TypeOK
  <1>. QED
    BY <1>2, <1>3, <1>4, <1>5, <1>6, <1>7, <1>8 DEF RunStep

(* The gateway's process. *)
LEMMA GatewayType ==
    ASSUME TypeOK, RowsAreOwned, NEW a \in Agents, GatewayStep(a)
    PROVE  TypeOK'
  <1>0. NoProc \in Procs
    BY DEF NoProc, Procs, NoOutcome, RunOutcomes, Livenesses, MaybeNotes
  <1>1. CASE Shutdown(a)
    <2>1. \A r \in Runs : [proc[r] EXCEPT !.cause = "canceled"] \in Procs
      BY DEF TypeOK, Procs
    <2>2. outages' \in 0..MaxOutages
      BY <1>1, BoundsStep DEF Shutdown
    <2>. QED
      BY <1>1, <2>1, <2>2 DEF Shutdown, TypeOK
  <1>2. CASE Crash(a) \/ Stopped(a)
    <2>1. Exit(a)
      BY <1>2 DEF Crash, Stopped
    <2>2. outages' \in 0..MaxOutages
      BY <1>2, BoundsStep DEF Crash, Stopped, TypeOK
    <2>3. run' \in [Runs -> RunRows] /\ superseded' \subseteq Runs
      BY <2>1, ReleasedType DEF Exit
    <2>4. {run[r].task : r \in ProcsOf(a)} \subseteq Tasks
      BY DEF ProcsOf, RowsAreOwned
    <2>. QED
      BY <1>0, <2>1, <2>2, <2>3, <2>4 DEF Exit, TypeOK
  <1>3. CASE Restart(a) \/ StartServing(a)
    BY <1>3 DEF Restart, StartServing, TypeOK
  <1>4. CASE RequeueInterrupted(a)
    <2>. DEFINE r == requeue[a]
    <2>1. r \in Runs /\ run[r].task \in Tasks
      BY <1>4 DEF RequeueInterrupted, RowsAreOwned
    <2>2. Requeued(task[run[r].task]) \in TaskRows
      BY <2>1, RequeuedRow DEF TypeOK
    <2>3. run' \in [Runs -> RunRows] /\ superseded' \subseteq Runs
      BY <1>4, ReleasedType DEF RequeueInterrupted
    <2>. QED
      BY <1>4, <2>1, <2>2, <2>3 DEF RequeueInterrupted, TypeOK
  <1>5. ASSUME NEW r \in Runs, CloseInterrupted(a, r) PROVE TypeOK'
    <2>1. [run[r] EXCEPT !.liveness = "interrupted"] \in RunRows
      BY DEF TypeOK, RunRows
    <2>2. run' \in [Runs -> RunRows]
      <3>1. CASE run[r].liveness = "running"
        <4>1. run' = [run EXCEPT ![r] = [run[r] EXCEPT !.liveness = "interrupted"]]
          BY <1>5, <3>1 DEF CloseInterrupted, TypeOK
        <4>. QED
          BY <2>1, <4>1 DEF TypeOK
      <3>2. CASE run[r].liveness # "running"
        <4>1. [run[r] EXCEPT !.liveness = run[r].liveness] = run[r]
          BY DEF TypeOK, RunRows
        <4>2. run' = [run EXCEPT ![r] = run[r]]
          BY <1>5, <3>2, <4>1 DEF CloseInterrupted, TypeOK
        <4>. QED
          BY <4>2 DEF TypeOK
      <3>. QED
        BY <3>1, <3>2
    <2>. QED
      BY <1>5, <2>2 DEF CloseInterrupted, TypeOK
  <1>. QED
    BY <1>1, <1>2, <1>3, <1>4, <1>5 DEF GatewayStep

LEMMA TypeStep == TypeOK /\ RowsAreOwned /\ [Next]_vars => TypeOK'
  <1>. SUFFICES ASSUME TypeOK, RowsAreOwned, [Next]_vars PROVE TypeOK'
    OBVIOUS
  <1>1. CASE UNCHANGED vars
    BY <1>1 DEF vars, TypeOK
  <1>2. ASSUME NEW a \in Agents, NEW t \in Tasks, AgentCommand(a, t) PROVE TypeOK'
    BY <1>2, AgentType
  <1>3. ASSUME NEW a \in Agents, NEW r \in Runs, NEW t \in Tasks, ClaimTask(a, r, t)
        PROVE  TypeOK'
    BY <1>3, ClaimType
  <1>4. ASSUME NEW t \in Tasks, PersonCommand(t) PROVE TypeOK'
    BY <1>4, PersonType
  <1>5. ASSUME NEW t \in Tasks, Sweep(t) \/ LapseLease(t) PROVE TypeOK'
    BY <1>5, SweepType
  <1>6. ASSUME NEW r \in Runs, RunStep(r) PROVE TypeOK'
    BY <1>6, RunType
  <1>7. ASSUME NEW a \in Agents, GatewayStep(a) PROVE TypeOK'
    BY <1>7, GatewayType
  <1>. QED
    BY <1>1, <1>2, <1>3, <1>4, <1>5, <1>6, <1>7 DEF Next

----------------------------------------------------------------------------
(* The tokens.  Seen from the fence a step does one of three things: it       *)
(* leaves every token alone, it claims a task, pushing attempts above every   *)
(* token handed out for it, or the holder leaves and takes its token back.    *)

LedgerInvariant == TypeOK /\ RowsAreOwned /\ TokensDistinct /\ AttemptsCoverRuns

Steady(new, old) ==
    /\ new.attempts = old.attempts
    /\ new.state = "working" => old.state = "working"
    /\ new.state = "absent" => old.state = "absent"

RowKept(r) ==
    /\ run'[r].task = run[r].task /\ run'[r].agent = run[r].agent
    /\ run'[r].attempt = run[r].attempt
    /\ run'[r].liveness = "unused" <=> run[r].liveness = "unused"
    /\ r \in superseded' => r \in superseded
    /\ Alive(r)' => Alive(r)

RowFreed(r) == run'[r] = FreeRow /\ r \notin superseded' /\ ~Alive(r)'

RowsQuiet == \A r \in Runs : RowKept(r) \/ RowFreed(r)
Quiet     == RowsQuiet /\ \A t \in Tasks : Steady(task'[t], task[t])

Refund(r) ==
    /\ Fenced(r) /\ RowFreed(r) /\ RowsQuiet
    /\ LET t == run[r].task IN
       /\ task'[t].state \notin {"working", "absent"}
       /\ task[t].attempts - 1 <= task'[t].attempts
       /\ \A u \in Tasks \ {t} : Steady(task'[u], task[u])

Claim(t) ==
    /\ task'[t].state = "working"
    /\ task'[t].attempts = task[t].attempts + 1
    /\ \A u \in Tasks \ {t} : Steady(task'[u], task[u])
    /\ superseded' = superseded \cup RunsOf(t)
    /\ \A r \in Runs :
         \/ run'[r] = run[r] /\ (Alive(r)' => Alive(r))
         \/ /\ run[r].liveness = "unused" /\ run'[r].liveness # "unused"
            /\ run'[r].task = t /\ run'[r].attempt = task'[t].attempts
            /\ \A s \in Runs \ {r} : run'[s] = run[s]

(* The part of RowsAreOwned no gateway has a say in. *)
RowsNamed ==
    /\ \A t \in Tasks : task[t].state = "absent" => task[t].attempts = 0
    /\ \A r \in Runs : run[r].liveness = "unused" <=> run[r].task = Nobody
    /\ \A r \in Runs : Alive(r) \/ r \in superseded => run[r].task \in Tasks

LEMMA Counts ==
    ASSUME TypeOK
    PROVE  /\ \A r \in Runs : run[r].attempt \in Nat /\ run[r].task \in Tasks \cup {Nobody}
           /\ \A t \in Tasks : task[t].attempts \in Nat
  BY DEF TypeOK, TaskRows, RunRows

LEMMA QuietTokens ==
    ASSUME LedgerInvariant, Quiet, TypeOK'
    PROVE  (RowsNamed /\ TokensDistinct /\ AttemptsCoverRuns)'
  <1>1. /\ \A r \in Runs : run[r].attempt \in Nat
        /\ \A t \in Tasks : task[t].attempts \in Nat
    BY Counts DEF LedgerInvariant
  <1>2. \A r \in Runs : run'[r].task \in Tasks => RowKept(r)
    BY ConstantsAssumption DEF Quiet, RowsQuiet, RowFreed, FreeRow
  <1>3. RowsNamed'
    BY ConstantsAssumption
    DEF LedgerInvariant, RowsAreOwned, RowsNamed, Quiet, RowsQuiet, RowKept,
        RowFreed, FreeRow, Steady
  <1>4. TokensDistinct'
    BY <1>2 DEF LedgerInvariant, TokensDistinct, RowKept
  <1>5. AttemptsCoverRuns'
    BY <1>1, <1>2 DEF LedgerInvariant, AttemptsCoverRuns, RowKept, Quiet, Steady
  <1>. QED
    BY <1>3, <1>4, <1>5

(* The holder's token is the highest one handed out for its task, so when it *)
(* leaves with it the others are still covered.                              *)
LEMMA RefundTokens ==
    ASSUME LedgerInvariant, NEW r \in Runs, Refund(r), TypeOK'
    PROVE  (RowsNamed /\ TokensDistinct /\ AttemptsCoverRuns)'
  <1>. DEFINE t == run[r].task
  <1>1. /\ \A s \in Runs : run[s].attempt \in Nat
        /\ \A u \in Tasks : task[u].attempts \in Nat /\ task'[u].attempts \in Nat
    <2>1. \A u \in Tasks : task'[u].attempts \in Nat
      BY DEF TypeOK, TaskRows
    <2>. QED
      BY <2>1, Counts DEF LedgerInvariant
  <1>2. \A s \in Runs : run'[s].task \in Tasks => RowKept(s) /\ s # r
    BY ConstantsAssumption DEF Refund, RowsQuiet, RowFreed, FreeRow
  <1>3. t \in Tasks /\ task[t].attempts = run[r].attempt
    BY DEF Refund, Fenced, Holds
  <1>4. RowsNamed'
    <2>1. \A u \in Tasks : task'[u].state = "absent" => task'[u].attempts = 0
      BY <1>3 DEF Refund, Steady, LedgerInvariant, RowsAreOwned
    <2>. QED
      BY <2>1, ConstantsAssumption
      DEF LedgerInvariant, RowsAreOwned, RowsNamed, Refund, RowsQuiet, RowKept,
          RowFreed, FreeRow
  <1>5. TokensDistinct'
    BY <1>2 DEF LedgerInvariant, TokensDistinct, RowKept
  <1>6. ASSUME NEW s \in Runs, run'[s].task \in Tasks
        PROVE  LET u == task'[run'[s].task] IN
               /\ 0 < run'[s].attempt /\ run'[s].attempt <= u.attempts
               /\ s \in superseded' /\ u.state = "working" => run'[s].attempt < u.attempts
    <2>1. RowKept(s) /\ s # r /\ run[s].task \in Tasks
      BY <1>2, <1>6 DEF RowKept
    <2>2. 0 < run[s].attempt /\ run[s].attempt <= task[run[s].task].attempts
      BY <2>1 DEF LedgerInvariant, AttemptsCoverRuns
    <2>3. CASE run[s].task = t
      <3>1. run[s].attempt # run[r].attempt
        BY <1>3, <2>1, <2>3 DEF LedgerInvariant, TokensDistinct
      <3>2. run[s].attempt <= task[t].attempts - 1
        BY <1>1, <1>3, <2>2, <2>3, <3>1
      <3>3. task[t].attempts - 1 <= task'[t].attempts /\ task'[t].state # "working"
        BY DEF Refund
      <3>4. run[s].attempt <= task'[t].attempts
        BY <1>1, <1>3, <3>2, <3>3
      <3>. QED
        BY <2>1, <2>2, <2>3, <3>3, <3>4 DEF RowKept
    <2>4. CASE run[s].task # t
      <3>1. Steady(task'[run[s].task], task[run[s].task])
        BY <2>1, <2>4 DEF Refund
      <3>. QED
        BY <2>1, <2>2, <3>1 DEF LedgerInvariant, AttemptsCoverRuns, RowKept, Steady
    <2>. QED
      BY <2>3, <2>4
  <1>7. AttemptsCoverRuns'
    BY <1>6 DEF AttemptsCoverRuns
  <1>. QED
    BY <1>4, <1>5, <1>7

(* A claim's token is above every token handed out before it. *)
LEMMA ClaimTokens ==
    ASSUME LedgerInvariant, NEW t \in Tasks, Claim(t), TypeOK'
    PROVE  (RowsNamed /\ TokensDistinct /\ AttemptsCoverRuns)'
  <1>. DEFINE new(r) == /\ run[r].liveness = "unused" /\ run'[r].liveness # "unused"
                        /\ run'[r].task = t /\ run'[r].attempt = task'[t].attempts
                        /\ \A s \in Runs \ {r} : run'[s] = run[s]
  <1>1. /\ \A s \in Runs : run[s].attempt \in Nat
        /\ \A u \in Tasks : task[u].attempts \in Nat
    BY Counts DEF LedgerInvariant
  <1>2. \A s \in Runs : run'[s] = run[s] \/ new(s)
    BY DEF Claim
  <1>3. \A s \in Runs : run[s].task = t => run[s].attempt < task'[t].attempts
    <2>1. \A s \in Runs : run[s].task = t => run[s].attempt <= task[t].attempts
      BY DEF LedgerInvariant, AttemptsCoverRuns
    <2>. QED
      BY <1>1, <2>1 DEF Claim
  <1>4. RowsNamed'
    <2>1. \A u \in Tasks : task'[u].state = "absent" => task'[u].attempts = 0
      BY DEF Claim, Steady, LedgerInvariant, RowsAreOwned
    <2>2. \A s \in Runs : run'[s].liveness = "unused" <=> run'[s].task = Nobody
      BY <1>2, ConstantsAssumption DEF LedgerInvariant, RowsAreOwned
    <2>3. \A s \in Runs : Alive(s)' \/ s \in superseded' => run'[s].task \in Tasks
      BY <1>2, ConstantsAssumption DEF LedgerInvariant, RowsAreOwned, Claim, RunsOf
    <2>. QED
      BY <2>1, <2>2, <2>3 DEF RowsNamed
  <1>5. TokensDistinct'
    <2>. SUFFICES ASSUME NEW r \in Runs, NEW s \in Runs, r # s,
                         run'[r].task = run'[s].task, run'[r].task \in Tasks
                  PROVE  run'[r].attempt # run'[s].attempt
      BY DEF TokensDistinct
    <2>1. CASE run'[r] = run[r] /\ run'[s] = run[s]
      BY <2>1 DEF LedgerInvariant, TokensDistinct
    <2>2. CASE new(r)
      <3>1. run'[s] = run[s] /\ run[s].task = t /\ run'[r].attempt = task'[t].attempts
        BY <2>2
      <3>. QED
        BY <1>1, <1>3, <3>1 DEF Claim
    <2>3. CASE new(s)
      <3>1. run'[r] = run[r] /\ run[r].task = t /\ run'[s].attempt = task'[t].attempts
        BY <2>3
      <3>. QED
        BY <1>1, <1>3, <3>1 DEF Claim
    <2>. QED
      BY <1>2, <2>1, <2>2, <2>3
  <1>6. ASSUME NEW s \in Runs, run'[s].task \in Tasks
        PROVE  LET u == task'[run'[s].task] IN
               /\ 0 < run'[s].attempt /\ run'[s].attempt <= u.attempts
               /\ s \in superseded' /\ u.state = "working" => run'[s].attempt < u.attempts
    <2>1. CASE new(s)
      <3>1. s \notin superseded'
        <4>1. run[s].task \notin Tasks
          BY <2>1, ConstantsAssumption DEF LedgerInvariant, RowsAreOwned
        <4>. QED
          BY <4>1 DEF Claim, RunsOf, LedgerInvariant, RowsAreOwned
      <3>2. 0 < task'[t].attempts /\ task'[t].attempts <= task'[t].attempts
        BY <1>1 DEF Claim
      <3>. QED
        BY <2>1, <3>1, <3>2
    <2>2. CASE run'[s] = run[s] /\ run[s].task = t
      <3>1. 0 < run[s].attempt /\ run[s].attempt < task'[t].attempts
        BY <1>3, <2>2 DEF LedgerInvariant, AttemptsCoverRuns
      <3>2. run[s].attempt <= task'[t].attempts
        BY <1>1, <3>1 DEF Claim
      <3>. QED
        BY <2>2, <3>1, <3>2
    <2>3. CASE run'[s] = run[s] /\ run[s].task # t
      <3>1. run[s].task \in Tasks /\ Steady(task'[run[s].task], task[run[s].task])
        BY <1>6, <2>3 DEF Claim
      <3>2. s \in superseded' => s \in superseded
        BY <2>3 DEF Claim, RunsOf
      <3>. QED
        BY <2>3, <3>1, <3>2 DEF LedgerInvariant, AttemptsCoverRuns, Steady
    <2>. QED
      BY <1>2, <2>1, <2>2, <2>3
  <1>7. AttemptsCoverRuns'
    BY <1>6 DEF AttemptsCoverRuns
  <1>. QED
    BY <1>4, <1>5, <1>7

(* The part of RowsAreOwned that is about gateways going down and coming back.*)
RowsGivenBack ==
    /\ \A a \in Agents : gateway[a] \in {"down", "starting"} => ProcsOf(a) = {}
    /\ \A a \in Agents : requeue[a] \notin found[a]
    /\ \A a \in Agents, r \in Runs : r \in found[a] \/ requeue[a] = r =>
          /\ run[r].agent = a /\ run[r].task \in Tasks
          /\ ~Alive(r) /\ gateway[a] = "starting"

Recovering(r) == \E a \in Agents : r \in found[a] \/ requeue[a] = r

LEMMA OwnedParts == RowsAreOwned <=> RowsNamed /\ RowsGivenBack
  BY DEF RowsAreOwned, RowsNamed, RowsGivenBack

LEMMA KeptGivenBack ==
    ASSUME RowsGivenBack, UNCHANGED <<gateway, found, requeue>>,
           \A r \in Runs : RowKept(r) \/ (RowFreed(r) /\ ~Recovering(r))
    PROVE  RowsGivenBack'
  <1>1. \A r \in Runs : Recovering(r) => RowKept(r)
    OBVIOUS
  <1>2. \A a \in Agents : ProcsOf(a)' \subseteq ProcsOf(a)
    BY DEF ProcsOf, RowKept, RowFreed
  <1>3. ASSUME NEW a \in Agents, NEW r \in Runs, r \in found'[a] \/ requeue'[a] = r
        PROVE  /\ run'[r].agent = a /\ run'[r].task \in Tasks
               /\ ~Alive(r)' /\ gateway'[a] = "starting"
    <2>1. Recovering(r)
      BY <1>3 DEF Recovering
    <2>. QED
      BY <1>1, <1>3, <2>1 DEF RowsGivenBack, RowKept
  <1>. QED
    BY <1>2, <1>3 DEF RowsGivenBack

(* A step that writes columns of `tasks` the fence does not raise. *)
LEMMA TaskOnlyStep ==
    ASSUME LedgerInvariant, TypeOK', UNCHANGED <<run, gateway, found, requeue, superseded>>,
           \A r \in Runs : Alive(r)' => Alive(r),
           \A t \in Tasks : Steady(task'[t], task[t])
    PROVE  LedgerInvariant'
  <1>1. \A r \in Runs : RowKept(r)
    BY DEF RowKept
  <1>2. Quiet
    BY <1>1 DEF Quiet, RowsQuiet
  <1>3. RowsGivenBack'
    BY <1>1, OwnedParts, KeptGivenBack DEF LedgerInvariant
  <1>4. (RowsNamed /\ TokensDistinct /\ AttemptsCoverRuns)'
    BY <1>2, QuietTokens
  <1>. QED
    BY <1>3, <1>4, OwnedParts, PTL DEF LedgerInvariant

LEMMA AgentStep ==
    ASSUME LedgerInvariant, TypeOK', NEW a \in Agents, NEW t \in Tasks, AgentCommand(a, t)
    PROVE  LedgerInvariant'
  <1>0. task[t] \in TaskRows
    BY DEF LedgerInvariant, TypeOK
  <1>1. CASE CliClaim(a, t)
    <2>1. Claimed(task[t], a).state = "working"
          /\ Claimed(task[t], a).attempts = task[t].attempts + 1
      BY <1>0, ClaimedRow
    <2>2. Claim(t)
      BY <1>1, <2>1 DEF CliClaim, Claim, Steady, LedgerInvariant, TypeOK, Alive
    <2>3. RowsGivenBack'
      BY <1>1, OwnedParts DEF CliClaim, LedgerInvariant, RowsGivenBack, ProcsOf, Alive
    <2>4. (RowsNamed /\ TokensDistinct /\ AttemptsCoverRuns)'
      BY <2>2, ClaimTokens
    <2>. QED
      BY <2>3, <2>4, OwnedParts, PTL DEF LedgerInvariant
  <1>2. ASSUME NEW s \in Verdicts, FinishTask(a, t, s) PROVE LedgerInvariant'
    <2>1. s \notin {"working", "absent"}
      BY ConstantsAssumption
    <2>2. LET row == [task[t] EXCEPT !.state = s]
          IN row.attempts = task[t].attempts /\ row.state = s
      BY <1>0 DEF TaskRows
    <2>3. \A u \in Tasks : Steady(task'[u], task[u])
      BY <1>2, <2>1, <2>2 DEF FinishTask, Steady, LedgerInvariant, TypeOK
    <2>. QED
      BY <1>2, <2>3, TaskOnlyStep DEF FinishTask, Alive
  <1>3. ASSUME NEW n \in Notes, SetCheckpoint(a, t, n) PROVE LedgerInvariant'
    <2>1. LET row == [task[t] EXCEPT !.checkpoint = n]
          IN row.attempts = task[t].attempts /\ row.state = task[t].state
      BY <1>0 DEF TaskRows
    <2>2. \A u \in Tasks : Steady(task'[u], task[u])
      BY <1>3, <2>1 DEF SetCheckpoint, Steady, LedgerInvariant, TypeOK
    <2>. QED
      BY <1>3, <2>2, TaskOnlyStep DEF SetCheckpoint, Alive
  <1>4. ASSUME NEW on \in {"children", "human"}, NEW n \in MaybeNotes,
               BlockTask(a, t, on, n)
        PROVE  LedgerInvariant'
    <2>1. Noted(task[t], n) \in TaskRows /\ Noted(task[t], n).attempts = task[t].attempts
      BY <1>0, NotedRow
    <2>2. \A u \in Tasks : Steady(task'[u], task[u])
      BY <1>4, <2>1 DEF BlockTask, Steady, LedgerInvariant, TypeOK, TaskRows
    <2>. QED
      BY <1>4, <2>2, TaskOnlyStep DEF BlockTask, Alive
  <1>. QED
    BY <1>1, <1>2, <1>3, <1>4 DEF AgentCommand

LEMMA PersonStep ==
    ASSUME LedgerInvariant, TypeOK', NEW t \in Tasks, PersonCommand(t)
    PROVE  LedgerInvariant'
  <1>0. task[t] \in TaskRows
    BY DEF LedgerInvariant, TypeOK
  <1>1. ASSUME NEW to \in Agents \cup {Nobody}, CreateTask(t, to) PROVE LedgerInvariant'
    <2>1. task[t].attempts = 0
      BY <1>1 DEF CreateTask, LedgerInvariant, RowsAreOwned
    <2>2. task'[t].attempts = 0 /\ task'[t].state = "submitted"
      BY <1>1 DEF CreateTask, NoTask, LedgerInvariant, TypeOK
    <2>3. \A u \in Tasks : Steady(task'[u], task[u])
      BY <1>1, <2>1, <2>2 DEF CreateTask, Steady, LedgerInvariant, TypeOK
    <2>. QED
      BY <1>1, <2>3, TaskOnlyStep DEF CreateTask, Alive
  <1>2. CASE CancelTask(t)
    <2>1. LET row == [task[t] EXCEPT !.state = "canceled", !.blocked_on = ""]
          IN row.attempts = task[t].attempts /\ row.state = "canceled"
      BY <1>0 DEF TaskRows
    <2>2. \A u \in Tasks : Steady(task'[u], task[u])
      BY <1>2, <2>1 DEF CancelTask, Steady, LedgerInvariant, TypeOK
    <2>. QED
      BY <1>2, <2>2, TaskOnlyStep DEF CancelTask, Alive
  <1>3. ASSUME NEW n \in MaybeNotes, UnblockTask(t, n) PROVE LedgerInvariant'
    <2>1. LET row == [task[t] EXCEPT !.state = "submitted", !.blocked_on = "",
                                     !.leased = FALSE, !.checkpoint = n]
          IN row.attempts = task[t].attempts /\ row.state = "submitted"
      BY <1>0 DEF TaskRows
    <2>2. \A u \in Tasks : Steady(task'[u], task[u])
      BY <1>3, <2>1 DEF UnblockTask, Steady, LedgerInvariant, TypeOK
    <2>. QED
      BY <1>3, <2>2, TaskOnlyStep DEF UnblockTask, Alive
  <1>4. CASE ResumeTask(t)
    <2>1. Granted(task[t]) \in TaskRows /\ Granted(task[t]).attempts = task[t].attempts
      BY <1>0, GrantedRow
    <2>2. \A u \in Tasks : Steady(task'[u], task[u])
      BY <1>4, <2>1 DEF ResumeTask, Steady, LedgerInvariant, TypeOK, TaskRows
    <2>. QED
      BY <1>4, <2>2, TaskOnlyStep DEF ResumeTask, Alive
  <1>. QED
    BY <1>1, <1>2, <1>3, <1>4 DEF PersonCommand

LEMMA SweepStep ==
    ASSUME LedgerInvariant, TypeOK', NEW t \in Tasks, Sweep(t) \/ LapseLease(t)
    PROVE  LedgerInvariant'
  <1>0. task[t] \in TaskRows
    BY DEF LedgerInvariant, TypeOK
  <1>1. CASE ReapExhausted(t)
    <2>1. LET row == [task[t] EXCEPT !.state = "failed", !.fail_reason = "exhausted"]
          IN row.attempts = task[t].attempts /\ row.state = "failed"
      BY <1>0 DEF TaskRows
    <2>2. \A u \in Tasks : Steady(task'[u], task[u])
      BY <1>1, <2>1 DEF ReapExhausted, Steady, LedgerInvariant, TypeOK
    <2>. QED
      BY <1>1, <2>2, TaskOnlyStep DEF ReapExhausted, Alive
  <1>2. CASE RelaxDeadAssignments(t)
    <2>1. LET row == [task[t] EXCEPT !.assigned_to = Nobody]
          IN row.attempts = task[t].attempts /\ row.state = task[t].state
      BY <1>0 DEF TaskRows
    <2>2. \A u \in Tasks : Steady(task'[u], task[u])
      BY <1>2, <2>1 DEF RelaxDeadAssignments, Steady, LedgerInvariant, TypeOK
    <2>. QED
      BY <1>2, <2>2, TaskOnlyStep DEF RelaxDeadAssignments, Alive
  <1>3. ASSUME NEW stalled \in BOOLEAN, NEW n \in Notes, WakeParents(t, stalled, n)
        PROVE  LedgerInvariant'
    <2>1. /\ Woken(task[t], n).state = "submitted"
          /\ Stalled(task[t], n).state = task[t].state
          /\ Woken(task[t], n).attempts = task[t].attempts
          /\ Stalled(task[t], n).attempts = task[t].attempts
      BY <1>0, PersonRows DEF MaybeNotes
    <2>2. \A u \in Tasks : Steady(task'[u], task[u])
      BY <1>3, <2>1 DEF WakeParents, Steady, LedgerInvariant, TypeOK
    <2>. QED
      BY <1>3, <2>2, TaskOnlyStep DEF WakeParents, Alive
  <1>4. CASE LapseLease(t)
    <2>1. LET row == [task[t] EXCEPT !.leased = FALSE]
          IN row.attempts = task[t].attempts /\ row.state = task[t].state
      BY <1>0 DEF TaskRows
    <2>2. \A u \in Tasks : Steady(task'[u], task[u])
      BY <1>4, <2>1 DEF LapseLease, Steady, LedgerInvariant, TypeOK
    <2>. QED
      BY <1>4, <2>2, TaskOnlyStep DEF LapseLease, Alive
  <1>. QED
    BY <1>1, <1>2, <1>3, <1>4 DEF Sweep

LEMMA ClaimStep ==
    ASSUME LedgerInvariant, TypeOK', NEW a \in Agents, NEW r \in Runs, NEW t \in Tasks,
           ClaimTask(a, r, t)
    PROVE  LedgerInvariant'
  <1>0. task[t] \in TaskRows /\ TypeOK
    BY DEF LedgerInvariant, TypeOK
  <1>1. Claimed(task[t], a).state = "working"
        /\ Claimed(task[t], a).attempts = task[t].attempts + 1
    BY <1>0, ClaimedRow
  <1>2. /\ run[r].liveness = "unused" /\ run'[r].liveness = "unrecorded"
        /\ run'[r].task = t /\ run'[r].agent = a
        /\ run'[r].attempt = task[t].attempts + 1
        /\ \A s \in Runs \ {r} : run'[s] = run[s] /\ proc'[s] = proc[s]
        /\ gateway[a] = "up" /\ UNCHANGED <<gateway, found, requeue>>
    BY <1>0 DEF ClaimTask, TypeOK
  <1>3. Claim(t)
    <2>1. task'[t].state = "working" /\ task'[t].attempts = task[t].attempts + 1
          /\ \A u \in Tasks \ {t} : task'[u] = task[u]
      BY <1>0, <1>1 DEF ClaimTask, TypeOK
    <2>2. superseded' = superseded \cup RunsOf(t)
      BY DEF ClaimTask
    <2>. QED
      BY <1>2, <2>1, <2>2 DEF Claim, Steady, Alive
  <1>4. (RowsNamed /\ TokensDistinct /\ AttemptsCoverRuns)'
    BY <1>3, ClaimTokens
  <1>5. RowsGivenBack'
    <2>1. RowsGivenBack /\ run[r].task = Nobody
      BY <1>2, OwnedParts DEF LedgerInvariant, RowsAreOwned
    <2>2. ~Recovering(r)
      BY <2>1, ConstantsAssumption DEF Recovering, RowsGivenBack
    <2>3. \A b \in Agents : gateway[b] \in {"down", "starting"} => ProcsOf(b)' = {}
      BY <1>2, <2>1 DEF RowsGivenBack, ProcsOf, Alive
    <2>. QED
      BY <1>2, <2>1, <2>2, <2>3 DEF RowsGivenBack, Recovering, Alive
  <1>. QED
    BY <1>0, <1>4, <1>5, OwnedParts, PTL DEF LedgerInvariant

(* A step of runs that leaves every token alone, or frees rows nobody is      *)
(* about to give back.                                                       *)
LEMMA QuietStep ==
    ASSUME LedgerInvariant, TypeOK', UNCHANGED <<gateway, found, requeue>>,
           \A r \in Runs : RowKept(r) \/ (RowFreed(r) /\ ~Recovering(r)),
           \A t \in Tasks : Steady(task'[t], task[t])
    PROVE  LedgerInvariant'
  <1>1. Quiet
    BY DEF Quiet, RowsQuiet
  <1>2. RowsGivenBack'
    BY OwnedParts, KeptGivenBack DEF LedgerInvariant
  <1>3. (RowsNamed /\ TokensDistinct /\ AttemptsCoverRuns)'
    BY <1>1, QuietTokens
  <1>. QED
    BY <1>2, <1>3, OwnedParts, PTL DEF LedgerInvariant

(* What Released does to the rows: the ones named are freed, the rest kept. *)
LEMMA ReleasedRows ==
    ASSUME NEW rs, Released(rs)
    PROVE  \A s \in Runs : IF s \in rs THEN run'[s] = FreeRow /\ s \notin superseded'
                           ELSE run'[s] = run[s] /\ (s \in superseded' => s \in superseded)
  BY DEF Released

LEMMA RunStepInv ==
    ASSUME LedgerInvariant, TypeOK', NEW r \in Runs, RunStep(r)
    PROVE  LedgerInvariant'
  <1>. DEFINE t == run[r].task
  <1>0. TypeOK /\ RowsGivenBack /\ RowsNamed /\ \A u \in Tasks : task[u] \in TaskRows
    BY OwnedParts DEF LedgerInvariant, TypeOK
  <1>a. Alive(r) => ~Recovering(r) /\ t \in Tasks /\ run[r].liveness # "unused"
    BY <1>0, ConstantsAssumption DEF RowsGivenBack, RowsNamed, Recovering
  <1>1. CASE StartRun(r)
    <2>1. Alive(r) /\ run'[r] = [run[r] EXCEPT !.liveness = "running"]
          /\ \A s \in Runs \ {r} : run'[s] = run[s] /\ proc'[s] = proc[s]
      BY <1>0, <1>1 DEF StartRun, Alive, TypeOK
    <2>2. run[r] \in RunRows
      BY <1>0 DEF TypeOK
    <2>3. \A s \in Runs : RowKept(s)
      BY <1>1, <1>a, <2>1, <2>2 DEF StartRun, RowKept, RunRows, Alive
    <2>. QED
      BY <1>1, <2>3, QuietStep DEF StartRun, Steady
  <1>2. CASE StartRunFails(r)
    <2>1. Alive(r) /\ Released({r}) /\ proc' = [proc EXCEPT ![r] = NoProc]
      BY <1>2 DEF StartRunFails, Alive
    <2>2. \A s \in Runs : RowKept(s) \/ (RowFreed(s) /\ ~Recovering(s))
      BY <1>0, <1>a, <2>1, ReleasedRows DEF RowKept, RowFreed, Alive, NoProc, TypeOK
    <2>. QED
      BY <1>2, <2>2, QuietStep DEF StartRunFails, Steady
  <1>3. CASE RenewLease(r)
    <2>1. Alive(r) /\ UNCHANGED <<run, gateway, found, requeue, superseded>>
      BY <1>3 DEF RenewLease
    <2>2. \A s \in Runs : RowKept(s)
      BY <1>0, <1>3, <2>1 DEF RenewLease, RowKept, Alive, TypeOK, Procs
    <2>3. LET row == [task[t] EXCEPT !.leased = TRUE]
          IN row.attempts = task[t].attempts /\ row.state = task[t].state
      BY <1>0, <1>a, <2>1 DEF TaskRows
    <2>4. \A u \in Tasks : Steady(task'[u], task[u])
      BY <1>0, <1>3, <1>a, <2>3 DEF RenewLease, Steady, TypeOK
    <2>. QED
      BY <2>1, <2>2, <2>4, QuietStep
  <1>4. CASE RenewError(r) \/ RunCap(r)
    <2>1. UNCHANGED <<task, run, gateway, found, requeue, superseded>> /\ Alive(r)
      BY <1>4 DEF RenewError, RunCap, Alive
    <2>2. \A s \in Runs : RowKept(s)
      BY <1>0, <1>4, <2>1 DEF RenewError, RunCap, RowKept, Alive, TypeOK, Procs
    <2>. QED
      BY <2>1, <2>2, QuietStep DEF Steady
  <1>5. CASE Returned(r)
    <2>1. /\ UNCHANGED <<task, run, gateway, found, requeue, superseded>> /\ Alive(r)
          /\ \A s \in Runs \ {r} : proc'[s] = proc[s]
      BY <1>0, <1>5 DEF Returned, ReadOutcome, Alive, TypeOK
    <2>2. \A s \in Runs : RowKept(s)
      BY <2>1 DEF RowKept, Alive
    <2>. QED
      BY <2>1, <2>2, QuietStep DEF Steady
  <1>6. CASE Closed(r)
    <2>. PICK spent \in BOOLEAN : FinishRun(r, spent)
      BY <1>6 DEF Closed
    <2>. DEFINE o == proc[r].outcome
    <2>1. Alive(r) /\ Released({r}) /\ proc' = [proc EXCEPT ![r] = NoProc]
          /\ UNCHANGED <<gateway, found, requeue>>
      BY DEF FinishRun, Alive
    <2>2. t \in Tasks /\ task[t] \in TaskRows
      BY <1>0, <1>a, <2>1
    <2>3. RowFreed(r) /\ \A s \in Runs : RowKept(s) \/ (RowFreed(s) /\ ~Recovering(s))
      BY <1>0, <1>a, <2>1, ReleasedRows DEF RowKept, RowFreed, Alive, NoProc, TypeOK
    <2>4. CASE task' = task \/ task' = CountedEmpty(t, o)
      <3>1. LET row == [task[t] EXCEPT !.empties = @ + 1]
            IN row.attempts = task[t].attempts /\ row.state = task[t].state
        BY <2>2 DEF TaskRows
      <3>2. \A u \in Tasks : Steady(task'[u], task[u])
        BY <1>0, <2>2, <2>4, <3>1 DEF CountedEmpty, Steady, TypeOK
      <3>. QED
        BY <2>1, <2>3, <3>2, QuietStep
    <2>5. CASE Fenced(r) /\ task' = [task EXCEPT ![t] = Moved(task[t], o, run[r].agent, spent)]
      <3>1. o \in RunOutcomes /\ run[r].agent \in Agents \cup {Nobody}
        BY <1>0 DEF TypeOK, Procs, RunRows
      <3>2. LET row == Moved(task[t], o, run[r].agent, spent)
            IN row.state \notin {"working", "absent"}
               /\ task[t].attempts - 1 <= row.attempts
        BY <2>2, <3>1, MovedRow
      <3>3. /\ task'[t].state \notin {"working", "absent"}
            /\ task[t].attempts - 1 <= task'[t].attempts
            /\ \A u \in Tasks \ {t} : task'[u] = task[u]
        BY <1>0, <2>2, <2>5, <3>2 DEF TypeOK
      <3>4. Refund(r)
        BY <2>3, <2>5, <3>3 DEF Refund, RowsQuiet, Steady
      <3>5. (RowsNamed /\ TokensDistinct /\ AttemptsCoverRuns)'
        BY <3>4, RefundTokens
      <3>6. RowsGivenBack'
        BY <1>0, <2>1, <2>3, KeptGivenBack
      <3>. QED
        BY <3>5, <3>6, OwnedParts, PTL DEF LedgerInvariant
    <2>. QED
      BY <2>4, <2>5 DEF FinishRun
  <1>7. CASE FinishRunFails(r)
    <2>1. /\ Alive(r) /\ proc' = [proc EXCEPT ![r] = NoProc]
          /\ Released(IF run[r].liveness = "running" THEN {} ELSE {r})
      BY <1>7 DEF FinishRunFails, Alive
    <2>2. \A s \in Runs : RowKept(s) \/ (RowFreed(s) /\ ~Recovering(s))
      BY <1>0, <1>a, <2>1, ReleasedRows DEF RowKept, RowFreed, Alive, NoProc, TypeOK
    <2>. QED
      BY <1>7, <2>2, QuietStep DEF FinishRunFails, Steady
  <1>8. CASE ReapOrphanRuns(r)
    <2>1. UNCHANGED <<task, proc, gateway, found, requeue>> /\ run[r].liveness = "running"
      BY <1>8 DEF ReapOrphanRuns
    <2>2. CASE UNCHANGED superseded /\ run' = [run EXCEPT ![r].liveness = "lost"]
      <3>1. run[r] \in RunRows /\ run' = [run EXCEPT ![r] = [run[r] EXCEPT !.liveness = "lost"]]
        BY <1>0, <2>2 DEF TypeOK
      <3>2. LET row == [run[r] EXCEPT !.liveness = "lost"]
            IN /\ row.task = run[r].task /\ row.agent = run[r].agent
               /\ row.attempt = run[r].attempt /\ row.liveness = "lost"
        BY <3>1 DEF RunRows
      <3>3. \A s \in Runs : RowKept(s)
        BY <1>0, <2>1, <2>2, <3>1, <3>2 DEF RowKept, Alive, TypeOK
      <3>. QED
        BY <2>1, <3>3, QuietStep DEF Steady
    <2>3. CASE Released({r}) /\ ~Alive(r) /\ ~Recovering(r)
      <3>1. \A s \in Runs : RowKept(s) \/ (RowFreed(s) /\ ~Recovering(s))
        BY <2>1, <2>3, ReleasedRows DEF RowKept, RowFreed, Alive
      <3>. QED
        BY <2>1, <3>1, QuietStep DEF Steady
    <2>4. Recovering(r) => r \in found[run[r].agent] \/ requeue[run[r].agent] = r
      BY <1>0 DEF Recovering, RowsGivenBack
    <2>. QED
      BY <1>8, <2>2, <2>3, <2>4 DEF ReapOrphanRuns
  <1>. QED
    BY <1>1, <1>2, <1>3, <1>4, <1>5, <1>6, <1>7, <1>8 DEF RunStep

(* The process exits: its runs die with it, and only rows that still say      *)
(* "running" are left for its restart to give back.                          *)
LEMMA ExitStep ==
    ASSUME LedgerInvariant, TypeOK', NEW a \in Agents, gateway[a] # "down", Exit(a)
    PROVE  LedgerInvariant'
  <1>. DEFINE rs == {r \in Runs : run[r].agent = a /\ run[r].liveness # "running"}
  <1>0. TypeOK /\ RowsGivenBack /\ RowsNamed
    BY OwnedParts DEF LedgerInvariant
  <1>1. /\ Released(rs) /\ UNCHANGED task
        /\ gateway' = [gateway EXCEPT ![a] = "down"]
        /\ found' = [found EXCEPT ![a] = {}] /\ requeue' = [requeue EXCEPT ![a] = NoRun]
        /\ proc' = [r \in Runs |-> IF r \in ProcsOf(a) THEN NoProc ELSE proc[r]]
    BY DEF Exit
  <1>2. \A r \in Runs : Alive(r)' => Alive(r) /\ run[r].agent # a
    BY <1>1 DEF Alive, NoProc, ProcsOf
  <1>3. \A r \in Runs : IF r \in rs THEN RowFreed(r) ELSE RowKept(r) /\ run'[r] = run[r]
    BY <1>1, <1>2, ReleasedRows DEF RowFreed, RowKept
  <1>. HIDE DEF rs
  <1>4. (RowsNamed /\ TokensDistinct /\ AttemptsCoverRuns)'
    <2>1. Quiet
      BY <1>1, <1>3 DEF Quiet, RowsQuiet, Steady
    <2>. QED
      BY <2>1, QuietTokens
  <1>5. RowsGivenBack'
    <2>1. ASSUME NEW b \in Agents, gateway'[b] \in {"down", "starting"}
          PROVE  ProcsOf(b)' = {}
      <3>1. CASE b = a
        <4>1. \A r \in Runs : Alive(r)' => run'[r].agent # a
          BY <1>2, <1>3, ConstantsAssumption DEF RowFreed, RowKept
        <4>. QED
          BY <3>1, <4>1 DEF ProcsOf
      <3>2. CASE b # a
        <4>1. ProcsOf(b) = {}
          BY <1>0, <1>1, <2>1, <3>2 DEF RowsGivenBack, TypeOK
        <4>2. \A r \in Runs : Alive(r)' => run'[r].agent = run[r].agent
          BY <1>3 DEF RowFreed
        <4>. QED
          BY <1>2, <4>1, <4>2 DEF ProcsOf
      <3>. QED
        BY <3>1, <3>2
    <2>2. \A b \in Agents : requeue'[b] \notin found'[b]
      BY <1>0, <1>1 DEF RowsGivenBack, TypeOK
    <2>3. ASSUME NEW b \in Agents, NEW r \in Runs, r \in found'[b] \/ requeue'[b] = r
          PROVE  /\ run'[r].agent = b /\ run'[r].task \in Tasks
                 /\ ~Alive(r)' /\ gateway'[b] = "starting"
      <3>1. b # a /\ (r \in found[b] \/ requeue[b] = r) /\ gateway'[b] = gateway[b]
        BY <1>0, <1>1, <2>3, ConstantsAssumption DEF TypeOK
      <3>2. /\ run[r].agent = b /\ run[r].task \in Tasks
            /\ ~Alive(r) /\ gateway[b] = "starting"
        BY <1>0, <3>1 DEF RowsGivenBack
      <3>3. r \notin rs
        BY <3>1, <3>2 DEF rs
      <3>. QED
        BY <1>2, <1>3, <3>1, <3>2, <3>3
    <2>. QED
      BY <2>1, <2>2, <2>3 DEF RowsGivenBack
  <1>. QED
    BY <1>4, <1>5, OwnedParts, PTL DEF LedgerInvariant

LEMMA GatewayStepInv ==
    ASSUME LedgerInvariant, TypeOK', NEW a \in Agents, GatewayStep(a)
    PROVE  LedgerInvariant'
  <1>0. TypeOK /\ RowsGivenBack /\ RowsNamed /\ NoRun \notin Runs
    BY OwnedParts, ConstantsAssumption DEF LedgerInvariant
  <1>a. ASSUME \A r \in Runs : RowKept(r), UNCHANGED task
        PROVE  (RowsNamed /\ TokensDistinct /\ AttemptsCoverRuns)'
    <2>1. Quiet
      BY <1>a DEF Quiet, RowsQuiet, Steady
    <2>. QED
      BY <2>1, QuietTokens
  <1>1. CASE Shutdown(a)
    <2>1. /\ UNCHANGED <<task, run, found, requeue, superseded>>
          /\ \A r \in Runs : Alive(r)' <=> Alive(r)
          /\ gateway[a] = "up" /\ gateway' = [gateway EXCEPT ![a] = "stopping"]
      <3>1. \A r \in Runs : proc'[r].phase = proc[r].phase
        BY <1>0, <1>1 DEF Shutdown, TypeOK, Procs
      <3>. QED
        BY <1>1, <3>1 DEF Shutdown, Alive
    <2>2. \A r \in Runs : RowKept(r)
      BY <2>1 DEF RowKept
    <2>3. RowsGivenBack'
      <3>1. \A b \in Agents : gateway'[b] \in {"down", "starting"} =>
              gateway[b] \in {"down", "starting"}
        BY <1>0, <2>1 DEF TypeOK
      <3>2. \A b \in Agents : ProcsOf(b)' = ProcsOf(b)
        BY <2>1 DEF ProcsOf
      <3>3. \A b \in Agents, r \in Runs : r \in found[b] \/ requeue[b] = r => b # a
        BY <1>0, <2>1 DEF RowsGivenBack
      <3>4. \A b \in Agents : b # a => gateway'[b] = gateway[b]
        BY <1>0, <2>1 DEF TypeOK
      <3>5. \A r \in Runs : run'[r] = run[r]
        BY <2>1
      <3>. QED
        BY <1>0, <2>1, <3>1, <3>2, <3>3, <3>4, <3>5 DEF RowsGivenBack
    <2>4. (RowsNamed /\ TokensDistinct /\ AttemptsCoverRuns)'
      BY <1>a, <2>1, <2>2
    <2>. QED
      BY <2>3, <2>4, OwnedParts, PTL DEF LedgerInvariant
  <1>2. CASE Crash(a) \/ Stopped(a)
    BY <1>2, ExitStep DEF Crash, Stopped
  <1>3. CASE Restart(a)
    <2>1. /\ UNCHANGED <<task, run, proc, requeue, superseded>> /\ gateway[a] = "down"
          /\ gateway' = [gateway EXCEPT ![a] = "starting"]
          /\ found' = [found EXCEPT ![a] =
                         {r \in Runs : run[r].agent = a /\ run[r].liveness = "running"}]
      BY <1>3 DEF Restart
    <2>2. \A r \in Runs : RowKept(r)
      BY <2>1 DEF RowKept, Alive
    <2>3. RowsGivenBack'
      <3>1. ProcsOf(a) = {} /\ \A r \in Runs : requeue[a] # r
        BY <1>0, <2>1 DEF RowsGivenBack
      <3>2. \A r \in Runs : run[r].agent = a /\ run[r].liveness = "running" =>
              ~Alive(r) /\ run[r].task \in Tasks
        BY <1>0, <3>1 DEF ProcsOf, RowsNamed, TypeOK, RunRows
      <3>3. /\ \A b \in Agents : gateway'[b] \in {"down", "starting"} => ProcsOf(b)' = {}
            /\ \A b \in Agents : requeue'[b] \notin found'[b]
        BY <1>0, <2>1, <3>1 DEF RowsGivenBack, ProcsOf, Alive, TypeOK
      <3>4. ASSUME NEW b \in Agents, NEW r \in Runs, r \in found'[b] \/ requeue'[b] = r
            PROVE  /\ run'[r].agent = b /\ run'[r].task \in Tasks
                   /\ ~Alive(r)' /\ gateway'[b] = "starting"
        <4>1. CASE b = a
          BY <1>0, <2>1, <3>1, <3>2, <3>4, <4>1 DEF Alive, TypeOK
        <4>2. CASE b # a
          BY <1>0, <2>1, <3>4, <4>2 DEF RowsGivenBack, Alive, TypeOK
        <4>. QED
          BY <4>1, <4>2
      <3>. QED
        BY <3>3, <3>4 DEF RowsGivenBack
    <2>4. (RowsNamed /\ TokensDistinct /\ AttemptsCoverRuns)'
      BY <1>a, <2>1, <2>2
    <2>. QED
      BY <2>3, <2>4, OwnedParts, PTL DEF LedgerInvariant
  <1>4. CASE StartServing(a)
    <2>1. /\ UNCHANGED <<task, run, proc, found, requeue, superseded>>
          /\ found[a] = {} /\ requeue[a] = NoRun
          /\ gateway' = [gateway EXCEPT ![a] = "up"]
      BY <1>4 DEF StartServing
    <2>2. \A r \in Runs : RowKept(r)
      BY <2>1 DEF RowKept, Alive
    <2>3. RowsGivenBack'
      BY <1>0, <2>1 DEF RowsGivenBack, ProcsOf, Alive, TypeOK
    <2>4. (RowsNamed /\ TokensDistinct /\ AttemptsCoverRuns)'
      BY <1>a, <2>1, <2>2
    <2>. QED
      BY <2>3, <2>4, OwnedParts, PTL DEF LedgerInvariant
  <1>5. ASSUME NEW r \in Runs, CloseInterrupted(a, r) PROVE LedgerInvariant'
    <2>1. /\ UNCHANGED <<task, proc, gateway, superseded>>
          /\ gateway[a] = "starting" /\ r \in found[a]
          /\ found' = [found EXCEPT ![a] = @ \ {r}] /\ requeue' = [requeue EXCEPT ![a] = r]
      BY <1>5 DEF CloseInterrupted
    <2>2. \A s \in Runs : RowKept(s)
      <3>1. run' = [run EXCEPT ![r].liveness = IF @ = "running" THEN "interrupted" ELSE @]
        BY <1>5 DEF CloseInterrupted
      <3>2. /\ run'[r].task = run[r].task /\ run'[r].agent = run[r].agent
            /\ run'[r].attempt = run[r].attempt
            /\ run'[r].liveness = "unused" <=> run[r].liveness = "unused"
            /\ \A s \in Runs \ {r} : run'[s] = run[s]
        BY <1>0, <3>1 DEF TypeOK, RunRows
      <3>. QED
        BY <2>1, <3>2 DEF RowKept, Alive
    <2>3. RowsGivenBack'
      <3>1. \A b \in Agents : ProcsOf(b)' = ProcsOf(b)
        BY <2>1, <2>2 DEF ProcsOf, Alive, RowKept
      <3>2. \A b \in Agents : requeue'[b] \notin found'[b]
        BY <1>0, <2>1 DEF RowsGivenBack, TypeOK
      <3>3. \A b \in Agents, s \in Runs : s \in found'[b] \/ requeue'[b] = s =>
              s \in found[b] \/ requeue[b] = s
        BY <1>0, <2>1 DEF TypeOK
      <3>4. \A s \in Runs : ~Alive(s) => ~Alive(s)'
        BY <2>1 DEF Alive
      <3>. QED
        BY <1>0, <2>1, <2>2, <3>1, <3>2, <3>3, <3>4 DEF RowsGivenBack, RowKept
    <2>4. (RowsNamed /\ TokensDistinct /\ AttemptsCoverRuns)'
      BY <1>a, <2>1, <2>2
    <2>. QED
      BY <2>3, <2>4, OwnedParts, PTL DEF LedgerInvariant
  <1>6. CASE RequeueInterrupted(a)
    <2>. PICK r \in Runs : r = requeue[a]
      BY <1>6 DEF RequeueInterrupted
    <2>1. /\ r \in Runs /\ Released({r}) /\ UNCHANGED <<proc, gateway, found>>
          /\ requeue' = [requeue EXCEPT ![a] = NoRun]
      BY <1>6 DEF RequeueInterrupted
    <2>2. ~Alive(r) /\ run[r].task \in Tasks /\ r \notin found[a] /\ run[r].agent = a
      BY <1>0, <2>1 DEF RowsGivenBack
    <2>3. RowFreed(r) /\ \A s \in Runs \ {r} : RowKept(s) /\ run'[s] = run[s]
      BY <2>1, <2>2, ReleasedRows DEF RowFreed, RowKept, Alive
    <2>4. RowsGivenBack'
      <3>0. \A s \in Runs : Alive(s)' => Alive(s) /\ run'[s] = run[s]
        BY <2>1, <2>2, <2>3 DEF Alive
      <3>1. \A b \in Agents : ProcsOf(b)' \subseteq ProcsOf(b)
        BY <3>0 DEF ProcsOf
      <3>2. \A b \in Agents : requeue'[b] \notin found'[b]
        <4>1. requeue'[a] = NoRun /\ \A b \in Agents \ {a} : requeue'[b] = requeue[b]
          BY <1>0, <2>1 DEF TypeOK
        <4>2. \A b \in Agents : found'[b] = found[b] /\ found[b] \subseteq Runs
          BY <1>0, <2>1 DEF TypeOK
        <4>. QED
          BY <1>0, <4>1, <4>2 DEF RowsGivenBack
      <3>3. ASSUME NEW b \in Agents, NEW s \in Runs, s \in found'[b] \/ requeue'[b] = s
            PROVE  /\ run'[s].agent = b /\ run'[s].task \in Tasks
                   /\ ~Alive(s)' /\ gateway'[b] = "starting"
        <4>1. s \in found[b] \/ (b # a /\ requeue[b] = s)
          BY <1>0, <2>1, <3>3 DEF TypeOK
        <4>2. s # r
          BY <1>0, <2>2, <4>1 DEF RowsGivenBack
        <4>. QED
          BY <1>0, <2>1, <2>3, <4>1, <4>2 DEF RowsGivenBack, Alive
      <3>. QED
        BY <1>0, <2>1, <3>1, <3>2, <3>3 DEF RowsGivenBack
    <2>5. CASE Fenced(r)
      <3>. DEFINE t == run[r].task
      <3>1. task' = [task EXCEPT ![t] = Requeued(task[t])]
        BY <1>6, <2>5 DEF RequeueInterrupted
      <3>2. task[t] \in TaskRows
        BY <1>0, <2>2 DEF TypeOK
      <3>3. /\ Requeued(task[t]).state = "submitted"
            /\ task[t].attempts - 1 <= Requeued(task[t]).attempts
        BY <3>2, RequeuedRow
      <3>4. /\ task'[t].state \notin {"working", "absent"}
            /\ task[t].attempts - 1 <= task'[t].attempts
            /\ \A u \in Tasks \ {t} : task'[u] = task[u]
        BY <1>0, <2>2, <3>1, <3>3 DEF TypeOK
      <3>5. Refund(r)
        BY <2>3, <2>5, <3>4 DEF Refund, RowsQuiet, Steady
      <3>6. (RowsNamed /\ TokensDistinct /\ AttemptsCoverRuns)'
        BY <2>1, <3>5, RefundTokens
      <3>. QED
        BY <2>4, <3>6, OwnedParts, PTL DEF LedgerInvariant
    <2>6. CASE ~Fenced(r)
      <3>1. UNCHANGED task
        BY <1>6, <2>6 DEF RequeueInterrupted
      <3>2. Quiet
        BY <2>3, <3>1 DEF Quiet, RowsQuiet, Steady
      <3>3. (RowsNamed /\ TokensDistinct /\ AttemptsCoverRuns)'
        BY <3>2, QuietTokens
      <3>. QED
        BY <2>4, <3>3, OwnedParts, PTL DEF LedgerInvariant
    <2>. QED
      BY <2>5, <2>6
  <1>. QED
    BY <1>1, <1>2, <1>3, <1>4, <1>5, <1>6 DEF GatewayStep

----------------------------------------------------------------------------
(* The invariant *)

LEMMA InvariantInit == Init => LedgerInvariant
  <1>. SUFFICES ASSUME Init PROVE LedgerInvariant
    OBVIOUS
  <1>1. /\ \A t \in Tasks : task[t].state = "absent" /\ task[t].attempts = 0
        /\ \A r \in Runs : run[r].task = Nobody /\ run[r].liveness = "unused" /\ ~Alive(r)
        /\ superseded = {}
        /\ \A a \in Agents : gateway[a] = "up" /\ found[a] = {} /\ requeue[a] = NoRun
    BY DEF Init, NoTask, FreeRow, NoProc, Alive
  <1>2. RowsAreOwned
    BY <1>1, ConstantsAssumption DEF RowsAreOwned
  <1>3. TokensDistinct /\ AttemptsCoverRuns
    BY <1>1, ConstantsAssumption DEF TokensDistinct, AttemptsCoverRuns
  <1>. QED
    BY <1>2, <1>3, TypeInit DEF LedgerInvariant

LEMMA InvariantStep == LedgerInvariant /\ [Next]_vars => LedgerInvariant'
  <1>. SUFFICES ASSUME LedgerInvariant, [Next]_vars PROVE LedgerInvariant'
    OBVIOUS
  <1>0. TypeOK'
    BY TypeStep DEF LedgerInvariant
  <1>1. CASE UNCHANGED vars
    BY <1>0, <1>1, TaskOnlyStep DEF vars, Steady, Alive
  <1>2. ASSUME NEW a \in Agents, NEW t \in Tasks, AgentCommand(a, t)
        PROVE  LedgerInvariant'
    BY <1>0, <1>2, AgentStep
  <1>3. ASSUME NEW a \in Agents, NEW r \in Runs, NEW t \in Tasks, ClaimTask(a, r, t)
        PROVE  LedgerInvariant'
    BY <1>0, <1>3, ClaimStep
  <1>4. ASSUME NEW t \in Tasks, PersonCommand(t) PROVE LedgerInvariant'
    BY <1>0, <1>4, PersonStep
  <1>5. ASSUME NEW t \in Tasks, Sweep(t) \/ LapseLease(t) PROVE LedgerInvariant'
    BY <1>0, <1>5, SweepStep
  <1>6. ASSUME NEW r \in Runs, RunStep(r) PROVE LedgerInvariant'
    BY <1>0, <1>6, RunStepInv
  <1>7. ASSUME NEW a \in Agents, GatewayStep(a) PROVE LedgerInvariant'
    BY <1>0, <1>7, GatewayStepInv
  <1>. QED
    BY <1>1, <1>2, <1>3, <1>4, <1>5, <1>6, <1>7 DEF Next

(* The inductive invariant: types, ownership and the stack of tokens hold in *)
(* every reachable state of the ledger.                                      *)
THEOREM LedgerInvariantHolds == Spec => []LedgerInvariant
  <1>. QED
    BY InvariantInit, InvariantStep, PTL DEF Spec

(* Every row, process and bookkeeping set of the ledger keeps its type:       *)
(* classify and FinishRun's switch leave no outcome unhandled, and a refund   *)
(* never drives attempts below zero.                                         *)
THEOREM TypeCorrect == Spec => []TypeOK
  <1>1. LedgerInvariant => TypeOK
    BY DEF LedgerInvariant
  <1>. QED
    BY <1>1, LedgerInvariantHolds, PTL

(* What ReleaseInterruptedRuns gives back are rows of the restarting agent    *)
(* whose process is dead, never a peer's run.                                *)
THEOREM OwnershipCorrect == Spec => []RowsAreOwned
  <1>1. LedgerInvariant => RowsAreOwned
    BY DEF LedgerInvariant
  <1>. QED
    BY <1>1, LedgerInvariantHolds, PTL

(* No two runs in flight carry the same fencing token for one task, refunds   *)
(* of the attempt notwithstanding.                                           *)
THEOREM TokensNeverCollide == Spec => []TokensDistinct
  <1>1. LedgerInvariant => TokensDistinct
    BY DEF LedgerInvariant
  <1>. QED
    BY <1>1, LedgerInvariantHolds, PTL

(* attempts is the height of a stack of tokens: it covers every token that    *)
(* may still be presented, strictly for a superseded one while it works.     *)
THEOREM AttemptsAreAStack == Spec => []AttemptsCoverRuns
  <1>1. LedgerInvariant => AttemptsCoverRuns
    BY DEF LedgerInvariant
  <1>. QED
    BY <1>1, LedgerInvariantHolds, PTL

LEMMA InvariantFences == LedgerInvariant => FenceHolds
  <1>. SUFFICES ASSUME LedgerInvariant, NEW r \in superseded, Fenced(r) PROVE FALSE
    BY DEF FenceHolds
  <1>1. r \in Runs
    BY DEF LedgerInvariant, TypeOK
  <1>2. run[r].task \in Tasks /\ task[run[r].task].state = "working"
        /\ task[run[r].task].attempts = run[r].attempt
    BY DEF Fenced, Holds
  <1>3. run[r].attempt < task[run[r].task].attempts
    BY <1>1, <1>2 DEF LedgerInvariant, AttemptsCoverRuns
  <1>4. run[r].attempt \in Nat
    BY <1>1, Counts DEF LedgerInvariant
  <1>. QED
    BY <1>2, <1>3, <1>4

(* The fence of FinishRun and of ReleaseInterruptedRuns holds: a run whose    *)
(* task was claimed again can never pass for its holder.                     *)
THEOREM FenceCorrect == Spec => []FenceHolds
  <1>. QED
    BY InvariantFences, LedgerInvariantHolds, PTL

(* FinishRun drops what a superseded run reports: its task's state, holder,   *)
(* checkpoint and allowances stay as the newer claim has them.               *)
THEOREM SupersededRunsAreDiscarded == Spec => SupersededRunIsDiscarded
  <1>1. ASSUME LedgerInvariant, NEW r \in superseded, Closed(r), NEW u \in Tasks
        PROVE  [task'[u] EXCEPT !.empties = 0] = [task[u] EXCEPT !.empties = 0]
    <2>. PICK spent \in BOOLEAN : FinishRun(r, spent)
      BY <1>1 DEF Closed
    <2>. DEFINE t == run[r].task
    <2>1. ~Fenced(r) /\ r \in Runs /\ task \in [Tasks -> TaskRows]
      BY <1>1, InvariantFences DEF FenceHolds, LedgerInvariant, TypeOK
    <2>2. t \in Tasks
      BY <1>1 DEF LedgerInvariant, RowsAreOwned, TypeOK
    <2>3. task' = task \/ task' = CountedEmpty(t, proc[r].outcome)
      BY <2>1 DEF FinishRun
    <2>4. [[task[t] EXCEPT !.empties = @ + 1] EXCEPT !.empties = 0]
            = [task[t] EXCEPT !.empties = 0]
      BY <2>1, <2>2 DEF TaskRows
    <2>. QED
      BY <2>1, <2>2, <2>3, <2>4 DEF CountedEmpty
  <1>2. LedgerInvariant /\ [Next]_vars =>
          [\A r \in superseded : Closed(r) =>
             \A t \in Tasks : [task'[t] EXCEPT !.empties = 0] =
                              [task[t] EXCEPT !.empties = 0]]_vars
    BY <1>1
  <1>. QED
    BY <1>2, LedgerInvariantHolds, PTL DEF Spec, SupersededRunIsDiscarded

(* ReleaseInterruptedRuns hands back only the claim its own dead run was.    *)
THEOREM RestartsReleaseOnlyTheirOwn == Spec => RestartReleasesOnlyItsOwn
  <1>1. ASSUME LedgerInvariant, NEW a \in Agents, RequeueInterrupted(a), task' # task
        PROVE  requeue[a] \notin superseded
    BY <1>1, InvariantFences DEF RequeueInterrupted, FenceHolds
  <1>2. LedgerInvariant /\ [Next]_vars =>
          [\A a \in Agents : RequeueInterrupted(a) /\ task' # task =>
             requeue[a] \notin superseded]_vars
    BY <1>1
  <1>. QED
    BY <1>2, LedgerInvariantHolds, PTL DEF Spec, RestartReleasesOnlyItsOwn

----------------------------------------------------------------------------
(* TaskLedger implements Holding: every step of the ledger is a step of the     *)
(* promise, or none of it, for any agents, tasks, runs and allowances.          *)

(* The run and its token are what they were. *)
Kept(r) ==
    /\ run'[r].task = run[r].task /\ run'[r].agent = run[r].agent
    /\ run'[r].attempt = run[r].attempt

(* A task nobody works on before and after, or one with the same holder. *)
Still(t) ==
    \/ task[t].state # "working" /\ task'[t].state # "working"
    \/ /\ task[t].state = "working" /\ task'[t].state = "working"
       /\ task'[t].claimed_by = task[t].claimed_by
       /\ task'[t].attempts = task[t].attempts

Stage(r) == IF run[r].task = Nobody THEN "idle" ELSE IF Fenced(r) THEN "holder" ELSE "past"

LEMMA StageStays ==
    ASSUME TypeOK, NEW r \in Runs, Kept(r), run[r].task \in Tasks => Still(run[r].task)
    PROVE  Stage(r)' = Stage(r)
  <1>1. run[r].task \in Tasks \cup {Nobody}
    BY DEF TypeOK, RunRows
  <1>2. CASE run[r].task \in Tasks
    <2>1. Fenced(r)' <=> Fenced(r)
      BY <1>2 DEF Kept, Still, Fenced, Holds
    <2>. QED
      BY <2>1 DEF Stage, Kept
  <1>3. CASE run[r].task \notin Tasks
    BY <1>1, <1>3 DEF Stage, Kept
  <1>. QED
    BY <1>2, <1>3

LEMMA FreeStage ==
    ASSUME NEW r \in Runs, run'[r] = FreeRow
    PROVE  run'[r].task = Nobody /\ Stage(r)' = "idle"
  BY DEF FreeRow, Stage

(* Rows are freed, and no task changes hands. *)
LEMMA Leaving ==
    ASSUME TypeOK, \A r \in Runs : Kept(r) \/ run'[r] = FreeRow, \A t \in Tasks : Still(t)
    PROVE  Promise!Next
  <1>. DEFINE leaving == {r \in Runs : run'[r].task = Nobody}
  <1>1. \A r \in Runs : /\ run'[r].task = IF r \in leaving THEN Nobody ELSE run[r].task
                        /\ Stage(r)' = IF r \in leaving THEN "idle" ELSE Stage(r)
    <2>. SUFFICES ASSUME NEW r \in Runs
                  PROVE  /\ run'[r].task = IF r \in leaving THEN Nobody ELSE run[r].task
                         /\ Stage(r)' = IF r \in leaving THEN "idle" ELSE Stage(r)
      OBVIOUS
    <2>1. CASE run'[r] = FreeRow
      BY <2>1, FreeStage
    <2>2. CASE Kept(r)
      <3>1. Stage(r)' = Stage(r)
        BY <2>2, StageStays
      <3>. QED
        BY <2>2, <3>1 DEF Kept, Stage
    <2>. QED
      BY <2>1, <2>2
  <1>2. {t \in Tasks : task[t].state = "working"}' = {t \in Tasks : task[t].state = "working"}
    BY DEF Still
  <1>3. PICK gone \in SUBSET Runs : gone = leaving
    OBVIOUS
  <1>4. Promise!Leave(gone)
    BY <1>1, <1>2, <1>3 DEF Promise!Leave, Stage
  <1>. QED
    BY <1>4 DEF Promise!Next

(* A task stops being worked on, and rows of it may be freed with that. *)
LEMMA LettingGo ==
    ASSUME TypeOK, NEW t \in Tasks, task'[t].state # "working",
           \A r \in Runs : Kept(r) \/ (run'[r] = FreeRow /\ run[r].task = t),
           \A u \in Tasks \ {t} : Still(u)
    PROVE  Promise!Next
  <1>. DEFINE leaving == {r \in Runs : run[r].task = t /\ run'[r].task = Nobody}
              after(r) == IF run[r].task = t /\ Stage(r) = "holder" THEN "past" ELSE Stage(r)
  <1>1. \A r \in Runs : /\ run'[r].task = IF r \in leaving THEN Nobody ELSE run[r].task
                        /\ Stage(r)' = IF r \in leaving THEN "idle" ELSE after(r)
    <2>. SUFFICES ASSUME NEW r \in Runs
                  PROVE  /\ run'[r].task = IF r \in leaving THEN Nobody ELSE run[r].task
                         /\ Stage(r)' = IF r \in leaving THEN "idle" ELSE after(r)
      OBVIOUS
    <2>1. CASE run'[r] = FreeRow /\ run[r].task = t
      BY <2>1, FreeStage
    <2>2. CASE Kept(r) /\ run[r].task # t
      <3>1. Stage(r)' = Stage(r)
        BY <2>2, StageStays
      <3>. QED
        BY <2>2, <3>1 DEF Kept
    <2>3. CASE Kept(r) /\ run[r].task = t
      <3>1. t # Nobody
        BY ConstantsAssumption
      <3>2. ~ Fenced(r)'
        BY <2>3 DEF Kept, Fenced, Holds
      <3>3. Stage(r)' = "past" /\ Stage(r) \in {"holder", "past"}
        BY <2>3, <3>1, <3>2 DEF Kept, Stage
      <3>. QED
        BY <2>3, <3>1, <3>3 DEF Kept
    <2>. QED
      BY <2>1, <2>2, <2>3
  <1>2. {u \in Tasks : task[u].state = "working"}' = {u \in Tasks : task[u].state = "working"} \ {t}
    BY DEF Still
  <1>3. \A r \in leaving : run[r].task = t
    OBVIOUS
  <1>4. PICK gone \in SUBSET Runs : gone = leaving
    OBVIOUS
  <1>5. Promise!LetGo(t, gone)
    BY <1>1, <1>2, <1>3, <1>4
       DEF Promise!LetGo, Promise!Superseded, Promise!Holders, Stage
  <1>. QED
    BY <1>5 DEF Promise!Next

(* A claim: whatever held the task carries a token below the one handed out. *)
LEMMA Overtaken ==
    ASSUME LedgerInvariant, NEW t \in Tasks, task'[t].attempts = task[t].attempts + 1,
           NEW r \in Runs, run[r].task = t, run'[r] = run[r]
    PROVE  ~ Fenced(r)'
  <1>1. run[r].attempt <= task[t].attempts
    BY DEF LedgerInvariant, AttemptsCoverRuns
  <1>2. run[r].attempt \in Nat /\ task[t].attempts \in Nat
    BY Counts DEF LedgerInvariant
  <1>3. run'[r].attempt # task'[t].attempts
    BY <1>1, <1>2
  <1>. QED
    BY <1>3 DEF Fenced, Holds

LEMMA Claiming ==
    ASSUME LedgerInvariant, NEW t \in Tasks, task'[t].state = "working",
           task'[t].attempts = task[t].attempts + 1,
           \A u \in Tasks \ {t} : Still(u),
           NEW claimed \in SUBSET Runs,
           \A r \in Runs \ claimed : run'[r] = run[r],
           \A r \in claimed : /\ run[r].task = Nobody /\ run'[r].task = t
                              /\ run'[r].agent = task'[t].claimed_by
                              /\ run'[r].attempt = task'[t].attempts
    PROVE  \A r \in Runs : /\ run'[r].task = IF r \in claimed THEN t ELSE run[r].task
                           /\ Stage(r)' = IF r \in claimed THEN "holder"
                                          ELSE IF run[r].task = t /\ Stage(r) = "holder" THEN "past"
                                          ELSE Stage(r)
  <1>. SUFFICES ASSUME NEW r \in Runs
                PROVE  /\ run'[r].task = IF r \in claimed THEN t ELSE run[r].task
                       /\ Stage(r)' = IF r \in claimed THEN "holder"
                                      ELSE IF run[r].task = t /\ Stage(r) = "holder" THEN "past"
                                      ELSE Stage(r)
    OBVIOUS
  <1>0. t # Nobody /\ TypeOK
    BY ConstantsAssumption DEF LedgerInvariant
  <1>1. CASE r \in claimed
    <2>1. Fenced(r)'
      BY <1>1 DEF Fenced, Holds
    <2>. QED
      BY <1>0, <1>1, <2>1 DEF Stage
  <1>2. CASE r \notin claimed /\ run[r].task = t
    <2>1. ~ Fenced(r)' /\ run'[r] = run[r]
      BY <1>2, Overtaken
    <2>2. Stage(r)' = "past" /\ Stage(r) \in {"holder", "past"}
      BY <1>0, <1>2, <2>1 DEF Stage
    <2>. QED
      BY <1>2, <2>1, <2>2
  <1>3. CASE r \notin claimed /\ run[r].task # t
    <2>1. run'[r] = run[r] /\ Kept(r)
      BY <1>3 DEF Kept
    <2>2. run[r].task \in Tasks => Still(run[r].task)
      BY <1>3
    <2>3. Stage(r)' = Stage(r)
      BY <1>0, <2>1, <2>2, StageStays
    <2>. QED
      BY <1>3, <2>1, <2>3
  <1>. QED
    BY <1>1, <1>2, <1>3

LEMMA NowWorking ==
    ASSUME NEW t \in Tasks, task'[t].state = "working", \A u \in Tasks \ {t} : Still(u)
    PROVE  {u \in Tasks : task[u].state = "working"}'
             = {u \in Tasks : task[u].state = "working"} \cup {t}
  BY DEF Still

LEMMA ClaimedHolder ==
    ASSUME NEW row \in TaskRows, NEW a \in Agents
    PROVE  Claimed(row, a).claimed_by = a
  BY DEF Claimed, TaskRows

LEMMA RunnerClaims ==
    ASSUME LedgerInvariant, NEW a \in Agents, NEW r \in Runs, NEW t \in Tasks,
           ClaimTask(a, r, t)
    PROVE  Promise!Next
  <1>0. task \in [Tasks -> TaskRows] /\ run \in [Runs -> RunRows]
    BY DEF LedgerInvariant, TypeOK
  <1>1. /\ task'[t].state = "working" /\ task'[t].attempts = task[t].attempts + 1
        /\ task'[t].claimed_by = a
    <2>1. task'[t] = Claimed(task[t], a)
      BY <1>0 DEF ClaimTask
    <2>. QED
      BY <1>0, <2>1, ClaimedRow, ClaimedHolder
  <1>2. \A u \in Tasks \ {t} : Still(u)
    BY <1>0 DEF ClaimTask, Still
  <1>3. /\ run[r].task = Nobody /\ run'[r].task = t /\ run'[r].agent = a
        /\ run'[r].attempt = task[t].attempts + 1
        /\ \A q \in Runs \ {r} : run'[q] = run[q]
    <2>1. run[r].liveness = "unused"
      BY DEF ClaimTask
    <2>2. run[r].task = Nobody
      BY <2>1 DEF LedgerInvariant, RowsAreOwned
    <2>. QED
      BY <1>0, <2>2 DEF ClaimTask
  <1>4. \A q \in Runs : /\ run'[q].task = IF q \in {r} THEN t ELSE run[q].task
                        /\ Stage(q)' = IF q \in {r} THEN "holder"
                                       ELSE IF run[q].task = t /\ Stage(q) = "holder" THEN "past"
                                       ELSE Stage(q)
    <2>. DEFINE claimed == {r}
    <2>1. /\ claimed \in SUBSET Runs
          /\ \A q \in Runs \ claimed : run'[q] = run[q]
          /\ \A q \in claimed : /\ run[q].task = Nobody /\ run'[q].task = t
                                /\ run'[q].agent = task'[t].claimed_by
                                /\ run'[q].attempt = task'[t].attempts
      BY <1>1, <1>3
    <2>. HIDE DEF claimed
    <2>2. \A q \in Runs : /\ run'[q].task = IF q \in claimed THEN t ELSE run[q].task
                          /\ Stage(q)' = IF q \in claimed THEN "holder"
                                         ELSE IF run[q].task = t /\ Stage(q) = "holder"
                                              THEN "past" ELSE Stage(q)
      BY <1>1, <1>2, <2>1, Claiming
    <2>. QED
      BY <2>2 DEF claimed
  <1>5. {u \in Tasks : task[u].state = "working"}'
          = {u \in Tasks : task[u].state = "working"} \cup {t}
    BY <1>1, <1>2, NowWorking
  <1>6. Stage(r) = "idle"
    BY <1>3 DEF Stage
  <1>7. Promise!Grant(t, r)
    BY <1>4, <1>5, <1>6
       DEF Promise!Grant, Promise!Superseded, Promise!Holders, Stage
  <1>. QED
    BY <1>7 DEF Promise!Next

LEMMA ShellClaims ==
    ASSUME LedgerInvariant, NEW a \in Agents, NEW t \in Tasks, CliClaim(a, t)
    PROVE  Promise!Next
  <1>0. task \in [Tasks -> TaskRows]
    BY DEF LedgerInvariant, TypeOK
  <1>1. task'[t].state = "working" /\ task'[t].attempts = task[t].attempts + 1
    <2>1. task'[t] = Claimed(task[t], a)
      BY <1>0 DEF CliClaim
    <2>. QED
      BY <1>0, <2>1, ClaimedRow
  <1>2. \A u \in Tasks \ {t} : Still(u)
    BY <1>0 DEF CliClaim, Still
  <1>3. run' = run
    BY DEF CliClaim
  <1>4. \A q \in Runs : Stage(q)' = IF run[q].task = t /\ Stage(q) = "holder" THEN "past"
                                    ELSE Stage(q)
    <2>. DEFINE claimed == {}
    <2>1. /\ claimed \in SUBSET Runs
          /\ \A q \in Runs \ claimed : run'[q] = run[q]
          /\ \A q \in claimed : /\ run[q].task = Nobody /\ run'[q].task = t
                                /\ run'[q].agent = task'[t].claimed_by
                                /\ run'[q].attempt = task'[t].attempts
      BY <1>3
    <2>. HIDE DEF claimed
    <2>2. \A q \in Runs : Stage(q)' = IF q \in claimed THEN "holder"
                                      ELSE IF run[q].task = t /\ Stage(q) = "holder"
                                           THEN "past" ELSE Stage(q)
      BY <1>1, <1>2, <2>1, Claiming
    <2>. QED
      BY <2>2 DEF claimed
  <1>5. {u \in Tasks : task[u].state = "working"}'
          = {u \in Tasks : task[u].state = "working"} \cup {t}
    BY <1>1, <1>2, NowWorking
  <1>6. Promise!GrantToShell(t)
    BY <1>3, <1>4, <1>5
       DEF Promise!GrantToShell, Promise!Superseded, Promise!Holders, Stage
  <1>. QED
    BY <1>6 DEF Promise!Next

----------------------------------------------------------------------------
(* Steps that touch tasks and no run                                         *)

LEMMA OneTask ==
    ASSUME LedgerInvariant, NEW t \in Tasks, UNCHANGED run,
           NEW row, task' = [task EXCEPT ![t] = row], row.state # "working"
    PROVE  Promise!Next
  <1>1. TypeOK /\ task \in [Tasks -> TaskRows]
    BY DEF LedgerInvariant, TypeOK
  <1>2. task'[t].state # "working" /\ \A u \in Tasks \ {t} : Still(u)
    BY <1>1 DEF Still
  <1>3. \A r \in Runs : Kept(r)
    BY DEF Kept
  <1>. QED
    BY <1>1, <1>2, <1>3, LettingGo

LEMMA SameHolders ==
    ASSUME LedgerInvariant, UNCHANGED run,
           task' = task \/ \E t \in Tasks : \E row :
               /\ task' = [task EXCEPT ![t] = row]
               /\ row.state = task[t].state /\ row.claimed_by = task[t].claimed_by
               /\ row.attempts = task[t].attempts
    PROVE  Promise!Next
  <1>1. TypeOK /\ task \in [Tasks -> TaskRows]
    BY DEF LedgerInvariant, TypeOK
  <1>2. \A u \in Tasks : Still(u)
    BY <1>1 DEF Still
  <1>3. \A r \in Runs : Kept(r)
    BY DEF Kept
  <1>. QED
    BY <1>1, <1>2, <1>3, Leaving

LEMMA AgentHolds ==
    ASSUME LedgerInvariant, NEW a \in Agents, NEW t \in Tasks, AgentCommand(a, t)
    PROVE  Promise!Next
  <1>0. task[t] \in TaskRows
    BY DEF LedgerInvariant, TypeOK
  <1>1. CASE CliClaim(a, t)
    BY <1>1, ShellClaims
  <1>2. ASSUME NEW s \in Verdicts, FinishTask(a, t, s) PROVE Promise!Next
    <2>. DEFINE row == [task[t] EXCEPT !.state = s]
    <2>1. row.state # "working"
      BY <1>0, ConstantsAssumption DEF TaskRows
    <2>2. task' = [task EXCEPT ![t] = row] /\ UNCHANGED run
      BY <1>2 DEF FinishTask
    <2>. HIDE DEF row
    <2>. QED
      BY <2>1, <2>2, OneTask
  <1>3. ASSUME NEW n \in Notes, SetCheckpoint(a, t, n) PROVE Promise!Next
    <2>. DEFINE row == [task[t] EXCEPT !.checkpoint = n]
    <2>1. /\ row.state = task[t].state /\ row.claimed_by = task[t].claimed_by
          /\ row.attempts = task[t].attempts
      BY <1>0 DEF TaskRows
    <2>2. task' = [task EXCEPT ![t] = row] /\ UNCHANGED run
      BY <1>3 DEF SetCheckpoint
    <2>. HIDE DEF row
    <2>. QED
      BY <2>1, <2>2, SameHolders
  <1>4. ASSUME NEW on \in {"children", "human"}, NEW n \in MaybeNotes,
               BlockTask(a, t, on, n)
        PROVE  Promise!Next
    <2>. DEFINE row == [Noted(task[t], n) EXCEPT !.state = "blocked", !.blocked_on = on,
                                                 !.leased = FALSE]
    <2>1. row.state # "working"
      <3>1. Noted(task[t], n) \in TaskRows
        BY <1>0, NotedRow
      <3>. QED
        BY <3>1 DEF TaskRows
    <2>2. task' = [task EXCEPT ![t] = row] /\ UNCHANGED run
      BY <1>4 DEF BlockTask
    <2>. HIDE DEF row
    <2>. QED
      BY <2>1, <2>2, OneTask
  <1>. QED
    BY <1>1, <1>2, <1>3, <1>4 DEF AgentCommand

LEMMA PersonHolds ==
    ASSUME LedgerInvariant, NEW t \in Tasks, PersonCommand(t)
    PROVE  Promise!Next
  <1>0. task[t] \in TaskRows
    BY DEF LedgerInvariant, TypeOK
  <1>1. ASSUME NEW to \in Agents \cup {Nobody}, CreateTask(t, to) PROVE Promise!Next
    <2>. DEFINE row == [NoTask EXCEPT !.state = "submitted", !.assigned_to = to,
                                      !.max_attempts = MaxAttempts,
                                      !.max_continuations = MaxContinuations]
    <2>1. row.state # "working"
      BY DEF NoTask
    <2>2. task' = [task EXCEPT ![t] = row] /\ UNCHANGED run
      BY <1>1 DEF CreateTask
    <2>. HIDE DEF row
    <2>. QED
      BY <2>1, <2>2, OneTask
  <1>2. CASE CancelTask(t)
    <2>. DEFINE row == [task[t] EXCEPT !.state = "canceled", !.blocked_on = ""]
    <2>1. row.state # "working"
      BY <1>0 DEF TaskRows
    <2>2. task' = [task EXCEPT ![t] = row] /\ UNCHANGED run
      BY <1>0, <1>2 DEF CancelTask, LedgerInvariant, TypeOK
    <2>. HIDE DEF row
    <2>. QED
      BY <2>1, <2>2, OneTask
  <1>3. ASSUME NEW n \in MaybeNotes, UnblockTask(t, n) PROVE Promise!Next
    <2>. DEFINE row == [task[t] EXCEPT !.state = "submitted", !.blocked_on = "",
                                       !.leased = FALSE, !.checkpoint = n]
    <2>1. row.state # "working"
      BY <1>0 DEF TaskRows
    <2>2. task' = [task EXCEPT ![t] = row] /\ UNCHANGED run
      BY <1>3 DEF UnblockTask
    <2>. HIDE DEF row
    <2>. QED
      BY <2>1, <2>2, OneTask
  <1>4. CASE ResumeTask(t)
    <2>. DEFINE row == [Granted(task[t]) EXCEPT !.state = "submitted", !.fail_reason = "",
                                                !.leased = FALSE]
    <2>1. row.state # "working"
      <3>1. Granted(task[t]) \in TaskRows
        BY <1>0, GrantedRow
      <3>. QED
        BY <3>1 DEF TaskRows
    <2>2. task' = [task EXCEPT ![t] = row] /\ UNCHANGED run
      BY <1>4 DEF ResumeTask
    <2>. HIDE DEF row
    <2>. QED
      BY <2>1, <2>2, OneTask
  <1>. QED
    BY <1>1, <1>2, <1>3, <1>4 DEF PersonCommand

LEMMA SweepHolds ==
    ASSUME LedgerInvariant, NEW t \in Tasks, Sweep(t) \/ LapseLease(t)
    PROVE  Promise!Next
  <1>0. task[t] \in TaskRows /\ task \in [Tasks -> TaskRows]
    BY DEF LedgerInvariant, TypeOK
  <1>1. CASE ReapExhausted(t)
    <2>. DEFINE row == [task[t] EXCEPT !.state = "failed", !.fail_reason = "exhausted"]
    <2>1. row.state # "working"
      BY <1>0 DEF TaskRows
    <2>2. task' = [task EXCEPT ![t] = row] /\ UNCHANGED run
      BY <1>0, <1>1 DEF ReapExhausted
    <2>. HIDE DEF row
    <2>. QED
      BY <2>1, <2>2, OneTask
  <1>2. CASE RelaxDeadAssignments(t)
    <2>. DEFINE row == [task[t] EXCEPT !.assigned_to = Nobody]
    <2>1. row.state # "working"
      BY <1>0, <1>2 DEF TaskRows, RelaxDeadAssignments
    <2>2. task' = [task EXCEPT ![t] = row] /\ UNCHANGED run
      BY <1>0, <1>2 DEF RelaxDeadAssignments
    <2>. HIDE DEF row
    <2>. QED
      BY <2>1, <2>2, OneTask
  <1>3. ASSUME NEW stalled \in BOOLEAN, NEW n \in Notes, WakeParents(t, stalled, n)
        PROVE  Promise!Next
    <2>. DEFINE row == IF stalled THEN Stalled(task[t], n) ELSE Woken(task[t], n)
    <2>1. row.state # "working"
      BY <1>0, <1>3, PersonRows DEF WakeParents, MaybeNotes
    <2>2. task' = [task EXCEPT ![t] = row] /\ UNCHANGED run
      BY <1>3 DEF WakeParents
    <2>. HIDE DEF row
    <2>. QED
      BY <2>1, <2>2, OneTask
  <1>4. CASE LapseLease(t)
    <2>. DEFINE row == [task[t] EXCEPT !.leased = FALSE]
    <2>1. /\ row.state = task[t].state /\ row.claimed_by = task[t].claimed_by
          /\ row.attempts = task[t].attempts
      BY <1>0 DEF TaskRows
    <2>2. task' = [task EXCEPT ![t] = row] /\ UNCHANGED run
      BY <1>0, <1>4 DEF LapseLease
    <2>. HIDE DEF row
    <2>. QED
      BY <2>1, <2>2, SameHolders
  <1>. QED
    BY <1>1, <1>2, <1>3, <1>4 DEF Sweep

----------------------------------------------------------------------------
(* Steps of runs and of gateways                                             *)

(* Rows are freed or change in their liveness alone. *)
LEMMA RowsOnly ==
    ASSUME LedgerInvariant, UNCHANGED task, \A r \in Runs : Kept(r) \/ run'[r] = FreeRow
    PROVE  Promise!Next
  <1>1. \A u \in Tasks : Still(u)
    BY DEF Still
  <1>. QED
    BY <1>1, Leaving DEF LedgerInvariant

LEMMA FreedOrKept ==
    ASSUME NEW rs, Released(rs)
    PROVE  \A r \in Runs : IF r \in rs THEN run'[r] = FreeRow ELSE Kept(r)
  BY ReleasedRows DEF Kept

LEMMA LivenessOnly ==
    ASSUME LedgerInvariant, NEW r \in Runs, NEW l, run' = [run EXCEPT ![r].liveness = l]
    PROVE  \A q \in Runs : Kept(q)
  <1>1. run \in [Runs -> RunRows]
    BY DEF LedgerInvariant, TypeOK
  <1>. QED
    BY <1>1 DEF Kept, RunRows

(* FinishRun: the holder's task leaves the working state with it, the rest     *)
(* counts an empty reply at most.                                           *)
LEMMA CloseHolds ==
    ASSUME LedgerInvariant, NEW r \in Runs, NEW spent \in BOOLEAN, FinishRun(r, spent)
    PROVE  Promise!Next
  <1>. DEFINE t == run[r].task
              o == proc[r].outcome
  <1>0. /\ TypeOK /\ task \in [Tasks -> TaskRows] /\ run[r] \in RunRows /\ proc[r] \in Procs
        /\ t \in Tasks /\ o \in RunOutcomes /\ run[r].agent \in Agents \cup {Nobody}
    <2>1. Alive(r)
      BY DEF FinishRun, Alive
    <2>2. t \in Tasks
      BY <2>1 DEF LedgerInvariant, RowsAreOwned
    <2>. QED
      BY <2>2 DEF LedgerInvariant, TypeOK, RunRows, Procs
  <1>1. \A q \in Runs : Kept(q) \/ (run'[q] = FreeRow /\ run[q].task = t)
    <2>1. Released({r})
      BY DEF FinishRun
    <2>. QED
      BY <2>1, FreedOrKept
  <1>2. CASE Fenced(r) /\ task' = [task EXCEPT ![t] = Moved(task[t], o, run[r].agent, spent)]
    <2>. DEFINE row == Moved(task[t], o, run[r].agent, spent)
    <2>1. row.state # "working"
      BY <1>0, MovedRow
    <2>. HIDE DEF row
    <2>2. task'[t] = row /\ \A u \in Tasks \ {t} : task'[u] = task[u]
      BY <1>0, <1>2 DEF row
    <2>3. task'[t].state # "working" /\ \A u \in Tasks \ {t} : Still(u)
      BY <2>1, <2>2 DEF Still
    <2>. QED
      BY <1>0, <1>1, <2>3, LettingGo
  <1>3. CASE task' = task
    <2>1. \A u \in Tasks : Still(u)
      BY <1>3 DEF Still
    <2>. QED
      BY <1>0, <1>1, <2>1, Leaving
  <1>4. CASE task' = [task EXCEPT ![t].empties = @ + 1]
    <2>. DEFINE row == [task[t] EXCEPT !.empties = @ + 1]
    <2>1. /\ row.state = task[t].state /\ row.claimed_by = task[t].claimed_by
          /\ row.attempts = task[t].attempts
      <3>1. \A old \in TaskRows : LET new == [old EXCEPT !.empties = @ + 1]
                                  IN  /\ new.state = old.state /\ new.claimed_by = old.claimed_by
                                      /\ new.attempts = old.attempts
        BY DEF TaskRows
      <3>. HIDE DEF t
      <3>. QED
        BY <1>0, <3>1
    <2>2. task'[t] = row /\ \A u \in Tasks \ {t} : task'[u] = task[u]
      BY <1>0, <1>4
    <2>. HIDE DEF row
    <2>3. \A u \in Tasks : Still(u)
      BY <2>1, <2>2 DEF Still
    <2>. QED
      BY <1>0, <1>1, <2>3, Leaving
  <1>. QED
    BY <1>2, <1>3, <1>4 DEF FinishRun, CountedEmpty

LEMMA RunHolds ==
    ASSUME LedgerInvariant, NEW r \in Runs, RunStep(r)
    PROVE  Promise!Next
  <1>. DEFINE t == run[r].task
  <1>0. task \in [Tasks -> TaskRows] /\ run \in [Runs -> RunRows]
    BY DEF LedgerInvariant, TypeOK
  <1>1. CASE StartRun(r)
    <2>1. \A q \in Runs : Kept(q)
      BY <1>0, <1>1 DEF StartRun, Kept, RunRows
    <2>. QED
      BY <1>1, <2>1, RowsOnly DEF StartRun
  <1>2. CASE StartRunFails(r) \/ FinishRunFails(r)
    <2>1. PICK rs : Released(rs)
      BY <1>2 DEF StartRunFails, FinishRunFails
    <2>2. \A q \in Runs : Kept(q) \/ run'[q] = FreeRow
      BY <2>1, FreedOrKept
    <2>. QED
      BY <1>2, <2>2, RowsOnly DEF StartRunFails, FinishRunFails
  <1>3. CASE RenewLease(r)
    <2>1. CASE task' = task
      BY <1>3, <2>1, SameHolders DEF RenewLease
    <2>2. CASE task' # task
      <3>. DEFINE row == [task[t] EXCEPT !.leased = TRUE]
      <3>1. t \in Tasks
        BY <1>3 DEF RenewLease, LedgerInvariant, RowsAreOwned
      <3>2. /\ row.state = task[t].state /\ row.claimed_by = task[t].claimed_by
            /\ row.attempts = task[t].attempts
        BY <1>0, <3>1 DEF TaskRows
      <3>3. task' = [task EXCEPT ![t] = row] /\ UNCHANGED run
        BY <1>0, <1>3, <2>2, <3>1 DEF RenewLease
      <3>. HIDE DEF row
      <3>. QED
        BY <3>1, <3>2, <3>3, SameHolders
    <2>. QED
      BY <2>1, <2>2
  <1>4. CASE RenewError(r) \/ RunCap(r) \/ Returned(r)
    BY <1>4, SameHolders DEF RenewError, RunCap, Returned, ReadOutcome
  <1>5. CASE Closed(r)
    BY <1>5, CloseHolds DEF Closed
  <1>6. CASE ReapOrphanRuns(r)
    <2>1. CASE Released({r})
      <3>1. \A q \in Runs : Kept(q) \/ run'[q] = FreeRow
        BY <2>1, FreedOrKept
      <3>. QED
        BY <1>6, <3>1, RowsOnly DEF ReapOrphanRuns
    <2>2. CASE run' = [run EXCEPT ![r].liveness = "lost"]
      <3>1. \A q \in Runs : Kept(q)
        BY <2>2, LivenessOnly
      <3>. QED
        BY <1>6, <3>1, RowsOnly DEF ReapOrphanRuns
    <2>. QED
      BY <1>6, <2>1, <2>2 DEF ReapOrphanRuns
  <1>. QED
    BY <1>1, <1>2, <1>3, <1>4, <1>5, <1>6 DEF RunStep

LEMMA GatewayHolds ==
    ASSUME LedgerInvariant, NEW a \in Agents, GatewayStep(a)
    PROVE  Promise!Next
  <1>0. task \in [Tasks -> TaskRows] /\ run \in [Runs -> RunRows] /\ TypeOK
    BY DEF LedgerInvariant, TypeOK
  <1>1. CASE Shutdown(a) \/ Restart(a) \/ StartServing(a)
    BY <1>1, SameHolders DEF Shutdown, Restart, StartServing
  <1>2. CASE Exit(a)
    <2>1. PICK rs : Released(rs)
      BY <1>2 DEF Exit
    <2>2. \A q \in Runs : Kept(q) \/ run'[q] = FreeRow
      BY <2>1, FreedOrKept
    <2>. QED
      BY <1>2, <2>2, RowsOnly DEF Exit
  <1>3. ASSUME NEW r \in Runs, CloseInterrupted(a, r) PROVE Promise!Next
    <2>1. \A q \in Runs : Kept(q)
      BY <1>0, <1>3 DEF CloseInterrupted, Kept, RunRows
    <2>. QED
      BY <1>3, <2>1, RowsOnly DEF CloseInterrupted
  <1>4. CASE RequeueInterrupted(a)
    <2>. DEFINE r == requeue[a]
                t == run[r].task
    <2>1. r \in Runs /\ Released({r})
      BY <1>4 DEF RequeueInterrupted
    <2>2. \A q \in Runs : Kept(q) \/ (run'[q] = FreeRow /\ run[q].task = t)
      BY <2>1, FreedOrKept
    <2>3. CASE Fenced(r)
      <3>. DEFINE row == Requeued(task[t])
      <3>1. t \in Tasks /\ row.state # "working"
        BY <1>0, <2>3, RequeuedRow DEF Fenced
      <3>2. task' = [task EXCEPT ![t] = row]
        BY <1>4, <2>3 DEF RequeueInterrupted
      <3>. HIDE DEF row
      <3>3. task'[t].state # "working" /\ \A u \in Tasks \ {t} : Still(u)
        BY <1>0, <3>1, <3>2 DEF Still
      <3>. HIDE DEF t, r
      <3>. QED
        BY <1>0, <2>2, <3>1, <3>3, LettingGo
    <2>4. CASE ~ Fenced(r)
      BY <1>4, <2>2, <2>4, RowsOnly DEF RequeueInterrupted
    <2>. QED
      BY <2>3, <2>4
  <1>. QED
    BY <1>1, <1>2, <1>3, <1>4 DEF GatewayStep, Crash, Stopped

LEMMA StepsHold ==
    ASSUME LedgerInvariant, [Next]_vars
    PROVE  Promise!Next
  <1>1. CASE UNCHANGED vars
    BY <1>1, SameHolders DEF vars
  <1>2. CASE Next
    BY <1>2, AgentHolds, RunnerClaims, PersonHolds, SweepHolds, RunHolds, GatewayHolds DEF Next
  <1>. QED
    BY <1>1, <1>2

(* The ledger implements the promise.  What Holding takes for granted - that a   *)
(* run which lost its task never becomes its holder again - the ledger gets     *)
(* from attempts, a number it also hands back: the mapped step is a step of     *)
(* Holding because no row in flight carries the number a claim gives out.       *)
THEOREM LedgerImplementsHolding == Spec => ClaimsAreHeldOnce
  <1>1. Init => Promise!Init
    <2>. SUFFICES ASSUME Init PROVE Promise!Init
      OBVIOUS
    <2>1. /\ \A r \in Runs : run[r].task = Nobody
          /\ \A t \in Tasks : task[t].state # "working"
      BY DEF Init, FreeRow, NoTask
    <2>. QED
      BY <2>1 DEF Promise!Init
  <1>2. LedgerInvariant /\ [Next]_vars => [Promise!Next]_(Promise!vars)
    BY StepsHold
  <1>. QED
    BY <1>1, <1>2, LedgerInvariantHolds, PTL DEF Spec, ClaimsAreHeldOnce, Promise!Spec

(* So a task has one holder at most, and only while it is worked on.           *)
THEOREM OneHolderPerTask == Spec => []Promise!OneHolder
  <1>1. ASSUME LedgerInvariant PROVE Promise!OneHolder
    <2>1. ASSUME NEW r \in Runs, NEW s \in Runs, Fenced(r), Fenced(s), run[r].task = run[s].task
          PROVE  r = s
      BY <1>1, <2>1 DEF LedgerInvariant, TokensDistinct, Fenced, Holds
    <2>2. ASSUME NEW r \in Runs, Fenced(r)
          PROVE  run[r].task \in Tasks /\ task[run[r].task].state = "working"
      BY <2>2 DEF Fenced, Holds
    <2>. QED
      BY <2>1, <2>2 DEF Promise!OneHolder
  <1>. QED
    BY <1>1, LedgerInvariantHolds, PTL

-----------------------------------------------------------------------------
(* What a room is told of one task, ProgressLine.tla, for every value of its constants. *)

CONSTANTS Gateways, Homes, Creators, None, LineAttempts, MaxRuns, MaxFaults

VARIABLES creator, home, bind, lineTask, threads, room, lineRun, gate, report, faults,
    early

Lines == INSTANCE ProgressLine WITH MaxAttempts <- LineAttempts, task <- lineTask,
    run <- lineRun

LinePcs == Lines!InHand \cup {"none", "over", "left", "dead"}
TaskStates == Lines!Terminal \cup {"submitted", "working", "blocked"}

LineTasks == [state : TaskStates, by : Gateways \cup {None}, pin : Gateways \cup {None}, attempts : 0 .. LineAttempts,
              carried : BOOLEAN, lapsed : BOOLEAN, reported : BOOLEAN]

LineRuns == [pc : LinePcs, by : Gateways \cup {None}, attempt : 0 .. LineAttempts, root : Lines!Roots \cup {Lines!NoRoot},
             own : BOOLEAN, live : BOOLEAN, final : TaskStates \cup {"none"}, finalBy : Gateways \cup {None}]

Said == [kind : {"opened", "claim", "line", "end", "more", "report"}, root : Lines!Roots, run : Lines!Runs \cup {0}]

LineTypes ==
    /\ creator \in Creators /\ home \in Homes /\ bind \in {"due", "over"}
    /\ threads \in Seq(Lines!Roots \ {Lines!Above}) /\ lineTask \in LineTasks /\ room \subseteq Said
    /\ lineRun \in [Lines!Runs -> LineRuns] /\ gate \in [Gateways -> {"up", "down", "swept"}]
    /\ report \in {"none", "won"} /\ faults \in Nat /\ early \in BOOLEAN

(* A line is its run's, in its run's thread, and the run knows of it. *)
LinesInv ==
    \A m \in room : m.kind = "line" =>
        /\ m.run \in Lines!Runs /\ lineRun[m.run].live /\ m.root = lineRun[m.run].root
        /\ \/ lineRun[m.run].pc \in {"running", "finished", "closing", "left"}
           \/ lineRun[m.run].pc = "dead" /\ gate[lineRun[m.run].by] = "down"

Before == {"claimed", "looked", "said", "swept", "running"}

(* The thread of a run that does not take it for the task's own: above, or one of several. *)
Elsewhere(root, bound) == root \in {Lines!NoRoot, Lines!Above} \/ Len(bound) > 1

RowMay(row, next, bound, failed) ==
    /\ row.final \in Lines!Terminal => next.state \in Lines!Terminal /\ row.finalBy = next.by
    /\ row.pc = "looked" => Elsewhere(row.root, bound) \/ (bound # <<>> /\ bound[1] = row.root)
    /\ row.pc \in {"said", "swept", "running", "finished", "closing"} /\ ~row.own => Elsewhere(row.root, bound)
    /\ row.live \/ row.pc \in {"said", "swept"} => row.root \in Lines!Roots
    /\ row.pc = "finished" => row.live
    /\ row.pc \in {"claimed", "looked", "said", "swept"} => ~row.live
    /\ failed = 0 /\ home # "nowhere" /\ row.pc = "running" => row.live

RunsInv == \A n \in Lines!Runs : RowMay(lineRun[n], lineTask, threads, faults)

(* Whoever tells an end, it is the end the task keeps. *)
EndsInv ==
    /\ \A m \in room : m.kind = "end" => m.root = Lines!Above \/ Len(threads) > 1
                                         \/ (lineTask.state \in Lines!Terminal /\ ~Lines!Reports(lineTask.by))
    /\ \A m \in room : m.kind = "report" => m.root # Lines!Above /\ lineTask.state \in Lines!Terminal /\ Lines!Reports(lineTask.by)
    /\ report = "won" => lineTask.state \in Lines!Terminal /\ Lines!Reports(lineTask.by)

Told == \E m \in room : m.kind \in {"end", "report"}
WillTell(row) == row.pc \in Before \/ (row.pc = "finished" /\ row.final = "ended")

(* With nothing failed: work has its run; an end has been told, or will be by a run or the reporter. *)
TellInv ==
    faults = 0 =>
        /\ \A g \in Gateways : gate[g] = "up"
        /\ lineTask.state = "working" => \E n \in Lines!Runs : Lines!Holds(n) /\ lineRun[n].pc \in Before
        /\ lineTask.state \in Lines!Terminal /\ lineTask.reported /\ ~early => report = "won" \/ \E m \in room : m.kind = "report"
        /\ lineTask.reported => lineTask.state \in Lines!Terminal
        /\ ~early /\ home # "nowhere" /\ lineTask.state = "ended"
           => Told \/ Lines!Reports(lineTask.by) \/ \E n \in Lines!Runs : WillTell(lineRun[n])

LineInv == LineTypes /\ LinesInv /\ RunsInv /\ EndsInv /\ TellInv


TaskMay(old, next) ==
    /\ old.state \in Lines!Terminal => next.state \in Lines!Terminal /\ next.by = old.by
    /\ next.reported <=> old.reported

BoundMay(old, bound) == Len(bound) >= Len(old) /\ (bound = old \/ old = <<>> \/ Len(bound) > 1)

LineMay(n, row, posted) ==
    \A m \in posted : m.kind = "line" =>
        \/ m \in room /\ m.run # n
        \/ m.run = n /\ row.live /\ m.root = row.root /\ row.pc \in {"running", "finished", "closing", "left"}

PostMay(posted, next, bound) ==
    /\ \A m \in posted : m.kind = "end" => \/ m \in room \/ m.root = Lines!Above \/ Len(bound) > 1
                                           \/ (next.state \in Lines!Terminal /\ ~Lines!Reports(next.by))
    /\ \A m \in posted : m.kind = "report" => m \in room
    /\ \A m \in room : m.kind \in {"end", "report"} => m \in posted

GoesOn(n, row, next, posted, failed) ==
    failed = 0 =>
        /\ faults = 0
        /\ next.state = "working" =>
              \/ row.by = next.by /\ row.attempt = next.attempts /\ row.pc \in Before
              \/ lineTask.state = "working" /\ next.by = lineTask.by /\ next.attempts = lineTask.attempts
                 /\ ~(Lines!Holds(n) /\ lineRun[n].pc \in Before)
        /\ next.state = "ended" =>
              \/ WillTell(row) \/ home = "nowhere"
              \/ lineTask.state = "ended" /\ (WillTell(lineRun[n]) => Lines!Reports(next.by) \/ \E m \in posted : m.kind = "end")

LEMMA LinesStart == Lines!ProgressLineConstants /\ Lines!Init => LineInv
  <1>. SUFFICES ASSUME Lines!ProgressLineConstants, Lines!Init
                PROVE  LineInv
    OBVIOUS
  <1>1. Lines!NoRun \in LineRuns /\ Lines!NoRun.pc = "none" /\ Lines!NoRun.final = "none" /\ ~Lines!NoRun.live /\ ~Lines!NoRun.own
    BY DEF Lines!ProgressLineConstants, Lines!NoRun, LineRuns, LinePcs, Lines!Roots, Lines!NoRoot
  <1>2. lineTask \in LineTasks /\ lineTask.state = "submitted" /\ ~lineTask.reported
    BY DEF Lines!ProgressLineConstants, Lines!Init, LineTasks, TaskStates
  <1>3. LineTypes
    <2>1. threads \in Seq(Lines!Roots \ {Lines!Above})
      BY DEF Lines!Init
    <2>2. lineRun \in [Lines!Runs -> LineRuns] /\ gate \in [Gateways -> {"up", "down", "swept"}]
      BY <1>1 DEF Lines!Init
    <2>3. early \in BOOLEAN /\ room \subseteq Said /\ report \in {"none", "won"} /\ faults \in Nat
      BY DEF Lines!Init
    <2>4. creator \in Creators /\ home \in Homes /\ bind \in {"due", "over"}
      BY DEF Lines!Init
    <2>. QED
      BY <1>2, <2>1, <2>2, <2>3, <2>4 DEF LineTypes
  <1>4. LinesInv /\ EndsInv
    BY DEF LinesInv, EndsInv, Lines!Init
  <1>5. RunsInv
    <2>1. \A n \in Lines!Runs : lineRun[n] = Lines!NoRun
      BY DEF Lines!Init
    <2>. QED
      BY <1>1, <2>1 DEF RunsInv, RowMay, Lines!Terminal
  <1>6. TellInv
    BY <1>2 DEF TellInv, Lines!Init, Lines!Terminal
  <1>. QED
    BY <1>3, <1>4, <1>5, <1>6 DEF LineInv

LEMMA OtherRows ==
    ASSUME NEW row \in LineRuns, NEW next \in LineTasks, NEW bound \in Seq(Lines!Roots \ {Lines!Above}), LineTypes,
           NEW failed \in Nat, faults = 0 \/ failed # 0, TaskMay(lineTask, next), BoundMay(threads, bound),
           RowMay(row, lineTask, threads, faults)
    PROVE  RowMay(row, next, bound, failed)
  <1>1. Len(threads) \in Nat /\ Len(bound) \in Nat
    BY DEF LineTypes
  <1>2. row.pc = "looked" => Elsewhere(row.root, bound) \/ (bound # <<>> /\ bound[1] = row.root)
    BY <1>1 DEF RowMay, BoundMay, Elsewhere
  <1>. QED
    BY <1>1, <1>2 DEF RowMay, TaskMay, BoundMay, Elsewhere

(* A step of a run: its row, what it made of the task, of its threads, of the room. *)
LEMMA RunMoves ==
    ASSUME Lines!ProgressLineConstants, LineInv, NEW n \in Lines!Runs, NEW row \in LineRuns, lineRun' = [lineRun EXCEPT ![n] = row],
           NEW next \in LineTasks, lineTask' = next, NEW bound \in Seq(Lines!Roots \ {Lines!Above}), threads' = bound,
           NEW posted \in SUBSET Said, room' = posted, NEW failed \in Nat, faults' = failed,
           UNCHANGED <<creator, home, bind, gate, report, early>>,
           TaskMay(lineTask, next), BoundMay(threads, bound), RowMay(row, next, bound, failed), LineMay(n, row, posted),
           PostMay(posted, next, bound), GoesOn(n, row, next, posted, failed)
    PROVE  LineInv'
  <1>1. LineTypes /\ LinesInv /\ RunsInv /\ EndsInv /\ TellInv
    BY DEF LineInv
  <1>2. lineRun' \in [Lines!Runs -> LineRuns] /\ lineRun'[n] = row /\ \A m \in Lines!Runs \ {n} : lineRun'[m] = lineRun[m]
    BY <1>1 DEF LineTypes
  <1>3. LineTypes'
    BY <1>1, <1>2 DEF LineTypes
  <1>4. LinesInv'
    BY <1>1, <1>2 DEF LinesInv, LineMay
  <1>5. RunsInv'
    <2>1. faults = 0 \/ failed # 0
      BY DEF GoesOn
    <2>2. ASSUME NEW m \in Lines!Runs \ {n}
          PROVE  RowMay(lineRun[m], next, bound, failed)
      <3>1. lineRun[m] \in LineRuns /\ RowMay(lineRun[m], lineTask, threads, faults)
        BY <1>1 DEF LineTypes, RunsInv
      <3>. QED
        BY <1>1, <2>1, <3>1, OtherRows
    <2>. QED
      BY <1>2, <2>2 DEF RunsInv, RowMay
  <1>6. EndsInv'
    <2>0. Len(threads) \in Nat /\ Len(bound) \in Nat /\ Len(bound) >= Len(threads)
      BY <1>1 DEF LineTypes, BoundMay
    <2>1. \A m \in posted : m.kind = "end" => \/ m.root = Lines!Above \/ Len(bound) > 1
                                              \/ (next.state \in Lines!Terminal /\ ~Lines!Reports(next.by))
      BY <1>1, <2>0 DEF EndsInv, PostMay, TaskMay
    <2>2. \A m \in posted : m.kind = "report" => m.root # Lines!Above /\ next.state \in Lines!Terminal /\ Lines!Reports(next.by)
      BY <1>1 DEF EndsInv, PostMay, TaskMay
    <2>3. report = "won" => next.state \in Lines!Terminal /\ Lines!Reports(next.by)
      BY <1>1 DEF EndsInv, TaskMay
    <2>. QED
      BY <2>1, <2>2, <2>3 DEF EndsInv, Lines!Reports, Lines!HasParent
  <1>7. TellInv'
    <2>. SUFFICES ASSUME failed = 0
                  PROVE  TellInv'
      BY DEF TellInv
    <2>0. faults = 0
      BY DEF GoesOn
    <2>1. \A g \in Gateways : gate[g] = "up"
      BY <1>1, <2>0 DEF TellInv
    <2>2. next.state = "working" => \E m \in Lines!Runs : Lines!Holds(m)' /\ lineRun'[m].pc \in Before
      <3>. SUFFICES ASSUME next.state = "working"
                    PROVE  \E m \in Lines!Runs : Lines!Holds(m)' /\ lineRun'[m].pc \in Before
        OBVIOUS
      <3>1. CASE row.by = next.by /\ row.attempt = next.attempts /\ row.pc \in Before
        BY <1>2, <3>1 DEF Lines!Holds
      <3>2. CASE lineTask.state = "working" /\ next.by = lineTask.by /\ next.attempts = lineTask.attempts
                 /\ ~(Lines!Holds(n) /\ lineRun[n].pc \in Before)
        <4>1. PICK m \in Lines!Runs : Lines!Holds(m) /\ lineRun[m].pc \in Before
          BY <1>1, <2>0, <3>2 DEF TellInv
        <4>2. m # n /\ lineRun'[m] = lineRun[m]
          BY <1>2, <3>2, <4>1
        <4>. QED
          BY <3>2, <4>1, <4>2 DEF Lines!Holds
      <3>. QED
        BY <3>1, <3>2 DEF GoesOn
    <2>3. next.reported => next.state \in Lines!Terminal
      BY <1>1, <2>0 DEF TellInv, TaskMay
    <2>4. next.state \in Lines!Terminal /\ next.reported /\ ~early => report = "won" \/ \E m \in posted : m.kind = "report"
      BY <1>1, <2>0 DEF TellInv, TaskMay, PostMay
    <2>5. ~early /\ home # "nowhere" /\ next.state = "ended"
             => \/ \E m \in posted : m.kind \in {"end", "report"}
                \/ Lines!Reports(next.by) \/ \E m \in Lines!Runs : WillTell(lineRun'[m])
      <3>. SUFFICES ASSUME ~early, home # "nowhere", next.state = "ended"
                    PROVE  \/ \E m \in posted : m.kind \in {"end", "report"}
                           \/ Lines!Reports(next.by) \/ \E m \in Lines!Runs : WillTell(lineRun'[m])
        OBVIOUS
      <3>1. CASE WillTell(row)
        BY <1>2, <3>1
      <3>2. CASE lineTask.state = "ended" /\ (WillTell(lineRun[n]) => Lines!Reports(next.by) \/ \E m \in posted : m.kind = "end")
        <4>1. Told \/ Lines!Reports(lineTask.by) \/ \E m \in Lines!Runs : WillTell(lineRun[m])
          BY <1>1, <2>0, <3>2 DEF TellInv
        <4>2. CASE Told
          BY <4>2 DEF Told, PostMay
        <4>3. CASE Lines!Reports(lineTask.by)
          BY <3>2, <4>3 DEF TaskMay, Lines!Terminal
        <4>4. CASE \E m \in Lines!Runs : WillTell(lineRun[m])
          BY <1>2, <3>2, <4>4
        <4>. QED
          BY <4>1, <4>2, <4>3, <4>4
      <3>. QED
        BY <3>1, <3>2 DEF GoesOn
    <2>. QED
      BY <2>1, <2>2, <2>3, <2>4, <2>5 DEF TellInv, Told, Lines!Reports, Lines!HasParent
  <1>. QED
    BY <1>3, <1>4, <1>5, <1>6, <1>7 DEF LineInv


LEMMA Faults == ASSUME LineTypes, Lines!Fault
                PROVE  faults' \in Nat /\ faults' # 0
  BY DEF LineTypes, Lines!Fault

LEMMA Threads ==
    ASSUME Lines!ProgressLineConstants, LineTypes
    PROVE  /\ Lines!ConversationThread \in Lines!Roots \cup {Lines!NoRoot} /\ Lines!TaskThread \in (Lines!Roots \ {Lines!Above}) \cup {Lines!NoRoot}
           /\ Lines!TaskThread # Lines!NoRoot => threads # <<>> /\ threads[1] = Lines!TaskThread
           /\ Lines!ConversationThread \notin {Lines!NoRoot, Lines!Above} => threads # <<>> /\ threads[1] = Lines!ConversationThread
           /\ Lines!TaskThread = Lines!NoRoot => threads = <<>>
           /\ Lines!NoRoot \notin Lines!Roots /\ Lines!Above \in Lines!Roots
  <1>1. Lines!NoRoot \notin Lines!Roots /\ Lines!Above \in Lines!Roots
    BY DEF Lines!ProgressLineConstants, Lines!Roots, Lines!Runs, Lines!NoRoot, Lines!Above, Lines!Asked
  <1>2. threads # <<>> => threads[1] \in Lines!Roots \ {Lines!Above}
    BY DEF LineTypes
  <1>. QED
    BY <1>1, <1>2 DEF Lines!TaskThread, Lines!ConversationThread

LEMMA ClaimKeeps ==
    ASSUME Lines!ProgressLineConstants, LineInv, NEW g \in Gateways, NEW n \in Lines!Runs, Lines!ClaimTask(g, n)
    PROVE  LineInv'
  <1>1. LineTypes /\ LinesInv /\ RunsInv /\ EndsInv /\ TellInv
    BY DEF LineInv
  <1>2. lineTask \in LineTasks /\ lineTask.attempts + 1 \in 0 .. LineAttempts /\ lineTask.state \notin Lines!Terminal /\ lineRun[n].pc = "none"
    BY <1>1 DEF Lines!ProgressLineConstants, LineTypes, LineTasks, Lines!ClaimTask, Lines!Terminal
  <1>3. PICK next : next = [lineTask EXCEPT !.state = "working", !.by = g, !.lapsed = FALSE, !.attempts = @ + 1]
    OBVIOUS
  <1>4. next \in LineTasks /\ next.state = "working" /\ next.by = g /\ next.attempts = lineTask.attempts + 1
        /\ (next.reported <=> lineTask.reported)
    BY <1>2, <1>3 DEF LineTasks, TaskStates
  <1>5. PICK row : row = [Lines!NoRun EXCEPT !.pc = "claimed", !.by = g, !.attempt = lineTask.attempts + 1]
    OBVIOUS
  <1>6. row \in LineRuns /\ row.pc = "claimed" /\ row.by = g /\ row.attempt = lineTask.attempts + 1 /\ row.final = "none" /\ ~row.live
    BY <1>2, <1>5 DEF LineRuns, Lines!NoRun, LinePcs, Lines!InHand, Lines!NoRoot
  <1>7. lineRun' = [lineRun EXCEPT ![n] = row] /\ lineTask' = next /\ UNCHANGED <<creator, home, bind, threads, room, gate, report, faults, early>>
    BY <1>3, <1>5 DEF Lines!ClaimTask
  <1>8. TaskMay(lineTask, next)
    BY <1>2, <1>4 DEF TaskMay
  <1>9. threads \in Seq(Lines!Roots \ {Lines!Above}) /\ BoundMay(threads, threads) /\ room \in SUBSET Said /\ faults \in Nat
    BY <1>1 DEF BoundMay, LineTypes
  <1>10. RowMay(row, next, threads, faults)
    BY <1>6 DEF RowMay, Lines!Terminal
  <1>11. LineMay(n, row, room)
    BY <1>1, <1>2 DEF LineMay, LinesInv
  <1>12. PostMay(room, next, threads)
    BY DEF PostMay
  <1>13. GoesOn(n, row, next, room, faults)
    BY <1>4, <1>6 DEF GoesOn, Before
  <1>. QED
    BY <1>4, <1>6, <1>7, <1>8, <1>9, <1>10, <1>11, <1>12, <1>13, RunMoves

(* What leaves the task as it is. *)
LEMMA RunOnly ==
    ASSUME Lines!ProgressLineConstants, LineInv, NEW n \in Lines!Runs, NEW row \in LineRuns, lineRun' = [lineRun EXCEPT ![n] = row],
           NEW posted \in SUBSET Said, room' = posted, NEW failed \in Nat, faults' = failed,
           UNCHANGED <<creator, home, bind, lineTask, threads, gate, report, early>>,
           RowMay(row, lineTask, threads, failed), LineMay(n, row, posted), PostMay(posted, lineTask, threads),
           GoesOn(n, row, lineTask, posted, failed)
    PROVE  LineInv'
  <1>1. lineTask \in LineTasks /\ threads \in Seq(Lines!Roots \ {Lines!Above}) /\ TaskMay(lineTask, lineTask) /\ BoundMay(threads, threads)
    BY DEF LineInv, LineTypes, TaskMay, BoundMay
  <1>2. lineTask' = lineTask /\ threads' = threads
    OBVIOUS
  <1>. QED
    BY <1>1, <1>2, RunMoves

LEMMA GoneRows ==
    ASSUME Lines!ProgressLineConstants, LineInv, NEW n \in Lines!Runs, NEW failed \in Nat
    PROVE  Lines!Gone(n) \in LineRuns /\ Lines!Gone(n).pc = "over" /\ RowMay(Lines!Gone(n), lineTask, threads, failed)
  <1>1. lineRun[n] \in LineRuns
    BY DEF LineInv, LineTypes
  <1>2. Lines!NoRun \in LineRuns /\ Lines!NoRun.final = "none" /\ ~Lines!NoRun.live
    BY DEF Lines!ProgressLineConstants, Lines!NoRun, LineRuns, LinePcs, Lines!Roots, Lines!NoRoot
  <1>3. PICK base : base = Lines!NoRun
    OBVIOUS
  <1>4. PICK row : row = [base EXCEPT !.pc = "over", !.by = lineRun[n].by]
    OBVIOUS
  <1>5. row \in LineRuns /\ row.pc = "over" /\ row.final = "none" /\ ~row.live
    BY <1>1, <1>2, <1>3, <1>4 DEF LineRuns, LinePcs
  <1>. QED
    BY <1>3, <1>4, <1>5 DEF Lines!Gone, RowMay, Lines!Terminal

LEMMA LookKeeps ==
    ASSUME Lines!ProgressLineConstants, LineInv, NEW n \in Lines!Runs, Lines!LookForThread(n)
    PROVE  LineInv'
  <1>1. LineTypes /\ LinesInv /\ RunsInv /\ EndsInv /\ TellInv /\ lineRun[n] \in LineRuns /\ lineRun[n].pc = "claimed"
        /\ RowMay(lineRun[n], lineTask, threads, faults) /\ room \in SUBSET Said /\ PostMay(room, lineTask, threads)
    BY DEF LineInv, LineTypes, RunsInv, Lines!LookForThread, PostMay
  <1>2. UNCHANGED <<creator, home, bind, lineTask, threads, room, gate, report, early>> /\ room' = room
    BY DEF Lines!LookForThread
  <1>3. CASE lineRun' = [lineRun EXCEPT ![n].pc = "looked", ![n].root = Lines!ConversationThread] /\ UNCHANGED faults
    <2>1. PICK row : row = [lineRun[n] EXCEPT !.pc = "looked", !.root = Lines!ConversationThread]
      OBVIOUS
    <2>2. row \in LineRuns /\ row.pc = "looked" /\ row.root = Lines!ConversationThread /\ row.final = lineRun[n].final
          /\ (row.live <=> lineRun[n].live) /\ row.by = lineRun[n].by /\ row.attempt = lineRun[n].attempt /\ row.finalBy = lineRun[n].finalBy
      BY <1>1, <2>1, Threads DEF LineRuns, LinePcs, Lines!InHand
    <2>3. lineRun' = [lineRun EXCEPT ![n] = row] /\ faults' = faults /\ faults \in Nat
      BY <1>1, <1>3, <2>1 DEF LineTypes
    <2>4. LineMay(n, row, room)
      BY <1>1 DEF LineMay, LinesInv
    <2>5. RowMay(row, lineTask, threads, faults)
      <3>1. Lines!ConversationThread \notin {Lines!NoRoot, Lines!Above} => threads # <<>> /\ threads[1] = Lines!ConversationThread
        BY <1>1, Threads
      <3>2. row.live => row.root \in Lines!Roots
        BY <1>1, <2>2 DEF RowMay
      <3>. QED
        BY <1>1, <2>2, <3>1, <3>2 DEF RowMay, Elsewhere
    <2>6. GoesOn(n, row, lineTask, room, faults)
      BY <2>2 DEF GoesOn, Before, WillTell, Lines!Holds
    <2>. QED
      BY <1>1, <1>2, <2>2, <2>3, <2>4, <2>5, <2>6, RunOnly
  <1>4. CASE lineRun' = [lineRun EXCEPT ![n] = Lines!Gone(n)] /\ Lines!Fault
    <2>1. PICK failed \in Nat : faults' = failed /\ failed # 0
      BY <1>1, <1>4, Faults
    <2>2. LineMay(n, Lines!Gone(n), room)
      BY <1>1 DEF LineMay, LinesInv
    <2>3. GoesOn(n, Lines!Gone(n), lineTask, room, failed)
      BY <2>1 DEF GoesOn
    <2>. QED
      BY <1>1, <1>2, <1>4, <2>1, <2>2, <2>3, GoneRows, RunOnly
  <1>. QED
    BY <1>3, <1>4 DEF Lines!LookForThread


LEMMA SayKeeps ==
    ASSUME Lines!ProgressLineConstants, LineInv, NEW n \in Lines!Runs, Lines!SayClaim(n)
    PROVE  LineInv'
  <1>1. LineTypes /\ LinesInv /\ RunsInv /\ EndsInv /\ TellInv /\ lineRun[n] \in LineRuns /\ lineRun[n].pc = "looked"
        /\ RowMay(lineRun[n], lineTask, threads, faults) /\ room \in SUBSET Said /\ n \in Lines!Roots \ {Lines!Above} /\ n \in Lines!Runs
    BY DEF LineInv, LineTypes, RunsInv, Lines!SayClaim, Lines!ProgressLineConstants, Lines!Roots, Lines!Runs, Lines!Above
  <1>2. UNCHANGED <<creator, home, bind, lineTask, gate, report, early>>
    BY DEF Lines!SayClaim
  <1>3. \A said \in SUBSET Said : LineMay(n, lineRun[n], said) => \A m \in said : m.kind = "line" => m \in room /\ m.run # n
    BY <1>1 DEF LineMay
  <1>4. \A m \in room : m.kind = "line" => m.run # n
    BY <1>1 DEF LinesInv
  <1>5. CASE lineRun[n].root # Lines!NoRoot
    <2>1. PICK asked \in BOOLEAN : asked = (Lines!TaskThread = lineRun[n].root)
      OBVIOUS
    <2>2. PICK row : row = [lineRun[n] EXCEPT !.pc = "said", !.own = asked]
      OBVIOUS
    <2>3. row \in LineRuns /\ row.pc = "said" /\ row.root = lineRun[n].root /\ (row.own <=> asked)
      BY <1>1, <2>1, <2>2 DEF LineRuns, LinePcs, Lines!InHand
    <2>4. row.final = lineRun[n].final /\ (row.live <=> lineRun[n].live) /\ row.by = lineRun[n].by /\ row.attempt = lineRun[n].attempt
          /\ row.finalBy = lineRun[n].finalBy
      BY <1>1, <2>2 DEF LineRuns
    <2>5. lineRun' = [lineRun EXCEPT ![n] = row] /\ UNCHANGED threads
      BY <1>1, <1>5, <2>1, <2>2 DEF Lines!SayClaim, LineTypes
    <2>6. PICK posted : posted = room'
      OBVIOUS
    <2>7. (posted = room \/ posted = room \cup {Lines!Message("claim", lineRun[n].root)}) /\ (faults' = faults \/ Lines!Fault)
      BY <1>5, <2>6 DEF Lines!SayClaim
    <2>8. posted \in SUBSET Said /\ \A m \in posted : m \in room \/ m.kind = "claim"
      <3>1. Lines!Message("claim", lineRun[n].root) \in Said /\ Lines!Message("claim", lineRun[n].root).kind = "claim"
        BY <1>1, <1>5 DEF Lines!Message, Said, LineRuns
      <3>. QED
        BY <1>1, <2>7, <3>1
    <2>9. room \subseteq posted
      BY <2>7
    <2>10. PICK failed \in Nat : faults' = failed /\ (failed = faults \/ failed # 0)
      BY <1>1, <2>7, Faults DEF LineTypes
    <2>11. RowMay(row, lineTask, threads, failed)
      <3>1. ~row.own => Elsewhere(row.root, threads)
        BY <1>1, <1>5, <2>1, <2>3, Threads DEF RowMay, Elsewhere, Lines!TaskThread
      <3>2. lineRun[n].root \in Lines!Roots
        BY <1>1, <1>5 DEF LineRuns
      <3>. QED
        BY <1>1, <2>3, <2>4, <2>10, <3>1, <3>2 DEF RowMay
    <2>12. LineMay(n, row, posted)
      BY <1>4, <2>8 DEF LineMay
    <2>13. PostMay(posted, lineTask, threads)
      BY <2>8, <2>9 DEF PostMay
    <2>14. GoesOn(n, row, lineTask, posted, failed)
      BY <2>3, <2>4, <2>10 DEF GoesOn, Before, WillTell, Lines!Holds
    <2>. QED
      BY <1>2, <2>3, <2>5, <2>6, <2>8, <2>10, <2>11, <2>12, <2>13, <2>14, RunOnly
  <1>6. ASSUME lineRun[n].root = Lines!NoRoot, lineRun' = [lineRun EXCEPT ![n].pc = "running"], UNCHANGED <<room, threads>>,
               NEW failed \in Nat, faults' = failed, (failed = faults /\ home = "nowhere") \/ failed # 0
        PROVE  LineInv'
    <2>1. PICK row : row = [lineRun[n] EXCEPT !.pc = "running"]
      OBVIOUS
    <2>2. row \in LineRuns /\ row.pc = "running" /\ row.root = Lines!NoRoot
      BY <1>1, <1>6, <2>1 DEF LineRuns, LinePcs, Lines!InHand
    <2>3. row.final = lineRun[n].final /\ (row.live <=> lineRun[n].live) /\ row.by = lineRun[n].by /\ row.attempt = lineRun[n].attempt
          /\ row.finalBy = lineRun[n].finalBy
      BY <1>1, <2>1 DEF LineRuns
    <2>4. lineRun' = [lineRun EXCEPT ![n] = row] /\ room' = room
      BY <1>1, <1>6, <2>1 DEF LineTypes
    <2>5. RowMay(row, lineTask, threads, failed)
      BY <1>1, <1>6, <2>2, <2>3 DEF RowMay, Elsewhere
    <2>6. LineMay(n, row, room) /\ PostMay(room, lineTask, threads)
      BY <1>4 DEF LineMay, PostMay
    <2>7. GoesOn(n, row, lineTask, room, failed)
      BY <1>6, <2>2, <2>3 DEF GoesOn, Before, WillTell, Lines!Holds
    <2>. QED
      BY <1>1, <1>2, <1>6, <2>2, <2>4, <2>5, <2>6, <2>7, RunOnly
  <1>7. ASSUME lineRun[n].root = Lines!NoRoot, lineRun' = [lineRun EXCEPT ![n].pc = "said", ![n].root = n, ![n].own = TRUE],
               room' = room \cup {Lines!Message("claim", n)}, threads' = Append(threads, n), UNCHANGED faults
        PROVE  LineInv'
    <2>1. PICK row : row = [lineRun[n] EXCEPT !.pc = "said", !.root = n, !.own = TRUE]
      OBVIOUS
    <2>2. row \in LineRuns /\ row.pc = "said" /\ row.root = n /\ row.own
      BY <1>1, <2>1 DEF LineRuns, LinePcs, Lines!InHand
    <2>3. row.final = lineRun[n].final /\ (row.live <=> lineRun[n].live) /\ row.by = lineRun[n].by /\ row.attempt = lineRun[n].attempt
          /\ row.finalBy = lineRun[n].finalBy
      BY <1>1, <2>1 DEF LineRuns
    <2>4. lineRun' = [lineRun EXCEPT ![n] = row]
      BY <1>1, <1>7, <2>1 DEF LineTypes
    <2>5. PICK posted : posted = room'
      OBVIOUS
    <2>6. posted \in SUBSET Said /\ room \subseteq posted /\ \A m \in posted : m \in room \/ m.kind = "claim"
      <3>1. Lines!Message("claim", n) \in Said /\ Lines!Message("claim", n).kind = "claim"
        BY <1>1 DEF Lines!Message, Said
      <3>. QED
        BY <1>1, <1>7, <2>5, <3>1
    <2>7. PICK bound : bound = Append(threads, n)
      OBVIOUS
    <2>8. bound \in Seq(Lines!Roots \ {Lines!Above}) /\ BoundMay(threads, bound) /\ threads' = bound
      <3>1. threads \in Seq(Lines!Roots \ {Lines!Above})
        BY <1>1 DEF LineTypes
      <3>2. bound \in Seq(Lines!Roots \ {Lines!Above}) /\ Len(bound) = Len(threads) + 1 /\ Len(threads) \in Nat
        BY <1>1, <2>7, <3>1
      <3>3. threads = <<>> \/ Len(threads) # 0
        BY <3>1
      <3>. QED
        BY <1>7, <2>7, <3>2, <3>3 DEF BoundMay
    <2>9. TaskMay(lineTask, lineTask) /\ lineTask \in LineTasks /\ lineTask' = lineTask /\ faults' = faults /\ faults \in Nat
      BY <1>1, <1>2, <1>7 DEF TaskMay, LineTypes
    <2>10. RowMay(row, lineTask, bound, faults)
      BY <1>1, <2>2, <2>3 DEF RowMay
    <2>11. LineMay(n, row, posted)
      BY <1>4, <2>6 DEF LineMay
    <2>12. PostMay(posted, lineTask, bound)
      BY <2>6 DEF PostMay
    <2>13. GoesOn(n, row, lineTask, posted, faults)
      BY <2>2, <2>3 DEF GoesOn, Before, WillTell, Lines!Holds
    <2>. QED
      BY <1>2, <2>2, <2>4, <2>5, <2>6, <2>8, <2>9, <2>10, <2>11, <2>12, <2>13, RunMoves
  <1>. QED
    <2>1. CASE lineRun[n].root = Lines!NoRoot /\ home = "nowhere"
      <3>1. lineRun' = [lineRun EXCEPT ![n].pc = "running"] /\ UNCHANGED <<room, threads, faults>>
        BY <2>1 DEF Lines!SayClaim
      <3>2. PICK failed \in Nat : faults' = failed /\ failed = faults
        BY <1>1, <3>1 DEF LineTypes
      <3>. QED
        BY <1>6, <2>1, <3>1, <3>2
    <2>2. CASE lineRun[n].root = Lines!NoRoot /\ home # "nowhere"
      <3>1. \/ lineRun' = [lineRun EXCEPT ![n].pc = "said", ![n].root = n, ![n].own = TRUE]
               /\ room' = room \cup {Lines!Message("claim", n)} /\ threads' = Append(threads, n) /\ UNCHANGED faults
            \/ lineRun' = [lineRun EXCEPT ![n].pc = "running"] /\ Lines!Fault /\ UNCHANGED <<room, threads>>
        BY <2>2 DEF Lines!SayClaim
      <3>2. CASE lineRun' = [lineRun EXCEPT ![n].pc = "running"] /\ Lines!Fault /\ UNCHANGED <<room, threads>>
        <4>1. PICK failed \in Nat : faults' = failed /\ failed # 0
          BY <1>1, <3>2, Faults
        <4>. QED
          BY <1>6, <2>2, <3>2, <4>1
      <3>. QED
        BY <1>7, <2>2, <3>1, <3>2
    <2>. QED
      BY <1>5, <2>1, <2>2

LEMMA SweepThreadKeeps ==
    ASSUME Lines!ProgressLineConstants, LineInv, NEW n \in Lines!Runs, Lines!SweepThread(n)
    PROVE  LineInv'
  <1>1. LineTypes /\ LinesInv /\ RunsInv /\ lineRun[n] \in LineRuns /\ lineRun[n].pc = "said"
        /\ RowMay(lineRun[n], lineTask, threads, faults) /\ faults' = faults /\ faults \in Nat
    BY DEF LineInv, LineTypes, RunsInv, Lines!SweepThread
  <1>2. UNCHANGED <<creator, home, bind, lineTask, threads, gate, report, early>>
    BY DEF Lines!SweepThread
  <1>3. PICK row : row = [lineRun[n] EXCEPT !.pc = "swept"]
    OBVIOUS
  <1>4. row \in LineRuns /\ row.pc = "swept" /\ row.root = lineRun[n].root /\ row.final = lineRun[n].final /\ (row.live <=> lineRun[n].live)
        /\ row.by = lineRun[n].by /\ row.attempt = lineRun[n].attempt /\ row.finalBy = lineRun[n].finalBy /\ (row.own <=> lineRun[n].own)
    BY <1>1, <1>3 DEF LineRuns, LinePcs, Lines!InHand
  <1>5. lineRun' = [lineRun EXCEPT ![n] = row]
    BY <1>1, <1>3 DEF Lines!SweepThread, LineTypes
  <1>6. PICK posted : posted = room'
    OBVIOUS
  <1>7. posted \in SUBSET Said /\ posted \subseteq room /\ \A m \in room : m.kind # "line" => m \in posted
    BY <1>1, <1>6 DEF Lines!SweepThread, LineTypes
  <1>8. RowMay(row, lineTask, threads, faults)
    BY <1>1, <1>4 DEF RowMay
  <1>9. LineMay(n, row, posted)
    BY <1>1, <1>7 DEF LineMay, LinesInv
  <1>10. PostMay(posted, lineTask, threads)
    BY <1>7 DEF PostMay
  <1>11. GoesOn(n, row, lineTask, posted, faults)
    BY <1>4 DEF GoesOn, Before, WillTell, Lines!Holds
  <1>. QED
    BY <1>1, <1>2, <1>4, <1>5, <1>6, <1>7, <1>8, <1>9, <1>10, <1>11, RunOnly

LEMMA PostKeeps ==
    ASSUME Lines!ProgressLineConstants, LineInv, NEW n \in Lines!Runs, Lines!PostLine(n)
    PROVE  LineInv'
  <1>1. LineTypes /\ LinesInv /\ RunsInv /\ lineRun[n] \in LineRuns /\ lineRun[n].pc = "swept" /\ room \in SUBSET Said
        /\ RowMay(lineRun[n], lineTask, threads, faults) /\ faults \in Nat
    BY DEF LineInv, LineTypes, RunsInv, Lines!PostLine
  <1>2. UNCHANGED <<creator, home, bind, lineTask, threads, gate, report, early>>
    BY DEF Lines!PostLine
  <1>3. ASSUME NEW on \in BOOLEAN, on \/ on = lineRun[n].live, NEW posted \in SUBSET Said, room' = posted, room \subseteq posted,
               \A m \in posted : m \in room \/ (m.kind = "line" /\ m.run = n /\ m.root = lineRun[n].root /\ on),
               NEW failed \in Nat, faults' = failed, (failed = faults /\ on) \/ failed # 0,
               NEW row, row = [lineRun[n] EXCEPT !.pc = "running", !.live = on], lineRun' = [lineRun EXCEPT ![n] = row]
        PROVE  LineInv'
    <2>1. row \in LineRuns /\ row.pc = "running" /\ row.root = lineRun[n].root /\ row.final = lineRun[n].final /\ (row.live <=> on)
          /\ row.by = lineRun[n].by /\ row.attempt = lineRun[n].attempt /\ row.finalBy = lineRun[n].finalBy /\ (row.own <=> lineRun[n].own)
      BY <1>1, <1>3 DEF LineRuns, LinePcs, Lines!InHand
    <2>2. RowMay(row, lineTask, threads, failed)
      BY <1>1, <1>3, <2>1 DEF RowMay
    <2>3. LineMay(n, row, posted)
      BY <1>1, <1>3, <2>1 DEF LineMay, LinesInv
    <2>4. PostMay(posted, lineTask, threads)
      BY <1>3 DEF PostMay
    <2>5. GoesOn(n, row, lineTask, posted, failed)
      BY <1>3, <2>1 DEF GoesOn, Before, WillTell, Lines!Holds
    <2>. QED
      BY <1>2, <1>3, <2>1, <2>2, <2>3, <2>4, <2>5, RunOnly
  <1>4. CASE lineRun' = [lineRun EXCEPT ![n].pc = "running", ![n].live = TRUE] /\ room' = room \cup {Lines!Line(lineRun[n].root, n)} /\ UNCHANGED faults
    <2>1. Lines!Line(lineRun[n].root, n) \in Said /\ Lines!Line(lineRun[n].root, n).kind = "line" /\ Lines!Line(lineRun[n].root, n).run = n
          /\ Lines!Line(lineRun[n].root, n).root = lineRun[n].root
      BY <1>1 DEF Lines!Line, Said, RowMay
    <2>2. PICK posted : posted = room'
      OBVIOUS
    <2>3. PICK row : row = [lineRun[n] EXCEPT !.pc = "running", !.live = TRUE]
      OBVIOUS
    <2>4. posted \in SUBSET Said /\ room \subseteq posted
          /\ \A m \in posted : m \in room \/ (m.kind = "line" /\ m.run = n /\ m.root = lineRun[n].root /\ TRUE)
      BY <1>1, <1>4, <2>1, <2>2
    <2>5. lineRun' = [lineRun EXCEPT ![n] = row]
      BY <1>1, <1>4, <2>3 DEF LineTypes
    <2>6. faults' = faults /\ (TRUE \/ TRUE = lineRun[n].live)
      BY <1>4
    <2>. QED
      BY <1>1, <1>3, <2>2, <2>3, <2>4, <2>5, <2>6
  <1>5. CASE lineRun' = [lineRun EXCEPT ![n].pc = "running"] /\ Lines!Fault /\ UNCHANGED room
    <2>1. PICK failed \in Nat : faults' = failed /\ failed # 0
      BY <1>1, <1>5, Faults
    <2>2. PICK on \in BOOLEAN : on = lineRun[n].live
      BY <1>1 DEF LineRuns
    <2>3. PICK row : row = [lineRun[n] EXCEPT !.pc = "running", !.live = on]
      OBVIOUS
    <2>4. row = [lineRun[n] EXCEPT !.pc = "running"]
      BY <1>1, <2>2, <2>3 DEF LineRuns
    <2>5. lineRun' = [lineRun EXCEPT ![n] = row]
      BY <1>1, <1>5, <2>4 DEF LineTypes
    <2>. QED
      BY <1>1, <1>3, <1>5, <2>1, <2>2, <2>3, <2>5
  <1>. QED
    BY <1>4, <1>5 DEF Lines!PostLine


LEMMA OutcomeRows ==
    ASSUME Lines!ProgressLineConstants, lineTask \in LineTasks, NEW next \in Lines!Outcomes
    PROVE  /\ next \in LineTasks /\ next.by = lineTask.by /\ next.state \in {"ended", "blocked", "submitted"}
           /\ (next.reported <=> lineTask.reported)
  <1>1. PICK queued : queued = [lineTask EXCEPT !.state = "submitted", !.lapsed = FALSE]
    OBVIOUS
  <1>2. queued \in LineTasks /\ queued.by = lineTask.by /\ queued.state = "submitted" /\ (queued.reported <=> lineTask.reported)
        /\ queued.attempts = lineTask.attempts
    BY <1>1 DEF LineTasks, TaskStates
  <1>3. PICK fewer : fewer = IF queued.attempts > 0 THEN queued.attempts - 1 ELSE 0
    OBVIOUS
  <1>4. fewer \in 0 .. LineAttempts
    BY <1>2, <1>3 DEF Lines!ProgressLineConstants, LineTasks
  <1>5. PICK refunded : refunded = [queued EXCEPT !.attempts = fewer]
    OBVIOUS
  <1>6. refunded \in LineTasks /\ refunded.by = lineTask.by /\ refunded.state = "submitted" /\ (refunded.reported <=> lineTask.reported)
    BY <1>2, <1>4, <1>5 DEF LineTasks
  <1>7. \/ next = [lineTask EXCEPT !.state = "ended", !.lapsed = FALSE]
        \/ next = [lineTask EXCEPT !.state = "blocked", !.lapsed = FALSE]
        \/ next = queued \/ next = [queued EXCEPT !.pin = lineTask.by]
        \/ next = refunded \/ next = [refunded EXCEPT !.pin = lineTask.by, !.carried = TRUE]
    <2>1. refunded = [queued EXCEPT !.attempts = IF @ > 0 THEN @ - 1 ELSE 0]
      BY <1>2, <1>3, <1>5 DEF LineTasks
    <2>. QED
      BY <1>1, <2>1 DEF Lines!Outcomes
  <1>8. lineTask.by \in Gateways \cup {None}
    BY DEF LineTasks
  <1>9. CASE next = [lineTask EXCEPT !.state = "ended", !.lapsed = FALSE]
    BY <1>9 DEF LineTasks, TaskStates, Lines!Terminal
  <1>10. CASE next = [lineTask EXCEPT !.state = "blocked", !.lapsed = FALSE]
    BY <1>10 DEF LineTasks, TaskStates
  <1>11. CASE next = [queued EXCEPT !.pin = lineTask.by]
    BY <1>2, <1>8, <1>11 DEF LineTasks
  <1>12. CASE next = [refunded EXCEPT !.pin = lineTask.by, !.carried = TRUE]
    BY <1>6, <1>8, <1>12 DEF LineTasks
  <1>. QED
    BY <1>2, <1>6, <1>7, <1>9, <1>10, <1>11, <1>12

(* A row that a running run leaves: its line, if it has one, is still its own. *)
LEMMA LeavesRows ==
    ASSUME Lines!ProgressLineConstants, LineInv, NEW n \in Lines!Runs, NEW row \in LineRuns, lineRun[n].pc \in {"running", "finished"},
           (row = Lines!Gone(n) /\ ~lineRun[n].live)
           \/ (row.pc \in {"finished", "closing"} /\ row.live /\ lineRun[n].live /\ row.root = lineRun[n].root),
           NEW posted \in SUBSET Said, \A m \in posted : m \in room \/ m.kind # "line"
    PROVE  LineMay(n, row, posted)
  BY DEF LineMay, LineInv, LinesInv

LEMMA FinishKeeps ==
    ASSUME Lines!ProgressLineConstants, LineInv, NEW n \in Lines!Runs, Lines!FinishRun(n)
    PROVE  LineInv'
  <1>1. LineTypes /\ LinesInv /\ RunsInv /\ lineRun[n] \in LineRuns /\ lineRun[n].pc = "running" /\ room \in SUBSET Said
        /\ RowMay(lineRun[n], lineTask, threads, faults) /\ lineTask \in LineTasks /\ threads \in Seq(Lines!Roots \ {Lines!Above}) /\ faults \in Nat
    BY DEF LineInv, LineTypes, RunsInv, Lines!FinishRun
  <1>2. UNCHANGED <<creator, home, bind, threads, room, gate, report, early>> /\ room' = room /\ threads' = threads
    BY DEF Lines!FinishRun
  <1>3. BoundMay(threads, threads) /\ TaskMay(lineTask, lineTask) /\ \A m \in room : m \in room \/ m.kind # "line"
    BY DEF BoundMay, TaskMay
  <1>4. ASSUME (lineTask.state \notin Lines!Terminal /\ ~(Lines!Holds(n) /\ lineTask.state \in {"working", "blocked"}) /\ UNCHANGED faults)
               \/ Lines!Fault,
               lineRun' = [lineRun EXCEPT ![n] = Lines!Unsaid(n)], UNCHANGED lineTask
        PROVE  LineInv'
    <2>1. PICK failed \in Nat : faults' = failed /\ (failed = faults \/ failed # 0)
                                /\ (failed = 0 => lineTask.state \notin Lines!Terminal
                                                  /\ ~(Lines!Holds(n) /\ lineTask.state \in {"working", "blocked"}))
      BY <1>1, <1>4, Faults
    <2>2. PICK row : row = Lines!Unsaid(n)
      OBVIOUS
    <2>3. row \in LineRuns /\ RowMay(row, lineTask, threads, failed) /\ LineMay(n, row, room)
      <3>1. CASE lineRun[n].live
        <4>1. row = [lineRun[n] EXCEPT !.pc = "closing"]
          BY <2>2, <3>1 DEF Lines!Unsaid
        <4>2. row \in LineRuns /\ row.pc = "closing" /\ row.root = lineRun[n].root /\ row.final = lineRun[n].final
              /\ (row.live <=> lineRun[n].live) /\ row.finalBy = lineRun[n].finalBy /\ (row.own <=> lineRun[n].own)
          BY <1>1, <4>1 DEF LineRuns, LinePcs, Lines!InHand
        <4>3. RowMay(row, lineTask, threads, failed)
          BY <1>1, <4>2 DEF RowMay
        <4>. QED
          BY <1>1, <1>3, <3>1, <4>2, <4>3, LeavesRows
      <3>2. CASE ~lineRun[n].live
        <4>1. row = Lines!Gone(n)
          BY <2>2, <3>2 DEF Lines!Unsaid
        <4>. QED
          BY <1>1, <1>3, <2>1, <3>2, <4>1, GoneRows, LeavesRows
      <3>. QED
        BY <3>1, <3>2
    <2>4. GoesOn(n, row, lineTask, room, failed)
      BY <2>1 DEF GoesOn, Lines!Terminal
    <2>5. PostMay(room, lineTask, threads) /\ lineTask' = lineTask /\ lineRun' = [lineRun EXCEPT ![n] = row]
      BY <1>4, <2>2 DEF PostMay
    <2>. QED
      BY <1>1, <1>2, <2>1, <2>3, <2>4, <2>5, RunOnly
  <1>5. ASSUME \/ lineTask.state \in Lines!Terminal /\ UNCHANGED lineTask
               \/ lineTask.state = "blocked" /\ Lines!Holds(n) /\ UNCHANGED lineTask
               \/ lineTask.state = "working" /\ Lines!Holds(n) /\ lineTask' \in Lines!Outcomes,
               lineRun' = [lineRun EXCEPT ![n] =
                  IF lineRun[n].live THEN [@ EXCEPT !.pc = "finished", !.final = lineTask'.state, !.finalBy = lineTask'.by] ELSE Lines!Gone(n)],
               UNCHANGED faults
        PROVE  LineInv'
    <2>1. PICK next : next = lineTask'
      OBVIOUS
    <2>2. /\ next \in LineTasks /\ next.by = lineTask.by /\ next.state # "working"
          /\ next.reported <=> lineTask.reported
          /\ lineTask.state \in Lines!Terminal => next = lineTask
      BY <1>1, <1>5, <2>1, OutcomeRows DEF Lines!Terminal
    <2>3. TaskMay(lineTask, next)
      BY <2>2 DEF TaskMay
    <2>4. PICK row : row = IF lineRun[n].live THEN [lineRun[n] EXCEPT !.pc = "finished", !.final = next.state, !.finalBy = next.by]
                                              ELSE Lines!Gone(n)
      OBVIOUS
    <2>5. lineRun' = [lineRun EXCEPT ![n] = row]
      BY <1>1, <1>5, <2>1, <2>4 DEF LineTypes
    <2>6. CASE lineRun[n].live
      <3>1. row = [lineRun[n] EXCEPT !.pc = "finished", !.final = next.state, !.finalBy = next.by]
        BY <2>4, <2>6
      <3>2. next.state \in TaskStates /\ next.by \in Gateways \cup {None}
        BY <2>2 DEF LineTasks
      <3>3. row \in LineRuns /\ row.pc = "finished" /\ row.root = lineRun[n].root /\ row.final = next.state
            /\ (row.live <=> lineRun[n].live) /\ row.finalBy = next.by /\ (row.own <=> lineRun[n].own)
        BY <1>1, <3>1, <3>2 DEF LineRuns, LinePcs, Lines!InHand
      <3>4. RowMay(row, next, threads, faults)
        BY <1>1, <2>6, <3>3 DEF RowMay
      <3>5. LineMay(n, row, room)
        BY <1>1, <1>3, <2>6, <3>3, LeavesRows
      <3>6. GoesOn(n, row, next, room, faults)
        BY <2>2, <3>3 DEF GoesOn, WillTell
      <3>7. PostMay(room, next, threads) /\ lineTask' = next /\ faults' = faults
        BY <1>5, <2>1 DEF PostMay
      <3>. QED
        BY <1>1, <1>2, <1>3, <2>2, <2>3, <2>5, <3>3, <3>4, <3>5, <3>6, <3>7, RunMoves
    <2>7. CASE ~lineRun[n].live
      <3>1. row = Lines!Gone(n)
        BY <2>4, <2>7
      <3>2. row \in LineRuns /\ RowMay(row, lineTask, threads, faults)
        BY <1>1, <3>1, GoneRows
      <3>3. RowMay(row, next, threads, faults)
        BY <1>1, <1>3, <2>2, <2>3, <3>2, OtherRows
      <3>4. LineMay(n, row, room)
        BY <1>1, <1>3, <2>7, <3>1, <3>2, LeavesRows
      <3>5. GoesOn(n, row, next, room, faults)
        BY <1>1, <2>2, <2>7 DEF GoesOn, RowMay
      <3>6. PostMay(room, next, threads) /\ lineTask' = next /\ faults' = faults
        BY <1>5, <2>1 DEF PostMay
      <3>. QED
        BY <1>1, <1>2, <1>3, <2>2, <2>3, <2>5, <3>2, <3>3, <3>4, <3>5, <3>6, RunMoves
    <2>. QED
      BY <2>6, <2>7
  <1>. QED
    BY <1>4, <1>5 DEF Lines!FinishRun

LEMMA SayEndKeeps ==
    ASSUME Lines!ProgressLineConstants, LineInv, NEW n \in Lines!Runs, Lines!SayHowItEnded(n)
    PROVE  LineInv'
  <1>1. LineTypes /\ LinesInv /\ RunsInv /\ lineRun[n] \in LineRuns /\ lineRun[n].pc = "finished" /\ room \in SUBSET Said
        /\ RowMay(lineRun[n], lineTask, threads, faults) /\ lineRun[n].live /\ lineRun[n].root \in Lines!Roots
    BY DEF LineInv, LineTypes, RunsInv, Lines!SayHowItEnded, RowMay
  <1>2. UNCHANGED <<creator, home, bind, lineTask, threads, gate, report, early>>
    BY DEF Lines!SayHowItEnded
  <1>3. PICK row : row = [lineRun[n] EXCEPT !.pc = "closing"]
    OBVIOUS
  <1>4. row \in LineRuns /\ row.pc = "closing" /\ row.root = lineRun[n].root /\ row.final = lineRun[n].final
        /\ (row.live <=> lineRun[n].live) /\ row.finalBy = lineRun[n].finalBy /\ (row.own <=> lineRun[n].own)
    BY <1>1, <1>3 DEF LineRuns, LinePcs, Lines!InHand
  <1>5. lineRun' = [lineRun EXCEPT ![n] = row]
    BY <1>1, <1>3 DEF Lines!SayHowItEnded, LineTypes
  <1>6. PICK posted : posted = room'
    OBVIOUS
  <1>7. PICK failed \in Nat : faults' = failed /\ ((failed = faults /\ posted = room \cup Lines!Words(n)) \/ failed # 0)
    BY <1>1, <1>6, Faults DEF Lines!SayHowItEnded, LineTypes
  <1>8. /\ \A m \in Lines!Words(n) : m \in Said /\ m.kind \in {"end", "more"} /\ m.root = lineRun[n].root
        /\ \A m \in Lines!Words(n) : m.kind = "end" => lineRun[n].final = "ended" /\ ~Lines!LeftToReporter(n)
        /\ lineRun[n].final = "ended" /\ ~Lines!LeftToReporter(n) => \E m \in Lines!Words(n) : m.kind = "end"
    <2>1. \A k \in {"end", "more"} : Lines!Message(k, lineRun[n].root) \in Said /\ Lines!Message(k, lineRun[n].root).kind = k
                                     /\ Lines!Message(k, lineRun[n].root).root = lineRun[n].root
      BY <1>1 DEF Lines!Message, Said
    <2>. QED
      BY <2>1 DEF Lines!Words
  <1>9. posted \in SUBSET Said /\ room \subseteq posted /\ \A m \in posted : m \in room \/ m \in Lines!Words(n)
    BY <1>1, <1>6, <1>8 DEF Lines!SayHowItEnded
  <1>10. RowMay(row, lineTask, threads, failed)
    BY <1>1, <1>4 DEF RowMay
  <1>11. LineMay(n, row, posted)
    BY <1>1, <1>4, <1>8, <1>9, LeavesRows
  <1>12. PostMay(posted, lineTask, threads)
    <2>1. lineRun[n].final = "ended" /\ ~Lines!LeftToReporter(n)
             => lineRun[n].root = Lines!Above \/ Len(threads) > 1 \/ (lineTask.state \in Lines!Terminal /\ ~Lines!Reports(lineTask.by))
      BY <1>1, Threads DEF Lines!LeftToReporter, Lines!reporterPosts, RowMay, Elsewhere, Lines!Terminal
    <2>. QED
      BY <1>8, <1>9, <2>1 DEF PostMay
  <1>13. GoesOn(n, row, lineTask, posted, failed)
    <2>1. Lines!LeftToReporter(n) /\ lineRun[n].final = "ended" => Lines!Reports(lineTask.by)
      BY <1>1 DEF Lines!LeftToReporter, Lines!reporterPosts, RowMay, Lines!Terminal
    <2>. QED
      BY <1>1, <1>7, <1>8, <2>1 DEF GoesOn, WillTell, Before
  <1>. QED
    BY <1>2, <1>4, <1>5, <1>6, <1>7, <1>9, <1>10, <1>11, <1>12, <1>13, RunOnly

LEMMA CloseKeeps ==
    ASSUME Lines!ProgressLineConstants, LineInv, NEW n \in Lines!Runs, Lines!Close(n)
    PROVE  LineInv'
  <1>1. LineTypes /\ LinesInv /\ RunsInv /\ lineRun[n] \in LineRuns /\ lineRun[n].pc = "closing" /\ room \in SUBSET Said
        /\ RowMay(lineRun[n], lineTask, threads, faults) /\ faults \in Nat
    BY DEF LineInv, LineTypes, RunsInv, Lines!Close
  <1>2. UNCHANGED <<creator, home, bind, lineTask, threads, gate, report, early>>
    BY DEF Lines!Close
  <1>3. CASE room' = room \ {Lines!Line(lineRun[n].root, n)} /\ lineRun' = [lineRun EXCEPT ![n] = Lines!Gone(n)] /\ UNCHANGED faults
    <2>1. PICK posted : posted = room'
      OBVIOUS
    <2>2. posted \in SUBSET Said /\ posted \subseteq room /\ \A m \in room : m.kind # "line" => m \in posted
      BY <1>1, <1>3, <2>1 DEF Lines!Line
    <2>3. ASSUME NEW m \in posted, m.kind = "line"
          PROVE  m.run # n
      <3>1. m \in Said /\ m.root = lineRun[m.run].root /\ m # Lines!Line(lineRun[n].root, n)
        BY <1>1, <1>3, <2>1, <2>3 DEF LinesInv
      <3>2. m = [kind |-> m.kind, root |-> m.root, run |-> m.run]
        BY <3>1 DEF Said
      <3>. QED
        BY <2>3, <3>1, <3>2 DEF Lines!Line
    <2>4. LineMay(n, Lines!Gone(n), posted)
      BY <2>2, <2>3 DEF LineMay
    <2>5. PostMay(posted, lineTask, threads)
      BY <2>2 DEF PostMay
    <2>6. GoesOn(n, Lines!Gone(n), lineTask, posted, faults)
      BY <1>1 DEF GoesOn, WillTell, Before
    <2>. QED
      BY <1>1, <1>2, <1>3, <2>1, <2>2, <2>4, <2>5, <2>6, GoneRows, RunOnly
  <1>4. CASE lineRun' = [lineRun EXCEPT ![n].pc = "left"] /\ Lines!Fault /\ UNCHANGED room
    <2>1. PICK failed \in Nat : faults' = failed /\ failed # 0
      BY <1>1, <1>4, Faults
    <2>2. PICK row : row = [lineRun[n] EXCEPT !.pc = "left"]
      OBVIOUS
    <2>3. row \in LineRuns /\ row.pc = "left" /\ row.root = lineRun[n].root /\ row.final = lineRun[n].final
          /\ (row.live <=> lineRun[n].live) /\ row.finalBy = lineRun[n].finalBy
      BY <1>1, <2>2 DEF LineRuns, LinePcs
    <2>4. lineRun' = [lineRun EXCEPT ![n] = row] /\ room' = room
      BY <1>1, <1>4, <2>2 DEF LineTypes
    <2>5. RowMay(row, lineTask, threads, failed)
      BY <1>1, <2>3 DEF RowMay
    <2>6. LineMay(n, row, room)
      BY <1>1, <2>3 DEF LineMay, LinesInv
    <2>7. PostMay(room, lineTask, threads) /\ GoesOn(n, row, lineTask, room, failed)
      BY <2>1 DEF PostMay, GoesOn
    <2>. QED
      BY <1>1, <1>2, <2>1, <2>3, <2>4, <2>5, <2>6, <2>7, RunOnly
  <1>. QED
    BY <1>3, <1>4 DEF Lines!Close


TaskGoes(next) ==
    faults = 0 =>
        /\ next.state = "working" => lineTask.state = "working" /\ next.by = lineTask.by /\ next.attempts = lineTask.attempts
        /\ next.state = "ended" => lineTask.state = "ended" \/ \E n \in Lines!Runs : lineRun[n].pc \in Before

(* What leaves the runs as they are. *)
LEMMA TaskOnly ==
    ASSUME Lines!ProgressLineConstants, LineInv, NEW next \in LineTasks, lineTask' = next, TaskMay(lineTask, next), TaskGoes(next),
           UNCHANGED <<creator, home, bind, threads, room, lineRun, gate, report, faults, early>>
    PROVE  LineInv'
  <1>1. LineTypes /\ LinesInv /\ RunsInv /\ EndsInv /\ TellInv /\ BoundMay(threads, threads)
        /\ threads \in Seq(Lines!Roots \ {Lines!Above}) /\ faults \in Nat
    BY DEF LineInv, BoundMay, LineTypes
  <1>2. LineTypes' /\ LinesInv'
    BY <1>1 DEF LineTypes, LinesInv
  <1>3. RunsInv'
    <2>1. ASSUME NEW n \in Lines!Runs
          PROVE  RowMay(lineRun[n], next, threads, faults)
      <3>1. lineRun[n] \in LineRuns /\ RowMay(lineRun[n], lineTask, threads, faults)
        BY <1>1 DEF LineTypes, RunsInv
      <3>. QED
        BY <1>1, <3>1, OtherRows
    <2>. QED
      BY <2>1 DEF RunsInv, RowMay
  <1>4. EndsInv'
    BY <1>1 DEF EndsInv, TaskMay, Lines!Reports, Lines!HasParent
  <1>5. TellInv'
    <2>. SUFFICES ASSUME faults = 0
                  PROVE  TellInv'
      BY DEF TellInv
    <2>1. next.state = "working" => \E n \in Lines!Runs : Lines!Holds(n)' /\ lineRun[n].pc \in Before
      BY <1>1 DEF TellInv, TaskGoes, Lines!Holds
    <2>2. (next.reported => next.state \in Lines!Terminal)
          /\ (next.state \in Lines!Terminal /\ next.reported /\ ~early => report = "won" \/ \E m \in room : m.kind = "report")
      BY <1>1 DEF TellInv, TaskMay
    <2>3. ~early /\ home # "nowhere" /\ next.state = "ended" => Told \/ Lines!Reports(next.by) \/ \E n \in Lines!Runs : WillTell(lineRun[n])
      <3>1. CASE lineTask.state = "ended"
        BY <1>1, <3>1 DEF TellInv, TaskMay, Lines!Terminal
      <3>2. CASE \E n \in Lines!Runs : lineRun[n].pc \in Before
        BY <3>2 DEF WillTell
      <3>. QED
        BY <3>1, <3>2 DEF TaskGoes
    <2>. QED
      BY <1>1, <2>1, <2>2, <2>3 DEF TellInv, Told, Lines!Reports, Lines!HasParent
  <1>. QED
    BY <1>2, <1>3, <1>4, <1>5 DEF LineInv

LEMMA TaskKeeps ==
    ASSUME Lines!ProgressLineConstants, LineInv, Lines!Lapse \/ Lines!ReapExhausted \/ Lines!PersonCommand \/ \E n \in Lines!Runs : Lines!AgentCommand(n)
    PROVE  LineInv'
  <1>1. lineTask \in LineTasks /\ (faults = 0 /\ lineTask.state = "working" => \E n \in Lines!Runs : lineRun[n].pc \in Before)
    BY DEF LineInv, LineTypes, TellInv
  <1>2. UNCHANGED <<creator, home, bind, threads, room, lineRun, gate, report, faults, early>>
    BY DEF Lines!Lapse, Lines!ReapExhausted, Lines!PersonCommand, Lines!AgentCommand
  <1>3. ASSUME NEW s \in TaskStates, NEW off \in BOOLEAN, lineTask' = [lineTask EXCEPT !.state = s, !.lapsed = off],
               lineTask.state \in Lines!Terminal => s \in Lines!Terminal, s = "working" => lineTask.state = "working",
               s = "ended" => lineTask.state \in {"working", "ended"} \/ \E n \in Lines!Runs : lineRun[n].pc \in Before
        PROVE  LineInv'
    <2>1. PICK next : next = [lineTask EXCEPT !.state = s, !.lapsed = off]
      OBVIOUS
    <2>2. next \in LineTasks /\ next.state = s /\ next.by = lineTask.by /\ next.attempts = lineTask.attempts
          /\ (next.reported <=> lineTask.reported)
      BY <1>1, <2>1 DEF LineTasks
    <2>3. TaskMay(lineTask, next) /\ TaskGoes(next) /\ lineTask' = next
      BY <1>1, <1>3, <2>1, <2>2 DEF TaskMay, TaskGoes
    <2>. QED
      BY <1>2, <2>2, <2>3, TaskOnly
  <1>4. CASE Lines!Lapse
    <2>1. lineTask' = [lineTask EXCEPT !.state = "working", !.lapsed = TRUE] /\ lineTask.state = "working"
      BY <1>1, <1>4 DEF Lines!Lapse, LineTasks
    <2>2. "working" \in TaskStates
      BY DEF TaskStates
    <2>. QED
      BY <1>3, <2>1, <2>2 DEF Lines!Terminal
  <1>5. CASE Lines!ReapExhausted
    <2>1. lineTask' = [lineTask EXCEPT !.state = "ended", !.lapsed = FALSE] /\ lineTask.state = "working" /\ "ended" \in TaskStates
      BY <1>5 DEF Lines!ReapExhausted, TaskStates, Lines!Terminal
    <2>. QED
      BY <1>3, <2>1 DEF Lines!Terminal
  <1>6. CASE Lines!PersonCommand
    <2>1. CASE lineTask.state \notin Lines!Terminal /\ lineTask' = [lineTask EXCEPT !.state = "canceled", !.lapsed = FALSE]
      <3>1. "canceled" \in TaskStates
        BY DEF TaskStates, Lines!Terminal
      <3>. QED
        BY <1>3, <2>1, <3>1
    <2>2. CASE lineTask.state = "blocked" /\ lineTask' = [lineTask EXCEPT !.state = "submitted"]
      <3>1. PICK off \in BOOLEAN : off = lineTask.lapsed
        BY <1>1 DEF LineTasks
      <3>2. lineTask' = [lineTask EXCEPT !.state = "submitted", !.lapsed = off] /\ "submitted" \in TaskStates
        BY <1>1, <2>2, <3>1 DEF LineTasks, TaskStates
      <3>. QED
        BY <1>3, <2>2, <3>2 DEF Lines!Terminal
    <2>. QED
      BY <1>6, <2>1, <2>2 DEF Lines!PersonCommand
  <1>7. ASSUME NEW n \in Lines!Runs, Lines!AgentCommand(n)
        PROVE  LineInv'
    <2>1. PICK s \in {"ended", "blocked"} : /\ s = "blocked" => lineTask.state = "working"
                                            /\ lineTask' = [lineTask EXCEPT !.state = s, !.lapsed = FALSE]
      BY <1>7 DEF Lines!AgentCommand
    <2>2. s \in TaskStates /\ lineRun[n].pc \in Before
      BY <1>7 DEF Lines!AgentCommand, TaskStates, Lines!Terminal, Before
    <2>3. (lineTask.state \in Lines!Terminal => s \in Lines!Terminal) /\ s # "working"
      BY <2>1 DEF Lines!Terminal
    <2>. QED
      BY <1>3, <2>1, <2>2, <2>3
  <1>. QED
    BY <1>4, <1>5, <1>6, <1>7

LEMMA ReleaseKeeps ==
    ASSUME Lines!ProgressLineConstants, LineInv, NEW g \in Gateways, Lines!ReleaseInterruptedRuns(g)
    PROVE  LineInv'
  <1>1. LineTypes /\ LinesInv /\ RunsInv /\ EndsInv /\ TellInv /\ lineTask \in LineTasks /\ faults \in Nat /\ gate[g] = "swept"
        /\ threads \in Seq(Lines!Roots \ {Lines!Above}) /\ BoundMay(threads, threads)
    BY DEF LineInv, LineTypes, Lines!ReleaseInterruptedRuns, BoundMay
  <1>2. UNCHANGED <<creator, home, bind, threads, room, lineRun, report, faults, early>> /\ gate' = [gate EXCEPT ![g] = "up"]
    BY DEF Lines!ReleaseInterruptedRuns
  <1>3. faults # 0
    BY <1>1 DEF TellInv
  <1>4. PICK next \in LineTasks : lineTask' = next /\ TaskMay(lineTask, next)
    <2>1. PICK fewer : fewer = IF lineTask.attempts > 0 THEN lineTask.attempts - 1 ELSE 0
      OBVIOUS
    <2>2. fewer \in 0 .. LineAttempts
      BY <1>1, <2>1 DEF Lines!ProgressLineConstants, LineTasks
    <2>3. PICK next : next = [lineTask EXCEPT !.state = "submitted", !.lapsed = FALSE, !.attempts = fewer]
      OBVIOUS
    <2>4. next \in LineTasks /\ (next.reported <=> lineTask.reported)
      BY <1>1, <2>2, <2>3 DEF LineTasks, TaskStates
    <2>5. CASE lineTask.state = "working" /\ lineTask' = [lineTask EXCEPT !.state = "submitted", !.lapsed = FALSE,
                                                                          !.attempts = IF @ > 0 THEN @ - 1 ELSE 0]
      <3>1. lineTask' = next
        BY <1>1, <2>1, <2>3, <2>5 DEF LineTasks
      <3>2. TaskMay(lineTask, next)
        BY <2>4, <2>5 DEF TaskMay, Lines!Terminal
      <3>. QED
        BY <2>4, <3>1, <3>2
    <2>6. CASE UNCHANGED lineTask
      BY <1>1, <2>6 DEF TaskMay
    <2>. QED
      BY <2>5, <2>6 DEF Lines!ReleaseInterruptedRuns
  <1>5. LineTypes' /\ LinesInv'
    <2>1. gate' \in [Gateways -> {"up", "down", "swept"}] /\ \A h \in Gateways : gate[h] = "down" => gate'[h] = "down"
      BY <1>1, <1>2 DEF LineTypes
    <2>2. \A h : gate[h] = "down" => gate'[h] = "down"
      BY <1>1, <1>2 DEF LineTypes
    <2>. QED
      BY <1>1, <1>2, <1>4, <2>1, <2>2 DEF LineTypes, LinesInv
  <1>6. RunsInv'
    <2>1. ASSUME NEW n \in Lines!Runs
          PROVE  RowMay(lineRun[n], next, threads, faults)
      <3>1. lineRun[n] \in LineRuns /\ RowMay(lineRun[n], lineTask, threads, faults)
        BY <1>1 DEF LineTypes, RunsInv
      <3>. QED
        BY <1>1, <1>4, <3>1, OtherRows
    <2>. QED
      BY <1>2, <1>4, <2>1 DEF RunsInv, RowMay
  <1>7. EndsInv' /\ TellInv'
    BY <1>1, <1>2, <1>3, <1>4 DEF EndsInv, TaskMay, Lines!Reports, Lines!HasParent, TellInv
  <1>. QED
    BY <1>5, <1>6, <1>7 DEF LineInv

LEMMA BindKeeps ==
    ASSUME Lines!ProgressLineConstants, LineInv, Lines!BindThread
    PROVE  LineInv'
  <1>1. LineTypes /\ LinesInv /\ RunsInv /\ EndsInv /\ TellInv /\ TaskMay(lineTask, lineTask) /\ lineTask \in LineTasks
        /\ threads \in Seq(Lines!Roots \ {Lines!Above}) /\ room \in SUBSET Said
    BY DEF LineInv, LineTypes, TaskMay
  <1>2. UNCHANGED <<creator, home, lineTask, lineRun, gate, report, early>> /\ bind' = "over"
    BY DEF Lines!BindThread
  <1>3. PICK bound : bound = threads'
    OBVIOUS
  <1>4. bound \in Seq(Lines!Roots \ {Lines!Above}) /\ BoundMay(threads, bound)
    <2>1. CASE bound = <<Lines!Asked>> \o threads
      <3>1. Lines!Asked \in Lines!Roots \ {Lines!Above}
        BY DEF Lines!Roots, Lines!Asked, Lines!Above
      <3>2. <<Lines!Asked>> \in Seq(Lines!Roots \ {Lines!Above}) /\ Len(<<Lines!Asked>>) = 1
        BY <3>1
      <3>3. bound \in Seq(Lines!Roots \ {Lines!Above}) /\ Len(bound) = 1 + Len(threads) /\ Len(threads) \in Nat
        BY <1>1, <2>1, <3>2
      <3>4. threads = <<>> \/ Len(threads) # 0
        BY <1>1
      <3>. QED
        BY <3>3, <3>4 DEF BoundMay
    <2>2. CASE bound = threads
      BY <1>1, <2>2 DEF BoundMay
    <2>. QED
      BY <1>3, <2>1, <2>2 DEF Lines!BindThread
  <1>5. PICK posted : posted = room'
    OBVIOUS
  <1>6. posted \in SUBSET Said /\ room \subseteq posted /\ \A m \in posted : m \in room \/ m.kind = "opened"
    <2>1. Lines!Message("opened", Lines!Asked) \in Said /\ Lines!Message("opened", Lines!Asked).kind = "opened"
      BY DEF Lines!Message, Said, Lines!Roots
    <2>. QED
      BY <1>1, <1>5, <2>1 DEF Lines!BindThread
  <1>7. PICK failed \in Nat : faults' = failed /\ (failed = faults \/ failed # 0)
    BY <1>1, Faults DEF Lines!BindThread, LineTypes
  <1>8. LineTypes' /\ LinesInv'
    BY <1>1, <1>2, <1>3, <1>4, <1>5, <1>6, <1>7 DEF LineTypes, LinesInv
  <1>9. RunsInv'
    <2>0. faults = 0 \/ failed # 0
      BY <1>7
    <2>1. ASSUME NEW n \in Lines!Runs
          PROVE  RowMay(lineRun[n], lineTask, bound, failed)
      <3>1. lineRun[n] \in LineRuns /\ RowMay(lineRun[n], lineTask, threads, faults)
        BY <1>1 DEF LineTypes, RunsInv
      <3>. QED
        BY <1>1, <1>4, <2>0, <3>1, OtherRows
    <2>. QED
      BY <1>2, <1>3, <1>7, <2>1 DEF RunsInv, RowMay
  <1>10. EndsInv'
    <2>1. Len(bound) >= Len(threads) /\ Len(bound) \in Nat /\ Len(threads) \in Nat
      BY <1>1, <1>4 DEF BoundMay
    <2>. QED
      BY <1>1, <1>2, <1>3, <1>5, <1>6, <2>1 DEF EndsInv, Lines!Reports, Lines!HasParent
  <1>11. TellInv'
    BY <1>1, <1>2, <1>5, <1>6, <1>7 DEF TellInv, Told, Lines!Holds, Lines!Reports, Lines!HasParent
  <1>. QED
    BY <1>8, <1>9, <1>10, <1>11 DEF LineInv

(* The reporter: whom it reports to is settled, and it posts where the task is talked about. *)
LEMMA ReporterKeeps ==
    ASSUME Lines!ProgressLineConstants, LineInv, Lines!MarkReported \/ Lines!UnmarkReported \/ Lines!reportToThread
    PROVE  LineInv'
  <1>1. LineTypes /\ LinesInv /\ RunsInv /\ EndsInv /\ TellInv /\ lineTask \in LineTasks /\ room \in SUBSET Said
        /\ threads \in Seq(Lines!Roots \ {Lines!Above}) /\ BoundMay(threads, threads)
    BY DEF LineInv, LineTypes, BoundMay
  <1>2. UNCHANGED <<creator, home, bind, threads, lineRun, gate>>
    BY DEF Lines!MarkReported, Lines!UnmarkReported, Lines!reportToThread
  <1>3. ASSUME NEW next \in LineTasks, lineTask' = next, next.state = lineTask.state, next.by = lineTask.by,
               NEW failed \in Nat, faults' = failed, failed = faults \/ failed # 0
        PROVE  RunsInv'
    <2>1. ASSUME NEW n \in Lines!Runs
          PROVE  RowMay(lineRun[n], next, threads, failed)
      <3>1. lineRun[n] \in LineRuns /\ RowMay(lineRun[n], lineTask, threads, faults)
        BY <1>1 DEF LineTypes, RunsInv
      <3>. QED
        BY <1>3, <3>1 DEF RowMay
    <2>. QED
      BY <1>2, <1>3, <2>1 DEF RunsInv, RowMay
  <1>4. CASE Lines!MarkReported
    <2>1. PICK next : next = [lineTask EXCEPT !.reported = TRUE]
      OBVIOUS
    <2>2. next \in LineTasks /\ next.state = lineTask.state /\ next.by = lineTask.by /\ next.reported /\ next.attempts = lineTask.attempts
      BY <1>1, <2>1 DEF LineTasks
    <2>3. lineTask' = next /\ UNCHANGED <<room, faults>> /\ report' = (IF lineTask.state = "canceled" THEN "none" ELSE "won")
          /\ early' = (early \/ lineTask.state = "canceled") /\ lineTask.state \in Lines!Terminal /\ Lines!Reports(lineTask.by) /\ report = "none"
      BY <1>4, <2>1 DEF Lines!MarkReported, Lines!Pending
    <2>4. PICK failed \in Nat : faults' = failed /\ failed = faults
      BY <1>1, <2>3 DEF LineTypes
    <2>5. RunsInv'
      BY <1>3, <2>2, <2>3, <2>4
    <2>6. LineTypes' /\ LinesInv'
      BY <1>1, <1>2, <2>2, <2>3 DEF LineTypes, LinesInv
    <2>7. EndsInv'
      BY <1>1, <1>2, <2>2, <2>3 DEF EndsInv, Lines!Reports, Lines!HasParent
    <2>8. TellInv'
      <3>1. early' <=> (early \/ lineTask.state = "canceled")
        BY <1>1, <2>3
      <3>. QED
        BY <1>1, <1>2, <2>2, <2>3, <3>1 DEF TellInv, Told, Lines!Holds, Lines!Reports, Lines!HasParent, Lines!Terminal
    <2>. QED
      BY <2>5, <2>6, <2>7, <2>8 DEF LineInv
  <1>5. CASE Lines!UnmarkReported
    <2>1. PICK next : next = [lineTask EXCEPT !.reported = FALSE]
      OBVIOUS
    <2>2. next \in LineTasks /\ next.state = lineTask.state /\ next.by = lineTask.by
      BY <1>1, <2>1 DEF LineTasks
    <2>3. lineTask' = next /\ UNCHANGED <<room, early>> /\ report' = "none"
      BY <1>5, <2>1 DEF Lines!UnmarkReported
    <2>4. PICK failed \in Nat : faults' = failed /\ failed # 0
      BY <1>1, <1>5, Faults DEF Lines!UnmarkReported
    <2>5. RunsInv'
      BY <1>3, <2>2, <2>3, <2>4
    <2>6. LineTypes' /\ LinesInv'
      BY <1>1, <1>2, <2>2, <2>3, <2>4 DEF LineTypes, LinesInv
    <2>7. EndsInv' /\ TellInv'
      BY <1>1, <1>2, <2>2, <2>3, <2>4 DEF EndsInv, TellInv, Lines!Reports, Lines!HasParent
    <2>. QED
      BY <2>5, <2>6, <2>7 DEF LineInv
  <1>6. CASE Lines!reportToThread
    <2>1. report = "won" /\ report' = "none" /\ UNCHANGED lineTask /\ early' = (early \/ Lines!TaskThread = Lines!NoRoot)
      BY <1>6 DEF Lines!reportToThread
    <2>2. PICK posted : posted = room'
      OBVIOUS
    <2>3. PICK failed \in Nat : faults' = failed /\ (failed # 0 \/ (failed = faults
             /\ posted = IF Lines!TaskThread = Lines!NoRoot THEN room ELSE room \cup {Lines!Message("report", Lines!TaskThread)}))
      BY <1>1, <1>6, <2>2, Faults DEF Lines!reportToThread, LineTypes
    <2>4. Lines!TaskThread # Lines!NoRoot => Lines!Message("report", Lines!TaskThread) \in Said /\ Lines!Message("report", Lines!TaskThread).kind = "report"
                                 /\ Lines!Message("report", Lines!TaskThread).root # Lines!Above
      BY <1>1, Threads DEF Lines!Message, Said
    <2>5. posted \in SUBSET Said /\ room \subseteq posted
          /\ \A m \in posted : m \in room \/ (m.kind = "report" /\ m.root # Lines!Above)
      BY <1>1, <1>6, <2>2, <2>4 DEF Lines!reportToThread
    <2>6. RunsInv'
      BY <1>1, <1>3, <2>1, <2>3
    <2>7. LineTypes' /\ LinesInv'
      BY <1>1, <1>2, <2>1, <2>2, <2>3, <2>5 DEF LineTypes, LinesInv
    <2>8. EndsInv'
      BY <1>1, <1>2, <2>1, <2>2, <2>5 DEF EndsInv, Lines!Reports, Lines!HasParent
    <2>9. TellInv'
      <3>1. early' <=> (early \/ Lines!TaskThread = Lines!NoRoot)
        BY <1>1, <2>1
      <3>2. failed = 0 /\ Lines!TaskThread # Lines!NoRoot => \E m \in posted : m.kind = "report"
        BY <2>3, <2>4
      <3>. QED
        BY <1>1, <1>2, <2>1, <2>2, <2>3, <2>5, <3>1, <3>2 DEF TellInv, Told, Lines!Holds, Lines!Reports, Lines!HasParent
    <2>. QED
      BY <2>6, <2>7, <2>8, <2>9 DEF LineInv
  <1>. QED
    BY <1>4, <1>5, <1>6

(* Rows that are marked dead or left keep all but their place. *)
LEMMA MarkedRows ==
    ASSUME Lines!ProgressLineConstants, LineInv, NEW n \in Lines!Runs, NEW pc \in {"dead", "left"}, NEW failed \in Nat \ {0}
    PROVE  /\ [lineRun[n] EXCEPT !.pc = pc] \in LineRuns /\ RowMay([lineRun[n] EXCEPT !.pc = pc], lineTask, threads, failed)
           /\ RowMay(lineRun[n], lineTask, threads, failed)
           /\ [lineRun[n] EXCEPT !.pc = pc].pc = pc /\ [lineRun[n] EXCEPT !.pc = pc].root = lineRun[n].root
           /\ [lineRun[n] EXCEPT !.pc = pc].live = lineRun[n].live /\ [lineRun[n] EXCEPT !.pc = pc].by = lineRun[n].by
  <1>1. lineRun[n] \in LineRuns /\ RowMay(lineRun[n], lineTask, threads, faults)
    BY DEF LineInv, LineTypes, RunsInv
  <1>2. PICK row : row = [lineRun[n] EXCEPT !.pc = pc]
    OBVIOUS
  <1>3. row \in LineRuns /\ row.pc = pc /\ row.root = lineRun[n].root /\ row.final = lineRun[n].final /\ row.live = lineRun[n].live
        /\ row.by = lineRun[n].by /\ row.finalBy = lineRun[n].finalBy
    BY <1>1, <1>2 DEF LineRuns, LinePcs
  <1>4. RowMay(row, lineTask, threads, failed) /\ RowMay(lineRun[n], lineTask, threads, failed)
    BY <1>1, <1>3 DEF RowMay
  <1>. QED
    BY <1>2, <1>3, <1>4

LEMMA CrashKeeps ==
    ASSUME Lines!ProgressLineConstants, LineInv, NEW g \in Gateways, Lines!Crash(g)
    PROVE  LineInv'
  <1>1. LineTypes /\ LinesInv /\ RunsInv /\ EndsInv /\ TellInv
    BY DEF LineInv
  <1>2. UNCHANGED <<creator, home, bind, lineTask, threads, room, early>> /\ gate' = [gate EXCEPT ![g] = "down"]
        /\ report' \in {"none", report} /\ Lines!Fault
    BY DEF Lines!Crash
  <1>3. PICK failed \in Nat \ {0} : faults' = failed
    BY <1>1, <1>2, Faults
  <1>4. \A n \in Lines!Runs : IF lineRun[n].by = g /\ lineRun[n].pc \in Lines!InHand THEN lineRun'[n] = [lineRun[n] EXCEPT !.pc = "dead"]
                                                                                     ELSE lineRun'[n] = lineRun[n]
    BY DEF Lines!Crash
  <1>5. \A n \in Lines!Runs : /\ lineRun'[n] \in LineRuns /\ RowMay(lineRun'[n], lineTask, threads, failed)
                              /\ lineRun'[n].root = lineRun[n].root /\ lineRun'[n].live = lineRun[n].live /\ lineRun'[n].by = lineRun[n].by
                              /\ (lineRun[n].by = g /\ lineRun[n].pc \in Lines!InHand /\ lineRun'[n].pc = "dead") \/ lineRun'[n].pc = lineRun[n].pc
    <2>. SUFFICES ASSUME NEW n \in Lines!Runs
                  PROVE  /\ lineRun'[n] \in LineRuns /\ RowMay(lineRun'[n], lineTask, threads, failed)
                         /\ lineRun'[n].root = lineRun[n].root /\ lineRun'[n].live = lineRun[n].live /\ lineRun'[n].by = lineRun[n].by
                         /\ (lineRun[n].by = g /\ lineRun[n].pc \in Lines!InHand /\ lineRun'[n].pc = "dead") \/ lineRun'[n].pc = lineRun[n].pc
      OBVIOUS
    <2>1. lineRun[n] \in LineRuns
      BY <1>1 DEF LineTypes
    <2>. QED
      BY <1>4, <2>1, MarkedRows
  <1>6. lineRun' \in [Lines!Runs -> LineRuns]
    <2>. DEFINE dead(n) == [lineRun[n] EXCEPT !.pc = "dead"]
    <2>1. \A n \in Lines!Runs : dead(n) \in LineRuns /\ lineRun[n] \in LineRuns
      BY <1>1, <1>3, MarkedRows DEF LineTypes
    <2>2. lineRun' = [n \in Lines!Runs |-> IF lineRun[n].by = g /\ lineRun[n].pc \in Lines!InHand THEN dead(n) ELSE lineRun[n]]
      BY DEF Lines!Crash
    <2>. HIDE DEF dead
    <2>. QED
      BY <2>1, <2>2
  <1>7. gate' \in [Gateways -> {"up", "down", "swept"}] /\ gate'[g] = "down" /\ \A h : gate[h] = "down" => gate'[h] = "down"
    BY <1>1, <1>2 DEF LineTypes
  <1>8. LineTypes'
    BY <1>1, <1>2, <1>3, <1>6, <1>7 DEF LineTypes
  <1>9. LinesInv'
    BY <1>1, <1>2, <1>5, <1>7 DEF LinesInv
  <1>10. RunsInv'
    BY <1>2, <1>3, <1>5 DEF RunsInv, RowMay
  <1>11. EndsInv' /\ TellInv'
    BY <1>1, <1>2, <1>3 DEF EndsInv, TellInv, Lines!Reports, Lines!HasParent
  <1>. QED
    BY <1>8, <1>9, <1>10, <1>11 DEF LineInv

LEMMA SweepLinesKeeps ==
    ASSUME Lines!ProgressLineConstants, LineInv, NEW g \in Gateways, Lines!SweepProgressLines(g)
    PROVE  LineInv'
  <1>1. LineTypes /\ LinesInv /\ RunsInv /\ EndsInv /\ TellInv /\ gate[g] = "down" /\ faults \in Nat
    BY DEF LineInv, LineTypes, Lines!SweepProgressLines
  <1>2. UNCHANGED <<creator, home, bind, lineTask, threads, report>> /\ gate' = [gate EXCEPT ![g] = "swept"]
    BY DEF Lines!SweepProgressLines
  <1>3. faults # 0
    BY <1>1 DEF TellInv
  <1>4. gate' \in [Gateways -> {"up", "down", "swept"}] /\ \A h : h # g /\ gate[h] = "down" => gate'[h] = "down"
    BY <1>1, <1>2 DEF LineTypes
  <1>5. CASE room' = {m \in room : ~(m.kind = "line" /\ lineRun[m.run].by = g)} /\ UNCHANGED <<lineRun, faults, early>>
    <2>1. LineTypes' /\ RunsInv'
      BY <1>1, <1>2, <1>4, <1>5 DEF LineTypes, RunsInv, RowMay
    <2>2. LinesInv'
      BY <1>1, <1>4, <1>5 DEF LinesInv
    <2>3. EndsInv' /\ TellInv'
      BY <1>1, <1>2, <1>3, <1>5 DEF EndsInv, TellInv, Lines!Reports, Lines!HasParent
    <2>. QED
      BY <2>1, <2>2, <2>3 DEF LineInv
  <1>6. CASE lineRun' = [n \in Lines!Runs |-> IF lineRun[n].by = g /\ lineRun[n].pc = "dead" THEN [lineRun[n] EXCEPT !.pc = "left"] ELSE lineRun[n]]
             /\ Lines!Fault /\ UNCHANGED room
    <2>1. PICK failed \in Nat \ {0} : faults' = failed
      BY <1>1, <1>6, Faults
    <2>2. \A n \in Lines!Runs : /\ lineRun'[n] \in LineRuns /\ RowMay(lineRun'[n], lineTask, threads, failed)
                                /\ lineRun'[n].root = lineRun[n].root /\ lineRun'[n].live = lineRun[n].live /\ lineRun'[n].by = lineRun[n].by
                                /\ lineRun'[n].pc = "left" \/ (lineRun'[n].pc = lineRun[n].pc /\ ~(lineRun[n].by = g /\ lineRun[n].pc = "dead"))
      <3>. SUFFICES ASSUME NEW n \in Lines!Runs
                    PROVE  /\ lineRun'[n] \in LineRuns /\ RowMay(lineRun'[n], lineTask, threads, failed)
                           /\ lineRun'[n].root = lineRun[n].root /\ lineRun'[n].live = lineRun[n].live /\ lineRun'[n].by = lineRun[n].by
                           /\ lineRun'[n].pc = "left" \/ (lineRun'[n].pc = lineRun[n].pc /\ ~(lineRun[n].by = g /\ lineRun[n].pc = "dead"))
        OBVIOUS
      <3>1. lineRun[n] \in LineRuns
        BY <1>1 DEF LineTypes
      <3>. QED
        BY <1>6, <3>1, MarkedRows
    <2>3. lineRun' \in [Lines!Runs -> LineRuns]
      <3>1. \E f : lineRun' = [n \in Lines!Runs |-> f[n]]
        <4>1. PICK f : f = [n \in Lines!Runs |-> IF lineRun[n].by = g /\ lineRun[n].pc = "dead" THEN [lineRun[n] EXCEPT !.pc = "left"] ELSE lineRun[n]]
          OBVIOUS
        <4>. QED
          BY <1>6, <4>1
      <3>. QED
        BY <2>2, <3>1
    <2>4. early' = early
      BY DEF Lines!SweepProgressLines
    <2>5. LineTypes'
      BY <1>1, <1>2, <1>4, <1>6, <2>1, <2>3, <2>4 DEF LineTypes
    <2>6. LinesInv'
      BY <1>1, <1>4, <1>6, <2>2 DEF LinesInv
    <2>7. RunsInv'
      BY <1>2, <2>1, <2>2 DEF RunsInv, RowMay
    <2>8. EndsInv' /\ TellInv'
      BY <1>1, <1>2, <1>6, <2>1 DEF EndsInv, TellInv, Lines!Reports, Lines!HasParent
    <2>. QED
      BY <2>5, <2>6, <2>7, <2>8 DEF LineInv
  <1>. QED
    BY <1>5, <1>6 DEF Lines!SweepProgressLines

LEMMA LinesStep == Lines!ProgressLineConstants /\ LineInv /\ [Lines!Next]_(Lines!vars) => LineInv'
  <1>. SUFFICES ASSUME Lines!ProgressLineConstants, LineInv, [Lines!Next]_(Lines!vars)
                PROVE  LineInv'
    OBVIOUS
  <1>1. CASE UNCHANGED Lines!vars
    BY <1>1 DEF Lines!vars, LineInv, LineTypes, LinesInv, RunsInv, RowMay, EndsInv, TellInv, Told, Lines!Holds, Lines!Reports, Lines!HasParent
  <1>2. ASSUME NEW n \in Lines!Runs, Lines!RunStep(n)
        PROVE  LineInv'
    BY <1>2, ClaimKeeps, LookKeeps, SayKeeps, SweepThreadKeeps, PostKeeps, TaskKeeps, FinishKeeps, SayEndKeeps, CloseKeeps
       DEF Lines!RunStep
  <1>3. ASSUME NEW g \in Gateways, Lines!Crash(g) \/ Lines!SweepProgressLines(g) \/ Lines!ReleaseInterruptedRuns(g)
        PROVE  LineInv'
    BY <1>3, CrashKeeps, SweepLinesKeeps, ReleaseKeeps
  <1>4. CASE Lines!BindThread \/ Lines!Lapse \/ Lines!ReapExhausted \/ Lines!PersonCommand \/ Lines!MarkReported \/ Lines!UnmarkReported \/ Lines!reportToThread
    BY <1>4, BindKeeps, TaskKeeps, ReporterKeeps
  <1>. QED
    BY <1>1, <1>2, <1>3, <1>4 DEF Lines!Next

LEMMA LinesHold == ASSUME Lines!ProgressLineConstants, LineInv
                   PROVE  Lines!TypeOK /\ Lines!LinesAreLive /\ Lines!ToldByOne /\ Lines!EndIsTold
  <1>1. LineTypes /\ LinesInv /\ RunsInv /\ EndsInv /\ TellInv
    BY DEF LineInv
  <1>2. Lines!TypeOK
    <2>1. \A n \in Lines!Runs : lineRun[n].pc \in LinePcs /\ lineRun[n].root \in Lines!Roots \cup {Lines!NoRoot}
      BY <1>1 DEF LineTypes, LineRuns
    <2>2. \A m \in room : m.kind \in {"opened", "claim", "line", "end", "more", "report"} /\ m.root \in Lines!Roots
                          /\ m.run \in Lines!Runs \cup {0}
      BY <1>1 DEF LineTypes, Said
    <2>3. lineTask.state \in Lines!Terminal \cup {"submitted", "working", "blocked"} /\ {lineTask.by, lineTask.pin} \subseteq Gateways \cup {None}
          /\ lineTask.attempts \in 0 .. LineAttempts /\ {lineTask.carried, lineTask.lapsed, lineTask.reported, early} \subseteq BOOLEAN
      BY <1>1 DEF LineTypes, LineTasks, TaskStates
    <2>. QED
      BY <1>1, <2>1, <2>2, <2>3 DEF Lines!TypeOK, LineTypes, LinePcs
  <1>3. Lines!LinesAreLive
    BY <1>1 DEF Lines!LinesAreLive, LinesInv
  <1>4. Lines!ToldByOne
    <2>1. Len(threads) \in Nat
      BY <1>1 DEF LineTypes
    <2>. QED
      BY <1>1, <2>1 DEF Lines!ToldByOne, EndsInv
  <1>5. Lines!EndIsTold
    <2>. SUFFICES ASSUME Lines!AtRest, faults = 0, ~early, home # "nowhere", lineTask.state = "ended"
                  PROVE  \E m \in room : m.kind \in {"end", "report"}
      BY DEF Lines!EndIsTold
    <2>1. \A n \in Lines!Runs : ~WillTell(lineRun[n])
      BY DEF Lines!AtRest, WillTell, Before
    <2>2. Lines!Reports(lineTask.by) => lineTask.reported
      BY DEF Lines!AtRest, Lines!Pending, Lines!Terminal
    <2>3. report # "won"
      BY DEF Lines!AtRest
    <2>. QED
      BY <1>1, <2>1, <2>2, <2>3 DEF TellInv, Told, Lines!Terminal
  <1>. QED
    BY <1>2, <1>3, <1>4, <1>5

(* In whatever order a task is claimed, lapses, is cancelled, ends and is reported, and whatever dies or fails: a line
   that says a run is going on is of a run that is, or of a gateway that has not come back, or was left by a delete that
   failed; the run that ended the task and the creator's reporter do not both put its result in the task's one thread;
   and with nothing dead and nothing failed one of them does. *)
THEOREM LinesAreTrue == Lines!ProgressLineConstants /\ Lines!Spec => [](Lines!TypeOK /\ Lines!LinesAreLive /\ Lines!ToldByOne /\ Lines!EndIsTold)
  <1>1. CASE Lines!ProgressLineConstants
    <2>1. Lines!ProgressLineConstants /\ Lines!Init => LineInv
      BY LinesStart
    <2>2. Lines!ProgressLineConstants /\ LineInv /\ [Lines!Next]_(Lines!vars) => LineInv'
      BY LinesStep
    <2>3. Lines!ProgressLineConstants /\ LineInv => Lines!TypeOK /\ Lines!LinesAreLive /\ Lines!ToldByOne /\ Lines!EndIsTold
      BY LinesHold
    <2>. QED
      BY <1>1, <2>1, <2>2, <2>3, PTL DEF Lines!Spec
  <1>. QED
    BY <1>1
=============================================================================
