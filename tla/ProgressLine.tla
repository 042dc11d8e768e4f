---------------------------- MODULE ProgressLine ----------------------------
(* What a room sees of one task: the line saying a run is going on, which is edited *)
(* in place and taken away, how each run ended, and the report of its creator's    *)
(* gateway (taskrunner/progress.go, reporter.reportToThread). The ledger is kept to *)
(* what the words depend on: its state, who carries it, the attempt that fences it.  *)
EXTENDS Integers, FiniteSets, Sequences

CONSTANTS
    Gateways,      \* agents, each with a gateway that runs tasks
    Homes,         \* where the task may belong
    Creators,      \* who may have made the task: agents, and "owner" or "system"
    None,
    MaxAttempts,   \* attempts a task has (3)
    MaxRuns,       \* bound: runs of the task
    MaxFaults      \* bound: gateways that die, and statements that fail

(* `task new --thread`; a root or a sub-task filed under a room without a thread; a  *)
(* sub-task of work that has one; a task of no room at all.                         *)
AllHomes == {"thread", "room", "subroom", "child", "nowhere"}

ProgressLineConstants ==
    /\ None \notin Gateways /\ Homes \subseteq AllHomes
    /\ {MaxAttempts, MaxRuns, MaxFaults} \subseteq Nat

Runs == 1 .. MaxRuns

(* Thread roots: the one the work was asked in, the one of the work it belongs to,   *)
(* and n, the one run n opened.                                                 *)
Asked == 0
Above == -1
NoRoot == -2

(* Completed, failed and rejected are told in the same words: "ended".               *)
Terminal == {"ended", "canceled"}

VARIABLES
    creator, home,
    bind,      \* the binding by the caller of `task new --thread`: due, over
    task, threads,   \* the task's row; its thread roots, oldest first
    room,      \* the messages posted
    run, gate,
    report,    \* the delivery the creator's reporter has won and not posted yet
    faults,
    early      \* history: the reporter was done before the task had an end or a thread

vars == <<creator, home, bind, task, threads, room, run, gate, report, faults, early>>

NoRun ==
    [pc |-> "none", by |-> None, attempt |-> 0, root |-> NoRoot, own |-> FALSE,
     live |-> FALSE, final |-> "none", finalBy |-> None]

Fault == faults < MaxFaults /\ faults' = faults + 1

(* A message is what it is about and the thread it is in; a line is its run's too.    *)
Message(kind, root) == [kind |-> kind, root |-> root, run |-> 0]
Line(root, n) == [kind |-> "line", root |-> root, run |-> n]

Init ==
    /\ creator \in Creators /\ home \in Homes
    /\ bind = IF home = "thread" THEN "due" ELSE "over"
    /\ task = [state |-> "submitted", by |-> None, pin |-> None, attempts |-> 0,
               carried |-> FALSE, lapsed |-> FALSE, reported |-> FALSE]
    /\ threads = <<>> /\ room = {}
    /\ run = [n \in Runs |-> NoRun] /\ gate = [g \in Gateways |-> "up"]
    /\ report = "none" /\ faults = 0 /\ early = FALSE

-----------------------------------------------------------------------------
(* Where a task is talked about. *)

(* The oldest root bound to the task: the asked thread is older than what runs open. *)
TaskThread == IF threads = <<>> THEN NoRoot ELSE threads[1]

ConversationThread ==
    IF TaskThread # NoRoot THEN TaskThread
    ELSE IF home = "child" THEN Above ELSE NoRoot

HasParent == home \in {"subroom", "child"}

(* `task new --thread` binds the thread in a statement after the one that made the   *)
(* task, and says so there; a thread that is already another task's refuses.         *)
BindThread ==
    /\ bind = "due" /\ bind' = "over"
    /\ \/ /\ threads' = <<Asked>> \o threads
          /\ \/ room' = room \cup {Message("opened", Asked)} /\ UNCHANGED faults
             \/ Fault /\ UNCHANGED room
       \/ UNCHANGED <<threads, room, faults>>
    /\ UNCHANGED <<creator, home, task, run, gate, report, early>>

-----------------------------------------------------------------------------
(* A run, from its claim to its line. *)

InHand == {"claimed", "looked", "said", "swept", "running", "finished", "closing"}

(* A run that is over.                                                          *)
Gone(n) == [NoRun EXCEPT !.pc = "over", !.by = run[n].by]

ClaimTask(g, n) ==
    /\ gate[g] = "up" /\ run[n].pc = "none" /\ \A m \in 1 .. n - 1 : run[m].pc # "none"
    /\ \A m \in Runs : run[m].by = g => run[m].pc \notin InHand
    /\ task.state = "submitted" \/ (task.state = "working" /\ task.lapsed)
    /\ task.attempts < MaxAttempts /\ task.pin \in {None, g}
    /\ task' = [task EXCEPT !.state = "working", !.by = g, !.lapsed = FALSE,
                            !.attempts = @ + 1]
    /\ run' = [run EXCEPT ![n] = [NoRun EXCEPT !.pc = "claimed", !.by = g,
                                               !.attempt = task.attempts + 1]]
    /\ UNCHANGED <<creator, home, bind, threads, room, gate, report, faults, early>>

(* openProgress finds the thread; before it the run's row may not go in, and the run *)
(* ends there without a word.                                                  *)
LookForThread(n) ==
    /\ run[n].pc = "claimed"
    /\ \/ /\ run' = [run EXCEPT ![n].pc = "looked", ![n].root = ConversationThread]
          /\ UNCHANGED faults
       \/ /\ run' = [run EXCEPT ![n] = Gone(n)] /\ Fault
    /\ UNCHANGED <<creator, home, bind, task, threads, room, gate, report, early>>

(* A thread that is the task's own needs no introduction; another one is told once,  *)
(* at the first attempt. With a room and no thread the claim opens one.               *)
SayClaim(n) ==
    LET r == run[n] IN
    /\ r.pc = "looked"
    /\ IF r.root # NoRoot
       THEN LET asked == TaskThread = r.root
                first == ~asked /\ task.attempts <= 1 /\ ~task.carried
            IN /\ run' = [run EXCEPT ![n].pc = "said", ![n].own = asked]
               /\ \/ /\ room' = IF first THEN room \cup {Message("claim", r.root)} ELSE room
                     /\ UNCHANGED faults
                  \/ first /\ Fault /\ UNCHANGED room
               /\ UNCHANGED threads
       ELSE IF home = "nowhere"
       THEN run' = [run EXCEPT ![n].pc = "running"] /\ UNCHANGED <<room, threads, faults>>
       ELSE \/ /\ run' = [run EXCEPT ![n].pc = "said", ![n].root = n, ![n].own = TRUE]
               /\ room' = room \cup {Message("claim", n)}
               /\ threads' = Append(threads, n) /\ UNCHANGED faults
            \/ run' = [run EXCEPT ![n].pc = "running"] /\ Fault /\ UNCHANGED <<room, threads>>
    /\ UNCHANGED <<creator, home, bind, task, gate, report, early>>

(* The lines of the task that are in this thread, whoever wrote them.                *)
SweepThread(n) ==
    /\ run[n].pc = "said"
    /\ room' = {m \in room : ~(m.kind = "line" /\ m.root = run[n].root)}
    /\ run' = [run EXCEPT ![n].pc = "swept"]
    /\ UNCHANGED <<creator, home, bind, task, threads, gate, report, faults, early>>

PostLine(n) ==
    /\ run[n].pc = "swept"
    /\ \/ /\ run' = [run EXCEPT ![n].pc = "running", ![n].live = TRUE]
          /\ room' = room \cup {Line(run[n].root, n)} /\ UNCHANGED faults
       \/ run' = [run EXCEPT ![n].pc = "running"] /\ Fault /\ UNCHANGED room
    /\ UNCHANGED <<creator, home, bind, task, threads, gate, report, early>>

-----------------------------------------------------------------------------
(* What happens to the task meanwhile. *)

Holds(n) == run[n].by = task.by /\ run[n].attempt = task.attempts

(* The agent's own `task done`, `fail`, `reject`, whose statement looks at the claim  *)
(* alone, and `task block`, which wants the task working.                          *)
AgentCommand(n) ==
    /\ run[n].pc = "running" /\ Holds(n)
    /\ \E s \in {"ended", "blocked"} :
         /\ s = "blocked" => task.state = "working"
         /\ task' = [task EXCEPT !.state = s, !.lapsed = FALSE]
    /\ UNCHANGED <<creator, home, bind, threads, room, run, gate, report, faults, early>>

Lapse ==
    /\ task.state = "working" /\ ~task.lapsed
    /\ task' = [task EXCEPT !.lapsed = TRUE]
    /\ UNCHANGED <<creator, home, bind, threads, room, run, gate, report, faults, early>>

ReapExhausted ==
    /\ task.state = "working" /\ task.lapsed /\ task.attempts >= MaxAttempts
    /\ task' = [task EXCEPT !.state = "ended", !.lapsed = FALSE]
    /\ UNCHANGED <<creator, home, bind, threads, room, run, gate, report, faults, early>>

(* A person cancels the task, or answers what it is blocked on.                     *)
PersonCommand ==
    /\ \/ task.state \notin Terminal /\ task' = [task EXCEPT !.state = "canceled", !.lapsed = FALSE]
       \/ task.state = "blocked" /\ task' = [task EXCEPT !.state = "submitted"]
    /\ UNCHANGED <<creator, home, bind, threads, room, run, gate, report, faults, early>>

-----------------------------------------------------------------------------
(* A run ends. *)

(* What a run that is still the task's own may leave: done, handed back to carry on  *)
(* (the attempt refunded), handed back for another attempt, parked, given up.        *)
Outcomes ==
    LET Left(s) == [task EXCEPT !.state = s, !.lapsed = FALSE]
        queued == Left("submitted")
        refunded == [queued EXCEPT !.attempts = IF @ > 0 THEN @ - 1 ELSE 0]
    IN {Left("ended"), Left("blocked"), queued, [queued EXCEPT !.pin = task.by], refunded,
        [refunded EXCEPT !.pin = task.by, !.carried = TRUE]}

Unsaid(n) == IF run[n].live THEN [run[n] EXCEPT !.pc = "closing"] ELSE Gone(n)

(* FinishRun looks at the task's end before it looks at the claim: a run that lost   *)
(* the task is told how another ended it.                                       *)
FinishRun(n) ==
    /\ run[n].pc = "running"
    /\ \/ /\ \/ task.state \in Terminal /\ UNCHANGED task
             \/ task.state = "blocked" /\ Holds(n) /\ UNCHANGED task
             \/ task.state = "working" /\ Holds(n) /\ task' \in Outcomes
          /\ run' = [run EXCEPT ![n] =
                IF run[n].live
                THEN [@ EXCEPT !.pc = "finished", !.final = task'.state, !.finalBy = task'.by]
                ELSE Gone(n)]
          /\ UNCHANGED faults
       \/ /\ task.state \notin Terminal
          /\ ~(Holds(n) /\ task.state \in {"working", "blocked"})
          /\ run' = [run EXCEPT ![n] = Unsaid(n)]
          /\ UNCHANGED <<task, faults>>
       \/ /\ run' = [run EXCEPT ![n] = Unsaid(n)]
          /\ Fault /\ UNCHANGED task
    /\ UNCHANGED <<creator, home, bind, threads, room, gate, report, early>>

(* Whether the creator's gateway will tell this end; `by` is who carries the task.    *)
Reports(by) == creator \in Gateways /\ creator # by /\ ~HasParent

reporterPosts(n) == Reports(run[n].finalBy)

(* An end the reporter will put in this very thread is left to it; a cancel is known  *)
(* to the person who asked for it.                                              *)
LeftToReporter(n) == run[n].own /\ reporterPosts(n)

Words(n) ==
    IF run[n].final = "canceled" \/ (run[n].final = "ended" /\ LeftToReporter(n)) THEN {}
    ELSE {Message(IF run[n].final = "ended" THEN "end" ELSE "more", run[n].root)}

SayHowItEnded(n) ==
    /\ run[n].pc = "finished"
    /\ \/ room' = room \cup Words(n) /\ UNCHANGED faults
       \/ Words(n) # {} /\ Fault /\ UNCHANGED room
    /\ run' = [run EXCEPT ![n].pc = "closing"]
    /\ UNCHANGED <<creator, home, bind, task, threads, gate, report, early>>

(* The line goes when execute returns, after the words.                            *)
Close(n) ==
    /\ run[n].pc = "closing"
    /\ \/ /\ room' = room \ {Line(run[n].root, n)}
          /\ run' = [run EXCEPT ![n] = Gone(n)] /\ UNCHANGED faults
       \/ run' = [run EXCEPT ![n].pc = "left"] /\ Fault /\ UNCHANGED room
    /\ UNCHANGED <<creator, home, bind, task, threads, gate, report, early>>

-----------------------------------------------------------------------------
(* The creator's reporter. *)

Pending == Reports(task.by) /\ task.state \in Terminal /\ ~task.reported

(* It marks the task first, then tells its owner; a cancel is only marked, and a      *)
(* message that does not get through gives the mark back.                          *)
MarkReported ==
    /\ Pending /\ report = "none" /\ gate[creator] = "up"
    /\ task' = [task EXCEPT !.reported = TRUE]
    /\ report' = IF task.state = "canceled" THEN "none" ELSE "won"
    /\ early' = (early \/ task.state = "canceled")
    /\ UNCHANGED <<creator, home, bind, threads, room, run, gate, faults>>

UnmarkReported ==
    /\ report = "won" /\ report' = "none" /\ Fault
    /\ task' = [task EXCEPT !.reported = FALSE]
    /\ UNCHANGED <<creator, home, bind, threads, room, run, gate, early>>

reportToThread ==
    /\ report = "won" /\ report' = "none"
    /\ \/ /\ room' = IF TaskThread = NoRoot THEN room
                     ELSE room \cup {Message("report", TaskThread)}
          /\ UNCHANGED faults
       \/ TaskThread # NoRoot /\ Fault /\ UNCHANGED room
    /\ early' = (early \/ TaskThread = NoRoot)
    /\ UNCHANGED <<creator, home, bind, task, threads, run, gate>>

-----------------------------------------------------------------------------
(* A gateway dies, and starts again. *)

Crash(g) ==
    /\ gate[g] # "down" /\ Fault
    /\ gate' = [gate EXCEPT ![g] = "down"]
    /\ run' = [n \in Runs |-> IF run[n].by = g /\ run[n].pc \in InHand
                              THEN [run[n] EXCEPT !.pc = "dead"] ELSE run[n]]
    /\ report' = IF creator = g THEN "none" ELSE report
    /\ UNCHANGED <<creator, home, bind, task, threads, room, early>>

(* Its lines first; a sweep that fails leaves them.                                *)
SweepProgressLines(g) ==
    /\ gate[g] = "down" /\ gate' = [gate EXCEPT ![g] = "swept"]
    /\ \/ /\ room' = {m \in room : ~(m.kind = "line" /\ run[m.run].by = g)}
          /\ UNCHANGED <<run, faults, early>>
       \/ /\ run' = [n \in Runs |-> IF run[n].by = g /\ run[n].pc = "dead"
                                    THEN [run[n] EXCEPT !.pc = "left"] ELSE run[n]]
          /\ Fault /\ UNCHANGED room
    /\ UNCHANGED <<creator, home, bind, task, threads, report, early>>

(* Then the task it was running goes back to the queue, the attempt returned.         *)
ReleaseInterruptedRuns(g) ==
    /\ gate[g] = "swept" /\ gate' = [gate EXCEPT ![g] = "up"]
    /\ IF /\ task.state = "working" /\ task.by = g
          /\ \E n \in Runs : run[n].pc \in {"dead", "left"} /\ run[n].by = g
                               /\ run[n].attempt = task.attempts /\ run[n].final = "none"
       THEN task' = [task EXCEPT !.state = "submitted", !.lapsed = FALSE,
                                 !.attempts = IF @ > 0 THEN @ - 1 ELSE 0]
       ELSE UNCHANGED task
    /\ UNCHANGED <<creator, home, bind, threads, room, run, report, faults, early>>

-----------------------------------------------------------------------------
RunStep(n) ==
    \/ \E g \in Gateways : ClaimTask(g, n)
    \/ LookForThread(n) \/ SayClaim(n) \/ SweepThread(n) \/ PostLine(n)
    \/ AgentCommand(n) \/ FinishRun(n) \/ SayHowItEnded(n) \/ Close(n)

Next ==
    \/ BindThread \/ Lapse \/ ReapExhausted \/ PersonCommand
    \/ MarkReported \/ UnmarkReported \/ reportToThread
    \/ \E n \in Runs : RunStep(n)
    \/ \E g \in Gateways : Crash(g) \/ SweepProgressLines(g) \/ ReleaseInterruptedRuns(g)

Spec == Init /\ [][Next]_vars

-----------------------------------------------------------------------------
(* Correctness. *)

Roots == Runs \cup {Asked, Above}

TypeOK ==
    /\ creator \in Creators /\ home \in Homes
    /\ bind \in {"due", "over"} /\ threads \in Seq(Roots \ {Above})
    /\ task.state \in Terminal \cup {"submitted", "working", "blocked"}
    /\ {task.by, task.pin} \subseteq Gateways \cup {None} /\ task.attempts \in 0 .. MaxAttempts
    /\ {task.carried, task.lapsed, task.reported, early} \subseteq BOOLEAN
    /\ \A m \in room : /\ m.kind \in {"opened", "claim", "line", "end", "more", "report"}
                       /\ m.root \in Roots /\ m.run \in Runs \cup {0}
    /\ \A n \in Runs : /\ run[n].pc \in InHand \cup {"none", "over", "left", "dead"}
                       /\ run[n].root \in Roots \cup {NoRoot}
    /\ gate \in [Gateways -> {"up", "down", "swept"}] /\ report \in {"none", "won"}

(* A line that says a run is going on is of a run that is, or of a gateway that died    *)
(* and has not come back: "a line that still said 'working' would be a lie". Only a      *)
(* delete that failed leaves one, until the next run of the task.                    *)
LinesAreLive ==
    \A m \in room : m.kind = "line" =>
        \/ run[m.run].pc \in {"running", "finished", "closing", "left"}
        \/ run[m.run].pc = "dead" /\ gate[run[m.run].by] = "down"

(* "Two copies of one result is noise": the run that ended the task and the reporter     *)
(* of its creator do not both put the result in the task's thread. (A thread bound while  *)
(* runs had opened others is not seen by a run between its two looks.)                  *)
ToldByOne ==
    Len(threads) <= 1 => \A m, other \in room :
        m.kind = "report" /\ other.kind = "end" => m.root # other.root

AtRest ==
    /\ \A n \in Runs : run[n].pc \in {"none", "over", "left", "dead"}
    /\ report = "none" /\ ~Pending

(* And one of them does: "a room watching a task saw it start and then saw nothing at    *)
(* all". A task with somewhere to talk that a run ended is not left without its result   *)
(* when nothing died and no statement failed; save when the reporter ticked it off before *)
(* that: as a cancel that the agent's own end then went over, or before the run had its    *)
(* thread.                                                                     *)
EndIsTold ==
    /\ AtRest /\ faults = 0 /\ ~early
    /\ home # "nowhere" /\ bind = "over" /\ task.state = "ended"
    => \E m \in room : m.kind \in {"end", "report"}

=============================================================================
