------------------------------- MODULE Reporter ------------------------------
(***************************************************************************)
(* Telling the owner how delegated tasks ended (internal/reporter and the   *)
(* reported_at column of `tasks`).  Every gateway may run a reporter; the   *)
(* compare-and-set on reported_at is all that lies between the owner and    *)
(* hearing of a task twice, and the order mark, send, release is what lies  *)
(* between the owner and never hearing of it.                               *)
(*                                                                         *)
(* The tasks here are those the query can return: roots, not scheduled.     *)
(* How they end is TaskLedger's; here it is input.                          *)
(***************************************************************************)
EXTENDS Naturals, FiniteSets, SequencesExt

CONSTANTS
    Tasks, Agents, Reporters,
    Nobody,
    AgentOf,        \* the agent a reporter reports as
    Creator,        \* created_by of a task
    CanTell,        \* reporters whose gateway has a Telegram bot
    Ends,           \* how tasks may end
    Batch,          \* reports per tick (20)
    FinishAgain,    \* whether agents finish tasks that have ended
    MaxOutcomes,    \* bound: how often each task ends
    MaxFailures,    \* bound: sends that fail, or whose answer is lost
    MaxOutages      \* bound: database errors and crashes

ASSUME ReporterConstants ==
    /\ Nobody \notin Agents \cup Reporters
    /\ AgentOf \in [Reporters -> Agents] /\ Creator \in [Tasks -> Agents]
    /\ CanTell \subseteq Reporters
    /\ Ends \subseteq {"completed", "failed", "canceled", "rejected"}
    /\ Batch \in Nat \ {0} /\ FinishAgain \in BOOLEAN
    /\ MaxOutcomes \in [Tasks -> Nat] /\ {MaxFailures, MaxOutages} \subseteq Nat

VARIABLES
    task,       \* state, holder and reported_at of each task
    updated,    \* the tasks in the order of updated_at
    reporter,   \* each reporter's loop: the rest of its batch, and where it is
    told,       \* what the owner received about each task
    posted,     \* how often its thread was told
    outcomes, failures, lost, outages

vars == <<task, updated, reporter, told, posted, outcomes, failures, lost, outages>>

Terminal == {"completed", "failed", "canceled", "rejected"}
States   == {"open"} \cup Terminal
Phases   == {"down", "idle", "loop", "sending", "refused", "posting"}

Down == [phase |-> "down", batch |-> <<>>]
Idle == [phase |-> "idle", batch |-> <<>>]

Init ==
    /\ task = [t \in Tasks |-> [state |-> "open", claimed_by |-> Nobody,
                                reported |-> Nobody]]
    /\ updated = <<>>
    /\ reporter = [g \in Reporters |-> Idle]
    /\ told = [t \in Tasks |-> <<>>]
    /\ posted = [t \in Tasks |-> 0]
    /\ outcomes = [t \in Tasks |-> 0]
    /\ failures = 0 /\ lost = 0 /\ outages = 0

Outage  == outages < MaxOutages /\ outages' = outages + 1
Failure == failures < MaxFailures /\ failures' = failures + 1

----------------------------------------------------------------------------
(* The tasks *)

(* updated_at is set: the task is the last one now. *)
Touch(t) ==
    updated' = Append(IF t \in Range(updated)
                      THEN RemoveAt(updated, CHOOSE i \in DOMAIN updated : updated[i] = t)
                      ELSE updated, t)

(* A task ends.  Only a cancel looks at the state it ends: `task done` and    *)
(* `task fail` may follow another end.  To the query, a task nobody ever      *)
(* claimed is like one a peer claimed.                                      *)
EndTask(t, s, a) ==
    /\ outcomes[t] < MaxOutcomes[t]
    /\ task[t].state = "open" \/ (FinishAgain /\ s # "canceled")
    /\ task' = [task EXCEPT ![t].state = s, ![t].claimed_by = a]
    /\ Touch(t)
    /\ outcomes' = [outcomes EXCEPT ![t] = @ + 1]
    /\ UNCHANGED <<reporter, told, posted, failures, lost, outages>>

(* A person reopens a failed task; reported_at is left as it is. *)
ResumeTask(t) ==
    /\ task[t].state = "failed" /\ outcomes[t] < MaxOutcomes[t]
    /\ task' = [task EXCEPT ![t].state = "open"]
    /\ Touch(t)
    /\ UNCHANGED <<reporter, told, posted, outcomes, failures, lost, outages>>

----------------------------------------------------------------------------
(* One tick *)

Delegated(t, a) == Creator[t] = a /\ task[t].claimed_by # a

(* PendingReports: what is owed to the agent, as places in the order of       *)
(* updated_at; and the first Batch of those places, in that order.           *)
Pending(a) == {i \in DOMAIN updated : /\ Delegated(updated[i], a)
                                      /\ task[updated[i]].state \in Terminal
                                      /\ task[updated[i]].reported = Nobody}

Oldest(places) ==
    {s \in UNION {[1..n -> places] : n \in 1..Batch} :
        /\ \A i, j \in DOMAIN s : i < j => s[i] < s[j]
        /\ Len(s) = Batch \/ places = Range(s)
        /\ \A i \in places \ Range(s) : i > s[Len(s)]}

(* The batch holds each task as the query read it. *)
ReadPending(g) ==
    /\ g \in CanTell /\ reporter[g].phase = "idle"
    /\ \E s \in Oldest(Pending(AgentOf[g])) :
         reporter' = [reporter EXCEPT ![g] =
                        [phase |-> "loop",
                         batch |-> [i \in DOMAIN s |->
                                      [task |-> updated[s[i]],
                                       state |-> task[updated[s[i]]].state]]]]
    /\ UNCHANGED <<task, updated, told, posted, outcomes, failures, lost, outages>>

Item(g) == Head(reporter[g].batch)

(* Mutant: a tick that never ends. *)
NextItemOnly(g) ==
    reporter' = [reporter EXCEPT ![g] = [phase |-> "loop", batch |-> Tail(@.batch)]]

(* On to the next report, or to the end of the tick. *)
NextItem(g) ==
    reporter' = [reporter EXCEPT ![g] =
                   IF Len(@.batch) = 1 THEN Idle
                   ELSE [phase |-> "loop", batch |-> Tail(@.batch)]]

Stay(g, phase) == reporter' = [reporter EXCEPT ![g].phase = phase]

(* Mutant: the marker is written without comparing. *)
MarkAnyway(g) ==
    LET t == Item(g).task IN
    /\ reporter[g].phase = "loop"
    /\ task' = [task EXCEPT ![t].reported = g]
    /\ IF Item(g).state # "canceled" THEN Stay(g, "sending") ELSE NextItem(g)
    /\ UNCHANGED <<updated, told, posted, outcomes, failures, lost, outages>>

(* MarkReported: won by exactly one.  A cancel is marked and not told. *)
MarkReported(g) ==
    LET t == Item(g).task IN
    /\ reporter[g].phase = "loop"
    /\ \/ /\ task[t].reported = Nobody
          /\ task' = [task EXCEPT ![t].reported = g]
          /\ IF Item(g).state # "canceled" THEN Stay(g, "sending") ELSE NextItem(g)
       \/ /\ task[t].reported # Nobody
          /\ NextItem(g) /\ UNCHANGED task
    /\ UNCHANGED <<updated, told, posted, outcomes, failures, lost, outages>>

MarkFails(g) ==
    /\ reporter[g].phase = "loop" /\ Outage /\ NextItem(g)
    /\ UNCHANGED <<task, updated, told, posted, outcomes, failures, lost>>

(* notify: sent, refused, or sent with the answer lost. *)
Send(g) ==
    LET t == Item(g).task
        telling == told' = [told EXCEPT ![t] = Append(@, Item(g).state)]
    IN
    /\ reporter[g].phase = "sending"
    /\ \/ telling /\ Stay(g, "posting") /\ UNCHANGED <<failures, lost>>
       \/ Failure /\ Stay(g, "refused") /\ UNCHANGED <<told, lost>>
       \/ Failure /\ telling /\ lost' = lost + 1 /\ Stay(g, "refused")
    /\ UNCHANGED <<task, updated, posted, outcomes, outages>>

(* Mutant: a report that could not be sent keeps its marker. *)
KeepMarker(g) ==
    /\ reporter[g].phase = "refused"
    /\ NextItem(g)
    /\ UNCHANGED <<task, updated, told, posted, outcomes, failures, lost, outages>>

(* UnmarkReported: the claim is given back, if it is still this one. *)
UnmarkReported(g) ==
    LET t == Item(g).task IN
    /\ reporter[g].phase = "refused"
    /\ task' = IF task[t].reported = g THEN [task EXCEPT ![t].reported = Nobody]
               ELSE task
    /\ NextItem(g)
    /\ UNCHANGED <<updated, told, posted, outcomes, failures, lost, outages>>

UnmarkFails(g) ==
    /\ reporter[g].phase = "refused" /\ Outage /\ NextItem(g)
    /\ UNCHANGED <<task, updated, told, posted, outcomes, failures, lost>>

(* reportToThread, best effort *)
ReportToThread(g) ==
    LET t == Item(g).task IN
    /\ reporter[g].phase = "posting"
    /\ NextItem(g)
    /\ \/ posted' = [posted EXCEPT ![t] = @ + 1] /\ UNCHANGED outages
       \/ Outage /\ UNCHANGED posted
    /\ UNCHANGED <<task, updated, told, outcomes, failures, lost>>

----------------------------------------------------------------------------
(* The gateway's process; Start ticks at once when it is back. *)

Crash(g) ==
    /\ reporter[g].phase # "down" /\ Outage
    /\ reporter' = [reporter EXCEPT ![g] = Down]
    /\ UNCHANGED <<task, updated, told, posted, outcomes, failures, lost>>

Start(g) ==
    /\ reporter[g].phase = "down"
    /\ reporter' = [reporter EXCEPT ![g] = Idle]
    /\ UNCHANGED <<task, updated, told, posted, outcomes, failures, lost, outages>>

Tick(g) ==
    \/ ReadPending(g) \/ MarkReported(g) \/ Send(g)
    \/ UnmarkReported(g) \/ ReportToThread(g)

Next ==
    \/ \E t \in Tasks :
         \/ \E s \in Ends, a \in Agents : EndTask(t, s, a)
         \/ ResumeTask(t)
    \/ \E g \in Reporters :
         Tick(g) \/ MarkFails(g) \/ UnmarkFails(g) \/ Crash(g) \/ Start(g)

(* The loop goes on while the process lives, and a service is restarted. *)
Spec == Init /\ [][Next]_vars /\ \A g \in Reporters : WF_vars(Tick(g)) /\ WF_vars(Start(g))

----------------------------------------------------------------------------
(* Properties *)

Reports == [task : Tasks, state : Terminal]

TypeOK ==
    /\ \A t \in Tasks :
         /\ task[t] \in [state : States, claimed_by : Agents \cup {Nobody},
                         reported : Reporters \cup {Nobody}]
         /\ told[t] \in Seq(Terminal) /\ posted[t] \in Nat
    /\ updated \in Seq(Tasks)
    /\ \A g \in Reporters :
         /\ reporter[g].phase \in Phases /\ reporter[g].batch \in Seq(Reports)
         /\ reporter[g].phase \in {"down", "idle"} <=> reporter[g].batch = <<>>
    /\ \A t \in Tasks : outcomes[t] \in 0..MaxOutcomes[t]
    /\ failures \in 0..MaxFailures /\ lost \in 0..failures /\ outages \in 0..MaxOutages

(* However many gateways report, whatever dies, and however often a task is   *)
(* resumed and ends again, the owner is told of it once, and once more only  *)
(* for a send that arrived although its answer did not.                      *)
ToldOnce == \A t \in Tasks : Len(told[t]) <= 1 + lost

(* The thread's post rides on the same claim: no task is posted twice, and    *)
(* none before the owner was told.                                          *)
PostedOnce == \A t \in Tasks : posted[t] <= 1 /\ posted[t] <= Len(told[t])

(* A marker stands for news that reached the owner, a cancel, or a reporter   *)
(* about to send, unless an outage struck in between.                        *)
MarkersAreKept ==
    \A t \in Tasks :
        task[t].reported = Nobody \/ told[t] # <<>> \/ outages > 0
        \/ outcomes[t] > 1 \/ task[t].state = "canceled"
        \/ \E g \in Reporters : /\ task[t].reported = g
                                /\ reporter[g].phase \in {"sending", "refused"}
                                /\ Item(g).task = t

Owed(t) ==
    task[t].state \in Terminal \ {"canceled"} /\ task[t].claimed_by # Creator[t]

(* Through any sends that fail and any gateways that share the work, a task   *)
(* that ended under another agent is reported, unless it is resumed first, a  *)
(* gateway died, or a cancel took the report of an earlier end.              *)
OutcomesAreTold ==
    \A t \in Tasks :
        Owed(t) ~> told[t] # <<>> \/ ~Owed(t) \/ outages > 0 \/ outcomes[t] > 1

=============================================================================
