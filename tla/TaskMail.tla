------------------------------ MODULE TaskMail ------------------------------
(***************************************************************************)
(* What agents write to each other (coord/messages.go, coordcmd.go runMsg and *)
(* runInbox), and the three readers of one summons, none of which knows of the *)
(* others: the run of the task a line is filed under (taskrunner.taskMail), *)
(* the watcher that answers every unread mention with a turn                 *)
(* (gateway/mentions.go), and `bomclaw inbox --mark-read`.  Each reads the     *)
(* unread lines in one statement and clears the ones it has in another.        *)
(* What a turn says and the records of the room are in Rooms.                  *)
(***************************************************************************)
EXTENDS Naturals, Sequences, FiniteSets

CONSTANTS
    Agents,
    Readers,        \* bound: the agents whose gateway and shell are followed
    Tasks,
    None,
    Window,         \* how many of the newest unread lines a run or a shell reads (50, 30)
    MentionsPerSweep,
    MaxLines,       \* bound: lines written
    MaxReads,       \* bound: runs, and `bomclaw inbox` typed
    MaxFaults       \* bound: crashes, and statements that fail

TaskMailConstants ==
    /\ Readers \subseteq Agents /\ None \notin Tasks /\ Window \in Nat \ {0} /\ MentionsPerSweep \in Nat \ {0}
    /\ {MaxLines, MaxReads, MaxFaults} \subseteq Nat

VARIABLES
    lines,          \* channel_messages, in order: the task a line is filed under, whom
                    \* it is addressed to, and whom its writer still has to name
    unread, read,   \* channel_mentions: pairs of a line and an agent
    runner,         \* execute, up to its prompt: one slot of every gateway
    watcher,        \* the mention watcher of every gateway
    shell,          \* `bomclaw inbox --mark-read` of every agent
    told,           \* history: how often a pair was in a prompt, and in a turn
    over,           \* history: pairs printed, skipped as stale or in a full thread, or
                    \* read for a run that never started
    reads, faults

vars == <<lines, unread, read, runner, watcher, shell, told, over, reads, faults>>

-----------------------------------------------------------------------------

Off == [at |-> "off", has |-> {}]
NoRun == [at |-> "off", task |-> None, has |-> {}]
Pairs == (1 .. MaxLines) \X Agents
Seen == (1 .. MaxLines) \X Readers

Init ==
    /\ lines = <<>>
    /\ unread = {} /\ read = {}
    /\ runner = [a \in Readers |-> NoRun]
    /\ watcher = [a \in Readers |-> Off]
    /\ shell = [a \in Readers |-> Off]
    /\ told = [prompt |-> [p \in Seen |-> 0], turn |-> [p \in Seen |-> 0]]
    /\ over = {}
    /\ reads = 0 /\ faults = 0

(* Inbox and UnreadMentions: the newest n of what names this agent and is unread. *)
Inbox(a, n) ==
    LET mine == {p[1] : p \in {q \in unread : q[2] = a}}
    IN {k \in mine : Cardinality({j \in mine : j > k}) < n}

(* MarkRead: for one member only, and only what it was given. *)
MarkRead(a, ks) ==
    LET cleared == unread \cap {<<k, a>> : k \in ks}
    IN unread' = unread \ cleared /\ read' = read \cup cleared

Sees(where, a, ks) ==
    told' = [told EXCEPT ![where] = [p \in Seen |->
        IF p[2] = a /\ p[1] \in ks THEN @[p] + 1 ELSE @[p]]]

Fault == faults < MaxFaults /\ faults' = faults + 1
Mail == <<lines, unread, read>>
History == <<told, over>>
Bounds == <<reads, faults>>

-----------------------------------------------------------------------------
(* Writing: the line first, then one row for everybody it is addressed to. *)

SendMessage(task, to) ==
    /\ Len(lines) < MaxLines
    /\ to \cap Readers # {}
    /\ lines' = Append(lines, [task |-> task, to |-> to, left |-> to])
    /\ UNCHANGED <<unread, read, runner, watcher, shell, History, Bounds>>

Names(k, a) ==
    /\ a \in lines[k].left
    /\ lines' = [lines EXCEPT ![k].left = @ \ {a}]
    /\ unread' = unread \cup {<<k, a>>}
    /\ UNCHANGED <<read, runner, watcher, shell, History, Bounds>>

(* The writer dies on the way: the line stands in the room and summons nobody else. *)
WriterDies(k) ==
    /\ Fault
    /\ lines[k].left # {}
    /\ lines' = [lines EXCEPT ![k].left = {}]
    /\ UNCHANGED <<unread, read, runner, watcher, shell, History, reads>>

-----------------------------------------------------------------------------
(* A run of task t: taskMail's two statements, the prompt, and the row of the run. *)

Runner(a, at, t, has) == runner' = [runner EXCEPT ![a] = [at |-> at, task |-> t, has |-> has]]

RunReads(a, t) ==
    /\ runner[a].at = "off"
    /\ reads < MaxReads
    /\ reads' = reads + 1
    /\ Runner(a, "read", t, {k \in Inbox(a, Window) : lines[k].task = t})
    /\ UNCHANGED <<Mail, watcher, shell, History, faults>>

RunMarks(a) ==
    /\ runner[a].at = "read"
    /\ MarkRead(a, runner[a].has)
    /\ Runner(a, "marked", runner[a].task, runner[a].has)
    /\ UNCHANGED <<lines, watcher, shell, History, Bounds>>

(* The error of MarkRead is dropped: the run has the lines and they stay unread. *)
RunFailsToMark(a) ==
    /\ Fault
    /\ runner[a].at = "read"
    /\ runner[a].has # {}
    /\ Runner(a, "marked", runner[a].task, runner[a].has)
    /\ UNCHANGED <<Mail, watcher, shell, History, reads>>

RunStarts(a) ==
    /\ runner[a].at = "marked"
    /\ Sees("prompt", a, runner[a].has)
    /\ runner' = [runner EXCEPT ![a] = NoRun]
    /\ UNCHANGED <<Mail, watcher, shell, over, Bounds>>

Unheard(a) == IF runner[a].at = "marked" THEN {<<k, a>> : k \in runner[a].has} ELSE {}

(* StartRun failed on every retry: execute returns, and what it read stays read. *)
RunNeverStarts(a) ==
    /\ Fault
    /\ runner[a].at = "marked"
    /\ over' = over \cup Unheard(a)
    /\ runner' = [runner EXCEPT ![a] = NoRun]
    /\ UNCHANGED <<Mail, watcher, shell, told, reads>>

-----------------------------------------------------------------------------
(* The watcher: the newest few, oldest first, whatever became of them since. *)

Sweeps(a) ==
    /\ watcher[a].at = "off"
    /\ Inbox(a, MentionsPerSweep) # {}
    /\ watcher' = [watcher EXCEPT ![a] = [at |-> "next", has |-> Inbox(a, MentionsPerSweep)]]
    /\ UNCHANGED <<Mail, runner, shell, History, Bounds>>

Oldest(a) == CHOOSE k \in watcher[a].has : \A j \in watcher[a].has : k <= j

Rest(a) ==
    LET rest == watcher[a].has \ {Oldest(a)}
    IN watcher' = [watcher EXCEPT ![a] = IF rest = {} THEN Off ELSE [at |-> "next", has |-> rest]]

StartsTurn(a) ==
    /\ watcher[a].at = "next"
    /\ watcher' = [watcher EXCEPT ![a].at = "turn"]
    /\ UNCHANGED <<Mail, runner, shell, History, Bounds>>

(* A line of yesterday, or a thread at its cap, is cleared without a turn. *)
Skips(a) ==
    /\ watcher[a].at = "next"
    /\ MarkRead(a, {Oldest(a)})
    /\ over' = over \cup {<<Oldest(a), a>>}
    /\ Rest(a)
    /\ UNCHANGED <<lines, runner, shell, told, Bounds>>

(* The thread's memory cannot be read: the line waits for another sweep. *)
Leaves(a) ==
    /\ Fault
    /\ watcher[a].at = "next"
    /\ Rest(a)
    /\ UNCHANGED <<Mail, runner, shell, History, reads>>

TurnEnds(a) ==
    /\ watcher[a].at = "turn"
    /\ Sees("turn", a, {Oldest(a)})
    /\ \/ MarkRead(a, {Oldest(a)}) /\ UNCHANGED faults
       \/ Fault /\ UNCHANGED <<unread, read>>
    /\ Rest(a)
    /\ UNCHANGED <<lines, runner, shell, over, reads>>

-----------------------------------------------------------------------------
(* `bomclaw inbox --unread --mark-read`, in a process of its own.  Without --unread it *)
(* prints what is read too, which it cannot clear again.                          *)

Shows(a) ==
    /\ shell[a].at = "off"
    /\ reads < MaxReads
    /\ reads' = reads + 1
    /\ shell' = [shell EXCEPT ![a] = [at |-> "shown", has |-> Inbox(a, Window)]]
    /\ over' = over \cup {<<k, a>> : k \in Inbox(a, Window)}
    /\ UNCHANGED <<Mail, runner, watcher, told, faults>>

MarksShown(a) ==
    /\ shell[a].at = "shown"
    /\ MarkRead(a, shell[a].has)
    /\ shell' = [shell EXCEPT ![a] = Off]
    /\ UNCHANGED <<lines, runner, watcher, History, Bounds>>

-----------------------------------------------------------------------------

(* A gateway stops or dies: a turn under way is not cleared; a run that has its mail *)
(* and no row yet takes it along.                                                  *)
GatewayStops(a) ==
    /\ Fault
    /\ runner[a].at # "off" \/ watcher[a].at # "off"
    /\ over' = over \cup Unheard(a)
    /\ runner' = [runner EXCEPT ![a] = NoRun]
    /\ watcher' = [watcher EXCEPT ![a] = Off]
    /\ UNCHANGED <<Mail, shell, told, reads>>

Next ==
    \/ \E task \in Tasks \cup {None}, to \in SUBSET Agents : SendMessage(task, to)
    \/ \E k \in DOMAIN lines : WriterDies(k) \/ \E a \in Agents : Names(k, a)
    \/ \E a \in Readers :
        \/ \E t \in Tasks : RunReads(a, t)
        \/ RunMarks(a) \/ RunFailsToMark(a) \/ RunStarts(a) \/ RunNeverStarts(a)
        \/ Sweeps(a) \/ StartsTurn(a) \/ Skips(a) \/ Leaves(a) \/ TurnEnds(a)
        \/ Shows(a) \/ MarksShown(a)
        \/ GatewayStops(a)

Spec == Init /\ [][Next]_vars

-----------------------------------------------------------------------------

TypeOK ==
    /\ lines \in Seq([task : Tasks \cup {None}, to : SUBSET Agents, left : SUBSET Agents])
    /\ Len(lines) <= MaxLines
    /\ unread \subseteq Pairs /\ read \subseteq Pairs /\ over \subseteq Pairs
    /\ runner \in [Readers -> [at : {"off", "read", "marked"}, task : Tasks \cup {None},
                              has : SUBSET (1 .. MaxLines)]]
    /\ watcher \in [Readers -> [at : {"off", "next", "turn"}, has : SUBSET (1 .. MaxLines)]]
    /\ shell \in [Readers -> [at : {"off", "shown"}, has : SUBSET (1 .. MaxLines)]]
    /\ \A a \in Readers : watcher[a].at = "off" <=> watcher[a].has = {}
    /\ told \in [{"prompt", "turn"} -> [Seen -> Nat]]
    /\ reads \in 0 .. MaxReads /\ faults \in 0 .. MaxFaults

(* A line that is read for an agent was put before that agent: in a prompt, in a *)
(* turn or on its screen, unless it was skipped or the run that took it never      *)
(* started.  A line that came between a reader's two statements, or that another   *)
(* agent has still to read, is not among those it clears (messages.go:125).      *)
ReadIsSeen ==
    \A p \in read :
        /\ p \in Seen
        /\ \/ told.prompt[p] + told.turn[p] > 0
           \/ p \in over
           \/ p \in Unheard(p[2])

(* No line is put before an agent twice by the same reader, except after a fault: a run *)
(* does not repeat what an earlier run was told, and the watcher does not answer what     *)
(* it answered.  Once by each is possible: neither looks at the other.                  *)
SeenOnceEach == \A p \in Seen : told.prompt[p] <= 1 + faults /\ told.turn[p] <= 1 + faults

=============================================================================
