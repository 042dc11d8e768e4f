-------------------------------- MODULE Rooms --------------------------------
(***************************************************************************)
(* A room where a person and the agents talk: messages and the mentions they   *)
(* make (internal/coord/channels.go), the watcher of each gateway that answers *)
(* its agent's mentions with a chat turn (internal/gateway/mentions.go), and   *)
(* the board record of a turn that became work (internal/coord/mentiontasks.go).*)
(*                                                                         *)
(* A turn is answered by several statements, one gateway each, beside what the  *)
(* turn still does after its watcher gave it up: progress lines on their way,  *)
(* the timer that opens a record, the command line of the agent.             *)
(***************************************************************************)
EXTENDS Naturals, Sequences, FiniteSetsExt

CONSTANTS
    Agents,             \* registered agents, each with its gateway
    Owner,              \* the person
    Ids,                \* message ids; a finite 1..n where TLC counts them out
    MaxThreadTurns,
    MentionsPerSweep,
    MaxCalls,           \* bound: mentions that posts make, one each at least
    MaxUpsets           \* bound: deaths, shutdowns, turns that fail, old mentions,
                        \* commands that open a record beside a turn

ASSUME RoomsConstants ==
    /\ IsFiniteSet(Agents) /\ Owner \notin Agents
    /\ Ids \subseteq Nat \ {0}
    /\ MaxThreadTurns \in Nat \ {0} /\ MentionsPerSweep \in Nat \ {0}
    /\ MaxCalls \in Nat /\ MaxUpsets \in Nat

VARIABLES
    msgs,       \* channel_messages with their channel_mentions; "names" until those are there
    turns,      \* channel_sessions.turns of each thread and agent
    watcher,    \* each gateway's MentionWatcher
    stray,      \* what goes on outside the watchers
    records,    \* tasks of kind "mention"
    stale,      \* messages older than StaleMention
    redone,     \* history: answers whose gateway died before it cleared the mention
    upsets

vars == <<msgs, turns, watcher, stray, records, stale, redone, upsets>>

Resting == [at |-> "idle", list |-> {}, msg |-> 0, line |-> 0, open |-> "no",
            rec |-> 0, end |-> "none"]

Init ==
    /\ msgs = <<>> /\ records = <<>>
    /\ turns = [k \in Ids |-> [a \in Agents |-> 0]]
    /\ watcher = [a \in Agents |-> Resting]
    /\ stray = {} /\ stale = {} /\ redone = {}
    /\ upsets = 0

Upset == upsets < MaxUpsets /\ upsets' = upsets + 1

ThreadKey(m) == IF msgs[m].root # 0 THEN msgs[m].root ELSE m

Message(by, root, body, names, to) ==
    [by |-> by, root |-> root, body |-> body, names |-> names, to |-> to,
     unread |-> {}, read |-> {}, posting |-> body = "said"]

----------------------------------------------------------------------------
(* PostMessage: the row first, then whom it is addressed to.                 *)

ThreadAgents(root) ==
    {msgs[i].by : i \in {j \in DOMAIN msgs : msgs[j].body # "gone" /\ (j = root \/ msgs[j].root = root)}}
    \cap Agents

(* Only the unaddressed reply of a person is for the agents of the thread. *)
Addressed(by, root, names) ==
    IF root # 0 /\ by = Owner /\ names = {} THEN ThreadAgents(root) ELSE names

(* What the bound counts: the mentions of a message, one at least. *)
Calls(names) == IF names = {} THEN 1 ELSE Cardinality(names)

Called ==
    MapThenSumSet(LAMBDA i : Calls(msgs[i].names \cup msgs[i].unread \cup msgs[i].read),
                  {i \in DOMAIN msgs : msgs[i].body = "said"})

PostMessage(by, root, names) ==
    /\ Called + Calls(Addressed(by, root, names)) <= MaxCalls
    /\ msgs' = Append(msgs, Message(by, root, "said", names, 0))

(* A person starts a thread, or answers in one that is being held. *)
PersonPosts(names) ==
    /\ \E root \in {0} \cup {m \in DOMAIN msgs : msgs[m].root = 0} : PostMessage(Owner, root, names)
    /\ UNCHANGED <<turns, watcher, stray, records, stale, redone, upsets>>

(* An agent posts from its turn, with `bomclaw channel post`. *)
AgentPosts(a, names) ==
    /\ watcher[a].at = "turn"
    /\ PostMessage(a, ThreadKey(watcher[a].msg), names \ {a})
    /\ UNCHANGED <<turns, watcher, stray, records, stale, redone, upsets>>

RecordsMentions(m) ==
    /\ msgs[m].posting
    /\ msgs' = [msgs EXCEPT ![m].posting = FALSE, ![m].names = {},
                                  ![m].unread = Addressed(msgs[m].by, msgs[m].root, msgs[m].names)]
    /\ UNCHANGED <<turns, watcher, stray, records, stale, redone, upsets>>

(* The process that posts dies between the two. *)
PostBreaksOff(m) ==
    /\ msgs[m].posting /\ Upset
    /\ msgs' = [msgs EXCEPT ![m].posting = FALSE, ![m].names = {}]
    /\ UNCHANGED <<turns, watcher, stray, records, stale, redone>>

BecomesStale(m) ==
    /\ m \notin stale /\ msgs[m].unread # {} /\ Upset
    /\ stale' = stale \cup {m}
    /\ UNCHANGED <<msgs, turns, watcher, stray, records, redone>>

----------------------------------------------------------------------------
(* The records of a mention.                                                *)

Open(m) == {r \in DOMAIN records : records[r].msg = m /\ records[r].state = "working"}

Record(m, a, run, loose) == [msg |-> m, by |-> a, state |-> "working", run |-> run, loose |-> loose]

(* History: what an agent had open for a mention and does not hold, having  *)
(* taken r, is nobody's to close any more.                                   *)
OnlyHolds(m, a, r) ==
    [i \in DOMAIN records |->
        IF i \in Open(m) \ {r} /\ records[i].by = a THEN [records[i] EXCEPT !.loose = TRUE]
        ELSE records[i]]

----------------------------------------------------------------------------
(* The sweep.                                                               *)

Unread(a) == {i \in DOMAIN msgs : a \in msgs[i].unread}

(* The newest of them; they are taken the oldest first. *)
UnreadMentions(a) ==
    {i \in Unread(a) : Cardinality({j \in Unread(a) : j > i}) < MentionsPerSweep}

Before(list) == [Resting EXCEPT !.at = IF list = {} THEN "idle" ELSE "next", !.list = list]

Sweeps(a) ==
    /\ watcher[a].at = "idle" /\ Unread(a) # {}
    /\ watcher' = [watcher EXCEPT ![a] = Before(UnreadMentions(a))]
    /\ UNCHANGED <<msgs, turns, stray, records, stale, redone, upsets>>

(* The oldest mention of a's batch. *)
IsNext(a, m) ==
    /\ watcher[a].at = "next"
    /\ m \in watcher[a].list /\ \A i \in watcher[a].list : m <= i

Takes(a, m, rec) ==
    watcher' = [watcher EXCEPT ![a] = [rec EXCEPT !.list = watcher[a].list \ {m}, !.msg = m]]

(* Mutant: one turn more than the cap. *)
AtCapOver(a, m) == turns[ThreadKey(m)][a] > MaxThreadTurns

AtCap(a, m) == turns[ThreadKey(m)][a] >= MaxThreadTurns

SkipsStale(a, m) ==
    /\ IsNext(a, m) /\ m \in stale
    /\ Takes(a, m, [Resting EXCEPT !.at = "closeStale"])
    /\ UNCHANGED <<msgs, turns, stray, records, stale, redone, upsets>>

(* Mutant: at its cap a thread is left as it is. *)
SkipsAtCapOnly(a, m) ==
    /\ IsNext(a, m) /\ m \notin stale /\ AtCap(a, m)
    /\ watcher' = [watcher EXCEPT ![a] = Before(watcher[a].list \ {m})]
    /\ UNCHANGED <<msgs, turns, stray, records, stale, redone, upsets>>

SkipsAtCap(a, m) ==
    /\ IsNext(a, m) /\ m \notin stale /\ AtCap(a, m)
    /\ Takes(a, m, [Resting EXCEPT !.at = "clear"])
    /\ records' = OnlyHolds(m, a, 0)
    /\ UNCHANGED <<msgs, turns, stray, stale, redone, upsets>>

(* The progress line goes up, and the turn starts. *)
StartsTurn(a, m) ==
    /\ IsNext(a, m) /\ m \notin stale /\ ~AtCap(a, m)
    /\ Takes(a, m, [Resting EXCEPT !.at = "turn", !.line = Len(msgs) + 1])
    /\ msgs' = Append(msgs, Message(a, ThreadKey(m), "working", {}, 0))
    /\ UNCHANGED <<turns, stray, records, stale, redone, upsets>>

----------------------------------------------------------------------------
(* The record of a turn that is work: looked for, and only then created.       *)

(* The first tool call, or the timer of a turn that runs long. *)
LooksForRecord(a) ==
    LET m == watcher[a].msg IN
    /\ watcher[a].at = "turn" /\ watcher[a].open = "no"
    /\ IF Open(m) = {}
       THEN /\ watcher' = [watcher EXCEPT ![a].open = "looked"]
            /\ UNCHANGED records
       ELSE \E r \in Open(m) :
            /\ watcher' = [watcher EXCEPT ![a].open = "done", ![a].rec = r]
            /\ records' = [OnlyHolds(m, a, r) EXCEPT ![r].run = @ \/ records[r].by = a]
    /\ UNCHANGED <<msgs, turns, stray, stale, redone, upsets>>

OpensRecord(a) ==
    LET m == watcher[a].msg IN
    /\ watcher[a].at = "turn" /\ watcher[a].open = "looked"
    /\ records' = Append(records, Record(m, a, TRUE, FALSE))
    /\ watcher' = [watcher EXCEPT ![a].open = "done", ![a].rec = Len(records) + 1]
    /\ UNCHANGED <<msgs, turns, stray, stale, redone, upsets>>

Straying(a, m, line, open, redraw) ==
    [by |-> a, msg |-> m, line |-> line, open |-> open, redraw |-> redraw]

(* `bomclaw artifact put` without a task, in another process. *)
CommandLooks(a) ==
    LET c == Straying(a, watcher[a].msg, 0, "looked", FALSE) IN
    /\ watcher[a].at = "turn" /\ Open(watcher[a].msg) = {} /\ c \notin stray /\ Upset
    /\ stray' = stray \cup {c}
    /\ UNCHANGED <<msgs, turns, watcher, records, stale, redone>>

(* With nothing left to do it is gone. *)
GoesOn(s, t) == (stray \ {s}) \cup (IF t.open = "done" /\ ~t.redraw THEN {} ELSE {t})

(* A record opened from outside a turn its watcher still runs. *)
StrayOpens(s) ==
    /\ s \in stray /\ s.open = "looked"
    /\ records' = Append(records, Record(s.msg, s.by, s.line # 0, TRUE))
    /\ stray' = GoesOn(s, [s EXCEPT !.open = "done"])
    /\ UNCHANGED <<msgs, turns, watcher, stale, redone, upsets>>

(* The first tool call of a turn that ran out of time: nothing stopped that. *)
StrayLooks(s) ==
    /\ s \in stray /\ s.open = "no"
    /\ stray' = GoesOn(s, [s EXCEPT !.open = IF Open(s.msg) = {} THEN "looked" ELSE "done"])
    /\ UNCHANGED <<msgs, turns, watcher, records, stale, redone, upsets>>

StrayEnds(s) ==
    /\ s \in stray /\ s.open = "no" /\ ~s.redraw
    /\ stray' = stray \ {s}
    /\ UNCHANGED <<msgs, turns, watcher, records, stale, redone, upsets>>

UpdateMessageBody(m, body, to) ==
    msgs' = [msgs EXCEPT ![m] = IF @.body = "gone" THEN @
                                ELSE [@ EXCEPT !.body = body, !.to = to]]

(* The report a turn had in hand when it was given up: the line says that its   *)
(* agent is at work again, and nobody is.                                   *)
StrayRedraws(s) ==
    /\ s \in stray /\ s.redraw
    /\ UpdateMessageBody(s.line, "revived", 0)
    /\ stray' = GoesOn(s, [s EXCEPT !.redraw = FALSE])
    /\ UNCHANGED <<turns, watcher, records, stale, redone, upsets>>

----------------------------------------------------------------------------
(* The end of a turn, in the order of `answer`.                              *)

Closing(w, end) ==
    [w EXCEPT !.at = IF w.rec = 0 THEN "land" ELSE "closeTask", !.open = "no", !.end = end]

(* A turn that returned has made its last report; the timer it may leave. *)
TurnEnds(a, end) ==
    LET w == watcher[a] IN
    /\ w.at = "turn"
    /\ watcher' = [watcher EXCEPT ![a] = Closing(w, end)]
    /\ stray' = IF w.open = "looked"
                THEN stray \cup {Straying(a, w.msg, w.line, "looked", FALSE)} ELSE stray
    /\ records' = OnlyHolds(w.msg, a, w.rec)
    /\ UNCHANGED <<msgs, turns, stale, redone, upsets>>

(* A turn that failed; one that ran out of time goes on in its lane, maybe with *)
(* a report in hand.                                                       *)
TurnFails(a) ==
    LET w == watcher[a] IN
    /\ w.at = "turn" /\ Upset
    /\ watcher' = [watcher EXCEPT ![a] = Closing(w, "failed")]
    /\ stray' \in {stray} \cup {stray \cup {Straying(a, w.msg, w.line, w.open, redraw)} : redraw \in BOOLEAN}
    /\ records' = OnlyHolds(w.msg, a, w.rec)
    /\ UNCHANGED <<msgs, turns, stale, redone>>

CloseMentionTask(recs, r, a, state) ==
    IF r \in DOMAIN recs /\ recs[r].by = a /\ recs[r].state = "working"
    THEN [recs EXCEPT ![r].state = state] ELSE recs

ClosesTask(a) ==
    LET w == watcher[a] IN
    /\ w.at = "closeTask"
    /\ records' = CloseMentionTask(records, w.rec, a,
                                   IF w.end = "replied" THEN "completed" ELSE "failed")
    /\ watcher' = [watcher EXCEPT ![a].at = "land", ![a].rec = 0]
    /\ UNCHANGED <<msgs, turns, stray, stale, redone, upsets>>

CloseStaleMentionTask(a) ==
    /\ watcher[a].at = "closeStale"
    /\ IF Open(watcher[a].msg) = {} THEN UNCHANGED records
       ELSE \E r \in Open(watcher[a].msg) :
            records' = CloseMentionTask(OnlyHolds(watcher[a].msg, a, r), r, a, "failed")
    /\ watcher' = [watcher EXCEPT ![a].at = "clear"]
    /\ UNCHANGED <<msgs, turns, stray, stale, redone, upsets>>

(* The reply takes the place of the progress line.  The peers it names are      *)
(* rung, and no mention of them is recorded.                                *)
LandsReply(a) ==
    LET w == watcher[a] IN
    /\ w.at = "land" /\ w.end = "replied"
    /\ UpdateMessageBody(w.line, "reply", w.msg)
    /\ watcher' = [watcher EXCEPT ![a].at = "save"]
    /\ UNCHANGED <<turns, stray, records, stale, redone, upsets>>

(* A turn that failed leaves a note, one that said nothing leaves no line. *)
FinishesProgress(a) ==
    LET w == watcher[a] IN
    /\ w.at = "land" /\ w.end # "replied"
    /\ UpdateMessageBody(w.line, IF w.end = "failed" THEN "note" ELSE "gone", 0)
    /\ watcher' = [watcher EXCEPT ![a].at = "clear", ![a].line = 0]
    /\ UNCHANGED <<turns, stray, records, stale, redone, upsets>>

(* Mutant: the turn is counted under the message it answers. *)
SaveThreadSessionOfMessage(a) ==
    /\ watcher[a].at = "save"
    /\ turns' = [turns EXCEPT ![watcher[a].msg][a] = @ + 1]
    /\ watcher' = [watcher EXCEPT ![a].at = "clear"]
    /\ UNCHANGED <<msgs, stray, records, stale, redone, upsets>>

SaveThreadSession(a) ==
    /\ watcher[a].at = "save"
    /\ turns' = [turns EXCEPT ![ThreadKey(watcher[a].msg)][a] = @ + 1]
    /\ watcher' = [watcher EXCEPT ![a].at = "clear"]
    /\ UNCHANGED <<msgs, stray, records, stale, redone, upsets>>

MarkMentionsRead(a) ==
    LET w == watcher[a] IN
    /\ w.at = "clear"
    /\ msgs' = [msgs EXCEPT ![w.msg].unread = @ \ {a}, ![w.msg].read = @ \cup {a}]
    /\ watcher' = [watcher EXCEPT ![a] = Before(w.list)]
    /\ UNCHANGED <<turns, stray, records, stale, redone, upsets>>

----------------------------------------------------------------------------
(* Gateways stop and start.                                                 *)

Down(a) == watcher' = [watcher EXCEPT ![a] = [Resting EXCEPT !.at = "down"]]

(* The commands of an agent are processes of their own. *)
Left(a) == {s \in stray : s.by # a \/ s.line = 0}

(* A shutdown in a turn: the line goes, the mention and the record stay. *)
ShutsDown(a) ==
    /\ watcher[a].at = "turn" /\ Upset
    /\ UpdateMessageBody(watcher[a].line, "gone", 0)
    /\ Down(a) /\ stray' = Left(a)
    /\ UNCHANGED <<turns, records, stale, redone>>

(* A gateway that does nothing loses nothing: it is not made to die.          *)
Dies(a) ==
    /\ watcher[a].at \notin {"down", "idle"} \/ Left(a) # stray
    /\ watcher[a].at # "down" /\ Upset
    /\ Down(a) /\ stray' = Left(a)
    /\ redone' = IF watcher[a].at \in {"save", "clear"} /\ watcher[a].end = "replied"
                 THEN redone \cup {watcher[a].line} ELSE redone
    /\ UNCHANGED <<msgs, turns, records, stale>>

(* Mutant: every line of the agent's own goes, not only those of progress. *)
SweepProgressLinesAll(a) ==
    [i \in DOMAIN msgs |-> IF msgs[i].by = a /\ ~msgs[i].posting
                           THEN [msgs[i] EXCEPT !.body = "gone"] ELSE msgs[i]]

SweepProgressLines(a) ==
    [i \in DOMAIN msgs |-> IF msgs[i].by = a /\ msgs[i].body \in {"working", "revived"}
                           THEN [msgs[i] EXCEPT !.body = "gone"] ELSE msgs[i]]

(* A record with a run of the agent's that is still "running" goes back to the  *)
(* queue, as any task interrupted with its gateway.                          *)
ReleaseInterruptedRuns(a) ==
    [r \in DOMAIN records |->
        IF records[r].state = "working" /\ records[r].by = a /\ records[r].run
        THEN [records[r] EXCEPT !.state = "submitted"] ELSE records[r]]

Returns(a) ==
    /\ watcher[a].at = "down"
    /\ msgs' = SweepProgressLines(a)
    /\ records' = ReleaseInterruptedRuns(a)
    /\ watcher' = [watcher EXCEPT ![a] = Resting]
    /\ UNCHANGED <<turns, stray, stale, redone, upsets>>

----------------------------------------------------------------------------
Watches(a) ==
    \/ Sweeps(a)
    \/ \E m \in watcher[a].list : SkipsStale(a, m) \/ SkipsAtCap(a, m) \/ StartsTurn(a, m)
    \/ OpensRecord(a)
    \/ \E end \in {"replied", "empty"} : TurnEnds(a, end)
    \/ ClosesTask(a) \/ CloseStaleMentionTask(a)
    \/ LandsReply(a) \/ FinishesProgress(a) \/ SaveThreadSession(a) \/ MarkMentionsRead(a)
    \/ Returns(a)

Strays(s) == StrayOpens(s) \/ StrayLooks(s) \/ StrayRedraws(s) \/ StrayEnds(s)

Next ==
    \/ \E names \in SUBSET Agents : PersonPosts(names) \/ (\E a \in Agents : AgentPosts(a, names))
    \/ \E m \in DOMAIN msgs : RecordsMentions(m) \/ PostBreaksOff(m) \/ BecomesStale(m)
    \/ \E a \in Agents : \/ Watches(a)
                         \/ LooksForRecord(a) \/ CommandLooks(a)
                         \/ TurnFails(a) \/ ShutsDown(a) \/ Dies(a)
    \/ \E s \in stray : Strays(s)

(* Go runs every goroutine that can run, a poll sweeps every half minute, a    *)
(* turn ends or runs out of time, and the supervisor starts a gateway again.   *)
Spec ==
    /\ Init /\ [][Next]_vars
    /\ \A a \in Agents : WF_vars(Watches(a))
    /\ WF_vars(\E m \in DOMAIN msgs : RecordsMentions(m))
    /\ WF_vars(\E s \in stray : Strays(s))

----------------------------------------------------------------------------
Words == {"said", "working", "revived", "reply", "note", "gone"}

Stages == {"down", "idle", "next", "closeStale", "turn", "closeTask", "land", "save", "clear"}

(* The room, its records and the watchers have the shape the code gives them:  *)
(* threads are one level deep, a reply stands where a line of its author's was, *)
(* a record is of a mention of its agent.                                   *)
TypeOK ==
    /\ DOMAIN msgs \subseteq Ids
    /\ \A i \in DOMAIN msgs :
        /\ msgs[i].by \in Agents \cup {Owner} /\ msgs[i].body \in Words
        /\ msgs[i].root \in 0..(i - 1) /\ msgs[i].to \in 0..(i - 1)
        /\ msgs[i].root # 0 => msgs[msgs[i].root].root = 0
        /\ msgs[i].unread \subseteq Agents \ msgs[i].read
        /\ msgs[i].body # "said" => msgs[i].by \in Agents /\ msgs[i].unread = {}
    /\ \A r \in DOMAIN records :
        /\ records[r].by \in msgs[records[r].msg].unread \cup msgs[records[r].msg].read
        /\ records[r].state \in {"submitted", "working", "completed", "failed"}
    /\ turns \in [Ids -> [Agents -> 0..MaxThreadTurns]]
    /\ \A a \in Agents : watcher[a].at \in Stages
    /\ upsets \in 0..MaxUpsets

Replies(a) == {i \in DOMAIN msgs : msgs[i].by = a /\ msgs[i].body = "reply"}

(* An agent answers at most MaxThreadTurns times in a thread, whoever keeps    *)
(* naming whom there (mentions.go:40-43), and so none twice: only a death      *)
(* between landing an answer and clearing its mention gives one more.         *)
ThreadsStop ==
    \A a \in Agents : \A k \in DOMAIN msgs :
        Cardinality({i \in Replies(a) \ redone : msgs[i].root = k}) <= MaxThreadTurns

(* A turn closes the record it opened or found before its mention is cleared,  *)
(* and a mention too old to answer takes its record with it: what stays        *)
(* "working" on the board is still to be answered (mentiontasks.go:104-107).   *)
(* Records nobody had in hand when the turn ended are left out: the history    *)
(* `loose` marks them.                                                      *)
RecordsAreClosed ==
    \A r \in DOMAIN records :
        records[r].state = "working" /\ ~records[r].loose
            => records[r].by \in msgs[records[r].msg].unread

(* An answer that landed stays: no late progress line, restart or turn of the  *)
(* same agent writes over it or takes it away (mentions.go:306-310).          *)
AnswersStay ==
    [][\A i \in DOMAIN msgs : msgs[i].body \in {"said", "reply"} =>
            msgs'[i].body = msgs[i].body]_vars

(* A line that says its agent is at work is that of a turn its gateway runs,   *)
(* or waits for the gateway to come back and take it away (mentions.go:990-992). *)
(* The lines that a turn out of time writes over again are left out.          *)
WorkingLinesAreTrue ==
    \A i \in DOMAIN msgs : msgs[i].body = "working" =>
        LET w == watcher[msgs[i].by]
        IN  w.at = "down" \/ (w.line = i /\ w.at \in {"turn", "closeTask", "land"})

(* Every mention recorded is looked at in the end, whatever became of its turn *)
(* or its gateway: answered, capped, too old, or failed with a note            *)
(* (mentions.go:174-176).  Posts are bounded, so the room comes to rest.       *)
MentionsAreAnswered == <>[](\A i \in DOMAIN msgs : ~msgs[i].posting /\ msgs[i].unread = {})

(* What is true of a room at every moment, its types included. *)
RoomSafe == TypeOK /\ ThreadsStop /\ RecordsAreClosed /\ WorkingLinesAreTrue

=============================================================================
