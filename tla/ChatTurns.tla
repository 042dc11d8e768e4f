----------------------------- MODULE ChatTurns -----------------------------
(***************************************************************************)
(* One chat: what is written to it and the turns that answer                *)
(* (internal/msgqueue, internal/session, internal/bot/handler.go, and the     *)
(* dashboard's chat.send of internal/gateway/methods.go).                    *)
(*                                                                         *)
(* A text is debounced, then run or collected while a run is busy; a run       *)
(* works on the active session and goes through the execution engine.         *)
(* Commands (/reset, /new, /cancel, the session picker) and dashboard turns    *)
(* go on at the same time, each in a goroutine of its own.                    *)
(***************************************************************************)
EXTENDS ExecutionLanes, SequencesExt

CONSTANTS
    Messages,       \* the texts of the chat, each written once
    Commands,       \* what else is asked of it: commands, turns of the dashboard
    KindOf,         \* what each of them is
    Together,       \* bound: which of them are asked of one chat
    MaxUpsets,      \* bound: commands asked, rotations due, thresholds passed,
                    \* panics, failed CLIs, plans left unfinished, placeholders refused
    Sessions,       \* ids a session may get
    MaxSessions,    \* MaxSessionsPerChat
    None            \* no conversation, no job

Turn(x)   == <<"turn", x>>      \* the turn of a batch goes by its first text
Rotate(m) == <<"rotate", m>>    \* the flush before a rotation
Full(m)   == <<"full", m>>      \* the flush past the token threshold
Flush(c)  == <<"flush", c>>     \* the flush of a command

TurnJobs  == {Turn(x) : x \in Messages \cup {c \in Commands : KindOf[c] = "web"}}
FlushJobs == {Rotate(m) : m \in Messages} \cup {Full(m) : m \in Messages}
             \cup {Flush(c) : c \in {c \in Commands : KindOf[c] \in {"reset", "new"}}}

ChatJobs == TurnJobs \cup FlushJobs

ASSUME ChatConstants ==
    /\ Jobs = ChatJobs
    /\ Messages \subseteq Nat
    /\ KindOf \in [Commands -> {"reset", "new", "cancel", "switch", "web",
                          "stop"}]
    /\ Together \subseteq SUBSET Commands /\ \A asked \in Together : IsFiniteSet(asked)
    /\ MaxUpsets \in Nat
    /\ Sessions \subseteq Nat \ {0} /\ {1, 2} \subseteq Sessions
    /\ MaxSessions \in Nat /\ MaxSessions >= 2

VARIABLES
    todo,       \* texts nobody has written yet
    mq,         \* the debouncer's batch and the collector
    exec,       \* the goroutine of runAndDrain and executeMessage
    sess,       \* the sessions of the chat
    active,     \* ActiveSessionID
    work,       \* what each job was given: its session, and whether the CLI is new to it
    cmd,        \* the goroutine of each command
    upsets,
    filed,      \* history: the session each text was run on
    retired     \* history: the sessions /new left, now and when a text was written

chatVars == <<todo, mq, exec, sess, active, work, cmd, upsets, filed, retired>>
vars == <<laneVars, chatVars>>

NoSession == [life |-> "unborn", conv |-> None, spoken |-> FALSE, marked |-> FALSE,
              due |-> FALSE, big |-> FALSE, flushed |-> FALSE, cancel |-> None]

Stored == <<"stored">>      \* a conversation from before the gateway started

NoWork == [s |-> 1, new |-> FALSE]

Idle == [at |-> "idle", texts |-> << >>, s |-> 1]

Init ==
    /\ LanesInit
    /\ todo = Messages
    /\ mq = [batch |-> << >>, flushing |-> {}, busy |-> FALSE, collected |-> << >>]
    /\ exec = Idle
    /\ \E asked \in Together, due \in BOOLEAN :
          /\ cmd = [c \in Commands |-> IF c \in asked THEN "asked" ELSE "done"]
          /\ upsets = Cardinality(asked) + (IF due THEN 1 ELSE 0)
          /\ upsets <= MaxUpsets
          /\ sess = [s \in Sessions |->
                       IF s \in {1, 2} THEN [NoSession EXCEPT !.life = "kept", !.conv = Stored,
                                                      !.spoken = TRUE, !.due = due /\ s = 1]
                       ELSE NoSession]
    /\ active = 1
    /\ work = [j \in Jobs |-> NoWork]
    /\ filed = [m \in Messages |-> 0]
    /\ retired = [now |-> {}, at |-> [m \in Messages |-> {}]]

----------------------------------------------------------------------------
(* The engine, as the chat uses it.                                         *)

Upset == upsets < MaxUpsets /\ upsets' = upsets + 1

Engine(step) == step /\ UNCHANGED chatVars

(* Enqueue of a new job on session s; with cancelled contexts it still comes   *)
(* this far. *)
EnqueueOn(j, s, ctx) ==
    /\ job[j].call = "none"
    /\ Set(j, Called(j, ctx))
    /\ work' = [work EXCEPT ![j] = [s |-> s, new |-> FALSE]]

(* sendOnce reads whether the CLI knows the session when it starts. *)
TurnSpawns(j) ==
    /\ Spawn(j)
    /\ work' = [work EXCEPT ![j].new = sess[work[j].s].conv = None]
    /\ UNCHANGED <<todo, mq, exec, sess, active, cmd, upsets, filed, retired>>

(* The CLI's first event names the conversation it opened. *)
TurnNamesConversation(j) ==
    /\ Alive
    /\ job[j].cli = "alive" /\ work[j].new
    /\ sess' = [sess EXCEPT ![work[j].s].conv = j]
    /\ work' = [work EXCEPT ![j].new = FALSE]
    /\ UNCHANGED <<laneVars, todo, mq, exec, active, cmd, upsets, filed, retired>>

(* Its last counts the turn and the context it carried. *)
TurnAnswers(j, big) ==
    /\ ~ work[j].new
    /\ CliEnds(j, "ok")
    /\ IF big THEN Upset ELSE UNCHANGED upsets
    /\ sess' = [sess EXCEPT ![work[j].s].spoken = TRUE, ![work[j].s].big = big,
                           ![work[j].s].due = FALSE]
    /\ UNCHANGED <<todo, mq, exec, active, work, cmd, filed, retired>>

TurnFails(j) ==
    /\ Upset
    /\ CliEnds(j, "error") \/ CliEnds(j, "hung")
    /\ UNCHANGED <<todo, mq, exec, sess, active, work, cmd, filed, retired>>

(* A turn that answered and left its plan unfinished is told to go on: another   *)
(* call on the same conversation, in the same job (maxAutoContinue).           *)
TurnContinues(j) ==
    /\ Alive /\ Upset
    /\ j \in TurnJobs
    /\ job[j].at = "running" /\ job[j].cli = "ok"
    /\ Set(j, [job[j] EXCEPT !.cli = "none", !.retried = FALSE])
    /\ UNCHANGED <<chan, stop, todo, mq, exec, sess, active, work, cmd, filed, retired>>

(* runFlush marks its session while it runs; MarkIdle is one flag for all. *)
Marks(j, on) ==
    IF j \in FlushJobs THEN [sess EXCEPT ![work[j].s].marked = on] ELSE sess

JobBegins(j) ==
    /\ Begin(j)
    /\ sess' = Marks(j, TRUE)
    /\ UNCHANGED <<todo, mq, exec, active, work, cmd, upsets, filed, retired>>

JobFinishes(j) ==
    /\ Finish(j)
    /\ sess' = Marks(j, FALSE)
    /\ work' = [work EXCEPT ![j] = NoWork]
    /\ UNCHANGED <<todo, mq, exec, active, cmd, upsets, filed, retired>>

JobPanics(j) ==
    /\ Upset
    /\ Panic(j)
    /\ sess' = Marks(j, FALSE)
    /\ work' = [work EXCEPT ![j] = NoWork]
    /\ UNCHANGED <<todo, mq, exec, active, cmd, filed, retired>>

----------------------------------------------------------------------------
(* The message queue: Debouncer and Collector.                              *)

(* Texts go by the order they come in, which need not be the order they were   *)
(* sent in: every update is handled in a goroutine of its own.                *)
Submit(m) ==
    /\ Alive
    /\ m \in todo /\ \A n \in todo : m <= n
    /\ todo' = todo \ {m}
    /\ mq' = [mq EXCEPT !.batch = Append(@, m)]
    /\ retired' = [retired EXCEPT !.at[m] = retired.now]
    /\ UNCHANGED <<laneVars, exec, sess, active, work, cmd, upsets, filed>>

DebounceEnds ==
    /\ Alive
    /\ mq.batch # << >>
    /\ mq' = [mq EXCEPT !.batch = << >>, !.flushing = @ \cup {mq.batch}]
    /\ UNCHANGED <<laneVars, todo, exec, sess, active, work, cmd, upsets, filed, retired>>

Begins(texts) == [at |-> "begin", texts |-> texts, s |-> exec.s]

TryRun(texts) ==
    /\ Alive
    /\ texts \in mq.flushing
    /\ IF mq.busy
       THEN /\ mq' = [mq EXCEPT !.flushing = @ \ {texts}, !.collected = @ \o texts]
            /\ UNCHANGED exec
       ELSE /\ mq' = [mq EXCEPT !.flushing = @ \ {texts}, !.busy = TRUE]
            /\ exec' = Begins(texts)
    /\ UNCHANGED <<laneVars, todo, sess, active, work, cmd, upsets, filed, retired>>

(* Mutant: what was collected is run and kept. *)
DoneKeepsCollected ==
    /\ Alive
    /\ exec.at = "drain"
    /\ IF mq.collected = << >>
       THEN exec' = [Idle EXCEPT !.s = exec.s] /\ mq' = [mq EXCEPT !.busy = FALSE]
       ELSE exec' = Begins(mq.collected) /\ UNCHANGED mq
    /\ UNCHANGED <<laneVars, todo, sess, active, work, cmd, upsets, filed, retired>>

Done ==
    /\ Alive
    /\ exec.at = "drain"
    /\ IF mq.collected = << >>
       THEN exec' = [Idle EXCEPT !.s = exec.s] /\ mq' = [mq EXCEPT !.busy = FALSE]
       ELSE exec' = Begins(mq.collected) /\ mq' = [mq EXCEPT !.collected = << >>]
    /\ UNCHANGED <<laneVars, todo, sess, active, work, cmd, upsets, filed, retired>>

----------------------------------------------------------------------------
(* executeMessage.                                                         *)

First == Head(exec.texts)

ShouldFlush(s) == sess[s].conv # None /\ sess[s].spoken

Cleared(s) == [sess[s] EXCEPT !.conv = None, !.spoken = FALSE, !.due = FALSE,
                              !.big = FALSE, !.flushed = FALSE]

(* Session.Cancel takes the stored function and calls it. *)
Cancelled(s) ==
    IF sess[s].cancel = None THEN job
    ELSE [job EXCEPT ![sess[s].cancel] = Ended(sess[s].cancel)]

Goto(at) == exec' = [exec EXCEPT !.at = at]

(* ShouldRotate: a conversation of an earlier day, with no turn since, is due. *)
ExecBegins ==
    /\ Alive
    /\ exec.at = "begin"
    /\ exec' = [exec EXCEPT !.at = IF sess[active].due THEN "rotate" ELSE "mark",
                            !.s = active]
    /\ job' = Cancelled(active)
    /\ sess' = [sess EXCEPT ![active].cancel = None]
    /\ filed' = [m \in Messages |-> IF m \in ToSet(exec.texts) THEN active ELSE filed[m]]
    /\ UNCHANGED <<chan, stop, todo, mq, active, work, cmd, upsets, retired>>

(* A flush returns, or there was nothing to flush. *)
FlushIsOver(j) ==
    \/ Returned(j)
    \/ job[j].call = "none" /\ ~ ShouldFlush(active) /\ UNCHANGED laneVars

RotateFlushes ==
    /\ Alive
    /\ exec.at = "rotate"
    /\ ShouldFlush(active)
    /\ EnqueueOn(Rotate(First), active, "live")
    /\ UNCHANGED <<chan, stop, todo, mq, exec, sess, active, cmd, upsets, filed, retired>>

(* Reset clears whatever session is active now. *)
RotateResets ==
    /\ Alive
    /\ exec.at = "rotate"
    /\ FlushIsOver(Rotate(First))
    /\ sess' = [sess EXCEPT ![active] = Cleared(active)]
    /\ Goto("mark")
    /\ UNCHANGED <<todo, mq, active, work, cmd, upsets, filed, retired>>

ExecMarks ==
    /\ Alive
    /\ exec.at = "mark"
    /\ sess' = [sess EXCEPT ![exec.s].marked = TRUE, ![exec.s].cancel = Turn(First)]
    /\ Goto("placeholder")
    /\ UNCHANGED <<laneVars, todo, mq, active, work, cmd, upsets, filed, retired>>

(* A context cancelled before the job is enqueued travels with it. *)
ExecEnqueues ==
    /\ Alive
    /\ exec.at = "placeholder"
    /\ EnqueueOn(Turn(First), exec.s, job[Turn(First)].ctx)
    /\ Goto("turn")
    /\ UNCHANGED <<chan, stop, todo, mq, sess, active, cmd, upsets, filed, retired>>

(* No placeholder, no turn: Telegram did not take the message. *)
PlaceholderFails ==
    /\ Alive /\ Upset
    /\ exec.at = "placeholder"
    /\ sess' = [sess EXCEPT ![exec.s].cancel = None, ![exec.s].marked = FALSE]
    /\ Goto("drain")
    /\ UNCHANGED <<laneVars, todo, mq, active, work, cmd, filed, retired>>

Leaves == sess' = [sess EXCEPT ![exec.s].marked = FALSE] /\ Goto("drain")

TurnReturns ==
    /\ Alive
    /\ exec.at = "turn"
    /\ Returned(Turn(First))
    /\ LET s == exec.s
           failed == \/ job'[Turn(First)].call = "gaveup"
                     \/ job[Turn(First)].status = "failed"
           full == ~ failed /\ sess[s].big /\ ~ sess[s].flushed
       IN IF full
          THEN sess' = [sess EXCEPT ![s].flushed = TRUE] /\ Goto("full")
          ELSE Leaves
    /\ UNCHANGED <<todo, mq, active, work, cmd, upsets, filed, retired>>

FullFlushes ==
    /\ Alive
    /\ exec.at = "full"
    /\ ShouldFlush(active)
    /\ EnqueueOn(Full(First), active, "live")
    /\ UNCHANGED <<chan, stop, todo, mq, exec, sess, active, cmd, upsets, filed, retired>>

FullReturns ==
    /\ Alive
    /\ exec.at = "full"
    /\ FlushIsOver(Full(First))
    /\ Leaves
    /\ UNCHANGED <<todo, mq, active, work, cmd, upsets, filed, retired>>

ExecStep ==
    \/ Done \/ ExecBegins \/ RotateFlushes \/ RotateResets \/ ExecMarks
    \/ ExecEnqueues \/ TurnReturns \/ FullFlushes \/ FullReturns

----------------------------------------------------------------------------
(* The commands of the chat, and the dashboard's turns.                     *)

(* /reset and /model: flush, then clear the session that is active then. *)
ResetFlushes(c) ==
    /\ Alive
    /\ KindOf[c] = "reset" /\ cmd[c] = "asked"
    /\ IF ShouldFlush(active)
       THEN EnqueueOn(Flush(c), active, "live") /\ cmd' = [cmd EXCEPT ![c] = "waiting"]
       ELSE cmd' = [cmd EXCEPT ![c] = "clearing"] /\ UNCHANGED <<job, work>>
    /\ UNCHANGED <<chan, stop, todo, mq, exec, sess, active, upsets, filed, retired>>

ResetClears(c) ==
    /\ Alive
    /\ KindOf[c] = "reset"
    /\ \/ cmd[c] = "clearing" /\ UNCHANGED laneVars
       \/ cmd[c] = "waiting" /\ Returned(Flush(c))
    /\ sess' = [sess EXCEPT ![active] = Cleared(active)]
    /\ cmd' = [cmd EXCEPT ![c] = "done"]
    /\ UNCHANGED <<todo, mq, exec, active, work, upsets, filed, retired>>

There == {s \in Sessions : sess[s].life = "kept"}

(* pruneOldestLocked: neither the active session nor one that is marked. *)
Evictable == {s \in There \ {active} : ~ sess[s].marked}

(* Ids count up: one is never used again. *)
NextSeq(s) == \A t \in Sessions : sess[t].life = "unborn" <=> t >= s

(* At the cap a session is evicted for the new one, and with none to evict    *)
(* the command fails.  Which of them is the oldest is left open.              *)
NewSession(c) ==
    /\ Alive
    /\ KindOf[c] = "new" /\ cmd[c] = "asked"
    /\ \E s \in Sessions, gone \in SUBSET Evictable :
          /\ NextSeq(s)
          /\ Cardinality(gone) = (IF Cardinality(There) < MaxSessions THEN 0 ELSE 1)
          /\ sess' = [t \in Sessions |->
                        IF t = s THEN [NoSession EXCEPT !.life = "kept"]
                        ELSE IF t \in gone THEN [sess[t] EXCEPT !.life = "evicted"]
                        ELSE sess[t]]
          /\ active' = s
    /\ IF ShouldFlush(active)
       THEN EnqueueOn(Flush(c), active, "live") /\ cmd' = [cmd EXCEPT ![c] = "waiting"]
       ELSE cmd' = [cmd EXCEPT ![c] = "done"] /\ UNCHANGED <<job, work>>
    /\ retired' = [retired EXCEPT !.now = @ \cup {active}]
    /\ UNCHANGED <<chan, stop, todo, mq, exec, upsets, filed>>

NewRefused(c) ==
    /\ Alive
    /\ KindOf[c] = "new" /\ cmd[c] = "asked"
    /\ Cardinality(There) >= MaxSessions /\ Evictable = {}
    /\ cmd' = [cmd EXCEPT ![c] = "done"]
    /\ UNCHANGED <<laneVars, todo, mq, exec, sess, active, work, upsets, filed, retired>>

NewReturns(c) ==
    /\ Alive
    /\ KindOf[c] = "new" /\ cmd[c] = "waiting"
    /\ Returned(Flush(c))
    /\ cmd' = [cmd EXCEPT ![c] = "done"]
    /\ UNCHANGED <<todo, mq, exec, sess, active, work, upsets, filed, retired>>

(* /cancel, the word cancel, the dashboard's button. *)
Cancel(c) ==
    /\ Alive
    /\ KindOf[c] = "cancel" /\ cmd[c] = "asked"
    /\ job' = Cancelled(active)
    /\ sess' = [sess EXCEPT ![active].cancel = None]
    /\ cmd' = [cmd EXCEPT ![c] = "done"]
    /\ UNCHANGED <<chan, stop, todo, mq, exec, active, work, upsets, filed, retired>>

SwitchActive(c, s) ==
    /\ Alive
    /\ KindOf[c] = "switch" /\ cmd[c] = "asked"
    /\ s \in There
    /\ active' = s
    /\ cmd' = [cmd EXCEPT ![c] = "done"]
    /\ retired' = [now |-> retired.now \ {s},
                    at |-> [m \in Messages |-> retired.at[m] \ {s}]]
    /\ UNCHANGED <<laneVars, todo, mq, exec, sess, work, upsets, filed>>

(* RunTurn of a dashboard message, on the active session or a named one. *)
WebSends(c, s) ==
    /\ Alive
    /\ KindOf[c] = "web" /\ cmd[c] = "asked"
    /\ s \in There
    /\ EnqueueOn(Turn(c), s, "live")
    /\ cmd' = [cmd EXCEPT ![c] = "waiting"]
    /\ UNCHANGED <<chan, stop, todo, mq, exec, sess, active, upsets, filed, retired>>

WebReturns(c) ==
    /\ Alive
    /\ KindOf[c] = "web" /\ cmd[c] = "waiting"
    /\ Returned(Turn(c))
    /\ cmd' = [cmd EXCEPT ![c] = "done"]
    /\ UNCHANGED <<todo, mq, exec, sess, active, work, upsets, filed, retired>>

CommandStarts(c) ==
    \/ ResetFlushes(c) \/ NewSession(c) \/ NewRefused(c) \/ Cancel(c)
    \/ \E s \in Sessions : SwitchActive(c, s) \/ WebSends(c, s)

CommandReturns(c) == ResetClears(c) \/ NewReturns(c) \/ WebReturns(c)

(* queue.Close drops what was still debounced. *)
Stop ==
    /\ \E c \in Commands : KindOf[c] = "stop" /\ cmd[c] = "asked"
    /\ StopStep
    /\ mq' = IF stop = "swept" THEN [mq EXCEPT !.batch = << >>] ELSE mq
    /\ UNCHANGED <<todo, exec, sess, active, work, cmd, upsets, filed, retired>>

----------------------------------------------------------------------------

LaneGoroutine(l) ==
    \/ Engine(Take(l))
    \/ \E j \in Jobs : LaneFor(j) = l /\ (Engine(TurnAway(j)) \/ JobBegins(j))

(* What happens without anybody asking: goroutines go on, timers fire, a       *)
(* process that does not hang ends, a context times out when one does.         *)
Progress ==
    \/ DebounceEnds
    \/ \E texts \in mq.flushing : TryRun(texts)
    \/ ExecStep
    \/ \E l \in LaneIds : LaneGoroutine(l)
    \/ \E c \in Commands : CommandReturns(c)
    \/ \E j \in Jobs :
          \/ Engine(Offer(j)) \/ Engine(TimesOut(j))
          \/ TurnSpawns(j) \/ TurnNamesConversation(j) \/ JobFinishes(j)
          \/ \E big \in BOOLEAN : TurnAnswers(j, big)

Next ==
    \/ Progress
    \/ \E m \in Messages : Submit(m)
    \/ PlaceholderFails
    \/ \E c \in Commands : CommandStarts(c)
    \/ \E j \in Jobs : Engine(OfferPanics(j)) \/ TurnFails(j) \/ JobPanics(j)
                          \/ TurnContinues(j)
    \/ Stop

Fairness == WF_vars(Progress)

Spec == Init /\ [][Next]_vars /\ Fairness

----------------------------------------------------------------------------
(* Properties.                                                             *)

(* Every variable has its type: the engine's, the queue's and the sessions'.   *)
TypeOK ==
    /\ LanesTypeOK
    /\ todo \subseteq Messages
    /\ mq \in [batch : Seq(Messages), flushing : SUBSET Seq(Messages),
               busy : BOOLEAN, collected : Seq(Messages)]
    /\ exec \in [at : {"idle", "begin", "rotate", "mark", "placeholder", "turn", "full",
                       "drain"}, texts : Seq(Messages), s : Sessions]
    /\ sess \in [Sessions -> [life : {"unborn", "kept", "evicted"},
                              conv : {None, Stored} \cup Jobs, spoken : BOOLEAN,
                              marked : BOOLEAN, due : BOOLEAN, big : BOOLEAN, flushed : BOOLEAN,
                              cancel : {None} \cup Jobs]]
    /\ active \in {s \in Sessions : sess[s].life = "kept"}
    /\ work \in [Jobs -> [s : Sessions, new : BOOLEAN]]
    /\ cmd \in [Commands -> {"asked", "clearing", "waiting", "done"}]
    /\ filed \in [Messages -> Sessions \cup {0}]
    /\ upsets \in 0 .. MaxUpsets
    /\ retired \in [now : SUBSET Sessions, at : [Messages -> SUBSET Sessions]]

Holds(texts, m) == Cardinality({i \in DOMAIN texts : texts[i] = m})

(* How often m is on its way: in the batch, between the debouncer and the      *)
(* collector, collected behind a busy run, or about to be run.                *)
OnItsWay(m) ==
    Holds(mq.batch, m) + Holds(mq.collected, m)
    + Cardinality({t \in mq.flushing : Holds(t, m) > 0})
    + (IF exec.at = "begin" THEN Holds(exec.texts, m) ELSE 0)

(* No text is lost and none is run twice between the debouncer, the collector  *)
(* and the run that drains it: it is unwritten, on its way once, or was run.    *)
(* Only queue.Close drops what was still debounced.                          *)
TextsAreKept ==
    \A m \in Messages :
        LET places == OnItsWay(m) + (IF m \in todo THEN 1 ELSE 0)
                      + (IF filed[m] # 0 THEN 1 ELSE 0)
        IN places = 1 \/ (places = 0 /\ stop \in {"muted", "closed", "gone"})

(* Nothing waits behind a run that has ended: the collector is busy exactly    *)
(* while a run goes on, so whatever it collected has a run that will drain it.  *)
CollectedIsDrained ==
    /\ mq.busy <=> exec.at # "idle"
    /\ mq.collected # << >> => mq.busy

(* A text written after /new is run on a session /new did not leave, however    *)
(* long the flush of the old one takes (handleNewSession: switch first, flush   *)
(* second), unless somebody switches back.                                    *)
NewTalkIsFiledNew == \A m \in Messages : filed[m] \notin retired.at[m]

(* A chat never has two CLI processes at once, whether its turns come from      *)
(* Telegram, the dashboard or a flush, and also when their callers have left.    *)
OneProcessPerChat ==
    stop \notin {"closed", "gone"} =>
        \A j, k \in Jobs : ({job[j].cli, job[k].cli} \subseteq Up
                           /\ LaneOf[j] = LaneOf[k]) => j = k

(* A job whose caller has given up never starts a process: it stays in the     *)
(* lane after Enqueue returned, and is turned away when its time comes.         *)
AbandonedNeverRuns ==
    [][\A j \in Jobs : job[j].call = "gaveup" /\ job[j].cli \notin Up
                          => job'[j].cli \notin Up]_vars

(* The lane clears again and again: a job that hangs, or one nobody waits for    *)
(* any more, never blocks its chat for good.                                 *)
LaneClears ==
    []<>(stop # "up" \/ \A j \in Jobs : job[j].at \in {"none", "over"})

(* Whatever was written is run in the end, though a CLI hangs and commands come *)
(* in between.                                                              *)
TextsAreRun ==
    \A m \in Messages : m \notin todo ~> (filed[m] # 0 \/ stop # "up")

(* What is true of a chat at every moment, its types included. *)
ChatSafe ==
    TypeOK /\ TextsAreKept /\ CollectedIsDrained /\ NewTalkIsFiledNew /\ OneProcessPerChat

(* A chat never stops: its lane clears, and what was written is run. *)
ChatSettles == LaneClears /\ TextsAreRun

=============================================================================
