------------------------------- MODULE Streamer -------------------------------
(***************************************************************************)
(* A reply shown while it is written (bot/streamer.go): the turn's goroutine   *)
(* writes, a ticker's goroutine edits the Telegram message, an in-flight mark   *)
(* keeps their calls apart, and Finalize takes over at the end.  Text is a       *)
(* sequence of units; markup is left out, and so are tags split over chunks.    *)
(***************************************************************************)
EXTENDS Naturals, Sequences

CONSTANTS
    Limit,          \* units a message holds
    Hold,           \* units before the first send
    MaxUnits,       \* bound: units of answer the model writes
    MaxFails        \* bound: calls that Telegram refuses, the plain retry too

(* One word of thinking is not enough for a first send.                        *)
StreamerConstants ==
    Limit \in Nat \ {0} /\ Hold \in Nat \ {0, 1} /\ {MaxUnits, MaxFails} \subseteq Nat

VARIABLES
    buf, dirty,     \* answer lane, and is there anything new
    reason,         \* reasoning lane: "none", "new" or "sent"
    tools,          \* has a tool been noted
    msg, rmsg,      \* message of each lane; 0 is none
    last,           \* last content sent, and the length of its text
    sent,           \* initialSent
    inflight, pending,
    flush,          \* each goroutine's flush: where it is and what it took
    turn,           \* the turn's goroutine: writing, stop, final, close, ended
    loop,           \* the ticker: running, a tick left over, done, over
    screen,         \* what the chat shows, by message
    written,        \* units written so far
    fails,          \* calls refused
    missed, split   \* history: the last call of the answer was refused; the answer was split
                    \* over messages, or its message taken by the thinking

vars == <<buf, dirty, reason, tools, msg, rmsg, last, sent, inflight, pending, flush, turn, loop,
          screen, written, fails, missed, split>>

Lanes == <<buf, dirty, reason, tools, written>>
Ends == <<turn, loop>>

Nothing == [kind |-> "hold", text |-> <<>>, tool |-> FALSE]
Content(text, tool) == [kind |-> "text", text |-> text, tool |-> tool]
Idle == [at |-> "off", text |-> <<>>, reason |-> FALSE, tool |-> FALSE]
Flushers == {"turn", "loop"}

(* The placeholder may not have been sent. *)
Init ==
    /\ buf = <<>> /\ dirty = FALSE /\ reason = "none" /\ tools = FALSE
    /\ \E m \in {0, 1} : msg = m /\ screen = IF m = 0 THEN <<>> ELSE <<Nothing>>
    /\ rmsg = 0
    /\ last = [is |-> Nothing, len |-> 0]
    /\ sent = FALSE /\ inflight = FALSE /\ pending = FALSE
    /\ flush = [p \in Flushers |-> Idle]
    /\ turn = "writing" /\ loop = "running"
    /\ written = 0 /\ fails = 0 /\ missed = FALSE /\ split = FALSE

At(p, where) == flush[p].at = where
Steps(p, where) == flush' = [flush EXCEPT ![p].at = where]
Take(p, where) == flush' = [flush EXCEPT ![p] =
                     [at |-> where, text |-> buf, reason |-> reason # "none", tool |-> tools]]

Min2(a, b) == IF a < b THEN a ELSE b

(* A send of a new message, or an edit: refused, or shown. *)
Shows(m, content) ==
    IF m = 0 THEN Append(screen, content) ELSE [screen EXCEPT ![m] = content]

MessageAfter(m) == IF m = 0 THEN Len(screen) + 1 ELSE m

(* A call to Telegram is under way. *)
Busy == inflight

Early == ~sent /\ Len(buf) + (IF reason = "none" THEN 0 ELSE 1) < Hold /\ ~tools

(* The decisions of a flush under the lock: nothing new; another call under way, *)
(* so that this one is left to it; too little for a first message, where at most *)
(* a heartbeat is shown; or the lanes as they are now.                          *)
FlushStarts(p) ==
    /\ At(p, "start")
    /\ \E late \in BOOLEAN :
       LET beat == ~sent /\ late IN
       IF ~dirty /\ reason # "new" /\ ~beat THEN Steps(p, "off") /\ UNCHANGED <<dirty, reason, inflight, pending>>
       ELSE IF Busy THEN Steps(p, "off") /\ pending' = TRUE /\ UNCHANGED <<dirty, reason, inflight>>
       ELSE IF Early /\ ~late THEN Steps(p, "off") /\ UNCHANGED <<dirty, reason, inflight, pending>>
       ELSE /\ inflight' = TRUE
            /\ IF Early THEN Take(p, "beat") /\ UNCHANGED <<dirty, reason>>
               ELSE /\ Take(p, "reason")
                    /\ dirty' = FALSE
                    /\ reason' = IF reason = "none" THEN "none" ELSE "sent"
            /\ UNCHANGED pending
    /\ UNCHANGED <<buf, tools, written, msg, rmsg, last, sent, Ends, screen, fails, missed, split>>

Heartbeat(p) ==
    /\ At(p, "beat")
    /\ msg' = MessageAfter(msg)
    /\ screen' = Shows(msg, Nothing)
    /\ last' = [last EXCEPT !.is = Nothing]
    /\ Steps(p, "beaten")
    /\ UNCHANGED <<Lanes, rmsg, sent, inflight, pending, Ends, fails, missed, split>>

(* flushReasonLane: the first time it takes the placeholder over. *)
ReasonLane(p, next) ==
    LET m == IF rmsg = 0 THEN msg ELSE rmsg
        thinking == [kind |-> "think", text |-> <<>>, tool |-> FALSE]
    IN
    IF ~flush[p].reason THEN Steps(p, next) /\ UNCHANGED <<msg, rmsg, screen, split>>
    ELSE /\ rmsg' = MessageAfter(m)
         /\ split' = (split \/ (rmsg = 0 /\ msg # 0 /\ screen[msg].kind = "text"))
         /\ msg' = IF rmsg = 0 THEN 0 ELSE msg
         /\ screen' = Shows(m, thinking)
         /\ Steps(p, next)

Reason(p) ==
    /\ At(p, "reason")
    /\ ReasonLane(p, "answer")
    /\ UNCHANGED <<Lanes, last, sent, inflight, pending, Ends, fails, missed>>

(* sendFormatted until the lock is released: a text that would overflow loses its *)
(* tool line, and nothing is sent twice or shorter than before.                *)
Rendered(p) == Content(flush[p].text, flush[p].tool /\ (Len(flush[p].text) < Limit \/ flush[p].text = <<>>))

Skipped(c) == c = last.is \/ (Len(c.text) < last.len /\ last.len > 0)

Format(p, next, done) ==
    LET c == Rendered(p) IN
    IF (c.text = <<>> /\ ~c.tool) \/ Skipped(c)
    THEN Steps(p, done) /\ UNCHANGED last
    ELSE Steps(p, next) /\ last' = [is |-> c, len |-> Len(c.text)]

Answer(p) ==
    /\ At(p, "answer")
    /\ Format(p, "send", "end")
    /\ UNCHANGED <<Lanes, msg, rmsg, sent, inflight, pending, Ends, screen, fails, missed, split>>

Chunks(text) == [i \in 1 .. ((Len(text) + Limit - 1) \div Limit) |->
                    SubSeq(text, (i - 1) * Limit + 1, Min2(i * Limit, Len(text)))]

(* The call: one edit, or the first chunk and a message for each other one; the  *)
(* buffer then starts over from the last chunk.  A refused edit is not tried    *)
(* again.                                                                      *)
Sends(p, next) ==
    LET c == Rendered(p)
        parts == Chunks(c.text)
        first == Shows(msg, IF Len(parts) < 2 THEN c ELSE Content(parts[1], FALSE))
        rest == [i \in 1 .. (Len(parts) - 1) |-> Content(parts[i + 1], FALSE)]
    IN
    /\ Steps(p, next)
    /\ IF Len(parts) < 2
       THEN /\ \/ screen' = first /\ msg' = MessageAfter(msg) /\ missed' = FALSE /\ fails' = fails
               \/ fails < MaxFails /\ fails' = fails + 1 /\ missed' = TRUE /\ UNCHANGED <<screen, msg>>
            /\ UNCHANGED <<buf, split>>
       ELSE /\ screen' = first \o rest
            /\ msg' = Len(screen')
            /\ buf' = parts[Len(parts)]
            /\ split' = TRUE /\ missed' = FALSE
            /\ UNCHANGED fails
    /\ UNCHANGED <<dirty, reason, tools, written, rmsg, last, sent, pending>>

Send(p) ==
    /\ At(p, "send")
    /\ Sends(p, "end")
    /\ UNCHANGED <<inflight, Ends>>

Drains(p) == pending' = FALSE /\ Steps(p, IF pending THEN "start" ELSE "off")

Clears(p) == inflight' = FALSE

FlushEnds(p) ==
    /\ flush[p].at \in {"end", "beaten"}
    /\ Clears(p)
    /\ sent' = (sent \/ At(p, "end"))
    /\ Drains(p)
    /\ UNCHANGED <<Lanes, msg, rmsg, last, Ends, screen, fails, missed, split>>

-----------------------------------------------------------------------------
TurnRuns == turn = "writing" /\ At("turn", "off")

(* Write: a long buffer is flushed by the writer itself. *)
Write ==
    /\ TurnRuns /\ written < MaxUnits
    /\ written' = written + 1
    /\ buf' = Append(buf, written + 1)
    /\ dirty' = TRUE
    /\ flush' = [flush EXCEPT !["turn"].at = IF Len(buf) + 1 >= Limit THEN "start" ELSE "off"]
    /\ UNCHANGED <<reason, tools, msg, rmsg, last, sent, inflight, pending, Ends, screen, fails, missed, split>>

NoteTool ==
    /\ TurnRuns /\ ~tools
    /\ tools' = TRUE /\ dirty' = TRUE
    /\ UNCHANGED <<buf, reason, written, msg, rmsg, last, sent, inflight, pending, flush, Ends, screen, fails, missed, split>>

NoteThinking ==
    /\ TurnRuns /\ reason = "none"
    /\ reason' = "new"
    /\ UNCHANGED <<buf, dirty, tools, written, msg, rmsg, last, sent, inflight, pending, flush, Ends, screen, fails, missed, split>>

(* Before a screenshot: Flush. *)
Flush ==
    /\ TurnRuns
    /\ Steps("turn", "start")
    /\ UNCHANGED <<Lanes, msg, rmsg, last, sent, inflight, pending, Ends, screen, fails, missed, split>>

(* The ticker; a tick may be in the channel when it is stopped. *)
Tick ==
    /\ At("loop", "off")
    /\ \/ loop = "running" /\ loop' = loop
       \/ loop = "left" /\ loop' = "stopped"
    /\ Steps("loop", "start")
    /\ UNCHANGED <<Lanes, msg, rmsg, last, sent, inflight, pending, turn, screen, fails, missed, split>>

(* Finalize: stop the ticker, wait for the call under way, show the lanes as     *)
(* they are, without the tool line.                                           *)
Stop ==
    /\ TurnRuns
    /\ turn' = "stop"
    /\ loop' \in {"left", "stopped"}
    /\ UNCHANGED <<Lanes, msg, rmsg, last, sent, inflight, pending, flush, screen, fails, missed, split>>

MayEnd == ~inflight

Final ==
    /\ turn = "stop" /\ MayEnd
    /\ turn' = "final"
    /\ flush' = [flush EXCEPT !["turn"] = [at |-> "freason", text |-> buf, reason |-> reason # "none", tool |-> FALSE]]
    /\ UNCHANGED <<Lanes, msg, rmsg, last, sent, inflight, pending, loop, screen, fails, missed, split>>

FinalReason ==
    /\ At("turn", "freason")
    /\ ReasonLane("turn", "fanswer")
    /\ UNCHANGED <<Lanes, last, sent, inflight, pending, Ends, fails, missed>>

(* Nothing said and tools run: a notice that the task was interrupted. *)
FinalAnswer ==
    /\ At("turn", "fanswer")
    /\ IF buf = <<>> /\ tools
       THEN /\ screen' = Shows(msg, [kind |-> "notice", text |-> <<>>, tool |-> FALSE])
            /\ msg' = MessageAfter(msg)
            /\ Steps("turn", "fend") /\ UNCHANGED last
       ELSE Format("turn", "fsend", "fend") /\ UNCHANGED <<screen, msg>>
    /\ UNCHANGED <<Lanes, rmsg, sent, inflight, pending, Ends, fails, missed, split>>

FinalSend ==
    /\ At("turn", "fsend")
    /\ Sends("turn", "fend")
    /\ UNCHANGED <<inflight, Ends>>

Close ==
    /\ At("turn", "fend")
    /\ turn' = "close"
    /\ Steps("turn", "off")
    /\ UNCHANGED <<Lanes, msg, rmsg, last, sent, inflight, pending, loop, screen, fails, missed, split>>

(* The loop sees done: one flush more, and it is over. *)
LoopEnds ==
    /\ turn = "close" /\ At("loop", "off")
    /\ \/ loop \in {"left", "stopped"} /\ loop' = "last" /\ Steps("loop", "start")
       \/ loop = "last" /\ loop' = "over" /\ flush' = flush
    /\ UNCHANGED <<Lanes, msg, rmsg, last, sent, inflight, pending, turn, screen, fails, missed, split>>

Ended ==
    /\ turn = "close" /\ loop = "over"
    /\ turn' = "ended"
    /\ UNCHANGED <<Lanes, msg, rmsg, last, sent, inflight, pending, flush, loop, screen, fails, missed, split>>

Next ==
    \/ Write \/ NoteTool \/ NoteThinking \/ Flush \/ Tick
    \/ Stop \/ Final \/ FinalReason \/ FinalAnswer \/ FinalSend \/ Close \/ LoopEnds \/ Ended
    \/ \E p \in Flushers : FlushStarts(p) \/ Heartbeat(p) \/ Reason(p) \/ Answer(p) \/ Send(p) \/ FlushEnds(p)

Spec == Init /\ [][Next]_vars

-----------------------------------------------------------------------------
(* Type correctness of the streamer and of what the chat shows. *)
TypeOK ==
    /\ written \in 0 .. MaxUnits /\ fails \in 0 .. MaxFails
    /\ \A i \in DOMAIN buf : buf[i] \in 1 .. written
    /\ msg \in 0 .. Len(screen) /\ rmsg \in 0 .. Len(screen) /\ (msg = rmsg => msg = 0)
    /\ reason \in {"none", "new", "sent"}
    /\ dirty \in BOOLEAN /\ sent \in BOOLEAN /\ inflight \in BOOLEAN /\ pending \in BOOLEAN
    /\ \A m \in DOMAIN screen : Len(screen[m].text) <= Limit

Calling == {p \in Flushers : flush[p].at \in {"beat", "reason", "answer", "send"}}

(* The in-flight mark: until Finalize takes over, the ticker and a flush forced   *)
(* by the writer never have calls to Telegram under way at once.               *)
OneCallAtATime == Calling # {} => inflight /\ \A p, q \in Calling : p = q

Whole == msg # 0 /\ screen[msg].text = [i \in 1 .. written |-> i]

(* When the turn is over the answer's message shows the whole of a reply that    *)
(* fits in one, keeps it, and is long enough to be sent before the end, unless Telegram      *)
(* refused the last call: whatever the ticker had taken, was sending or was asked   *)
(* for when Finalize began.                                                    *)
FinalIsWhole == (turn = "ended" /\ ~split /\ ~missed /\ ~Early) => Whole

(* No edit takes away text that was shown: the guard against regression.        *)
NothingShrinks ==
    \A m \in DOMAIN screen : screen'[m].kind = "text" => Len(screen'[m].text) >= Len(screen[m].text)

=============================================================================
