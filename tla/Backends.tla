------------------------------ MODULE Backends ------------------------------
(* An agent's turns on its command-line backend: claude, codex or opencode, one *)
(* per process, over sessions that outlive the process and a change of backend   *)
(* (internal/claude, internal/codex, internal/opencode, session/session.go, and  *)
(* the three callers: the chat, a room's thread, a task's run).                  *)
(*                                                                           *)
(* A session is the id of a conversation kept by one of the CLIs and the name of *)
(* the CLI it belongs to. The CLI itself is outside: it opens or resumes a       *)
(* conversation, says something, and ends well, badly, or killed.               *)
EXTENDS Naturals, Sequences

CONSTANTS MaxTokenFailovers,  \* attempts after the first, in claude's loop (3)
          MaxAutoContinue,    \* "continue" prompts after a chat's answer (3)
          MaxTurns,           \* bound: turns
          MaxFaults,          \* bound: failed attempts, stops and forgotten conversations
          MaxSwitches,        \* bound: restarts on another backend
          MaxResets           \* bound: resets of the chat's session

BackendsConstants ==
  {MaxTokenFailovers, MaxAutoContinue, MaxTurns, MaxFaults, MaxSwitches, MaxResets} \subseteq Nat

Clis == {"claude", "codex", "opencode"}
Places == {"chat", "thread", "task"}
Prompts == {"question", "carry on", "flush"}
Ends == {"none", "error", "notfound", "stopped"}
NoConv == 0

VARIABLES
  llm,      \* the process's backend
  sess,     \* place -> the Session its turns run on
  kept,     \* the thread's row of channel_sessions, the task's session_ref
  convs,    \* the CLIs' conversations: whose it is, the turns whose question it heard
  lost,     \* conversations their CLI no longer has
  call,     \* the turn, and its SendMessage under way
  turns, faults, switches, resets,
  gone,     \* history: conversations a reset took out of the chat's session
  torn      \* history: a reset fell between SetSessionID and SetProvider

vars == <<llm, sess, kept, convs, lost, call, turns, faults, switches, resets, gone, torn>>

Ref(id, provider) == [id |-> id, provider |-> provider]
Blank == Ref(NoConv, "")

(* A session without a provider was claude's.                                *)
GetProvider(s) == IF s.provider = "" THEN "claude" ELSE s.provider

NoCall ==
  [at |-> "idle", place |-> "chat", prompt |-> "question", memory |-> FALSE, autos |-> 0,
   isNew |-> FALSE, resumed |-> NoConv, conv |-> NoConv, naming |-> FALSE,
   emitted |-> FALSE, attempt |-> 0, retriedCrash |-> FALSE, stopped |-> FALSE,
   err |-> "none",
   said |-> FALSE,      \* history: this turn has shown something
   cleared |-> FALSE,   \* history: a reset fell into this turn
   stray |-> FALSE]     \* history: the session held another CLI's conversation

Init ==
  /\ llm \in Clis
  /\ sess = [p \in Places |-> Blank]
  /\ kept = [p \in Places \ {"chat"} |-> Blank]
  /\ convs = <<>> /\ lost = {} /\ call = NoCall
  /\ turns = 0 /\ faults = 0 /\ switches = 0 /\ resets = 0
  /\ gone = {} /\ torn = FALSE

-----------------------------------------------------------------------------
(* A turn starts. *)

(* The session a turn runs on: the chat's own; the thread's, over which the     *)
(* thread's memory is laid when it names this backend; a task's run starts from *)
(* nothing and takes the task's ref when it names this backend.                *)
Opening(p) ==
  IF p # "chat" /\ kept[p].provider = llm /\ (p = "task" \/ kept[p].id # NoConv)
  THEN kept[p]
  ELSE IF p = "task" THEN Blank ELSE sess[p]

(* The memory block, NewSessionContext, is decided here, before the turn has its  *)
(* lane: for a session the CLI has not seen. A flush has none.                    *)
Remembers(s, prompt) == prompt # "flush" /\ s.id = NoConv

StartTurn(p, prompt) ==
  /\ call.at = "idle" /\ turns < MaxTurns
  /\ prompt = "flush" => p = "chat" /\ sess.chat.id # NoConv
  /\ turns' = turns + 1
  /\ sess' = [sess EXCEPT ![p] = Opening(p)]
  /\ call' = [NoCall EXCEPT
       !.at = "spawn", !.place = p, !.prompt = prompt,
       !.memory = Remembers(Opening(p), prompt),
       !.stray = Opening(p).id # NoConv /\ GetProvider(Opening(p)) # llm]
  /\ UNCHANGED <<llm, kept, convs, lost, faults, switches, resets, gone, torn>>

Here == sess[call.place]

(* codex and opencode start afresh when the session is another CLI's; claude     *)
(* looks at the id alone.                                                      *)
StartsAfresh == Here.id = NoConv \/ (llm # "claude" /\ GetProvider(Here) # llm)

ToResume == IF StartsAfresh THEN NoConv ELSE Here.id

Spawn ==
  /\ call.at = "spawn" /\ ~call.stopped
  /\ call' = [call EXCEPT !.at = "running", !.isNew = StartsAfresh,
                          !.resumed = ToResume, !.conv = NoConv]
  /\ UNCHANGED <<llm, sess, kept, convs, lost, turns, faults, switches, resets, gone, torn>>

-----------------------------------------------------------------------------
(* The CLI's events. *)

(* Between SetSessionID and SetProvider the reader does nothing else.           *)
Reading == call.at = "running" /\ ~call.naming

(* A new conversation's id goes into the session: codex's from thread.started,  *)
(* claude's from its system event, opencode's from any event, while the session *)
(* has none. claude leaves the provider as it was.                            *)
Recorded(c) ==
  IF llm = "opencode" => Here.id = NoConv
  THEN /\ sess' = [sess EXCEPT ![call.place].id = c]
       /\ call' = [call EXCEPT !.conv = c, !.naming = llm # "claude"]
  ELSE sess' = sess /\ call' = [call EXCEPT !.conv = c]

Resumable == call.resumed # NoConv /\ convs[call.resumed].cli = llm /\ call.resumed \notin lost

Hearing(asked) == IF call.prompt = "carry on" THEN asked ELSE asked \union {turns}

CliOpens ==
  /\ Reading /\ call.conv = NoConv
  /\ \/ /\ call.isNew
        /\ convs' = Append(convs, [cli |-> llm, asked |-> Hearing({})])
        /\ Recorded(Len(convs) + 1)
     \/ /\ Resumable
        /\ convs' = [convs EXCEPT ![call.resumed].asked = Hearing(@)]
        /\ sess' = sess
        /\ call' = [call EXCEPT !.conv = call.resumed]
  /\ UNCHANGED <<llm, kept, lost, turns, faults, switches, resets, gone, torn>>

SetProvider ==
  /\ call.naming
  /\ sess' = [sess EXCEPT ![call.place].provider = llm]
  /\ call' = [call EXCEPT !.naming = FALSE]
  /\ UNCHANGED <<llm, kept, convs, lost, turns, faults, switches, resets, gone, torn>>

(* Text, a tool call or thinking reaches the callbacks. opencode records from     *)
(* this event too.                                                            *)
Shown(naming) ==
  call' = [call EXCEPT !.emitted = TRUE, !.said = TRUE, !.naming = naming]

CliSays ==
  /\ Reading /\ call.conv # NoConv
  /\ IF llm = "opencode" /\ call.isNew /\ Here.id = NoConv
     THEN sess' = [sess EXCEPT ![call.place].id = call.conv] /\ Shown(TRUE)
     ELSE sess' = sess /\ Shown(FALSE)
  /\ UNCHANGED <<llm, kept, convs, lost, turns, faults, switches, resets, gone, torn>>

-----------------------------------------------------------------------------
(* SendMessage returns, or claude's loop tries again. *)

Returns(err) == call' = [call EXCEPT !.at = "returned", !.err = err]

CliEnds ==
  /\ Reading /\ call.conv # NoConv
  /\ Returns("none")
  /\ UNCHANGED <<llm, sess, kept, convs, lost, turns, faults, switches, resets, gone, torn>>

(* The CLI does not know the conversation it was asked to resume.              *)
CliRefuses ==
  /\ Reading /\ call.conv = NoConv /\ ~call.isNew /\ ~Resumable
  /\ Returns(IF llm = "codex" THEN "error" ELSE "notfound")
  /\ UNCHANGED <<llm, sess, kept, convs, lost, turns, faults, switches, resets, gone, torn>>

(* The attempt again: what was asked, or, once something was shown, a request to *)
(* carry on.                                                                  *)
Again(kind) ==
  call' = [call EXCEPT
    !.at = "spawn", !.attempt = @ + 1, !.emitted = FALSE,
    !.retriedCrash = @ \/ kind = "killed",
    !.prompt = IF call.emitted THEN "carry on" ELSE @]

(* claude's loop: a capped or refused token gives the turn to the next one, if   *)
(* there is one; a CLI killed from outside is run once more.                    *)
MayRetry(kind) ==
  /\ llm = "claude" /\ ~call.stopped /\ call.attempt < MaxTokenFailovers
  /\ kind = "capped" \/ (kind = "killed" /\ ~call.retriedCrash)

CliFails(kind) ==
  /\ Reading /\ faults < MaxFaults
  /\ faults' = faults + 1
  /\ \/ MayRetry(kind) /\ Again(kind)
     \/ ~(MayRetry(kind) /\ kind = "killed") /\ Returns("error")
  /\ UNCHANGED <<llm, sess, kept, convs, lost, turns, switches, resets, gone, torn>>

(* A person's /cancel, a deadline or a lost lease cancels the context ...        *)
Stop ==
  /\ call.at \in {"spawn", "running"} /\ ~call.stopped /\ faults < MaxFaults
  /\ faults' = faults + 1
  /\ call' = [call EXCEPT !.stopped = TRUE]
  /\ UNCHANGED <<llm, sess, kept, convs, lost, turns, switches, resets, gone, torn>>

(* ... and the process group is killed and reaped.                            *)
Stopped ==
  /\ call.at = "spawn" \/ Reading
  /\ call.stopped
  /\ Returns("stopped")
  /\ UNCHANGED <<llm, sess, kept, convs, lost, turns, faults, switches, resets, gone, torn>>

-----------------------------------------------------------------------------
(* After SendMessage. *)

(* runClaude: todos are still open, so the answer is carried on.                *)
AutoContinue ==
  /\ call.at = "returned" /\ call.err = "none" /\ call.place # "task"
  /\ call.prompt # "flush" /\ call.autos < MaxAutoContinue
  /\ call' = [call EXCEPT !.at = "spawn", !.prompt = "carry on", !.memory = FALSE, !.autos = @ + 1,
                          !.attempt = 0, !.emitted = FALSE, !.retriedCrash = FALSE]
  /\ UNCHANGED <<llm, sess, kept, convs, lost, turns, faults, switches, resets, gone, torn>>

(* SaveThreadSession: under this backend's name, whatever id the session holds;  *)
(* not for a turn with nothing to post, or one that was cut off.                *)
ThreadKept ==
  \/ /\ call.said \/ call.err \in {"error", "notfound"}
     /\ kept' = [kept EXCEPT !.thread = Ref(sess.thread.id, llm)]
  \/ call.err \in {"none", "stopped"} /\ kept' = kept

(* FinishRun: the run's conversation; none if the CLI refused the one it had;     *)
(* nothing at all if the lease is gone.                                        *)
TaskKept ==
  \/ kept' = kept
  \/ /\ sess.task.id # NoConv
     /\ kept' = [kept EXCEPT
          !.task = Ref(IF call.err = "notfound" THEN NoConv ELSE sess.task.id, llm)]

TurnEnds ==
  /\ call.at = "returned"
  /\ \/ call.place = "chat" /\ kept' = kept
     \/ call.place = "thread" /\ ThreadKept
     \/ call.place = "task" /\ TaskKept
  /\ sess' = [sess EXCEPT !.task = Blank]
  /\ call' = NoCall
  /\ UNCHANGED <<llm, convs, lost, turns, faults, switches, resets, gone, torn>>

-----------------------------------------------------------------------------
(* Beside the turn. *)

(* /reset, /model and the dashboard's reset do not wait for a turn's end.        *)
Reset ==
  /\ resets < MaxResets
  /\ resets' = resets + 1
  /\ sess' = [sess EXCEPT !.chat = Blank]
  /\ gone' = gone \union ({sess.chat.id} \ {NoConv})
  /\ torn' = (torn \/ (call.place = "chat" /\ call.naming))
  /\ call' = [call EXCEPT !.cleared = @ \/ (call.at # "idle" /\ call.place = "chat")]
  /\ UNCHANGED <<llm, kept, convs, lost, turns, faults, switches>>

(* The default model is given another backend, and the gateway is restarted.     *)
Restart(b) ==
  /\ call.at = "idle" /\ b # llm /\ switches < MaxSwitches
  /\ switches' = switches + 1
  /\ llm' = b
  /\ UNCHANGED <<sess, kept, convs, lost, call, turns, faults, resets, gone, torn>>

(* A CLI's own store loses a conversation.                                     *)
Forgets(c) ==
  /\ c \notin lost /\ call.at = "idle" /\ faults < MaxFaults
  /\ faults' = faults + 1
  /\ lost' = lost \union {c}
  /\ UNCHANGED <<llm, sess, kept, convs, call, turns, switches, resets, gone, torn>>

Next ==
  \/ \E p \in Places, prompt \in {"question", "flush"} : StartTurn(p, prompt)
  \/ Spawn \/ CliOpens \/ SetProvider \/ CliSays \/ CliEnds \/ CliRefuses
  \/ \E kind \in {"capped", "killed", "error"} : CliFails(kind)
  \/ Stop \/ Stopped \/ AutoContinue \/ TurnEnds \/ Reset
  \/ \E b \in Clis : Restart(b)
  \/ \E c \in 1..Len(convs) : Forgets(c)

Spec == Init /\ [][Next]_vars

-----------------------------------------------------------------------------
TypeOK ==
  LET Refs == [id : 0..Len(convs), provider : Clis \union {""}]
  IN  /\ llm \in Clis /\ sess \in [Places -> Refs]
      /\ kept \in [{"thread", "task"} -> Refs]
      /\ convs \in Seq([cli : Clis, asked : SUBSET (1..turns)])
      /\ lost \subseteq 1..Len(convs) /\ gone \subseteq 1..Len(convs)
      /\ torn \in BOOLEAN
      /\ call.at \in {"idle", "spawn", "running", "returned"}
      /\ call.place \in Places /\ call.prompt \in Prompts /\ call.err \in Ends
      /\ {call.resumed, call.conv} \subseteq 0..Len(convs)
      /\ call.attempt \in 0..MaxTokenFailovers /\ call.autos \in 0..MaxAutoContinue
      /\ turns \in 0..MaxTurns /\ faults \in 0..MaxFaults
      /\ switches \in 0..MaxSwitches /\ resets \in 0..MaxResets

(* No CLI is sent to resume another CLI's conversation, however often the agent's *)
(* backend changed: never by a task's run, nor in the chat by codex or opencode,   *)
(* but for a reset between the two halves of recording one (codex/client.go,      *)
(* opencode/client.go, taskrunner/runner.go).                                  *)
ResumesItsOwn ==
  /\ call.at = "running" /\ call.resumed # NoConv
  /\ call.place = "task" \/ (call.place = "chat" /\ llm # "claude" /\ ~torn)
  => convs[call.resumed].cli = llm

(* Once a turn has shown something, its question is not sent again: whatever the   *)
(* failures, no attempt answers it twice (claude.SendMessage, markEmitted).      *)
AskedOnce ==
  call.at = "running" /\ call.said /\ call.conv = NoConv => call.prompt = "carry on"

(* A request to carry on reaches the conversation that holds the turn's question, *)
(* across failovers, crashes and auto-continues; not when a reset fell into the    *)
(* turn, and not under opencode in a session of another CLI, where the turn's new   *)
(* conversation is never recorded (claude/client.go, bot/handler.go).           *)
CarriesOnThere ==
  /\ call.at = "running" /\ call.prompt = "carry on"
  /\ ~call.cleared /\ ~(llm = "opencode" /\ call.stray)
  => call.resumed # NoConv /\ turns \in convs[call.resumed].asked

(* A new conversation opens with the agent's memory, also when the attempt before  *)
(* it died unheard; but for a reset within the turn, and a session that held        *)
(* another CLI's conversation (bot/handler.go NewSessionContext, firstTurnPrompt). *)
OpensWithMemory ==
  call.at = "running" /\ call.isNew /\ ~call.cleared /\ ~call.stray => call.memory

(* What a reset took out of the chat stays out: no later process resumes that     *)
(* conversation, although the reset may fall anywhere in a running turn. Not so     *)
(* opencode's, whose id is recorded again at the next event.                     *)
ForgottenStays ==
  Spawn /\ call.place = "chat" /\ call'.resumed \in gone
    => convs[call'.resumed].cli = "opencode"

=============================================================================
