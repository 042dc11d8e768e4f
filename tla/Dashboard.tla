------------------------------ MODULE Dashboard ------------------------------
(***************************************************************************)
(* The dashboard's requests: the page (dashboard/src/hooks/useGateway.ts and   *)
(* components/ChatView.tsx), the dashboard process that answers some methods    *)
(* from the shared database and relays the rest (gateway/relay.go), and the     *)
(* gateway of the agent it relays to (gateway/server.go, methods.go).          *)
(*                                                                         *)
(* The page has one socket to the dashboard, and the dashboard opens a link of  *)
(* its own to the agent for every such socket.  Both are queues; either may     *)
(* break, and the agent may go away and come back.                            *)
(***************************************************************************)
EXTENDS Naturals, Sequences, FiniteSets

CONSTANTS
    Methods,        \* what the page asks for
    DetachedMethods,\* those the dashboard answers from the shared database
    MaxCalls,       \* bound: requests the page makes
    MaxFaults       \* bound: sockets that break and agents that go away

DashboardConstants ==
    /\ DetachedMethods \subseteq Methods /\ "send" \in Methods \ DetachedMethods
    /\ MaxCalls \in Nat /\ MaxFaults \in Nat

VARIABLES
    asked,          \* the methods of the page's calls, by id (idCounter is its length)
    promise,        \* what became of each call
    chat,           \* ChatView: the send it waits for, and whose text is on screen
    browser,        \* the page's socket: is it open, and the frames under way
    local,          \* requests being answered from the shared database
    link,           \* the upstreamLink: its connection, pending and lost
    agent,          \* the agent: is it up, what it has received, is doing and has sent
    cut,            \* history: calls that were pending when the page's socket closed
    faults

vars == <<asked, promise, chat, browser, local, link, agent, cut, faults>>

Ids == 1..MaxCalls

Closed == [open |-> FALSE, up |-> <<>>, down |-> <<>>]

NoLink == [at |-> "none", pending |-> {}, lost |-> {}]

Init ==
    /\ asked = <<>>
    /\ promise = [i \in Ids |-> "none"]
    /\ chat = [sending |-> 0, text |-> {}]
    /\ browser = Closed
    /\ local = {}
    /\ link = NoLink
    /\ agent = [up |-> TRUE, in |-> <<>>, busy |-> {}, out |-> <<>>]
    /\ cut = {}
    /\ faults = 0

Final(i, ok) == [id |-> i, kind |-> IF ok THEN "result" ELSE "error"]

Text(i) == [id |-> i, kind |-> "text"]

IsFinal(f) == f.kind # "text"

(* A frame written to the page's socket. *)
Writes(f) == browser' = [browser EXCEPT !.down = Append(@, f)]

----------------------------------------------------------------------------
(* The page.                                                                *)

(* socket.onopen: whatever waited for the connection is asked now, and on the
   other side serveRelay begins a link. *)
Opens ==
    /\ ~browser.open
    /\ LET waiting == SelectSeq([i \in 1..Len(asked) |-> i], LAMBDA i : promise[i] = "waiting") IN
       /\ browser' = [open |-> TRUE, up |-> waiting, down |-> <<>>]
       /\ promise' = [i \in Ids |-> IF promise[i] = "waiting" THEN "pending" ELSE promise[i]]
    /\ link' = [NoLink EXCEPT !.at = "dialing"]
    /\ UNCHANGED <<asked, chat, local, agent, cut, faults>>

(* ChatView.send: one message at a time. *)
MaySend(m) == m = "send" => chat.sending = 0

(* call: over an open socket at once, else when it opens. *)
Call(m) ==
    LET i == Len(asked) + 1 IN
    /\ i \in Ids /\ MaySend(m)
    /\ asked' = Append(asked, m)
    /\ promise' = [promise EXCEPT ![i] = IF browser.open THEN "pending" ELSE "waiting"]
    /\ browser' = IF browser.open THEN [browser EXCEPT !.up = Append(@, i)] ELSE browser
    /\ chat' = IF m = "send" THEN [sending |-> i, text |-> {}] ELSE chat
    /\ UNCHANGED <<local, link, agent, cut, faults>>

(* A promise settles.  For a send ChatView adds the bubble and clears what streamed. *)
Settles(i, as) ==
    /\ promise' = [promise EXCEPT ![i] = as]
    /\ chat' = IF chat.sending = i THEN [sending |-> 0, text |-> {}] ELSE chat

(* "Connection timeout", 10 seconds. *)
ConnectionTimeout(i) ==
    /\ promise[i] = "waiting" /\ ~browser.open
    /\ Settles(i, "rejected")
    /\ UNCHANGED <<asked, browser, local, link, agent, cut, faults>>

(* "Request timeout", 30 seconds, for anything but a send. *)
TimesOut(i) == asked[i] # "send"

RequestTimeout(i) ==
    /\ promise[i] = "pending" /\ TimesOut(i)
    /\ Settles(i, "rejected")
    /\ UNCHANGED <<asked, browser, local, link, agent, cut, faults>>

(* An answer that carries an error rejects. *)
Outcome(f) == IF f.kind = "result" THEN "resolved" ELSE "rejected"

(* socket.onmessage: streams are shown as they come, whoever they belong to; an
   answer settles its promise if that still waits. *)
Receives ==
    /\ browser.down # <<>>
    /\ LET f == Head(browser.down) IN
       IF ~IsFinal(f) THEN /\ chat' = [chat EXCEPT !.text = @ \cup {f.id}]
                           /\ UNCHANGED promise
       ELSE IF promise[f.id] = "pending"
       THEN Settles(f.id, Outcome(f))
       ELSE UNCHANGED <<promise, chat>>
    /\ browser' = [browser EXCEPT !.down = Tail(@)]
    /\ UNCHANGED <<asked, local, link, agent, cut, faults>>

----------------------------------------------------------------------------
(* The dashboard process.                                                   *)

(* upstreamLink.send.  A write to a link that is going down may still succeed. *)
Send(i) ==
    \/ /\ link.at \in {"up", "broken"}
       /\ agent' = IF link.at = "up" THEN [agent EXCEPT !.in = Append(@, i)] ELSE agent
       /\ link' = [link EXCEPT !.pending = @ \cup {i}]
       /\ browser' = [browser EXCEPT !.up = Tail(@)]
    \/ /\ link.at \in {"dialing", "broken"}
       /\ browser' = [browser EXCEPT !.up = Tail(@), !.down = Append(@, Final(i, FALSE))]
       /\ UNCHANGED <<agent, link>>

(* The read loop of serveRelay. *)
ServesRequest ==
    /\ browser.open /\ browser.up # <<>>
    /\ LET i == Head(browser.up) IN
       \/ /\ asked[i] \in DetachedMethods
          /\ local' = local \cup {i}
          /\ browser' = [browser EXCEPT !.up = Tail(@)]
          /\ UNCHANGED <<link, agent>>
       \/ /\ asked[i] \notin DetachedMethods
          /\ Send(i)
          /\ UNCHANGED local
    /\ UNCHANGED <<asked, promise, chat, cut, faults>>

(* Relay.Local returned, well or not. *)
AnswersLocally(i) ==
    /\ i \in local
    /\ local' = local \ {i}
    /\ \E ok \in BOOLEAN : Writes(Final(i, ok))
    /\ UNCHANGED <<asked, promise, chat, link, agent, cut, faults>>

(* run: the next dial succeeds.  The ids lost with the last link are told first. *)
Dials ==
    /\ link.at = "dialing" /\ link.lost = {} /\ agent.up
    /\ link' = [link EXCEPT !.at = "up"]
    /\ agent' = [agent EXCEPT !.in = <<>>, !.busy = {}, !.out = <<>>]
    /\ UNCHANGED <<asked, promise, chat, browser, local, cut, faults>>

(* A final answer carries the id and no type; stream events carry both. *)
Passed(f) == IF IsFinal(f) THEN link.pending \ {f.id} ELSE link.pending

(* pump: a frame of the agent passes through. *)
Pumps ==
    /\ link.at \in {"up", "broken"} /\ agent.out # <<>>
    /\ LET f == Head(agent.out) IN
       /\ link' = [link EXCEPT !.pending = Passed(f)]
       /\ Writes(f)
    /\ agent' = [agent EXCEPT !.out = Tail(@)]
    /\ UNCHANGED <<asked, promise, chat, local, cut, faults>>

(* The link's state with its lock released: the ids the drop caught are told next. *)
AfterDrop == [at |-> "dialing", pending |-> {}, lost |-> link.pending]

(* pump returned: the link is given up, whatever was left on it with it. *)
LinkEnds ==
    /\ link.at = "broken"
    /\ link' = AfterDrop
    /\ agent' = [agent EXCEPT !.out = <<>>]
    /\ UNCHANGED <<asked, promise, chat, browser, local, cut, faults>>

(* "agent connection dropped". *)
TellsDropped(i) ==
    /\ i \in link.lost
    /\ link' = [link EXCEPT !.lost = @ \ {i}]
    /\ Writes(Final(i, FALSE))
    /\ UNCHANGED <<asked, promise, chat, local, agent, cut, faults>>

----------------------------------------------------------------------------
(* The agent's gateway.                                                     *)

(* handleWS: every request in a goroutine of its own. *)
Takes ==
    /\ agent.in # <<>>
    /\ agent' = [agent EXCEPT !.in = Tail(@), !.busy = @ \cup {Head(agent.in)}]
    /\ UNCHANGED <<asked, promise, chat, browser, local, link, cut, faults>>

UnderWay(i) == \E s \in {agent.out, browser.down} : \E n \in 1..Len(s) : s[n] = Text(i)

(* A turn streams to the socket it was asked on.  Of one turn's texts one at a
   time is under way: another says nothing new. *)
Streams(i) ==
    /\ i \in agent.busy /\ asked[i] = "send" /\ i \notin chat.text /\ ~UnderWay(i)
    /\ agent' = [agent EXCEPT !.out = Append(@, Text(i))]
    /\ UNCHANGED <<asked, promise, chat, browser, local, link, cut, faults>>

(* What the handler sends at its end: a send streams its error before the response. *)
LastFrames(i) ==
    IF asked[i] = "send" THEN <<Text(i), Final(i, TRUE)>> ELSE <<Final(i, TRUE)>>

Finishes(i) ==
    /\ i \in agent.busy
    /\ agent' = [agent EXCEPT !.busy = @ \ {i},
                    !.out = @ \o (IF asked[i] = "send" THEN LastFrames(i) ELSE <<Final(i, TRUE)>>)]
    /\ UNCHANGED <<asked, promise, chat, browser, local, link, cut, faults>>

----------------------------------------------------------------------------
(* What goes wrong.                                                         *)

Fault == faults < MaxFaults /\ faults' = faults + 1

Broken == [link EXCEPT !.at = IF @ = "up" THEN "broken" ELSE @]

(* The agent restarts, or dies. *)
AgentGoes ==
    /\ agent.up /\ Fault
    /\ agent' = [agent EXCEPT !.up = FALSE, !.in = <<>>, !.busy = {}]
    /\ link' = Broken
    /\ UNCHANGED <<asked, promise, chat, browser, local, cut>>

AgentReturns ==
    /\ ~agent.up
    /\ agent' = [agent EXCEPT !.up = TRUE]
    /\ UNCHANGED <<asked, promise, chat, browser, local, link, cut, faults>>

(* The connection between the two breaks; turns go on and write to nobody. *)
LinkBreaks ==
    /\ link.at = "up" /\ Fault
    /\ link' = Broken
    /\ agent' = [agent EXCEPT !.in = <<>>, !.busy = {}]
    /\ UNCHANGED <<asked, promise, chat, browser, local, cut>>

(* The page's own socket closes: the dashboard restarted, a laptop slept.  The
   promises stay as they are, and a new socket is opened in three seconds. *)
PageCut ==
    /\ browser.open /\ Fault
    /\ browser' = Closed
    /\ local' = {} /\ link' = NoLink
    /\ agent' = [agent EXCEPT !.in = <<>>, !.busy = {}, !.out = <<>>]
    /\ cut' = cut \cup {i \in Ids : promise[i] = "pending"}
    /\ UNCHANGED <<asked, promise, chat>>

----------------------------------------------------------------------------
Next ==
    \/ Opens \/ Receives \/ ServesRequest \/ Dials \/ Pumps \/ LinkEnds \/ Takes
    \/ \E m \in Methods : Call(m)
    \/ \E i \in Ids : \/ ConnectionTimeout(i) \/ RequestTimeout(i)
                      \/ AnswersLocally(i) \/ TellsDropped(i)
                      \/ Streams(i) \/ Finishes(i)
    \/ AgentGoes \/ AgentReturns \/ LinkBreaks \/ PageCut

Spec == Init /\ [][Next]_vars


----------------------------------------------------------------------------
(* Type correctness. *)
Frames == [id : Ids, kind : {"text", "result", "error"}]

TypeOK ==
    /\ asked \in Seq(Methods) /\ Len(asked) <= MaxCalls
    /\ promise \in [Ids -> {"none", "waiting", "pending", "resolved", "rejected"}]
    /\ chat \in [sending : 0..MaxCalls, text : SUBSET Ids]
    /\ browser \in [open : BOOLEAN, up : Seq(Ids), down : Seq(Frames)]
    /\ local \subseteq Ids
    /\ link \in [at : {"none", "dialing", "up", "broken"}, pending : SUBSET Ids, lost : SUBSET Ids]
    /\ agent \in [up : BOOLEAN, in : Seq(Ids), busy : SUBSET Ids, out : Seq(Frames)]
    /\ cut \subseteq Ids
    /\ faults \in 0..MaxFaults

Holds(s, i) == \E n \in 1..Len(s) : s[n] = i

HoldsAnswer(s, i) == \E n \in 1..Len(s) : IsFinal(s[n]) /\ s[n].id = i

(* The hands a request can be in. *)
Hands(i) ==
    <<Holds(browser.up, i), i \in local, i \in link.pending, i \in link.lost,
      HoldsAnswer(browser.down, i)>>

(* A request the page waits for on the socket it has is in exactly one pair of
   hands: still to be served, being answered here, forwarded and remembered, lost
   with a link and about to be told, or answered (relay.go:199-202) - so none is
   forgotten, and an agent's answer and the relay's own exclude each other. *)
InOneHand ==
    \A i \in Ids :
        promise[i] = "pending" /\ i \notin cut =>
            \E h \in 1..5 : Hands(i)[h] /\ \A g \in 1..5 \ {h} : ~Hands(i)[g]

(* What streams into the open bubble belongs to the message being answered, though
   onmessage appends every stream without looking at its id (useGateway.ts:48-51). *)
StreamIsOfThisSend == chat.text \subseteq {chat.sending} \ {0}


=============================================================================
