---------------------------- MODULE BrowserBridge ----------------------------
(***************************************************************************)
(* The browser bridge: the Hub of a gateway (internal/browserbridge/hub.go)    *)
(* that relays actions to one browser at a time, and the extension's service   *)
(* worker in each browser (extension/background.js), which keeps a socket open  *)
(* to the gateway and performs the actions.                                   *)
(*                                                                         *)
(* Sockets are queues both ways; a gateway or a worker may end at any moment,   *)
(* a newer connection replaces the older, and a caller may give up.            *)
(***************************************************************************)
EXTENDS Naturals, Sequences, FiniteSets

CONSTANTS
    Browsers,       \* browsers (or profiles) paired with this agent
    Callers,        \* HTTP requests to /api/browser/call at a time
    Sockets,        \* the sockets there is room for at a time
    NoSocket,
    MaxCalls,       \* bound: calls made
    MaxUpsets       \* bound: restarts of the gateway, workers unloaded, browsers gone
                    \* silent, buttons pressed

BrowserBridgeConstants ==
    /\ IsFiniteSet(Browsers) /\ IsFiniteSet(Callers) /\ IsFiniteSet(Sockets)
    /\ NoSocket \notin Sockets
    /\ MaxCalls \in Nat /\ MaxUpsets \in Nat

VARIABLES
    sock,       \* each socket: the Hub's conn, the extension's end and what is between
    slot,       \* Hub.conn
    seq,        \* Hub.seq
    caller,     \* each Call
    ext,        \* each extension: its socket, whether it wants one
    jobs,       \* actions a browser performs
    calls,      \* history: calls made
    restarts,   \* which process of the gateway this is
    upsets

vars == <<sock, slot, seq, caller, ext, jobs, calls, restarts, upsets>>

Free == [server |-> "none", by |-> NoSocket, open |-> FALSE, closed |-> FALSE,
         displaced |-> NoSocket, up |-> <<>>, down |-> <<>>, pending |-> {}]

NoAnswer == [tag |-> 0, run |-> 0]

Quiet == [at |-> "idle", sock |-> NoSocket, id |-> 0, tag |-> 0, got |-> NoAnswer]

Init ==
    /\ sock = [s \in Sockets |-> Free]
    /\ slot = NoSocket /\ seq = 0
    /\ caller = [c \in Callers |-> Quiet]
    /\ ext = [b \in Browsers |-> [ws |-> NoSocket, want |-> TRUE]]
    /\ jobs = {} /\ calls = 0 /\ restarts = 0 /\ upsets = 0

Upset == upsets < MaxUpsets /\ upsets' = upsets + 1

Close(c) == [kind |-> "close", code |-> c]

Call(id, tag) == [kind |-> "call", id |-> id, tag |-> tag, run |-> restarts]

----------------------------------------------------------------------------
(* The extension.                                                           *)

(* Sockets nobody looks at any more. *)
Unused(s) ==
    /\ sock[s].server = "none" /\ ~sock[s].open
    /\ \A c \in Callers : caller[c].sock # s
    /\ \A t \in Sockets : sock[t].displaced # s

(* connect: the extension lets go of the socket it has, and opens another. *)
Opens(b) ==
    /\ \E s \in Sockets : Unused(s)
    /\ LET s == CHOOSE t \in Sockets : Unused(t) IN
       /\ sock' = [t \in Sockets |->
                    IF t = s THEN [Free EXCEPT !.server = "hello", !.by = b, !.open = TRUE]
                    ELSE IF t = ext[b].ws THEN [sock[t] EXCEPT !.open = FALSE, !.down = <<>>]
                    ELSE sock[t]]
       /\ ext' = [ext EXCEPT ![b] = [ws |-> s, want |-> TRUE]]

(* The reconnect timer, or the restore of a worker that starts. *)
Reconnects(b) ==
    /\ ext[b].want /\ ext[b].ws = NoSocket
    /\ Opens(b)
    /\ UNCHANGED <<slot, seq, caller, jobs, calls, restarts, upsets>>

PressesConnect(b) ==
    /\ Upset /\ Opens(b)
    /\ UNCHANGED <<slot, seq, caller, jobs, calls, restarts>>

Drops(b, want) ==
    /\ sock' = [t \in Sockets |->
                 IF t = ext[b].ws THEN [sock[t] EXCEPT !.open = FALSE, !.down = <<>>] ELSE sock[t]]
    /\ ext' = [ext EXCEPT ![b] = [ws |-> NoSocket, want |-> want]]

PressesDisconnect(b) ==
    /\ ext[b].ws # NoSocket /\ Upset
    /\ Drops(b, FALSE)
    /\ UNCHANGED <<slot, seq, caller, jobs, calls, restarts>>

(* Chrome unloads a worker: what it was doing is gone, what it wanted is stored. *)
WorkerEnds(b) ==
    /\ ext[b].ws # NoSocket /\ Upset
    /\ Drops(b, ext[b].want)
    /\ jobs' = {j \in jobs : j.by # b}
    /\ UNCHANGED <<slot, seq, caller, calls, restarts>>

(* Another browser took the slot: taking it back would start a tug of war. *)
Wanted(b, code) == ext[b].want /\ code # "replaced"

Receives(b) ==
    LET s == ext[b].ws IN
    /\ s # NoSocket /\ sock[s].down # <<>>
    /\ LET f == Head(sock[s].down) IN
       \/ /\ f.kind = "call"
          /\ jobs' = jobs \cup {[by |-> b, id |-> f.id, tag |-> f.tag, run |-> f.run]}
          /\ sock' = [sock EXCEPT ![s].down = Tail(@)]
          /\ UNCHANGED ext
       \/ /\ f.kind = "close"
          /\ Drops(b, Wanted(b, f.code))
          /\ UNCHANGED jobs
    /\ UNCHANGED <<slot, seq, caller, calls, restarts, upsets>>

(* The answer goes out on the socket the extension has by then. *)
Performs(j) ==
    LET s == ext[j.by].ws IN
    /\ jobs' = jobs \ {j}
    /\ sock' = IF s \notin {t \in Sockets : sock[t].server # "none"} THEN sock
               ELSE [sock EXCEPT ![s].up = Append(@, [id |-> j.id, tag |-> j.tag, run |-> j.run])]
    /\ UNCHANGED <<slot, seq, caller, ext, calls, restarts, upsets>>

----------------------------------------------------------------------------
(* The Hub: ServeHTTP of each socket.                                        *)

Closed(s, code) ==
    [sock EXCEPT ![s].closed = TRUE,
                 ![s].down = IF sock[s].closed \/ ~sock[s].open THEN @ ELSE Append(@, Close(code))]

(* The hello was good: the slot is this socket's. *)
TakesSlot(s) ==
    /\ sock[s].server = "hello"
    /\ slot' = s
    /\ sock' = [sock EXCEPT ![s].server = IF slot = NoSocket THEN "live" ELSE "replacing",
                            ![s].displaced = slot]
    /\ UNCHANGED <<seq, caller, ext, jobs, calls, restarts, upsets>>

ClosesOld(s) ==
    LET old == sock[s].displaced IN
    /\ sock[s].server = "replacing"
    /\ sock' = [Closed(old, "replaced") EXCEPT ![s].server = "live", ![s].displaced = NoSocket]
    /\ UNCHANGED <<slot, seq, caller, ext, jobs, calls, restarts, upsets>>

(* Mutant: a late answer goes to whoever waits on the socket. *)
DeliverToAny(s, f) ==
    [c \in Callers |-> IF caller[c].sock = s /\ caller[c].got = NoAnswer
                       THEN [caller[c] EXCEPT !.got = [tag |-> f.tag, run |-> f.run]] ELSE caller[c]]

Deliver(s, f) ==
    [c \in Callers |-> IF /\ caller[c].sock = s /\ caller[c].id = f.id
                          /\ f.id \in sock[s].pending /\ caller[c].got = NoAnswer
                       THEN [caller[c] EXCEPT !.got = [tag |-> f.tag, run |-> f.run]] ELSE caller[c]]

Reads(s) ==
    /\ sock[s].server = "live" /\ ~sock[s].closed /\ sock[s].up # <<>>
    /\ caller' = Deliver(s, Head(sock[s].up))
    /\ sock' = [sock EXCEPT ![s].up = Tail(@)]
    /\ UNCHANGED <<slot, seq, ext, jobs, calls, restarts, upsets>>

ReadLoopEnds(s) ==
    /\ sock[s].server = "live"
    /\ sock[s].closed \/ (sock[s].up = <<>> /\ ~sock[s].open)
    /\ sock' = [Closed(s, "normal") EXCEPT ![s].server = "ending"]
    /\ UNCHANGED <<slot, seq, caller, ext, jobs, calls, restarts, upsets>>

(* Mutant: whoever ends leaves the slot empty. *)
SlotAfterNone(s) == NoSocket

SlotAfter(s) == IF slot = s THEN NoSocket ELSE slot

FailsPending(s) ==
    /\ sock[s].server = "ending"
    /\ slot' = SlotAfter(s)
    /\ sock' = [sock EXCEPT ![s].server = "none", ![s].up = <<>>, ![s].pending = {}]
    /\ UNCHANGED <<seq, caller, ext, jobs, calls, restarts, upsets>>

(* A browser that answers no pings. *)
KeepAliveGivesUp(s) ==
    /\ sock[s].server = "live" /\ ~sock[s].closed /\ Upset
    /\ sock' = Closed(s, "timeout")
    /\ UNCHANGED <<slot, seq, caller, ext, jobs, calls, restarts>>

(* The gateway ends: its sockets close, its callers get nothing, and the next   *)
(* process counts its calls from one.                                        *)
Restarts ==
    /\ Upset /\ restarts' = restarts + 1
    /\ sock' = [s \in Sockets |->
                 IF sock[s].open
                 THEN [Free EXCEPT !.by = sock[s].by, !.open = TRUE, !.closed = TRUE,
                                   !.down = Append(sock[s].down, Close("lost"))]
                 ELSE Free]
    /\ slot' = NoSocket /\ seq' = 0
    /\ caller' = [c \in Callers |-> Quiet]
    /\ UNCHANGED <<ext, jobs, calls>>

----------------------------------------------------------------------------
(* Call.                                                                    *)

Registers(c) ==
    /\ caller[c].at = "idle" /\ slot # NoSocket /\ calls < MaxCalls
    /\ calls' = calls + 1 /\ seq' = seq + 1
    /\ sock' = [sock EXCEPT ![slot].pending = @ \cup {seq + 1}]
    /\ caller' = [caller EXCEPT ![c] = [at |-> "sending", sock |-> slot, id |-> seq + 1,
                                        tag |-> calls + 1, got |-> NoAnswer]]
    /\ UNCHANGED <<slot, ext, jobs, restarts, upsets>>

Returns(c, socks) ==
    /\ caller' = [caller EXCEPT ![c] = Quiet]
    /\ sock' = [socks EXCEPT ![caller[c].sock].pending = @ \ {caller[c].id}]

Sends(c) ==
    LET s == caller[c].sock IN
    /\ caller[c].at = "sending"
    /\ \/ /\ sock[s].closed /\ Returns(c, sock)
       \/ /\ ~sock[s].closed
          /\ caller' = [caller EXCEPT ![c].at = "waiting"]
          /\ sock' = IF sock[s].open
                     THEN [sock EXCEPT ![s].down = Append(@, Call(caller[c].id, caller[c].tag))]
                     ELSE sock
    /\ UNCHANGED <<slot, seq, ext, jobs, calls, restarts, upsets>>

(* With both ready the select takes either. *)
IsAnswered(c) ==
    /\ caller[c].at = "waiting"
    /\ caller[c].got # NoAnswer \/ sock[caller[c].sock].closed
    /\ Returns(c, sock)
    /\ UNCHANGED <<slot, seq, ext, jobs, calls, restarts, upsets>>

(* The timer of the call, or its caller who went away. *)
GivesUp(c) ==
    /\ caller[c].at = "waiting" /\ Returns(c, sock)
    /\ UNCHANGED <<slot, seq, ext, jobs, calls, restarts, upsets>>

----------------------------------------------------------------------------
Serves(s) == TakesSlot(s) \/ ClosesOld(s) \/ Reads(s) \/ ReadLoopEnds(s) \/ FailsPending(s)

Next ==
    \/ \E b \in Browsers : \/ Reconnects(b) \/ PressesConnect(b) \/ PressesDisconnect(b)
                           \/ WorkerEnds(b) \/ Receives(b)
    \/ \E j \in jobs : Performs(j)
    \/ \E s \in Sockets : Serves(s) \/ KeepAliveGivesUp(s)
    \/ \E c \in Callers : Registers(c) \/ Sends(c) \/ IsAnswered(c) \/ GivesUp(c)
    \/ Restarts

Spec == Init /\ [][Next]_vars

----------------------------------------------------------------------------
(* The slot, the sockets and the calls agree on who is who: what is in the     *)
(* slot is served, a browser holds one socket and that one is open, and a      *)
(* socket its server left holds nothing of anybody's.                        *)
TypeOK ==
    /\ slot # NoSocket => sock[slot].server \in {"replacing", "live", "ending"}
    /\ \A b \in Browsers : {s \in Sockets : sock[s].open /\ sock[s].by = b} = {ext[b].ws} \ {NoSocket}
    /\ \A s \in Sockets : sock[s].server = "none" =>
          sock[s].up = <<>> /\ sock[s].displaced = NoSocket
    /\ \A c \in Callers : caller[c].at \in {"idle", "sending", "waiting"} /\ caller[c].id \in 0..seq
    /\ calls \in 0..MaxCalls

(* What a connection keeps pending is waited for: no way out of Call, and no   *)
(* end of a connection, leaves an id behind (hub.go:316-317).                 *)
PendingIsWaitedFor ==
    \A s \in Sockets : \A id \in sock[s].pending :
        \E c \in Callers : caller[c].sock = s /\ caller[c].id = id

(* Within one run of the gateway a call is answered with what its own action   *)
(* gave, however late the answers of calls that were given up come in, and on   *)
(* whatever socket (hub.go:315-317, background.js:215-217).                   *)
AnswersAreTheirOwn ==
    \A c \in Callers :
        caller[c].got # NoAnswer /\ caller[c].got.run = restarts => caller[c].got.tag = caller[c].tag


=============================================================================
