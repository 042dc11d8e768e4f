------------------------------ MODULE Forwarding ------------------------------
(***************************************************************************)
(* Carrying a room out to the places it speaks into (internal/coord/gateways.go, *)
(* internal/gateway/forward.go), and a reply quoted there back into its thread   *)
(* (internal/bot/handler.go, channelReply).                                   *)
(*                                                                         *)
(* Each agent's process sweeps the gateways it carries: it reads a batch, sends  *)
(* line after line and records each one afterwards.  Gateways are added, edited  *)
(* and removed meanwhile.                                                    *)
(***************************************************************************)
EXTENDS Naturals, Sequences, FiniteSets, Functions

CONSTANTS
    Agents,         \* agents with a bot of their own, each a process
    Dests,          \* <<kind, target>> of the room's gateways, in the order a sweep takes them
    Telegram,       \* the targets that are chats
    Dead,           \* targets that refuse every line
    PerSweep,       \* ForwardsPerSweep
    MaxLines,       \* bound: lines written in the room
    MaxEdits,       \* bound: gateways added, edited or removed
    MaxUpsets       \* bound: sends refused, records failed, processes restarted

Targets == Range(Dests)

ASSUME ForwardingConstants ==
    /\ IsFiniteSet(Agents) /\ Telegram \subseteq Targets /\ Dead \subseteq Targets
    /\ PerSweep \in Nat \ {0}
    /\ {MaxLines, MaxEdits, MaxUpsets} \subseteq Nat

VARIABLES
    room,       \* channel_messages of one room, oldest first: a line's place is its created_at
    gw,         \* channel_gateways: the row of each target
    made,       \* gateway ids given out
    deliveries, \* channel_deliveries
    sweep,      \* each process: the rest of its batch, the send it has not recorded yet
    cool,       \* each process: ForwardWatcher.failed
    arrived,    \* what reached a target
    quiet,      \* history: lines written while a gateway was off
    rebound,    \* history: gateways turned back on by registering them again
    unrecorded, \* history: sends whose record was lost
    moved,      \* history: gateways given another carrier under a batch, or another target
    edits, upsets

table == <<gw, made, edits, quiet, rebound, moved>>
watch == <<sweep, cool, arrived, unrecorded>>
vars == <<room, deliveries, upsets, table, watch>>

NoGateway == [id |-> 0, carrier |-> "none", mode |-> "off", since |-> 0]
NoExt == 0
Idle == [batch |-> {}, sent |-> {}, follows |-> {}]
Modes == {"all", "mentions", "off"}

Init ==
    /\ room = <<>>
    /\ gw = [d \in Targets |-> NoGateway] /\ made = 0
    /\ deliveries = {}
    /\ sweep = [a \in Agents |-> Idle] /\ cool = [a \in Agents |-> {}]
    /\ arrived = {}
    /\ quiet = {} /\ rebound = {} /\ unrecorded = {} /\ moved = {}
    /\ edits = 0 /\ upsets = 0

Upset == upsets < MaxUpsets /\ upsets' = upsets + 1
Bound(d) == gw[d] # NoGateway

----------------------------------------------------------------------------
(* The room.                                                                *)

Line(by, root, is) == [by |-> by, root |-> root, is |-> is, noted |-> FALSE]

Says(line) ==
    /\ Len(room) < MaxLines
    /\ line.root # 0 => line.root <= Len(room) /\ room[line.root].root = 0
    /\ room' = Append(room, line)
    /\ quiet' = quiet \cup {<<gw[d].id, Len(room) + 1>> :
                              d \in {t \in Targets : Bound(t) /\ gw[t].mode = "off"}}
    /\ UNCHANGED <<deliveries, upsets, gw, made, edits, rebound, moved, watch>>

(* PostMessage by an agent, or the progress line of a mention. *)
AgentSays(root, is) == Says(Line("agent", root, is))

OwnerSays(root) == Says(Line("owner", root, "said"))

(* The second half of PostMessage, for a line that names the owner. *)
NotesMention(l) ==
    /\ room[l].is = "said" /\ room[l].by = "agent" /\ ~room[l].noted
    /\ room' = [room EXCEPT ![l].noted = TRUE]
    /\ UNCHANGED <<deliveries, upsets, table, watch>>

(* UpdateMessageBody: the progress line becomes the answer; whom it names is not  *)
(* recorded. *)
Lands(l) ==
    /\ room[l].is = "working"
    /\ room' = [room EXCEPT ![l].is = "landed"]
    /\ UNCHANGED <<deliveries, upsets, table, watch>>

----------------------------------------------------------------------------
(* The gateways of the room.                                                 *)

(* nextMessageTime: after the last line, and on a coarse clock no earlier than   *)
(* the next one.                                                            *)
CutOffs == {Len(room), Len(room) + 1}

Edits == edits < MaxEdits /\ edits' = edits + 1

Held(a) == sweep[a].batch \cup sweep[a].sent
HeldBy(a, id) == \E f \in Held(a) : f.gw = id

AddChannelGateway(d, a, mode) ==
    /\ Edits
    /\ \/ /\ ~Bound(d) /\ made' = made + 1
          /\ \E since \in CutOffs :
                gw' = [gw EXCEPT ![d] = [id |-> made + 1, carrier |-> a, mode |-> mode, since |-> since]]
          /\ UNCHANGED <<rebound, moved>>
       \/ /\ Bound(d)
          /\ gw' = [gw EXCEPT ![d].carrier = a, ![d].mode = mode]
          /\ rebound' = IF gw[d].mode = "off" /\ mode # "off" THEN rebound \cup {gw[d].id} ELSE rebound
          /\ moved' = IF \E b \in Agents \ {a} : HeldBy(b, gw[d].id) THEN moved \cup {gw[d].id} ELSE moved
          /\ UNCHANGED made
    /\ UNCHANGED <<room, deliveries, upsets, quiet, watch>>

SinceAfter(d, mode) == IF gw[d].mode = "off" /\ mode # "off" THEN CutOffs ELSE {gw[d].since}

UpdateChannelGateway(d, mode, target) ==
    /\ Bound(d) /\ Edits
    /\ target = d \/ (~Bound(target) /\ (target \in Telegram <=> d \in Telegram))
    /\ \E since \in SinceAfter(d, mode) :
          LET row == [gw[d] EXCEPT !.mode = mode, !.since = since] IN
          gw' = [t \in Targets |-> IF t = target THEN row ELSE IF t = d THEN NoGateway ELSE gw[t]]
    /\ moved' = IF target # d THEN moved \cup {gw[d].id} ELSE moved
    /\ UNCHANGED <<room, deliveries, upsets, made, quiet, rebound, watch>>

RemoveChannelGateway(d) ==
    /\ Bound(d) /\ Edits
    /\ gw' = [gw EXCEPT ![d] = NoGateway]
    /\ UNCHANGED <<room, deliveries, upsets, made, quiet, rebound, moved, watch>>

(* `bomclaw ch bind`: with the target spelled out, or known from the environment,  *)
(* it registers the gateway again, to resume it too; else it edits the row.    *)
ChBind(d, a, mode) == AddChannelGateway(d, a, mode) \/ UpdateChannelGateway(d, mode, d)

(* channels.bind: by id it edits the row. *)
HandleChannelBind(d, a, mode, target) ==
    UpdateChannelGateway(d, mode, target) \/ AddChannelGateway(d, a, mode)

----------------------------------------------------------------------------
(* A sweep.                                                                 *)

Settled(l, id) == \E x \in deliveries : x.line = l /\ x.gw = id

Pending(d) == {l \in DOMAIN room : /\ ~Settled(l, gw[d].id) /\ l > gw[d].since
                                   /\ room[l].by = "agent" /\ room[l].is # "working"}

(* The oldest lines of one gateway. *)
PendingFor(d) ==
    {[line |-> l, gw |-> gw[d].id, to |-> d, mode |-> gw[d].mode] :
        l \in {k \in Pending(d) : Cardinality({j \in Pending(d) : j < k}) < PerSweep}}

CarriedBy(a) == {d \in Targets : Bound(d) /\ gw[d].carrier = a /\ gw[d].mode # "off"}

(* Gateway after gateway, and the oldest line first. *)
Place(t) == CHOOSE i \in DOMAIN Dests : Dests[i] = t
Before(f, g) == Place(f.to) < Place(g.to) \/ (f.to = g.to /\ f.line < g.line)

(* Mutant: one allowance for the whole sweep. *)
PendingForwardsShared(a) ==
    LET all == UNION {PendingFor(d) : d \in CarriedBy(a)} IN
    {f \in all : Cardinality({g \in all : Before(g, f)}) < PerSweep}

PendingForwards(a) == UNION {PendingFor(d) : d \in CarriedBy(a)}

Sweeps(a) ==
    /\ sweep[a] = Idle
    /\ PendingForwards(a) # {}
    /\ sweep' = [sweep EXCEPT ![a].batch = PendingForwards(a)]
    /\ UNCHANGED <<room, deliveries, upsets, table, cool, arrived, unrecorded>>

(* The forward whose turn it is, while no send waits for its record. *)
Turn(a) ==
    IF sweep[a].sent # {} THEN {}
    ELSE {f \in sweep[a].batch : \A g \in sweep[a].batch \ {f} : Before(f, g)}

(* What the sweep has left. *)
Left(batch, sent, follows) ==
    [batch |-> batch, sent |-> sent, follows |-> IF batch = {} /\ sent = {} THEN {} ELSE follows]

Passed(a, f, follows) == [sweep EXCEPT ![a] = Left(sweep[a].batch \ {f}, {}, follows)]

(* A target that refused a line is left alone for a while. *)
LeavesAlone(a, f) ==
    /\ f.gw \in cool[a]
    /\ sweep' = Passed(a, f, sweep[a].follows)
    /\ UNCHANGED <<room, deliveries, upsets, table, cool, arrived, unrecorded>>

OwnerFollows(l) ==
    \/ room[l].noted
    \/ room[l].root # 0 /\ \E k \in DOMAIN room : /\ k = room[l].root \/ room[k].root = room[l].root
                                                  /\ room[k].by = "owner"

(* Asked once per line and sweep, for lines the mode is not wide open to. *)
Follows(a, l) ==
    LET asked == {x \in sweep[a].follows : x[1] = l} IN
    IF asked # {} THEN \E x \in asked : x[2] ELSE OwnerFollows(l)

Wanted(a, f) == f.mode = "mentions" => Follows(a, f.line)

Asked(a, f) == IF f.mode = "mentions" THEN sweep[a].follows \cup {<<f.line, Follows(a, f.line)>>}
               ELSE sweep[a].follows

(* RecordDelivery: the first record of a line at a gateway stays. *)
RecordDelivery(a, f, state, ext) ==
    IF Settled(f.line, f.gw) THEN deliveries
    ELSE deliveries \cup {[line |-> f.line, gw |-> f.gw, state |-> state, ext |-> ext, agent |-> a]}

Skips(a, f) ==
    /\ f.gw \notin cool[a] /\ ~Wanted(a, f)
    /\ deliveries' = RecordDelivery(a, f, "skipped", NoExt)
    /\ sweep' = Passed(a, f, Asked(a, f))
    /\ UNCHANGED <<room, upsets, table, cool, arrived, unrecorded>>

(* Whom the line names cannot be read, or that it is skipped cannot be recorded:  *)
(* it comes back with the next sweep. *)
Undecided(a, f) ==
    /\ f.gw \notin cool[a] /\ f.mode = "mentions" /\ Upset
    /\ \/ sweep' = Passed(a, f, sweep[a].follows)
       \/ ~Wanted(a, f) /\ sweep' = Passed(a, f, Asked(a, f))
    /\ UNCHANGED <<room, deliveries, table, cool, arrived, unrecorded>>

(* A bot numbers what it sends; a webhook has no numbers. *)
Numbered(a) == {x \in arrived : x.by = a /\ x.ext # NoExt}

Arrival(a, f) ==
    [line |-> f.line, gw |-> f.gw, to |-> f.to, by |-> a,
     ext |-> IF f.to \in Telegram THEN 1 + Cardinality(Numbered(a)) ELSE NoExt,
     nth |-> 1 + Cardinality(arrived)]

Sends(a, f) ==
    /\ f.gw \notin cool[a] /\ Wanted(a, f) /\ f.to \notin Dead
    /\ arrived' = arrived \cup {Arrival(a, f)}
    /\ sweep' = [sweep EXCEPT ![a] = Left(sweep[a].batch \ {f}, {Arrival(a, f)}, Asked(a, f))]
    /\ UNCHANGED <<room, deliveries, upsets, table, cool, unrecorded>>

(* The line stays unsettled: an outage delays it. *)
Refused(a, f) ==
    /\ f.gw \notin cool[a] /\ Wanted(a, f)
    /\ \/ f.to \in Dead /\ UNCHANGED upsets
       \/ f.to \notin Dead /\ Upset
    /\ cool' = [cool EXCEPT ![a] = @ \cup {f.gw}]
    /\ sweep' = Passed(a, f, Asked(a, f))
    /\ UNCHANGED <<room, deliveries, table, arrived, unrecorded>>

Recorded(a) == [sweep EXCEPT ![a] = Left(sweep[a].batch, {}, sweep[a].follows)]

(* Mutant: what was sent is not recorded. *)
RecordsNothing(a, x) ==
    /\ sweep' = Recorded(a)
    /\ UNCHANGED <<room, deliveries, upsets, table, cool, arrived, unrecorded>>

Records(a, x) ==
    /\ deliveries' = RecordDelivery(a, x, "sent", x.ext)
    /\ sweep' = Recorded(a)
    /\ UNCHANGED <<room, upsets, table, cool, arrived, unrecorded>>

Lost(a) == unrecorded \cup {<<x.line, x.gw>> : x \in sweep[a].sent}

RecordFails(a) ==
    /\ Upset
    /\ unrecorded' = Lost(a)
    /\ sweep' = Recorded(a)
    /\ UNCHANGED <<room, deliveries, table, cool, arrived>>

(* The process ends: the batch is gone, and so is what it remembered of failures. *)
Crash(a) ==
    /\ sweep[a] # Idle /\ Upset
    /\ unrecorded' = Lost(a)
    /\ sweep' = [sweep EXCEPT ![a] = Idle] /\ cool' = [cool EXCEPT ![a] = {}]
    /\ UNCHANGED <<room, deliveries, table, arrived>>

(* failureCooldown has passed. *)
CoolsDown(a, id) ==
    /\ id \in cool[a]
    /\ cool' = [cool EXCEPT ![a] = @ \ {id}]
    /\ UNCHANGED <<room, deliveries, upsets, table, sweep, arrived, unrecorded>>

----------------------------------------------------------------------------
(* The way back.                                                             *)

(* The lines a quoted message may be; the query takes one. *)
ForwardedMessage(a, ext) ==
    {x \in deliveries : /\ x.agent = a /\ x.ext = ext /\ x.state = "sent" /\ ext # NoExt
                        /\ \E d \in Telegram : gw[d].id = x.gw}

ThreadOf(l) == IF room[l].root = 0 THEN l ELSE room[l].root

(* channelReply: the answer is written as the owner, in the thread of the line. *)
OwnerReplies(x) ==
    \E src \in ForwardedMessage(x.by, x.ext) : OwnerSays(ThreadOf(src.line))

----------------------------------------------------------------------------
SweepSteps(a) ==
    \/ Sweeps(a)
    \/ \E f \in Turn(a) : \/ LeavesAlone(a, f) \/ Skips(a, f) \/ Undecided(a, f)
                          \/ Sends(a, f) \/ Refused(a, f)
    \/ \E x \in sweep[a].sent : Records(a, x) \/ RecordFails(a)

Next ==
    \/ \E root \in 0..Len(room), is \in {"said", "working"} : AgentSays(root, is)
    \/ \E root \in 0..Len(room) : OwnerSays(root)
    \/ \E l \in DOMAIN room : NotesMention(l) \/ Lands(l)
    \/ \E d \in Targets, mode \in Modes :
           \E a \in Agents : \/ ChBind(d, a, mode)
                             \/ \E target \in Targets : HandleChannelBind(d, a, mode, target)
    \/ \E d \in Targets : RemoveChannelGateway(d)
    \/ \E a \in Agents : SweepSteps(a) \/ Crash(a) \/ \E id \in cool[a] : CoolsDown(a, id)
    \/ \E x \in arrived : OwnerReplies(x)

(* The ticker of every process comes round, its sweeps go on, and time passes;  *)
(* a process that ended is started again by its service.                      *)
Spec ==
    /\ Init /\ [][Next]_vars
    /\ \A a \in Agents : /\ WF_vars(SweepSteps(a))
                         /\ \A d \in Targets : WF_vars(CoolsDown(a, gw[d].id))

----------------------------------------------------------------------------
(* A batch is of gateways that were made, of lines that are there and are not    *)
(* progress lines any more; a line has one delivery per gateway.              *)
TypeOK ==
    /\ \A d \in Targets : gw[d].id \in 0..made /\ gw[d].mode \in Modes
    /\ \A d, e \in Targets : Bound(d) /\ gw[d].id = gw[e].id => d = e
    /\ \A a \in Agents : \A f \in Held(a) :
          f.gw \in 1..made /\ f.line \in DOMAIN room /\ room[f.line].is # "working"
    /\ \A x, y \in deliveries : x.line = y.line /\ x.gw = y.gw => x = y

(* No line reaches a target twice, whoever carries its gateways one after the    *)
(* other, unless the record of the first time was lost, a gateway was given to   *)
(* another agent while the first still had it in its batch, or was pointed at    *)
(* another target: deliveries are kept per gateway (gateways.go:75-80, 335-346). *)
OncePerTarget ==
    \A x, y \in arrived :
        x # y /\ x.line = y.line /\ x.to = y.to =>
            {<<x.line, x.gw>>, <<y.line, y.gw>>} \cap unrecorded # {} \/ {x.gw, y.gw} \cap moved # {}

(* What was said while a gateway was paused is not sent when it is turned back   *)
(* on by an edit (gateways.go:82-84, 243-260).                                *)
PauseStaysSilent ==
    \A x \in arrived : <<x.gw, x.line>> \in quiet => x.gw \in rebound

(* A reply to what a bot sent finds the line it was, and no other, as long as    *)
(* the gateway is there: whoever carries it by now, and wherever it speaks      *)
(* (gateways.go:278-280, 492-495, coord.go:517-519).                                   *)
RepliesFindTheirLine ==
    \A x \in arrived :
        /\ x.ext # NoExt => \A src \in ForwardedMessage(x.by, x.ext) : src.line = x.line
        /\ (\E src \in deliveries : src.line = x.line /\ src.gw = x.gw /\ src.agent = x.by
                                    /\ src.state = "sent" /\ src.ext = x.ext)
           /\ x.ext # NoExt /\ (\E d \in Targets : gw[d].id = x.gw)
           => ForwardedMessage(x.by, x.ext) # {}

(* A line owed to a target that answers leaves for it, or is declined, or the    *)
(* gateway is changed first: a dead target starves itself only                *)
(* (gateways.go:348-353).                                                    *)
LinesLeave ==
    \A d \in Targets \ Dead : \A l \in 1..MaxLines :
        (gw[d].mode # "off" /\ l \in Pending(d)) ~> ~(gw[d].mode # "off" /\ l \in Pending(d))

(* What is true of the gateways at every moment, their types included. *)
ForwardingSafe == TypeOK /\ OncePerTarget /\ PauseStaysSilent /\ RepliesFindTheirLine

=============================================================================
