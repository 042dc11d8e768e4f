--------------------------- MODULE ForwardingProofs ---------------------------
(***************************************************************************)
(* What a room sends out is safe for every number of agents, targets, lines and  *)
(* edits: the four parts of ForwardingSafe are invariants of Forwarding.       *)
(*                                                                         *)
(* The argument: the record of a gateway names one carrier, so at most one       *)
(* process holds its lines in a batch (OneHolder); what it sent is settled or is  *)
(* the send it has not recorded yet (Accounted), and what it still holds was     *)
(* never sent (Fresh).  Two gateways of one target follow each other, and the    *)
(* later one starts behind all lines of the first (Successors).              *)
(***************************************************************************)
EXTENDS Forwarding, FiniteSetTheorems, SequenceTheorems, TLAPS

Lines == [by : {"agent", "owner"}, root : Nat, is : {"said", "working", "landed"}, noted : BOOLEAN]
GatewayRows == [id : Nat, carrier : Agents \cup {"none"}, mode : Modes, since : Nat]
Forwards == [line : Nat, gw : Nat, to : Targets, mode : Modes]
Arrivals == [line : Nat, gw : Nat, to : Targets, by : Agents, ext : Nat, nth : Nat]
Deliveries == [line : Nat, gw : Nat, state : {"sent", "skipped"}, ext : Nat, agent : Agents]

(* The types of the state, and the bounds that are counted up to. *)
Types ==
    /\ room \in Seq(Lines)
    /\ gw \in [Targets -> GatewayRows] /\ made \in Nat
    /\ deliveries \subseteq Deliveries
    /\ sweep \in [Agents -> [batch : SUBSET Forwards, sent : SUBSET Arrivals,
                             follows : SUBSET (Nat \X BOOLEAN)]]
    /\ arrived \subseteq Arrivals /\ IsFiniteSet(arrived)

(* A gateway's id is its own and was given out; what was said under its pause is  *)
(* behind its cut-off once it is on again, unless it was registered anew.        *)
Gateways ==
    /\ \A d \in Targets : gw[d].id <= made /\ (Bound(d) => gw[d].id # 0)
    /\ \A d, e \in Targets : Bound(d) /\ gw[d].id = gw[e].id => d = e
    /\ \A q \in quiet : q[1] \in 1..made /\ q[2] \in DOMAIN room
    /\ \A d \in Targets : \A q \in quiet :
          Bound(d) /\ gw[d].mode # "off" /\ q[1] = gw[d].id /\ q[1] \notin rebound
              => q[2] <= gw[d].since

(* A line that was sent or waits in a batch: it is there, of a gateway that was   *)
(* made, which does not change its kind, and was not said under a pause.        *)
Sound(f) ==
    /\ f.gw \in 1..made /\ f.line \in DOMAIN room /\ room[f.line].is # "working"
    /\ \A d \in Targets : gw[d].id = f.gw => (f.to \in Telegram <=> d \in Telegram)
    /\ <<f.gw, f.line>> \in quiet => f.gw \in rebound
    /\ LET g == gw[f.to] IN
       Bound(f.to) /\ {f.gw, g.id} \cap moved = {} =>
           f.gw <= g.id /\ (f.gw < g.id => f.line <= g.since)

(* Of two gateways of a target, the later sends later lines. *)
Successors(f, g) ==
    f.to = g.to /\ f.gw < g.gw /\ {f.gw, g.gw} \cap moved = {} => f.line < g.line

Known == arrived \cup UNION {sweep[a].batch : a \in Agents}

Doubtful(f) == f.gw \in moved \/ <<f.line, f.gw>> \in unrecorded

(* A process carries what it holds, and holds it once. *)
Holding(a) ==
    /\ \A x \in sweep[a].sent : x \in arrived /\ x.by = a
    /\ \A x, y \in sweep[a].sent : x = y
    /\ \A f \in sweep[a].batch : \A x \in sweep[a].sent : x.line # f.line \/ x.gw # f.gw
    /\ \A f, g \in sweep[a].batch : f.line = g.line /\ f.gw = g.gw => f = g
    /\ \A f \in Held(a) : \A d \in Targets :
          gw[d].id = f.gw /\ f.gw \notin moved => gw[d].carrier = a

OneHolder(a, b) ==
    \A f \in Held(a), g \in Held(b) :
        f.gw = g.gw => a = b \/ f.gw \in moved

(* What waits was not sent. *)
Fresh(f) ==
    Doubtful(f) \/ (~Settled(f.line, f.gw) /\ \A x \in arrived : x.line # f.line \/ x.gw # f.gw)

(* What was sent is settled, or about to be. *)
Accounted(x) == Doubtful(x) \/ Settled(x.line, x.gw) \/ x \in sweep[x.by].sent

Single(x, y) == x.line = y.line /\ x.gw = y.gw => x = y \/ Doubtful(x)

(* A bot's numbers are its own. *)
Counted(x) ==
    /\ x.ext # NoExt => x.ext <= Cardinality(Numbered(x.by))
    /\ x.ext # NoExt <=> x.to \in Telegram
    /\ \A y \in arrived : x.by = y.by /\ x.ext = y.ext /\ x.ext # NoExt => x = y

Sourced(s) ==
    s.state = "sent" =>
        \E x \in arrived : x.by = s.agent /\ x.ext = s.ext /\ x.line = s.line /\ x.gw = s.gw

Inv ==
    /\ Types
    /\ Gateways
    /\ \A f \in Known : Sound(f)
    /\ \A f, g \in Known : Successors(f, g)
    /\ \A a \in Agents : Holding(a)
    /\ \A a, b \in Agents : OneHolder(a, b)
    /\ \A a \in Agents : \A f \in sweep[a].batch : Fresh(f)
    /\ \A x \in arrived : Accounted(x) /\ Counted(x)
    /\ \A x, y \in arrived : Single(x, y)
    /\ \A s \in deliveries : Sourced(s)
    /\ \A s, t \in deliveries : s.line = t.line /\ s.gw = t.gw => s = t


----------------------------------------------------------------------------
(* Steps that leave all of it alone. *)
LEMMA Unmoved ==
    ASSUME Inv,
           UNCHANGED <<room, gw, made, deliveries, sweep, arrived, quiet, rebound, unrecorded, moved>>
    PROVE  Inv'
  <1>1. Types' /\ Gateways' /\ Known' = Known
    BY DEF Inv, Types, Gateways, Known, Bound
  <1>2. \A f \in Known' : Sound(f)'
    BY <1>1 DEF Inv, Sound, Bound
  <1>3. \A f, g \in Known' : Successors(f, g)'
    BY <1>1 DEF Inv, Successors
  <1>4. \A a \in Agents : Holding(a)'
    BY DEF Inv, Holding, Held
  <1>5. \A a, b \in Agents : OneHolder(a, b)'
    BY DEF Inv, OneHolder, Held
  <1>6. \A a \in Agents : \A f \in sweep'[a].batch : Fresh(f)'
    BY DEF Inv, Fresh, Doubtful, Settled
  <1>7. \A x \in arrived' : Accounted(x)' /\ Counted(x)'
    BY DEF Inv, Accounted, Doubtful, Settled, Counted, Numbered
  <1>8. \A x, y \in arrived' : Single(x, y)'
    BY DEF Inv, Single, Doubtful
  <1>9. \A s \in deliveries' : Sourced(s)'
    BY DEF Inv, Sourced
  <1>. QED
    BY <1>1, <1>2, <1>3, <1>4, <1>5, <1>6, <1>7, <1>8, <1>9 DEF Inv

(* The room grows, or one of its lines changes: only progress lines do, and what *)
(* was said under a pause is new.                                             *)
LEMMA RoomChanges ==
    ASSUME Inv,
           UNCHANGED <<gw, made, deliveries, sweep, arrived, rebound, unrecorded, moved>>,
           room' \in Seq(Lines), DOMAIN room \subseteq DOMAIN room',
           \A l \in DOMAIN room : room[l].is # "working" => room'[l].is # "working",
           \A q \in quiet' : \/ q \in quiet
                             \/ /\ q[2] \in DOMAIN room' \ DOMAIN room
                                /\ \E d \in Targets : Bound(d) /\ gw[d].mode = "off" /\ q[1] = gw[d].id
    PROVE  Inv'
  <1>1. Types' /\ Known' = Known
    BY DEF Inv, Types, Known
  <1>2. Gateways'
    <2>1. \A q \in quiet' : q[1] \in 1..made /\ q[2] \in DOMAIN room'
      BY DEF Inv, Types, Gateways, GatewayRows
    <2>2. \A d \in Targets : \A q \in quiet' :
             Bound(d) /\ gw[d].mode # "off" /\ q[1] = gw[d].id /\ q[1] \notin rebound
                 => q[2] <= gw[d].since
      BY DEF Inv, Gateways
    <2>. QED
      BY <2>1, <2>2 DEF Inv, Gateways, Bound
  <1>3. \A f \in Known' : Sound(f)'
    <2> SUFFICES ASSUME NEW f \in Known PROVE Sound(f)'
      BY <1>1
    <2>1. Sound(f)
      BY DEF Inv
    <2>2. <<f.gw, f.line>> \in quiet' => <<f.gw, f.line>> \in quiet
      BY <2>1 DEF Sound
    <2>. QED
      BY <2>1, <2>2 DEF Sound, Bound
  <1>4. \A f, g \in Known' : Successors(f, g)'
    BY <1>1 DEF Inv, Successors
  <1>5. \A a \in Agents : Holding(a)'
    BY DEF Inv, Holding, Held
  <1>6. \A a, b \in Agents : OneHolder(a, b)'
    BY DEF Inv, OneHolder, Held
  <1>7. \A a \in Agents : \A f \in sweep'[a].batch : Fresh(f)'
    BY DEF Inv, Fresh, Doubtful, Settled
  <1>8. \A x \in arrived' : Accounted(x)' /\ Counted(x)'
    BY DEF Inv, Accounted, Doubtful, Settled, Counted, Numbered
  <1>9. \A x, y \in arrived' : Single(x, y)'
    BY DEF Inv, Single, Doubtful
  <1>10. \A s \in deliveries' : Sourced(s)'
    BY DEF Inv, Sourced
  <1>. QED
    BY <1>1, <1>2, <1>3, <1>4, <1>5, <1>6, <1>7, <1>8, <1>9, <1>10 DEF Inv

LEMMA SaysStep ==
    ASSUME Inv, NEW line \in Lines, Says(line)
    PROVE  Inv'
  <1>. USE DEF Inv
  <1>1. room \in Seq(Lines) /\ gw \in [Targets -> GatewayRows]
    BY DEF Types
  <1>2. room' = Append(room, line)
    BY DEF Says
  <1>3. room' \in Seq(Lines) /\ Len(room') = Len(room) + 1 /\ Len(room) \in Nat
        /\ \A l \in 1..Len(room) : room'[l] = room[l]
    BY <1>1, <1>2, AppendProperties, LenProperties
  <1>4. DOMAIN room = 1..Len(room) /\ DOMAIN room' = 1..Len(room')
    BY <1>1, <1>3, LenProperties
  <1>5. \A q \in quiet' : \/ q \in quiet
                         \/ /\ q[2] \in DOMAIN room' \ DOMAIN room
                            /\ \E d \in Targets : Bound(d) /\ gw[d].mode = "off" /\ q[1] = gw[d].id
    BY <1>3, <1>4 DEF Says
  <1>. HIDE DEF Inv
  <1>6. UNCHANGED <<gw, made, deliveries, sweep, arrived, rebound, unrecorded, moved>>
    BY DEF Says, watch
  <1>7. DOMAIN room \subseteq DOMAIN room'
    BY <1>3, <1>4
  <1>8. \A l \in DOMAIN room : room[l].is # "working" => room'[l].is # "working"
    BY <1>3, <1>4
  <1>. QED
    BY <1>3, <1>5, <1>6, <1>7, <1>8, RoomChanges

LEMMA LineStep ==
    ASSUME Inv, NEW l \in DOMAIN room, NotesMention(l) \/ Lands(l)
    PROVE  Inv'
  <1>1. room \in Seq(Lines)
    BY DEF Inv, Types
  <1>2. Len(room) \in Nat /\ room \in [1..Len(room) -> Lines] /\ DOMAIN room = 1..Len(room)
    BY <1>1, LenProperties
  <1>3. \A k \in DOMAIN room : /\ [room[k] EXCEPT !.noted = TRUE] \in Lines
                              /\ [room[k] EXCEPT !.is = "landed"] \in Lines
    BY <1>2 DEF Lines
  <1>4. room' \in [1..Len(room) -> Lines] /\ DOMAIN room' = DOMAIN room
    BY <1>2, <1>3 DEF NotesMention, Lands
  <1>5. room' \in Seq(Lines)
    BY <1>2, <1>4
  <1>6. \A k \in DOMAIN room : room[k].is # "working" => room'[k].is # "working"
    BY <1>2 DEF NotesMention, Lands, Lines
  <1>7. UNCHANGED <<gw, made, deliveries, sweep, arrived, rebound, unrecorded, moved, quiet>>
    BY DEF NotesMention, Lands, watch, table
  <1>. QED
    BY <1>4, <1>5, <1>6, <1>7, RoomChanges

----------------------------------------------------------------------------
(* The table of gateways changes: what is left to show of a change. *)
LEMMA TableChanges ==
    ASSUME Inv, UNCHANGED <<room, deliveries, sweep, arrived, quiet, unrecorded>>,
           moved \subseteq moved', gw' \in [Targets -> GatewayRows], made' \in Nat, Gateways',
           \A f \in Known : Sound(f)',
           \A a \in Agents : \A f \in Held(a) : \A d \in Targets :
               gw'[d].id = f.gw /\ f.gw \notin moved' => gw'[d].carrier = a
    PROVE  Inv'
  <1>1. Types' /\ Known' = Known
    BY DEF Inv, Types, Known
  <1>2. \A f \in Known' : Sound(f)'
    BY <1>1
  <1>3. \A f, g \in Known' : Successors(f, g)'
    BY <1>1 DEF Inv, Successors
  <1>4. \A a \in Agents : Holding(a)'
    BY DEF Inv, Holding, Held
  <1>5. \A a, b \in Agents : OneHolder(a, b)'
    BY DEF Inv, OneHolder, Held
  <1>6. \A a \in Agents : \A f \in sweep'[a].batch : Fresh(f)'
    BY DEF Inv, Fresh, Doubtful, Settled
  <1>7. \A x \in arrived' : Accounted(x)' /\ Counted(x)'
    BY DEF Inv, Accounted, Doubtful, Settled, Counted, Numbered
  <1>8. \A x, y \in arrived' : Single(x, y)'
    BY DEF Inv, Single, Doubtful
  <1>9. \A x \in deliveries' : Sourced(x)'
    BY DEF Inv, Sourced
  <1>. QED
    BY <1>1, <1>2, <1>3, <1>4, <1>5, <1>6, <1>7, <1>8, <1>9 DEF Inv

(* What the invariant says of what is known, in the bounds of the room. *)
LEMMA KnownFacts ==
    ASSUME Inv, NEW f \in Known
    PROVE  /\ Sound(f) /\ f.gw \in Nat /\ f.line \in Nat /\ f.to \in Targets
           /\ f.gw \in 1..made /\ f.line \in 1..Len(room) /\ Len(room) \in Nat
  <1>1. Types /\ Sound(f)
    BY DEF Inv
  <1>2. Len(room) \in Nat /\ DOMAIN room = 1..Len(room)
    BY <1>1, LenProperties DEF Types
  <1>3. f \in Arrivals \/ f \in Forwards
    BY <1>1 DEF Types, Known
  <1>. QED
    BY <1>1, <1>2, <1>3 DEF Sound, Arrivals, Forwards

LEMMA HeldIsKnown ==
    ASSUME Inv, NEW a \in Agents, NEW f \in Held(a)
    PROVE  f \in Known
  BY DEF Inv, Holding, Held, Known

LEMMA CutOffsAreBehind ==
    ASSUME Inv, NEW since \in CutOffs
    PROVE  since \in Nat /\ \A l \in DOMAIN room : l <= since
  <1>1. Len(room) \in Nat /\ DOMAIN room = 1..Len(room)
    BY LenProperties DEF Inv, Types
  <1>. QED
    BY <1>1 DEF CutOffs

LEMMA AddsNewStep ==
    ASSUME Inv, NEW d \in Targets, NEW a \in Agents, NEW mode \in Modes, NEW since \in CutOffs,
           ~Bound(d), made' = made + 1,
           gw' = [gw EXCEPT ![d] = [id |-> made + 1, carrier |-> a, mode |-> mode, since |-> since]],
           UNCHANGED <<room, deliveries, sweep, arrived, quiet, unrecorded, moved, rebound>>
    PROVE  Inv'
  <1>1. Types /\ Gateways /\ since \in Nat /\ \A l \in DOMAIN room : l <= since
    BY CutOffsAreBehind DEF Inv
  <1>. DEFINE row == [id |-> made + 1, carrier |-> a, mode |-> mode, since |-> since]
  <1>2. row \in GatewayRows /\ row # NoGateway /\ row.id = made + 1 /\ row.since = since /\ row.carrier = a
    BY <1>1 DEF Types, GatewayRows, NoGateway
  <1>3. /\ gw' \in [Targets -> GatewayRows] /\ made' \in Nat /\ made \in Nat
        /\ gw'[d] = row /\ \A e \in Targets \ {d} : gw'[e] = gw[e]
    BY <1>1, <1>2 DEF Types
  <1>. HIDE DEF row
  <1>4. \A e \in Targets : gw[e].id \in Nat
    BY <1>1 DEF Types, GatewayRows
  <1>5. Gateways'
    <2>1. \A e \in Targets : gw'[e].id <= made' /\ (Bound(e)' => gw'[e].id # 0)
      BY <1>1, <1>2, <1>3, <1>4 DEF Gateways, Bound
    <2>2. \A e, k \in Targets : Bound(e)' /\ gw'[e].id = gw'[k].id => e = k
      BY <1>1, <1>2, <1>3, <1>4 DEF Gateways, Bound
    <2>3. \A q \in quiet : q[1] \in 1..made' /\ q[1] # made + 1 /\ q[2] \in DOMAIN room
      BY <1>1, <1>3 DEF Gateways
    <2>4. \A e \in Targets : \A q \in quiet :
             Bound(e)' /\ gw'[e].mode # "off" /\ q[1] = gw'[e].id /\ q[1] \notin rebound
                 => q[2] <= gw'[e].since
      BY <1>1, <1>2, <1>3, <2>3 DEF Gateways, Bound
    <2>. QED
      BY <2>1, <2>2, <2>3, <2>4 DEF Gateways
  <1>6. ASSUME NEW f \in Known PROVE Sound(f)'
    <2>1. /\ Sound(f) /\ f.gw \in Nat /\ f.line \in Nat /\ f.to \in Targets
          /\ f.gw \in 1..made /\ f.line <= since
      BY <1>1, KnownFacts DEF Sound
    <2>2. \A e \in Targets : gw'[e].id = f.gw => (f.to \in Telegram <=> e \in Telegram)
      BY <1>2, <1>3, <2>1 DEF Sound
    <2>3. f.gw \in 1..made'
      BY <1>3, <2>1
    <2>4. Bound(f.to)' /\ {f.gw, gw'[f.to].id} \cap moved = {} =>
              f.gw <= gw'[f.to].id /\ (f.gw < gw'[f.to].id => f.line <= gw'[f.to].since)
      <3>1. CASE f.to = d
        BY <1>2, <1>3, <2>1, <3>1
      <3>2. CASE f.to # d
        BY <1>3, <2>1, <3>2 DEF Sound, Bound
      <3>. QED
        BY <3>1, <3>2
    <2>. QED
      BY <2>1, <2>2, <2>3, <2>4 DEF Sound
  <1>7. ASSUME NEW b \in Agents, NEW f \in Held(b), NEW e \in Targets,
               gw'[e].id = f.gw, f.gw \notin moved'
        PROVE  gw'[e].carrier = b
    <2>1. f.gw \in 1..made
      BY HeldIsKnown, KnownFacts
    <2>2. e # d
      BY <1>2, <1>3, <1>7, <2>1
    <2>. QED
      BY <1>3, <1>7, <2>2 DEF Inv, Holding
  <1>. QED
    BY <1>3, <1>5, <1>6, <1>7, TableChanges

(* Registering a bound target again: its carrier and mode change, its id and its  *)
(* cut-off stay.                                                            *)
LEMMA AddsAgainStep ==
    ASSUME Inv, NEW d \in Targets, NEW a \in Agents, NEW mode \in Modes, Bound(d),
           gw' = [gw EXCEPT ![d].carrier = a, ![d].mode = mode],
           rebound' = IF gw[d].mode = "off" /\ mode # "off" THEN rebound \cup {gw[d].id} ELSE rebound,
           moved' = IF \E b \in Agents \ {a} : HeldBy(b, gw[d].id) THEN moved \cup {gw[d].id} ELSE moved,
           UNCHANGED <<room, made, deliveries, sweep, arrived, quiet, unrecorded>>
    PROVE  Inv'
  <1>1. Types /\ Gateways
    BY DEF Inv
  <1>2. gw \in [Targets -> GatewayRows] /\ gw[d] \in GatewayRows /\ made \in Nat
    BY <1>1 DEF Types
  <1>3. [gw[d] EXCEPT !.carrier = a, !.mode = mode] \in GatewayRows
    BY <1>2 DEF GatewayRows
  <1>4. gw' \in [Targets -> GatewayRows]
    BY <1>2, <1>3 DEF GatewayRows
  <1>5. /\ \A e \in Targets \ {d} : gw'[e] = gw[e]
        /\ gw'[d].id = gw[d].id /\ gw'[d].since = gw[d].since
        /\ gw'[d].carrier = a /\ gw'[d].mode = mode
    BY <1>2 DEF GatewayRows
  <1>6. gw[d].id # 0 /\ gw'[d].id # 0 /\ Bound(d)'
    <2>1. gw[d].id # 0
      BY <1>1 DEF Gateways
    <2>2. NoGateway.id = 0
      BY DEF NoGateway
    <2>3. gw'[d] # NoGateway
      BY <1>5, <2>1, <2>2
    <2>. QED
      BY <1>5, <2>1, <2>3 DEF Bound
  <1>7. moved \subseteq moved' /\ rebound \subseteq rebound'
    OBVIOUS
  <1>8. Gateways'
    <2>1. ASSUME NEW e \in Targets PROVE gw'[e].id <= made /\ (Bound(e)' => gw'[e].id # 0)
      <3>1. gw[e].id <= made /\ (gw[e] # NoGateway => gw[e].id # 0)
        BY <1>1 DEF Gateways, Bound
      <3>. QED
        BY <1>5, <1>6, <3>1 DEF Bound
    <2>2. \A e, k \in Targets : Bound(e)' /\ gw'[e].id = gw'[k].id => e = k
      <3>1. \A e \in Targets : gw'[e].id = gw[e].id /\ (Bound(e)' => Bound(e))
        BY <1>5 DEF Bound
      <3>. QED
        BY <1>1, <3>1 DEF Gateways
    <2>4. ASSUME NEW e \in Targets, NEW q \in quiet, Bound(e)', gw'[e].mode # "off",
                 q[1] = gw'[e].id, q[1] \notin rebound'
          PROVE  q[2] <= gw'[e].since
      <3>1. CASE e = d
        <4>1. q[1] = gw[d].id /\ q[1] \notin rebound /\ gw[d].mode # "off"
          BY <1>5, <1>7, <2>4, <3>1
        <4>. QED
          BY <1>1, <1>5, <3>1, <4>1 DEF Gateways
      <3>2. CASE e # d
        BY <1>1, <1>5, <1>7, <2>4, <3>2 DEF Gateways, Bound
      <3>. QED
        BY <3>1, <3>2
    <2>. QED
      BY <1>1, <2>1, <2>2, <2>4 DEF Gateways
  <1>9. ASSUME NEW f \in Known PROVE Sound(f)'
    <2>1. Sound(f) /\ f.to \in Targets
      BY KnownFacts
    <2>2. \A e \in Targets : gw'[e].id = gw[e].id /\ gw'[e].since = gw[e].since /\ (Bound(e)' <=> Bound(e))
      BY <1>5, <1>6 DEF Bound
    <2>. QED
      BY <1>7, <2>1, <2>2 DEF Sound
  <1>10. ASSUME NEW b \in Agents, NEW f \in Held(b), NEW e \in Targets,
               gw'[e].id = f.gw, f.gw \notin moved'
        PROVE  gw'[e].carrier = b
    <2>1. CASE e = d
      <3>1. HeldBy(b, gw[d].id)
        BY <1>5, <1>10, <2>1 DEF HeldBy
      <3>2. b = a
        BY <1>5, <1>10, <2>1, <3>1
      <3>. QED
        BY <1>5, <2>1, <3>2
    <2>2. CASE e # d
      <3>1. gw[e].id = f.gw /\ gw'[e].carrier = gw[e].carrier
        BY <1>5, <1>10, <2>2
      <3>2. f.gw \notin moved
        BY <1>7, <1>10
      <3>. QED
        BY <3>1, <3>2 DEF Inv, Holding
    <2>. QED
      BY <2>1, <2>2
  <1>. QED
    BY <1>2, <1>4, <1>7, <1>8, <1>9, <1>10, TableChanges

(* An edit: it may point the gateway at another target of its kind; turned on     *)
(* again, its cut-off is behind everything said.                             *)
LEMMA UpdateStep ==
    ASSUME Inv, NEW d \in Targets, NEW mode \in Modes, NEW target \in Targets,
           UpdateChannelGateway(d, mode, target)
    PROVE  Inv'
  <1>1. Types /\ Gateways
    BY DEF Inv
  <1>2. gw \in [Targets -> GatewayRows] /\ gw[d] \in GatewayRows /\ made \in Nat
    BY <1>1 DEF Types
  <1>3. PICK since \in SinceAfter(d, mode) :
            gw' = [t \in Targets |-> IF t = target THEN [gw[d] EXCEPT !.mode = mode, !.since = since]
                                     ELSE IF t = d THEN NoGateway ELSE gw[t]]
    BY DEF UpdateChannelGateway
  <1>4. /\ Bound(d) /\ UNCHANGED <<room, deliveries, sweep, arrived, quiet, unrecorded, rebound, made>>
        /\ target = d \/ (~Bound(target) /\ (target \in Telegram <=> d \in Telegram))
        /\ target # d => gw[d].id \in moved'
        /\ moved \subseteq moved'
    BY DEF UpdateChannelGateway, watch
  <1>5. /\ since \in Nat
        /\ since = gw[d].since \/ \A l \in DOMAIN room : l <= since
        /\ gw[d].mode = "off" /\ mode # "off" => \A l \in DOMAIN room : l <= since
    BY <1>2, <1>3, CutOffsAreBehind DEF SinceAfter, GatewayRows
  <1>6. [gw[d] EXCEPT !.mode = mode, !.since = since] \in GatewayRows /\ NoGateway \in GatewayRows
    BY <1>2, <1>5 DEF GatewayRows, NoGateway, Modes
  <1>7. gw' \in [Targets -> GatewayRows]
    BY <1>2, <1>3, <1>6
  <1>8. /\ gw'[target].id = gw[d].id /\ gw'[target].since = since /\ gw'[target].mode = mode
        /\ gw'[target].carrier = gw[d].carrier
        /\ target # d => gw'[d] = NoGateway
        /\ \A e \in Targets \ {d, target} : gw'[e] = gw[e]
    BY <1>2, <1>3 DEF GatewayRows
  <1>9. /\ gw[d].id # 0 /\ NoGateway.id = 0 /\ NoGateway.mode = "off" /\ gw[d].id \in Nat
        /\ \A e \in Targets : gw[e].id \in Nat
    BY <1>1, <1>2, <1>4 DEF Gateways, NoGateway, GatewayRows, Types
  <1>10. Bound(target)' /\ (target # d => ~Bound(d)')
    BY <1>8, <1>9 DEF Bound
  <1>11. Gateways'
    <2>1. ASSUME NEW e \in Targets PROVE gw'[e].id <= made /\ (Bound(e)' => gw'[e].id # 0)
      <3>1. gw[e].id <= made /\ gw[d].id <= made /\ (gw[e] # NoGateway => gw[e].id # 0)
        BY <1>1 DEF Gateways, Bound
      <3>2. CASE e = target
        BY <1>8, <1>9, <3>1, <3>2
      <3>3. CASE e # target /\ e = d
        BY <1>2, <1>8, <1>9, <1>10, <3>3
      <3>4. CASE e # target /\ e # d
        BY <1>8, <3>1, <3>4 DEF Bound
      <3>. QED
        BY <3>2, <3>3, <3>4
    <2>2. \A e, k \in Targets : Bound(e)' /\ gw'[e].id = gw'[k].id => e = k
      <3>1. \A e, k \in Targets : Bound(e) /\ gw[e].id = gw[k].id => e = k
        BY <1>1 DEF Gateways
      <3>2. \A e \in Targets : Bound(e)' => gw'[e].id # 0
        BY <2>1
      <3>3. ASSUME NEW e \in Targets \ {d, target} PROVE Bound(e)' => Bound(e) /\ gw'[e].id # gw[d].id
        BY <1>4, <1>8, <3>1 DEF Bound
      <3>4. ASSUME NEW e \in Targets, NEW k \in Targets, Bound(e)', gw'[e].id = gw'[k].id, e # k
            PROVE  FALSE
        <4>1. CASE e = target
          <5>1. CASE k = d
            BY <1>8, <1>9, <3>4, <4>1, <5>1
          <5>2. CASE k # d
            BY <1>4, <1>8, <3>1, <3>4, <4>1, <5>2
          <5>. QED
            BY <5>1, <5>2
        <4>2. CASE e # target
          <5>1. e # d
            BY <1>10, <3>4, <4>2
          <5>2. Bound(e) /\ gw'[e].id = gw[e].id /\ gw'[e].id # gw[d].id /\ gw'[e].id # 0
            BY <1>8, <3>2, <3>3, <3>4, <4>2, <5>1
          <5>3. CASE k \in {d, target}
            BY <1>8, <1>9, <3>4, <5>2, <5>3
          <5>4. CASE k \notin {d, target}
            BY <1>8, <3>1, <3>4, <5>2, <5>4
          <5>. QED
            BY <5>3, <5>4
        <4>. QED
          BY <4>1, <4>2
      <3>. QED
        BY <3>4
    <2>3. ASSUME NEW e \in Targets, NEW q \in quiet, Bound(e)', gw'[e].mode # "off",
                 q[1] = gw'[e].id, q[1] \notin rebound
          PROVE  q[2] <= gw'[e].since
      <3>1. CASE e = target
        <4>1. q[1] = gw[d].id /\ q[2] \in DOMAIN room /\ mode # "off"
          BY <1>1, <1>8, <2>3, <3>1 DEF Gateways
        <4>2. CASE gw[d].mode = "off"
          BY <1>5, <1>8, <3>1, <4>1, <4>2
        <4>3. CASE gw[d].mode # "off"
          <5>1. q[2] <= gw[d].since
            BY <1>1, <1>4, <2>3, <4>1, <4>3 DEF Gateways
          <5>. QED
            BY <1>5, <1>8, <3>1, <4>1, <5>1
        <4>. QED
          BY <4>2, <4>3
      <3>2. CASE e # target
        <4>1. e # d
          BY <1>10, <2>3, <3>2
        <4>. QED
          BY <1>1, <1>8, <2>3, <3>2, <4>1 DEF Gateways, Bound
      <3>. QED
        BY <3>1, <3>2
    <2>. QED
      BY <1>1, <1>4, <2>1, <2>2, <2>3 DEF Gateways
  <1>12. ASSUME NEW f \in Known PROVE Sound(f)'
    <2>1. Sound(f) /\ f.to \in Targets /\ f.gw \in Nat /\ f.gw # 0 /\ f.line \in DOMAIN room
      BY KnownFacts DEF Sound
    <2>2. ASSUME NEW e \in Targets, gw'[e].id = f.gw PROVE f.to \in Telegram <=> e \in Telegram
      <3>1. CASE e = target
        BY <1>4, <1>8, <2>1, <2>2, <3>1 DEF Sound
      <3>2. CASE e # target
        BY <1>8, <1>9, <2>1, <2>2, <3>2 DEF Sound
      <3>. QED
        BY <3>1, <3>2
    <2>3. ASSUME Bound(f.to)', {f.gw, gw'[f.to].id} \cap moved' = {}
          PROVE  f.gw <= gw'[f.to].id /\ (f.gw < gw'[f.to].id => f.line <= gw'[f.to].since)
      <3>1. f.gw \notin moved /\ gw'[f.to].id \notin moved /\ gw'[f.to].id \notin moved'
        BY <1>4, <2>3
      <3>2. CASE f.to = target
        <4>1. target = d
          BY <1>4, <1>8, <3>1, <3>2
        <4>2. f.gw <= gw[d].id /\ (f.gw < gw[d].id => f.line <= gw[d].since)
          BY <1>4, <1>8, <2>1, <3>1, <3>2, <4>1 DEF Sound
        <4>. QED
          BY <1>5, <1>8, <2>1, <3>2, <4>1, <4>2
      <3>3. CASE f.to # target
        <4>1. f.to # d
          BY <1>10, <2>3, <3>3
        <4>. QED
          BY <1>8, <2>1, <2>3, <3>1, <3>3, <4>1 DEF Sound, Bound
      <3>. QED
        BY <3>2, <3>3
    <2>. QED
      BY <1>4, <2>1, <2>2, <2>3 DEF Sound
  <1>13. ASSUME NEW b \in Agents, NEW f \in Held(b), NEW e \in Targets,
               gw'[e].id = f.gw, f.gw \notin moved'
        PROVE  gw'[e].carrier = b
    <2>1. f.gw \in Nat /\ f.gw # 0 /\ f.gw \notin moved
      BY <1>4, <1>13, HeldIsKnown, KnownFacts
    <2>2. \A k \in Targets : gw[k].id = f.gw => gw[k].carrier = b
      BY <2>1 DEF Inv, Holding
    <2>3. CASE e = target
      BY <1>8, <1>13, <2>2, <2>3
    <2>4. CASE e # target
      BY <1>8, <1>9, <1>13, <2>1, <2>2, <2>4
    <2>. QED
      BY <2>3, <2>4
  <1>. QED
    BY <1>4, <1>2, <1>7, <1>11, <1>12, <1>13, TableChanges

LEMMA RemoveStep ==
    ASSUME Inv, NEW d \in Targets, RemoveChannelGateway(d)
    PROVE  Inv'
  <1>1. Types /\ Gateways
    BY DEF Inv
  <1>2. gw \in [Targets -> GatewayRows] /\ NoGateway \in GatewayRows
        /\ NoGateway.id = 0 /\ NoGateway.mode = "off"
    BY <1>1 DEF Types, GatewayRows, NoGateway, Modes
  <1>3. UNCHANGED <<room, deliveries, sweep, arrived, quiet, unrecorded, rebound, made, moved>>
    BY DEF RemoveChannelGateway, watch
  <1>4. /\ gw' \in [Targets -> GatewayRows] /\ gw'[d] = NoGateway
        /\ \A e \in Targets \ {d} : gw'[e] = gw[e]
    BY <1>2 DEF RemoveChannelGateway
  <1>5. made \in Nat /\ ~Bound(d)' /\ \A e \in Targets \ {d} : Bound(e)' <=> Bound(e)
    BY <1>1, <1>4 DEF Types, Bound
  <1>6. Gateways'
    <2>1. \A e \in Targets : gw'[e].id <= made /\ (Bound(e)' => gw'[e].id # 0)
      BY <1>1, <1>2, <1>4, <1>5 DEF Gateways
    <2>2. \A e, k \in Targets : Bound(e)' /\ gw'[e].id = gw'[k].id => e = k
      BY <1>1, <1>2, <1>4, <1>5 DEF Gateways
    <2>3. \A e \in Targets : \A q \in quiet :
             Bound(e)' /\ gw'[e].mode # "off" /\ q[1] = gw'[e].id /\ q[1] \notin rebound
                 => q[2] <= gw'[e].since
      BY <1>1, <1>4, <1>5 DEF Gateways
    <2>. QED
      BY <1>1, <1>3, <2>1, <2>2, <2>3 DEF Gateways
  <1>7. ASSUME NEW f \in Known PROVE Sound(f)'
    <2>1. Sound(f) /\ f.to \in Targets /\ f.gw # 0
      BY KnownFacts
    <2>2. \A e \in Targets : gw'[e].id = f.gw => (f.to \in Telegram <=> e \in Telegram)
      BY <1>2, <1>4, <2>1 DEF Sound
    <2>3. Bound(f.to)' => gw'[f.to] = gw[f.to] /\ Bound(f.to)
      BY <1>4, <1>5, <2>1
    <2>. QED
      BY <1>3, <2>1, <2>2, <2>3 DEF Sound
  <1>8. ASSUME NEW b \in Agents, NEW f \in Held(b), NEW e \in Targets,
               gw'[e].id = f.gw, f.gw \notin moved'
        PROVE  gw'[e].carrier = b
    <2>1. f.gw # 0
      BY HeldIsKnown, KnownFacts
    <2>. QED
      BY <1>2, <1>3, <1>4, <1>8, <2>1 DEF Inv, Holding
  <1>. QED
    BY <1>3, <1>4, <1>5, <1>6, <1>7, <1>8, TableChanges

----------------------------------------------------------------------------
(* A process goes on with less of its batch, and what it sent is recorded or in    *)
(* doubt. *)
LEMMA PassesOn ==
    ASSUME Inv, NEW a \in Agents, NEW rest \in SUBSET sweep[a].batch,
           NEW follows \in SUBSET (Nat \X BOOLEAN),
           sweep' = [sweep EXCEPT ![a] = Left(rest, {}, follows)],
           UNCHANGED <<room, gw, made, arrived, quiet, rebound, moved>>,
           unrecorded \subseteq unrecorded', deliveries \subseteq deliveries', deliveries' \subseteq Deliveries,
           \A x \in sweep[a].sent : Doubtful(x)' \/ Settled(x.line, x.gw)',
           \A s \in deliveries' : Sourced(s),
           \A s, t \in deliveries' : s.line = t.line /\ s.gw = t.gw => s = t,
           \A b \in Agents : \A f \in sweep'[b].batch :
               Settled(f.line, f.gw)' => Settled(f.line, f.gw) \/ Doubtful(f)
    PROVE  Inv'
  <1>1. Types
    BY DEF Inv
  <1>2. sweep[a].batch \in SUBSET Forwards
    BY <1>1 DEF Types
  <1>3. Left(rest, {}, follows) \in [batch : SUBSET Forwards, sent : SUBSET Arrivals,
                                   follows : SUBSET (Nat \X BOOLEAN)]
    BY <1>2 DEF Left
  <1>4. /\ \A b \in Agents \ {a} : sweep'[b] = sweep[b]
        /\ sweep'[a].batch = rest /\ sweep'[a].sent = {}
    BY <1>1 DEF Types, Left
  <1>5. Types'
    BY <1>1, <1>3 DEF Types
  <1>6. Gateways'
    BY DEF Inv, Gateways, Bound
  <1>7. \A b \in Agents : sweep'[b].batch \subseteq sweep[b].batch /\ sweep'[b].sent \subseteq sweep[b].sent
    BY <1>4
  <1>8. Known' \subseteq Known /\ \A b \in Agents : Held(b)' \subseteq Held(b)
    BY <1>7 DEF Known, Held
  <1>9. \A f : Doubtful(f) => Doubtful(f)'
    BY DEF Doubtful
  <1>10. \A f \in Known' : Sound(f)'
    BY <1>8 DEF Inv, Sound, Bound
  <1>11. \A f, g \in Known' : Successors(f, g)'
    BY <1>8 DEF Inv, Successors
  <1>12. ASSUME NEW b \in Agents PROVE Holding(b)'
    <2>1. Holding(b)
      BY DEF Inv
    <2>. QED
      BY <1>7, <1>8, <2>1 DEF Holding
  <1>13. \A b, c \in Agents : OneHolder(b, c)'
    BY <1>8 DEF Inv, OneHolder
  <1>14. ASSUME NEW b \in Agents, NEW f \in sweep'[b].batch PROVE Fresh(f)'
    <2>1. Fresh(f)
      BY <1>7 DEF Inv
    <2>. QED
      BY <1>9, <2>1 DEF Fresh
  <1>15. ASSUME NEW x \in arrived PROVE Accounted(x)' /\ Counted(x)'
    <2>1. Accounted(x) /\ Counted(x) /\ x.by \in Agents
      BY <1>1 DEF Inv, Types, Arrivals
    <2>2. Settled(x.line, x.gw) => Settled(x.line, x.gw)'
      BY DEF Settled
    <2>3. Accounted(x)'
      BY <1>4, <1>9, <2>1, <2>2 DEF Accounted
    <2>. QED
      BY <2>1, <2>3 DEF Counted, Numbered
  <1>16. \A x, y \in arrived' : Single(x, y)'
    BY <1>9 DEF Inv, Single
  <1>17. \A s \in deliveries' : Sourced(s)'
    BY DEF Sourced
  <1>18. \A x \in arrived' : Accounted(x)' /\ Counted(x)'
    BY <1>15
  <1>. QED
    BY <1>5, <1>6, <1>10, <1>11, <1>12, <1>13, <1>14, <1>16, <1>17, <1>18 DEF Inv

(* A record settles a line of one holder: nobody else waits to send it, unless    *)
(* the gateway was given away meanwhile.                                      *)
LEMMA RecordSettles ==
    ASSUME Inv, NEW a \in Agents, NEW f \in Held(a), NEW rest \in SUBSET sweep[a].batch, f \notin rest,
           NEW state \in {"sent", "skipped"}, NEW ext \in Nat,
           deliveries' = RecordDelivery(a, f, state, ext),
           state = "sent" => f \in arrived /\ f.by = a /\ f.ext = ext,
           sweep'[a].batch = rest, \A b \in Agents \ {a} : sweep'[b] = sweep[b]
    PROVE  /\ deliveries \subseteq deliveries' /\ deliveries' \subseteq Deliveries
           /\ Settled(f.line, f.gw)'
           /\ \A s \in deliveries' : Sourced(s)
           /\ \A s, t \in deliveries' : s.line = t.line /\ s.gw = t.gw => s = t
           /\ \A b \in Agents : \A g \in sweep'[b].batch :
                  Settled(g.line, g.gw)' => Settled(g.line, g.gw) \/ Doubtful(g)
  <1>. DEFINE s == [line |-> f.line, gw |-> f.gw, state |-> state, ext |-> ext, agent |-> a]
  <1>1. f.gw \in Nat /\ f.line \in Nat /\ deliveries \subseteq Deliveries
    BY HeldIsKnown, KnownFacts DEF Inv, Types
  <1>2. s \in Deliveries /\ s.line = f.line /\ s.gw = f.gw
    BY <1>1 DEF Deliveries
  <1>3. Sourced(s)
    BY DEF Sourced
  <1>. HIDE DEF s
  <1>4. \/ deliveries' = deliveries /\ Settled(f.line, f.gw)
        \/ deliveries' = deliveries \cup {s} /\ ~Settled(f.line, f.gw)
    BY DEF RecordDelivery, s
  <1>5. Settled(f.line, f.gw)'
    BY <1>2, <1>4 DEF Settled
  <1>6. \A t \in deliveries' : t \in deliveries \/ (t = s /\ ~Settled(f.line, f.gw))
    BY <1>4
  <1>7. \A t \in deliveries' : Sourced(t)
    BY <1>3, <1>6 DEF Inv
  <1>8. \A t, u \in deliveries' : t.line = u.line /\ t.gw = u.gw => t = u
    BY <1>2, <1>6 DEF Inv, Settled
  <1>9. ASSUME NEW b \in Agents, NEW g \in sweep'[b].batch, Settled(g.line, g.gw)', ~Settled(g.line, g.gw)
        PROVE  Doubtful(g)
    <2>1. g.line = f.line /\ g.gw = f.gw
      BY <1>2, <1>6, <1>9 DEF Settled
    <2>2. CASE b = a
      <3>1. g \in sweep[a].batch /\ g # f
        BY <1>9, <2>2
      <3>2. Holding(a)
        BY DEF Inv
      <3>. QED
        BY <2>1, <3>1, <3>2 DEF Holding, Held
    <2>3. CASE b # a
      <3>1. g \in Held(b)
        BY <1>9, <2>3 DEF Held
      <3>2. OneHolder(b, a)
        BY DEF Inv
      <3>. QED
        BY <2>1, <2>3, <3>1, <3>2 DEF OneHolder, Doubtful
    <2>. QED
      BY <2>2, <2>3
  <1>10. deliveries \subseteq deliveries' /\ deliveries' \subseteq Deliveries
    BY <1>1, <1>2, <1>4
  <1>. QED
    BY <1>5, <1>7, <1>8, <1>9, <1>10

----------------------------------------------------------------------------
(* What is asked of a mode stays typed. *)
LEMMA AskedType ==
    ASSUME Inv, NEW a \in Agents, NEW f \in sweep[a].batch
    PROVE  Asked(a, f) \in SUBSET (Nat \X BOOLEAN) /\ sweep[a].follows \in SUBSET (Nat \X BOOLEAN)
  <1>1. f.line \in Nat /\ sweep[a].follows \in SUBSET (Nat \X BOOLEAN) /\ room \in Seq(Lines)
        /\ f.line \in DOMAIN room
    BY KnownFacts, HeldIsKnown DEF Inv, Types, Held, Sound
  <1>2. room[f.line].noted \in BOOLEAN
    <2>1. room[f.line] \in Lines
      BY <1>1
    <2>. QED
      BY <2>1 DEF Lines
  <1>3. OwnerFollows(f.line) \in BOOLEAN
    BY <1>2 DEF OwnerFollows
  <1>4. Follows(a, f.line) \in BOOLEAN
    BY <1>3 DEF Follows
  <1>. QED
    BY <1>1, <1>4 DEF Asked

(* A line stays where it is. *)
LEMMA LeavesAloneStep ==
    ASSUME Inv, NEW a \in Agents, NEW f \in Turn(a), LeavesAlone(a, f) \/ Undecided(a, f) \/ Refused(a, f)
    PROVE  Inv'
  <1>1. sweep[a].sent = {} /\ f \in sweep[a].batch
    BY DEF Turn
  <1>2. PICK follows \in {Asked(a, f), sweep[a].follows} :
            sweep' = [sweep EXCEPT ![a] = Left(sweep[a].batch \ {f}, {}, follows)]
    BY DEF LeavesAlone, Undecided, Refused, Passed
  <1>3. follows \in SUBSET (Nat \X BOOLEAN)
    BY <1>1, AskedType
  <1>4. UNCHANGED <<room, gw, made, arrived, quiet, rebound, moved, deliveries, unrecorded>>
    BY DEF LeavesAlone, Undecided, Refused, table
  <1>5. \A s \in deliveries : Sourced(s)
    BY DEF Inv
  <1>6. \A s, t \in deliveries : s.line = t.line /\ s.gw = t.gw => s = t
    BY DEF Inv
  <1>7. deliveries \subseteq Deliveries
    BY DEF Inv, Types
  <1>8. \A l, g : Settled(l, g)' => Settled(l, g)
    BY <1>4 DEF Settled
  <1>9. sweep[a].batch \ {f} \in SUBSET sweep[a].batch
    OBVIOUS
  <1>. QED
    BY <1>1, <1>2, <1>3, <1>4, <1>5, <1>6, <1>7, <1>8, <1>9, PassesOn

LEMMA SkipsStep ==
    ASSUME Inv, NEW a \in Agents, NEW f \in Turn(a), Skips(a, f)
    PROVE  Inv'
  <1>1. sweep[a].sent = {} /\ f \in sweep[a].batch /\ f \in Held(a)
    BY DEF Turn, Held
  <1>. DEFINE rest == sweep[a].batch \ {f}
  <1>2. sweep' = [sweep EXCEPT ![a] = Left(rest, {}, Asked(a, f))]
    BY DEF Skips, Passed
  <1>3. Asked(a, f) \in SUBSET (Nat \X BOOLEAN)
    BY <1>1, AskedType
  <1>4. UNCHANGED <<room, gw, made, arrived, quiet, rebound, moved, unrecorded>>
        /\ deliveries' = RecordDelivery(a, f, "skipped", NoExt)
    BY DEF Skips, table
  <1>5. rest \in SUBSET sweep[a].batch /\ f \notin rest /\ NoExt \in Nat
    BY DEF NoExt
  <1>6. sweep'[a].batch = rest /\ \A b \in Agents \ {a} : sweep'[b] = sweep[b]
    BY <1>2 DEF Inv, Types, Left
  <1>. HIDE DEF rest
  <1>7. /\ deliveries \subseteq deliveries' /\ deliveries' \subseteq Deliveries
        /\ \A s \in deliveries' : Sourced(s)
        /\ \A s, t \in deliveries' : s.line = t.line /\ s.gw = t.gw => s = t
        /\ \A b \in Agents : \A g \in sweep'[b].batch :
               Settled(g.line, g.gw)' => Settled(g.line, g.gw) \/ Doubtful(g)
    BY <1>1, <1>4, <1>5, <1>6, RecordSettles
  <1>. QED
    BY <1>1, <1>2, <1>3, <1>4, <1>5, <1>7, PassesOn

LEMMA RecordsStep ==
    ASSUME Inv, NEW a \in Agents, NEW x \in sweep[a].sent, Records(a, x)
    PROVE  Inv'
  <1>1. /\ x \in Held(a) /\ x \in arrived /\ x.by = a /\ \A y \in sweep[a].sent : y = x
        /\ x \notin sweep[a].batch
    BY DEF Inv, Holding, Held
  <1>2. x.ext \in Nat /\ sweep[a].follows \in SUBSET (Nat \X BOOLEAN)
    BY <1>1 DEF Inv, Types, Arrivals
  <1>3. sweep' = [sweep EXCEPT ![a] = Left(sweep[a].batch, {}, sweep[a].follows)]
    BY DEF Records, Recorded
  <1>4. UNCHANGED <<room, gw, made, arrived, quiet, rebound, moved, unrecorded>>
        /\ deliveries' = RecordDelivery(a, x, "sent", x.ext)
    BY DEF Records, table
  <1>5. sweep'[a].batch = sweep[a].batch /\ \A b \in Agents \ {a} : sweep'[b] = sweep[b]
    BY <1>3 DEF Inv, Types, Left
  <1>6. sweep[a].batch \in SUBSET sweep[a].batch
    OBVIOUS
  <1>7. /\ deliveries \subseteq deliveries' /\ deliveries' \subseteq Deliveries
        /\ Settled(x.line, x.gw)'
        /\ \A s \in deliveries' : Sourced(s)
        /\ \A s, t \in deliveries' : s.line = t.line /\ s.gw = t.gw => s = t
        /\ \A b \in Agents : \A g \in sweep'[b].batch :
               Settled(g.line, g.gw)' => Settled(g.line, g.gw) \/ Doubtful(g)
    BY <1>1, <1>2, <1>4, <1>5, <1>6, RecordSettles
  <1>8. \A y \in sweep[a].sent : Settled(y.line, y.gw)'
    BY <1>1, <1>7
  <1>. QED
    BY <1>2, <1>3, <1>4, <1>6, <1>7, <1>8, PassesOn

LEMMA LosesStep ==
    ASSUME Inv, NEW a \in Agents, RecordFails(a) \/ Crash(a)
    PROVE  Inv'
  <1>1. sweep[a].follows \in SUBSET (Nat \X BOOLEAN) /\ {} \in SUBSET (Nat \X BOOLEAN)
    BY DEF Inv, Types
  <1>2. PICK rest \in {sweep[a].batch, {}}, follows \in {sweep[a].follows, {}} :
            sweep' = [sweep EXCEPT ![a] = Left(rest, {}, follows)]
    <2>1. CASE RecordFails(a)
      BY <2>1 DEF RecordFails, Recorded
    <2>2. CASE Crash(a)
      <3>1. Left({}, {}, {}) = Idle
        BY DEF Left, Idle
      <3>2. sweep' = [sweep EXCEPT ![a] = Left({}, {}, {})]
        BY <2>2, <3>1 DEF Crash
      <3>. QED
        BY <3>2
    <2>. QED
      BY <2>1, <2>2
  <1>3. rest \in SUBSET sweep[a].batch /\ follows \in SUBSET (Nat \X BOOLEAN)
    BY <1>1
  <1>4. UNCHANGED <<room, gw, made, arrived, quiet, rebound, moved, deliveries>>
        /\ unrecorded' = Lost(a)
    BY DEF RecordFails, Crash, table
  <1>5. unrecorded \subseteq unrecorded' /\ \A x \in sweep[a].sent : Doubtful(x)'
    BY <1>4 DEF Lost, Doubtful
  <1>6. \A s \in deliveries : Sourced(s)
    BY DEF Inv
  <1>7. \A s, t \in deliveries : s.line = t.line /\ s.gw = t.gw => s = t
    BY DEF Inv
  <1>8. deliveries \subseteq Deliveries
    BY DEF Inv, Types
  <1>9. \A l, g : Settled(l, g)' => Settled(l, g)
    BY <1>4 DEF Settled
  <1>. QED
    BY <1>2, <1>3, <1>4, <1>5, <1>6, <1>7, <1>8, <1>9, PassesOn

----------------------------------------------------------------------------
(* A line leaves: it takes the place of the forward it was. *)
LEMMA SendsStep ==
    ASSUME Inv, NEW a \in Agents, NEW f \in Turn(a), Sends(a, f)
    PROVE  Inv'
  <1>1. /\ Types /\ sweep[a].sent = {} /\ f \in sweep[a].batch /\ f \in Held(a) /\ f \in Known
        /\ Holding(a)
    BY DEF Turn, Held, Known, Inv
  <1>2. f \in Forwards /\ IsFiniteSet(arrived)
    BY <1>1 DEF Types
  <1>3. Numbered(a) \subseteq arrived
    BY DEF Numbered
  <1>4. IsFiniteSet(Numbered(a))
    BY <1>2, <1>3, FS_Subset
  <1>5. Cardinality(Numbered(a)) \in Nat /\ Cardinality(arrived) \in Nat
    BY <1>2, <1>4, FS_CardinalityType
  <1>. DEFINE rest == sweep[a].batch \ {f}
  <1>0. PICK x : x = Arrival(a, f)
    OBVIOUS
  <1>6. x \in Arrivals
    BY <1>0, <1>2, <1>5 DEF Arrival, Arrivals, Forwards, NoExt
  <1>7. /\ x.line = f.line /\ x.gw = f.gw /\ x.to = f.to /\ x.by = a
        /\ x.ext = IF f.to \in Telegram THEN 1 + Cardinality(Numbered(a)) ELSE NoExt
    BY <1>0 DEF Arrival
  <1>8. /\ arrived' = arrived \cup {x}
        /\ sweep' = [sweep EXCEPT ![a] = Left(rest, {x}, Asked(a, f))]
        /\ UNCHANGED <<room, gw, made, deliveries, quiet, rebound, moved, unrecorded>>
    BY <1>0 DEF Sends, table
  <1>9. Left(rest, {x}, Asked(a, f)) \in [batch : SUBSET Forwards, sent : SUBSET Arrivals,
                                         follows : SUBSET (Nat \X BOOLEAN)]
    <2>1. Asked(a, f) \in SUBSET (Nat \X BOOLEAN)
      BY <1>1, AskedType
    <2>2. rest \in SUBSET Forwards /\ {x} \in SUBSET Arrivals
      BY <1>1, <1>6 DEF Types
    <2>. QED
      BY <2>1, <2>2 DEF Left
  <1>10. /\ \A b \in Agents \ {a} : sweep'[b] = sweep[b]
         /\ sweep'[a].batch = rest /\ sweep'[a].sent = {x}
    BY <1>1, <1>8 DEF Types, Left
  <1>11. Types'
    <2>1. IsFiniteSet(arrived')
      BY <1>2, <1>8, FS_AddElement
    <2>2. arrived' \subseteq Arrivals
      BY <1>1, <1>6, <1>8 DEF Types
    <2>3. sweep' \in [Agents -> [batch : SUBSET Forwards, sent : SUBSET Arrivals,
                                follows : SUBSET (Nat \X BOOLEAN)]]
      BY <1>1, <1>8, <1>9 DEF Types
    <2>. QED
      BY <1>1, <1>8, <2>1, <2>2, <2>3 DEF Types
  <1>12. Gateways'
    BY <1>8 DEF Inv, Gateways, Bound
  <1>13. \A g \in Known' : \E k \in Known : g.line = k.line /\ g.gw = k.gw /\ g.to = k.to
    <2>1. \A b \in Agents : sweep'[b].batch \subseteq sweep[b].batch
      BY <1>10
    <2>2. Known' \subseteq Known \cup {x}
      BY <1>8, <2>1 DEF Known
    <2>. QED
      BY <1>1, <1>7, <2>2
  <1>14. ASSUME NEW g \in Known' PROVE Sound(g)'
    <2>1. PICK k \in Known : g.line = k.line /\ g.gw = k.gw /\ g.to = k.to
      BY <1>13
    <2>2. Sound(k)
      BY DEF Inv
    <2>. QED
      BY <1>8, <2>1, <2>2 DEF Sound, Bound
  <1>15. ASSUME NEW g \in Known', NEW h \in Known' PROVE Successors(g, h)'
    <2>1. PICK k \in Known : g.line = k.line /\ g.gw = k.gw /\ g.to = k.to
      BY <1>13
    <2>2. PICK l \in Known : h.line = l.line /\ h.gw = l.gw /\ h.to = l.to
      BY <1>13
    <2>3. Successors(k, l)
      BY DEF Inv
    <2>. QED
      BY <1>8, <2>1, <2>2, <2>3 DEF Successors
  <1>16. ASSUME NEW b \in Agents PROVE \A g \in Held(b)' : \E k \in Held(b) : g.gw = k.gw
    <2>1. CASE b = a
      BY <1>1, <1>7, <1>10, <2>1 DEF Held
    <2>2. CASE b # a
      BY <1>10, <2>2 DEF Held
    <2>. QED
      BY <2>1, <2>2
  <1>17. ASSUME NEW b \in Agents PROVE Holding(b)'
    <2>1. Holding(b)
      BY DEF Inv
    <2>2. \A g \in Held(b)' : \A d \in Targets : gw'[d].id = g.gw /\ g.gw \notin moved' => gw'[d].carrier = b
      BY <1>8, <1>16, <2>1 DEF Holding
    <2>3. CASE b = a
      <3>1. \A y \in sweep'[b].sent : y \in arrived' /\ y.by = b
        BY <1>7, <1>8, <1>10, <2>3
      <3>2. \A y, z \in sweep'[b].sent : y = z
        BY <1>10, <2>3
      <3>3. \A g \in sweep'[b].batch : \A y \in sweep'[b].sent : y.line # g.line \/ y.gw # g.gw
        BY <1>1, <1>7, <1>10, <2>3 DEF Holding
      <3>4. \A g, h \in sweep'[b].batch : g.line = h.line /\ g.gw = h.gw => g = h
        BY <1>10, <2>1, <2>3 DEF Holding
      <3>. QED
        BY <2>2, <3>1, <3>2, <3>3, <3>4 DEF Holding
    <2>4. CASE b # a
      BY <1>8, <1>10, <2>1, <2>2, <2>4 DEF Holding
    <2>. QED
      BY <2>3, <2>4
  <1>18. ASSUME NEW b \in Agents, NEW c \in Agents PROVE OneHolder(b, c)'
    <2>1. OneHolder(b, c)
      BY DEF Inv
    <2>. QED
      BY <1>8, <1>16, <2>1 DEF OneHolder
  <1>19. ASSUME NEW b \in Agents, NEW g \in sweep'[b].batch PROVE Fresh(g)'
    <2>1. g \in sweep[b].batch /\ Fresh(g)
      BY <1>10 DEF Inv
    <2>2. g.line = f.line /\ g.gw = f.gw => g.gw \in moved
      <3>1. CASE b = a
        BY <1>1, <1>10, <2>1, <3>1 DEF Holding
      <3>2. CASE b # a
        <4>1. OneHolder(b, a) /\ g \in Held(b)
          BY <2>1 DEF Inv, Held
        <4>. QED
          BY <1>1, <3>2, <4>1 DEF OneHolder
      <3>. QED
        BY <3>1, <3>2
    <2>. QED
      BY <1>7, <1>8, <2>1, <2>2 DEF Fresh, Doubtful, Settled
  <1>20. ASSUME NEW y \in arrived' PROVE Accounted(y)'
    <2>1. CASE y = x
      BY <1>7, <1>10, <2>1 DEF Accounted
    <2>2. CASE y # x
      <3>1. y \in arrived /\ Accounted(y) /\ y.by \in Agents
        BY <1>8, <1>11, <2>2 DEF Inv, Types, Arrivals
      <3>2. y \in sweep[y.by].sent => y.by # a
        BY <1>1
      <3>. QED
        BY <1>8, <1>10, <3>1, <3>2 DEF Accounted, Doubtful, Settled
    <2>. QED
      BY <2>1, <2>2
  <1>21. \A y \in arrived' : Counted(y)'
    <2>1. \A b \in Agents \ {a} : Numbered(b)' = Numbered(b)
      BY <1>7, <1>8 DEF Numbered
    <2>2. Numbered(a)' = IF x.ext = NoExt THEN Numbered(a) ELSE Numbered(a) \cup {x}
      BY <1>7, <1>8 DEF Numbered
    <2>3. \A y \in arrived : y.ext \in Nat /\ y.by \in Agents /\ Counted(y)
      BY <1>1 DEF Inv, Types, Arrivals
    <2>4. \A y \in Numbered(a) : y.ext <= Cardinality(Numbered(a))
      BY <2>3 DEF Numbered, Counted
    <2>5. x.ext # NoExt => x \notin Numbered(a)
      BY <1>5, <1>7, <2>4 DEF NoExt
    <2>6. x.ext # NoExt => Cardinality(Numbered(a)') = Cardinality(Numbered(a)) + 1
      BY <1>4, <2>2, <2>5, FS_AddElement
    <2>7. /\ x.ext # NoExt => x.ext = Cardinality(Numbered(a)')
          /\ Cardinality(Numbered(a)') \in Nat
          /\ Cardinality(Numbered(a)) <= Cardinality(Numbered(a)')
      BY <1>5, <1>7, <2>2, <2>6
    <2>8. x.ext # NoExt <=> f.to \in Telegram
      BY <1>5, <1>7 DEF NoExt
    <2>9. \A y \in arrived : y.by = a /\ y.ext # NoExt => y.ext # x.ext
      BY <1>5, <1>7, <2>4 DEF Numbered, NoExt
    <2>10. ASSUME NEW y \in arrived, y # x PROVE Counted(y)'
      <3>1. Counted(y) /\ y.ext \in Nat /\ y.by \in Agents
        BY <2>3
      <3>2. y.ext # NoExt => y.ext <= Cardinality(Numbered(y.by)')
        <4>1. CASE y.by = a
          BY <1>5, <2>7, <3>1, <4>1 DEF Counted
        <4>2. CASE y.by # a
          BY <2>1, <3>1, <4>2 DEF Counted
        <4>. QED
          BY <4>1, <4>2
      <3>3. \A z \in arrived' : y.by = z.by /\ y.ext = z.ext /\ y.ext # NoExt => y = z
        BY <1>7, <1>8, <2>9, <3>1 DEF Counted
      <3>. QED
        BY <3>1, <3>2, <3>3 DEF Counted
    <2>11. Counted(x)'
      <3>1. x.ext # NoExt => x.ext <= Cardinality(Numbered(x.by)')
        BY <1>7, <2>7
      <3>2. x.ext # NoExt <=> x.to \in Telegram
        BY <1>7, <2>8
      <3>3. \A z \in arrived' : x.by = z.by /\ x.ext = z.ext /\ x.ext # NoExt => x = z
        BY <1>7, <1>8, <2>9
      <3>. QED
        BY <3>1, <3>2, <3>3 DEF Counted
    <2>. QED
      BY <1>8, <2>10, <2>11
  <1>22. ASSUME NEW y \in arrived', NEW z \in arrived' PROVE Single(y, z)'
    <2>1. Fresh(f)
      BY <1>1 DEF Inv
    <2>2. \A u \in arrived : u.line = x.line /\ u.gw = x.gw => Doubtful(u) /\ Doubtful(x)
      BY <1>7, <2>1 DEF Fresh, Doubtful
    <2>3. y \in arrived /\ z \in arrived => Single(y, z)
      BY DEF Inv
    <2>. QED
      BY <1>8, <2>2, <2>3 DEF Single, Doubtful
  <1>23. \A s \in deliveries' : Sourced(s)'
    BY <1>8 DEF Inv, Sourced
  <1>24. \A s, t \in deliveries' : s.line = t.line /\ s.gw = t.gw => s = t
    BY <1>8 DEF Inv
  <1>. QED
    BY <1>11, <1>12, <1>14, <1>15, <1>17, <1>18, <1>19, <1>20, <1>21, <1>22, <1>23, <1>24 DEF Inv

----------------------------------------------------------------------------
(* A new batch: lines of gateways the process carries, none settled and none       *)
(* sent. *)
LEMMA SweepsStep ==
    ASSUME Inv, NEW a \in Agents, Sweeps(a)
    PROVE  Inv'
  <1>1. Types /\ Gateways /\ sweep[a].sent = {} /\ sweep[a].batch = {} /\ Held(a) = {}
    BY DEF Inv, Sweeps, Idle, Held
  <1>2. PICK batch : batch = PendingForwards(a)
    OBVIOUS
  <1>3. ASSUME NEW f \in batch
        PROVE  \E d \in Targets :
                  /\ Bound(d) /\ gw[d].carrier = a /\ gw[d].mode # "off" /\ f.line \in Pending(d)
                  /\ f = [line |-> f.line, gw |-> gw[d].id, to |-> d, mode |-> gw[d].mode]
    <2>1. PICK d \in CarriedBy(a) : f \in PendingFor(d)
      BY <1>2 DEF PendingForwards
    <2>2. PICK k \in Pending(d) : f = [line |-> k, gw |-> gw[d].id, to |-> d, mode |-> gw[d].mode]
      BY <2>1 DEF PendingFor
    <2>3. f.line = k
      BY <2>2
    <2>. QED
      BY <2>1, <2>2, <2>3 DEF CarriedBy
  <1>4. \A d \in Targets : gw[d] \in GatewayRows /\ gw[d].id \in Nat /\ gw[d].since \in Nat /\ gw[d].mode \in Modes
    BY <1>1 DEF Types, GatewayRows
  <1>5. room \in Seq(Lines) /\ Len(room) \in Nat /\ DOMAIN room = 1..Len(room)
    BY <1>1, LenProperties DEF Types
  <1>6. ASSUME NEW f \in batch
        PROVE  \E d \in Targets :
                  /\ Bound(d) /\ gw[d].carrier = a /\ gw[d].mode # "off"
                  /\ f.gw = gw[d].id /\ f.to = d /\ f.mode = gw[d].mode /\ f \in Forwards
                  /\ f.line \in DOMAIN room /\ room[f.line].is # "working" /\ f.line > gw[d].since
                  /\ ~Settled(f.line, f.gw)
                  /\ f = [line |-> f.line, gw |-> f.gw, to |-> f.to, mode |-> f.mode]
    <2>1. PICK d \in Targets :
                  /\ Bound(d) /\ gw[d].carrier = a /\ gw[d].mode # "off" /\ f.line \in Pending(d)
                  /\ f = [line |-> f.line, gw |-> gw[d].id, to |-> d, mode |-> gw[d].mode]
      BY <1>3
    <2>2. f.gw = gw[d].id /\ f.to = d /\ f.mode = gw[d].mode
      BY <2>1
    <2>3. /\ f.line \in DOMAIN room /\ room[f.line].is # "working" /\ f.line > gw[d].since
          /\ ~Settled(f.line, f.gw)
      BY <2>1, <2>2 DEF Pending
    <2>4. f.line \in Nat
      BY <1>5, <2>3
    <2>5. f \in Forwards
      BY <1>4, <2>1, <2>4 DEF Forwards
    <2>. QED
      BY <2>1, <2>2, <2>3, <2>5
  <1>7. /\ sweep' = [sweep EXCEPT ![a].batch = batch]
        /\ UNCHANGED <<room, gw, made, deliveries, quiet, rebound, moved, unrecorded, arrived>>
    BY <1>2 DEF Sweeps, table
  <1>8. batch \in SUBSET Forwards
    BY <1>6
  <1>9. [sweep[a] EXCEPT !.batch = batch] \in [batch : SUBSET Forwards, sent : SUBSET Arrivals,
                                             follows : SUBSET (Nat \X BOOLEAN)]
    BY <1>1, <1>8 DEF Types
  <1>10. Types'
    <2>1. sweep' \in [Agents -> [batch : SUBSET Forwards, sent : SUBSET Arrivals,
                                follows : SUBSET (Nat \X BOOLEAN)]]
      BY <1>1, <1>7, <1>9 DEF Types
    <2>. QED
      BY <1>1, <1>7, <2>1 DEF Types
  <1>11. /\ \A b \in Agents \ {a} : sweep'[b] = sweep[b] /\ Held(b)' = Held(b)
         /\ sweep'[a].batch = batch /\ sweep'[a].sent = {} /\ Held(a)' = batch
    BY <1>1, <1>7 DEF Types, Held
  <1>12. Gateways'
    BY <1>7 DEF Inv, Gateways, Bound
  <1>13. \A d, e \in Targets : Bound(d) /\ gw[d].id = gw[e].id => d = e
    BY <1>1 DEF Gateways
  <1>14. Known' = Known \cup batch
    <2>1. \A f : f \in Known <=> f \in arrived \/ \E b \in Agents : f \in sweep[b].batch
      BY DEF Known
    <2>2. \A f : f \in Known' <=> f \in arrived' \/ \E b \in Agents : f \in sweep'[b].batch
      BY DEF Known
    <2>3. \A b \in Agents \ {a} : sweep'[b].batch = sweep[b].batch
      BY <1>11
    <2>4. \A f : (\E b \in Agents : f \in sweep'[b].batch)
                   <=> f \in batch \/ \E b \in Agents : f \in sweep[b].batch
      BY <1>1, <1>11, <2>3
    <2>. QED
      BY <1>7, <2>1, <2>2, <2>4
  <1>15. ASSUME NEW f \in Known' PROVE Sound(f)'
    <2>1. CASE f \in Known
      BY <1>7, <2>1 DEF Inv, Sound, Bound
    <2>2. CASE f \in batch
      <3>1. PICK d \in Targets :
                /\ Bound(d) /\ gw[d].mode # "off" /\ f.gw = gw[d].id /\ f.to = d
                /\ f.line \in DOMAIN room /\ room[f.line].is # "working" /\ f.line > gw[d].since
        BY <1>6, <2>2
      <3>2. f.gw \in 1..made
        BY <1>1, <1>4, <3>1 DEF Gateways, Types
      <3>3. \A e \in Targets : gw[e].id = f.gw => e = d
        BY <1>13, <3>1
      <3>4. <<f.gw, f.line>> \in quiet => f.gw \in rebound
        BY <1>1, <1>4, <1>5, <3>1 DEF Gateways
      <3>5. f.gw <= gw[f.to].id /\ ~(f.gw < gw[f.to].id)
        BY <1>4, <3>1
      <3>. QED
        BY <1>7, <3>1, <3>2, <3>3, <3>4, <3>5 DEF Sound
    <2>. QED
      BY <1>14, <2>1, <2>2
  <1>16. ASSUME NEW f \in Known', NEW g \in Known' PROVE Successors(f, g)'
    <2> SUFFICES ASSUME f.to = g.to, f.gw < g.gw, {f.gw, g.gw} \cap moved = {}
                 PROVE  f.line < g.line
      BY <1>7 DEF Successors
    <2>1. CASE f \in Known /\ g \in Known
      BY <2>1 DEF Inv, Successors
    <2>2. CASE g \in batch
      <3>1. PICK d \in Targets : /\ Bound(d) /\ g.gw = gw[d].id /\ g.to = d
                                 /\ g.line \in DOMAIN room /\ g.line > gw[d].since
        BY <1>6, <2>2
      <3>2. f \notin batch
        BY <1>4, <1>6, <3>1
      <3>3. f \in Known /\ Sound(f) /\ f.line \in Nat
        BY <1>14, <3>2, KnownFacts
      <3>4. f.line <= gw[d].since
        BY <3>1, <3>3 DEF Sound
      <3>. QED
        BY <1>4, <1>5, <3>1, <3>3, <3>4
    <2>3. CASE f \in batch /\ g \in Known
      <3>1. PICK d \in Targets : Bound(d) /\ f.gw = gw[d].id /\ f.to = d
        BY <1>6, <2>3
      <3>2. Sound(g) /\ g.gw \in Nat
        BY <2>3, KnownFacts
      <3>3. g.gw <= gw[d].id
        BY <3>1, <3>2 DEF Sound
      <3>. QED
        BY <1>4, <3>1, <3>2, <3>3
    <2>. QED
      BY <1>14, <2>1, <2>2, <2>3
  <1>17. ASSUME NEW b \in Agents PROVE Holding(b)'
    <2>1. CASE b = a
      <3>1. ASSUME NEW f \in batch, NEW g \in batch, f.line = g.line, f.gw = g.gw PROVE f = g
        <4>1. PICK d \in Targets : Bound(d) /\ f.gw = gw[d].id /\ f.to = d /\ f.mode = gw[d].mode
                                   /\ f = [line |-> f.line, gw |-> f.gw, to |-> f.to, mode |-> f.mode]
          BY <1>6
        <4>2. PICK e \in Targets : Bound(e) /\ g.gw = gw[e].id /\ g.to = e /\ g.mode = gw[e].mode
                                   /\ g = [line |-> g.line, gw |-> g.gw, to |-> g.to, mode |-> g.mode]
          BY <1>6
        <4>3. d = e
          BY <1>13, <3>1, <4>1, <4>2
        <4>4. f.to = g.to /\ f.mode = g.mode
          BY <4>1, <4>2, <4>3
        <4>. QED
          BY <3>1, <4>1, <4>2, <4>4
      <3>2. ASSUME NEW f \in batch, NEW e \in Targets, gw[e].id = f.gw PROVE gw[e].carrier = a
        <4>1. PICK d \in Targets : Bound(d) /\ f.gw = gw[d].id /\ gw[d].carrier = a
          BY <1>6
        <4>2. d = e
          BY <1>13, <3>2, <4>1
        <4>. QED
          BY <4>1, <4>2
      <3>. QED
        BY <1>7, <1>11, <2>1, <3>1, <3>2 DEF Holding
    <2>2. CASE b # a
      <3>1. Holding(b)
        BY DEF Inv
      <3>. QED
        BY <1>7, <1>11, <2>2, <3>1 DEF Holding
    <2>. QED
      BY <2>1, <2>2
  <1>18. ASSUME NEW f \in batch, NEW b \in Agents \ {a}, NEW g \in Held(b), f.gw = g.gw
         PROVE  f.gw \in moved
    <2>1. PICK d \in Targets : f.gw = gw[d].id /\ gw[d].carrier = a
      BY <1>6
    <2>2. gw[d].id = g.gw /\ g.gw \notin moved => gw[d].carrier = b
      BY DEF Inv, Holding
    <2>. QED
      BY <1>18, <2>1, <2>2
  <1>19. ASSUME NEW b \in Agents, NEW c \in Agents PROVE OneHolder(b, c)'
    <2>1. OneHolder(b, c)
      BY DEF Inv
    <2>2. CASE b # a /\ c # a
      BY <1>7, <1>11, <2>1, <2>2 DEF OneHolder
    <2>3. CASE b = a /\ c # a
      BY <1>7, <1>11, <1>18, <2>3 DEF OneHolder
    <2>4. CASE b # a /\ c = a
      BY <1>7, <1>11, <1>18, <2>4 DEF OneHolder
    <2>5. CASE b = a /\ c = a
      BY <2>5 DEF OneHolder
    <2>. QED
      BY <2>2, <2>3, <2>4, <2>5
  <1>20. ASSUME NEW b \in Agents, NEW f \in sweep'[b].batch PROVE Fresh(f)'
    <2>1. CASE b # a
      BY <1>7, <1>11, <2>1 DEF Inv, Fresh, Doubtful, Settled
    <2>2. CASE b = a
      <3>1. f \in batch /\ ~Settled(f.line, f.gw)
        BY <1>6, <1>11, <2>2
      <3>2. ASSUME NEW x \in arrived, x.line = f.line, x.gw = f.gw, ~Doubtful(f) PROVE FALSE
        <4>1. Accounted(x) /\ x.by \in Agents
          BY <1>1 DEF Inv, Types, Arrivals
        <4>2. x \in sweep[x.by].sent
          BY <3>1, <3>2, <4>1 DEF Accounted, Doubtful
        <4>3. x.by # a /\ x \in Held(x.by)
          BY <1>1, <4>2 DEF Held
        <4>. QED
          BY <1>18, <3>1, <3>2, <4>1, <4>3 DEF Doubtful
      <3>. QED
        BY <1>7, <3>1, <3>2 DEF Fresh, Doubtful, Settled
    <2>. QED
      BY <2>1, <2>2
  <1>21. ASSUME NEW x \in arrived' PROVE Accounted(x)' /\ Counted(x)'
    <2>1. x \in arrived /\ Accounted(x) /\ Counted(x) /\ x.by \in Agents
      BY <1>1, <1>7 DEF Inv, Types, Arrivals
    <2>2. x \in sweep[x.by].sent => x \in sweep'[x.by].sent
      BY <1>1, <1>11, <2>1
    <2>3. Accounted(x)'
      BY <1>7, <2>1, <2>2 DEF Accounted, Doubtful, Settled
    <2>. QED
      BY <1>7, <2>1, <2>3 DEF Counted, Numbered
  <1>22. \A x, y \in arrived' : Single(x, y)'
    BY <1>7 DEF Inv, Single, Doubtful
  <1>23. \A s \in deliveries' : Sourced(s)'
    BY <1>7 DEF Inv, Sourced
  <1>24. \A s, t \in deliveries' : s.line = t.line /\ s.gw = t.gw => s = t
    BY <1>7 DEF Inv
  <1>. QED
    BY <1>10, <1>12, <1>15, <1>16, <1>17, <1>19, <1>20, <1>21, <1>22, <1>23, <1>24 DEF Inv

----------------------------------------------------------------------------
LEMMA InitHolds == Init => Inv
  <1> SUFFICES ASSUME Init PROVE Inv
    OBVIOUS
  <1>1. Idle \in [batch : SUBSET Forwards, sent : SUBSET Arrivals, follows : SUBSET (Nat \X BOOLEAN)]
    BY DEF Idle
  <1>2. NoGateway \in GatewayRows
    BY DEF NoGateway, GatewayRows, Modes
  <1>3. <<>> \in Seq(Lines)
    OBVIOUS
  <1>4. IsFiniteSet({})
    BY FS_EmptySet
  <1>5. Types
    BY <1>1, <1>2, <1>3, <1>4 DEF Init, Types
  <1>6. Gateways
    BY DEF Init, Gateways, Bound, NoGateway
  <1>7. Known = {} /\ \A a \in Agents : Held(a) = {}
    BY DEF Init, Known, Idle, Held
  <1>8. \A a \in Agents : Holding(a) /\ sweep[a].batch = {}
    BY <1>7 DEF Init, Idle, Holding, Held
  <1>9. \A a, b \in Agents : OneHolder(a, b)
    BY <1>7 DEF OneHolder
  <1>. QED
    BY <1>5, <1>6, <1>7, <1>8, <1>9 DEF Init, Inv

LEMMA StepKeeps == Inv /\ [Next]_vars => Inv'
  <1> SUFFICES ASSUME Inv, [Next]_vars PROVE Inv'
    OBVIOUS
  <1>1. Len(room) \in Nat
    BY LenProperties DEF Inv, Types
  <1>2. ASSUME NEW root \in 0..Len(room), NEW is \in {"said", "working"}, AgentSays(root, is)
        PROVE  Inv'
    <2>1. Line("agent", root, is) \in Lines
      BY <1>1 DEF Line, Lines
    <2>. QED
      BY <1>2, <2>1, SaysStep DEF AgentSays
  <1>3. ASSUME NEW root \in Nat, OwnerSays(root)
        PROVE  Inv'
    <2>1. Line("owner", root, "said") \in Lines
      BY DEF Line, Lines
    <2>. QED
      BY <1>3, <2>1, SaysStep DEF OwnerSays
  <1>4. ASSUME NEW l \in DOMAIN room, NotesMention(l) \/ Lands(l)
        PROVE  Inv'
    BY <1>4, LineStep
  <1>5. ASSUME NEW d \in Targets, NEW mode \in Modes, NEW a \in Agents, AddChannelGateway(d, a, mode)
        PROVE  Inv'
    <2>1. CASE Bound(d)
      <3>. UNCHANGED <<room, made, deliveries, sweep, arrived, quiet, unrecorded>>
        BY <1>5, <2>1 DEF AddChannelGateway, watch
      <3>1. /\ gw' = [gw EXCEPT ![d].carrier = a, ![d].mode = mode]
            /\ rebound' = IF gw[d].mode = "off" /\ mode # "off" THEN rebound \cup {gw[d].id} ELSE rebound
            /\ moved' = IF \E b \in Agents \ {a} : HeldBy(b, gw[d].id) THEN moved \cup {gw[d].id} ELSE moved
        BY <1>5, <2>1 DEF AddChannelGateway
      <3>. QED
        BY <2>1, <3>1, AddsAgainStep
    <2>2. CASE ~Bound(d)
      <3>1. PICK since \in CutOffs :
                gw' = [gw EXCEPT ![d] = [id |-> made + 1, carrier |-> a, mode |-> mode, since |-> since]]
        BY <1>5, <2>2 DEF AddChannelGateway
      <3>2. UNCHANGED <<room, deliveries, sweep, arrived, quiet, unrecorded, moved, rebound>> /\ made' = made + 1
        BY <1>5, <2>2 DEF AddChannelGateway, watch
      <3>. QED
        BY <2>2, <3>1, <3>2, AddsNewStep
    <2>. QED
      BY <2>1, <2>2
  <1>6. ASSUME NEW d \in Targets, NEW mode \in Modes, NEW target \in Targets,
               UpdateChannelGateway(d, mode, target)
        PROVE  Inv'
    BY <1>6, UpdateStep
  <1>7. ASSUME NEW d \in Targets, RemoveChannelGateway(d)
        PROVE  Inv'
    BY <1>7, RemoveStep
  <1>8. ASSUME NEW a \in Agents, SweepSteps(a)
        PROVE  Inv'
    <2>1. CASE Sweeps(a)
      BY <2>1, SweepsStep
    <2>2. ASSUME NEW f \in Turn(a),
                 \/ LeavesAlone(a, f) \/ Skips(a, f) \/ Undecided(a, f)
                 \/ Sends(a, f) \/ Refused(a, f)
          PROVE  Inv'
      BY <2>2, LeavesAloneStep, SkipsStep, SendsStep
    <2>3. ASSUME NEW x \in sweep[a].sent, Records(a, x) \/ RecordFails(a)
          PROVE  Inv'
      BY <2>3, RecordsStep, LosesStep
    <2>. QED
      BY <1>8, <2>1, <2>2, <2>3 DEF SweepSteps
  <1>9. ASSUME NEW a \in Agents, Crash(a)
        PROVE  Inv'
    BY <1>9, LosesStep
  <1>10. ASSUME NEW a \in Agents, NEW id \in cool[a], CoolsDown(a, id)
        PROVE  Inv'
    BY <1>10, Unmoved DEF CoolsDown, table
  <1>11. ASSUME NEW x \in arrived, OwnerReplies(x)
        PROVE  Inv'
    <2>1. PICK src \in ForwardedMessage(x.by, x.ext) : OwnerSays(ThreadOf(src.line))
      BY <1>11 DEF OwnerReplies
    <2>2. src \in deliveries /\ src.state = "sent" /\ Sourced(src)
      BY <2>1 DEF ForwardedMessage, Inv
    <2>3. PICK y \in arrived : y.line = src.line
      BY <2>2 DEF Sourced
    <2>4. src.line \in 1..Len(room) /\ src.line \in Nat
      BY <2>3, KnownFacts DEF Known
    <2>5. room[src.line] \in Lines
      BY <2>4 DEF Inv, Types
    <2>6. ThreadOf(src.line) \in Nat
      BY <2>4, <2>5 DEF ThreadOf, Lines
    <2>. QED
      BY <1>3, <2>1, <2>6
  <1>12. CASE UNCHANGED vars
    BY <1>12, Unmoved DEF vars, table, watch
  <1>13. CASE \E root \in 0..Len(room) : OwnerSays(root)
    BY <1>1, <1>3, <1>13
  <1>14. ASSUME NEW d \in Targets, NEW mode \in Modes, NEW a \in Agents,
                ChBind(d, a, mode) \/ \E target \in Targets : HandleChannelBind(d, a, mode, target)
         PROVE  Inv'
    BY <1>5, <1>6, <1>14 DEF ChBind, HandleChannelBind
  <1>. QED
    BY <1>2, <1>4, <1>7, <1>8, <1>9, <1>10, <1>11, <1>12, <1>13, <1>14 DEF Next

(* The invariant gives each part of what is promised. *)
LEMMA InvIsSafe == Inv => ForwardingSafe
  <1> SUFFICES ASSUME Inv PROVE ForwardingSafe
    OBVIOUS
  <1>1. TypeOK
    <2>1. \A d \in Targets : gw[d].id \in 0..made /\ gw[d].mode \in Modes
      <3>1. \A d \in Targets : gw[d] \in GatewayRows /\ gw[d].id <= made /\ made \in Nat
        BY DEF Inv, Types, Gateways
      <3>. QED
        BY <3>1 DEF GatewayRows
    <2>2. \A d, e \in Targets : Bound(d) /\ gw[d].id = gw[e].id => d = e
      BY DEF Inv, Gateways
    <2>3. \A a \in Agents : \A f \in Held(a) :
             f.gw \in 1..made /\ f.line \in DOMAIN room /\ room[f.line].is # "working"
      BY HeldIsKnown, KnownFacts DEF Sound
    <2>. QED
      BY <2>1, <2>2, <2>3 DEF TypeOK, Inv
  <1>2. OncePerTarget
    <2> SUFFICES ASSUME NEW x \in arrived, NEW y \in arrived, x # y, x.line = y.line, x.to = y.to,
                        {x.gw, y.gw} \cap moved = {}
                 PROVE  {<<x.line, x.gw>>, <<y.line, y.gw>>} \cap unrecorded # {}
      BY DEF OncePerTarget
    <2>1. /\ x \in Known /\ y \in Known /\ x.gw \in Nat /\ y.gw \in Nat /\ x.line \in Nat
          /\ Successors(x, y) /\ Successors(y, x) /\ Single(x, y)
      <3>1. x \in Known /\ y \in Known
        BY DEF Known
      <3>. QED
        BY <3>1, KnownFacts DEF Inv
    <2>2. x.gw = y.gw
      BY <2>1 DEF Successors
    <2>. QED
      BY <2>1, <2>2 DEF Single, Doubtful
  <1>3. PauseStaysSilent
    BY DEF PauseStaysSilent, Inv, Known, Sound
  <1>4. RepliesFindTheirLine
    <2> SUFFICES ASSUME NEW x \in arrived
                 PROVE  /\ x.ext # NoExt => \A src \in ForwardedMessage(x.by, x.ext) : src.line = x.line
                        /\ (\E src \in deliveries : src.line = x.line /\ src.gw = x.gw /\ src.agent = x.by
                                                   /\ src.state = "sent" /\ src.ext = x.ext)
                           /\ x.ext # NoExt /\ (\E d \in Targets : gw[d].id = x.gw)
                           => ForwardedMessage(x.by, x.ext) # {}
      BY DEF RepliesFindTheirLine
    <2>1. Counted(x) /\ Sound(x)
      BY DEF Inv, Known
    <2>2. ASSUME x.ext # NoExt, NEW src \in ForwardedMessage(x.by, x.ext) PROVE src.line = x.line
      <3>1. src.agent = x.by /\ src.ext = x.ext /\ src.state = "sent" /\ Sourced(src)
        BY DEF ForwardedMessage, Inv
      <3>2. PICK y \in arrived : y.by = src.agent /\ y.ext = src.ext /\ y.line = src.line
        BY <3>1 DEF Sourced
      <3>3. x = y
        BY <2>1, <2>2, <3>1, <3>2 DEF Counted
      <3>. QED
        BY <3>2, <3>3
    <2>3. ASSUME NEW src \in deliveries, src.gw = x.gw, src.agent = x.by, src.state = "sent", src.ext = x.ext,
                 x.ext # NoExt, NEW d \in Targets, gw[d].id = x.gw
          PROVE  src \in ForwardedMessage(x.by, x.ext)
      <3>1. x.to \in Telegram
        BY <2>1, <2>3 DEF Counted
      <3>2. d \in Telegram
        BY <2>1, <2>3, <3>1 DEF Sound
      <3>. QED
        BY <2>3, <3>2 DEF ForwardedMessage
    <2>. QED
      BY <2>2, <2>3
  <1>. QED
    BY <1>1, <1>2, <1>3, <1>4 DEF ForwardingSafe

(* What a room sends out is safe: a line reaches a target once, what was said     *)
(* under a pause stays inside, a quoted reply finds its line (gateways.go:335-514, *)
(* forward.go:97-210).                                                       *)
THEOREM ForwardingIsSafe == Spec => []ForwardingSafe
  <1>1. Init => Inv
    BY InitHolds
  <1>2. Inv /\ [Next]_vars => Inv'
    BY StepKeeps
  <1>3. Inv => ForwardingSafe
    BY InvIsSafe
  <1>. QED
    BY <1>1, <1>2, <1>3, PTL DEF Spec

(* Two processes hold lines of one gateway in a batch only when it was given to   *)
(* the second under the batch of the first (gateways.go:343-346).                *)
THEOREM OneCarrierAtATime ==
    Spec => [](\A a, b \in Agents : a # b =>
                 \A f \in Held(a), g \in Held(b) : f.gw = g.gw => f.gw \in moved)
  <1>1. Init => Inv
    BY InitHolds
  <1>2. Inv /\ [Next]_vars => Inv'
    BY StepKeeps
  <1>3. Inv => \A a, b \in Agents : a # b => \A f \in Held(a), g \in Held(b) : f.gw = g.gw => f.gw \in moved
    BY DEF Inv, OneHolder
  <1>. QED
    BY <1>1, <1>2, <1>3, PTL DEF Spec

-----------------------------------------------------------------------------
(* The schema several processes open, SharedSchema.tla. *)

CONSTANTS Processes, Carrier, Versions, Letters, RoomLines, MaxCrashes

VARIABLES version, have, meta, proc, letter, line, dest, crashes

Shared == INSTANCE SharedSchema WITH Lines <- RoomLines

(* The statements that make tables and columns; the others come after them. *)
Body == Shared!Tables \o Shared!Columns

IsList(s) == \E S : s \in Seq(S)

NamesOf(names) == \E n \in Nat : DOMAIN names = 1 .. n

Over(s, ops) == IsList(s) /\ \A n \in 1 .. Len(s) : s[n].op \in ops

Shape(s) ==
    /\ IsList(s) /\ Len(s) >= Len(Body)
    /\ \A n \in 1 .. Len(Body) : s[n] = Body[n]
    /\ \A n \in Len(Body) + 1 .. Len(s) :
          s[n].op \notin {"create", "column"} /\ (s[n].op = "index" => s[n].what \in Shared!ItemNames(Body))

SchemaTypes == Shared!TypeOK

Ran ==
    \A p \in Processes : \A n \in 1 .. Len(Body) :
        n < proc[p].pc \/ proc[p].at = "open" => Body[n].what \in have

NoneFailed == \A p \in Processes : proc[p].at # "failed"

LetterInv ==
    \A m \in Letters : /\ "letters" \notin meta => letter[m].posted = "none"
                       /\ "letters" \in meta => letter[m].late \/ letter[m].posted = letter[m].row

BoundInv ==
    /\ dest # "none" => "bindings" \in meta
    /\ Shared!HasBinding /\ "bindings" \in meta => dest # "none"

One(cond) == IF cond THEN 1 ELSE 0

LineInv ==
    \A l \in RoomLines :
        /\ line[l].sent <= One(line[l].stamp # "none") + One(line[l].delivery # "none")
        /\ dest = "none" => line[l].delivery = "none"
        /\ \/ line[l].late
           \/ /\ line[l].stamp = "skipped" => line[l].sent = 0
              /\ line[l].stamp = "sent" => line[l].sent = 1
              /\ line[l].stamp = "none" /\ line[l].delivery = "none" => line[l].sent = 0
              /\ dest # "none" /\ line[l].stamp # "none" => line[l].delivery # "none"
              /\ line[l].sent <= 1

SchemaInv == SchemaTypes /\ Ran /\ NoneFailed /\ LetterInv /\ BoundInv /\ LineInv

----------------------------------------------------------------------------
(* The program: what a sequence of statements is made of. *)
LEMMA CreateIs ==
    ASSUME NEW names, NamesOf(names)
    PROVE  Over(Shared!Create(names), {"create"})
  <1>0. PICK m \in Nat : DOMAIN names = 1 .. m
    BY DEF NamesOf
  <1>. DEFINE S == {[op |-> "create", what |-> <<names[n]>>] : n \in 1 .. m}
  <1>1. Shared!Create(names) = [n \in 1 .. m |-> [op |-> "create", what |-> <<names[n]>>]]
    BY <1>0 DEF Shared!Create
  <1>2. Shared!Create(names) \in [1 .. m -> S]
    BY <1>1
  <1>. HIDE DEF S
  <1>3. Shared!Create(names) \in Seq(S) /\ Len(Shared!Create(names)) = m
    BY <1>2
  <1>4. \A n \in 1 .. m : Shared!Create(names)[n].op = "create"
    BY <1>1
  <1>. QED
    BY <1>3, <1>4 DEF Over, IsList

LEMMA ColumnIs ==
    ASSUME NEW tbl, NEW names, NamesOf(names)
    PROVE  Over(Shared!Column(tbl, names), {"column"})
  <1>0. PICK m \in Nat : DOMAIN names = 1 .. m
    BY DEF NamesOf
  <1>. DEFINE S == {[op |-> "column", what |-> <<tbl, names[n]>>] : n \in 1 .. m}
  <1>1. Shared!Column(tbl, names) = [n \in 1 .. m |-> [op |-> "column", what |-> <<tbl, names[n]>>]]
    BY <1>0 DEF Shared!Column
  <1>2. Shared!Column(tbl, names) \in [1 .. m -> S]
    BY <1>1
  <1>. HIDE DEF S
  <1>3. Shared!Column(tbl, names) \in Seq(S) /\ Len(Shared!Column(tbl, names)) = m
    BY <1>2
  <1>4. \A n \in 1 .. m : Shared!Column(tbl, names)[n].op = "column"
    BY <1>1
  <1>. QED
    BY <1>3, <1>4 DEF Over, IsList

LEMMA ConcatIs ==
    ASSUME NEW s, NEW t, IsList(s), IsList(t)
    PROVE  /\ IsList(s \o t) /\ Len(s \o t) = Len(s) + Len(t) /\ Len(s) \in Nat /\ Len(t) \in Nat
           /\ DOMAIN s = 1 .. Len(s) /\ DOMAIN t = 1 .. Len(t) /\ DOMAIN (s \o t) = 1 .. (Len(s) + Len(t))
           /\ \A n \in 1 .. Len(s) : (s \o t)[n] = s[n]
           /\ \A n \in 1 .. Len(t) : (s \o t)[Len(s) + n] = t[n]
           /\ \A n \in Len(s) + 1 .. Len(s) + Len(t) : (s \o t)[n] = t[n - Len(s)] /\ n - Len(s) \in 1 .. Len(t)
  <1>1. PICK A : s \in Seq(A)
    BY DEF IsList
  <1>2. PICK B : t \in Seq(B)
    BY DEF IsList
  <1>3. s \in Seq(A \cup B) /\ t \in Seq(A \cup B)
    BY <1>1, <1>2
  <1>4. s \o t \in Seq(A \cup B)
    BY <1>3
  <1>. QED
    BY <1>3, <1>4 DEF IsList

LEMMA ConcatOver ==
    ASSUME NEW S, NEW T, NEW s, NEW t, Over(s, S), Over(t, T)
    PROVE  Over(s \o t, S \cup T)
  <1>1. /\ IsList(s \o t) /\ Len(s \o t) = Len(s) + Len(t) /\ Len(s) \in Nat /\ Len(t) \in Nat
        /\ \A n \in 1 .. Len(s) : (s \o t)[n] = s[n]
        /\ \A n \in Len(s) + 1 .. Len(s) + Len(t) : (s \o t)[n] = t[n - Len(s)] /\ n - Len(s) \in 1 .. Len(t)
    BY ConcatIs DEF Over
  <1>2. ASSUME NEW n \in 1 .. Len(s \o t)
        PROVE  (s \o t)[n].op \in S \cup T
    <2>1. CASE n \in 1 .. Len(s)
      BY <1>1, <2>1 DEF Over
    <2>2. CASE n \in Len(s) + 1 .. Len(s) + Len(t)
      BY <1>1, <2>2 DEF Over
    <2>. QED
      BY <1>1, <2>1, <2>2
  <1>. QED
    BY <1>1, <1>2 DEF Over

LEMMA ConcatNames ==
    ASSUME NEW s, NEW t, IsList(s), IsList(t)
    PROVE  Shared!ItemNames(s \o t) = Shared!ItemNames(s) \cup Shared!ItemNames(t)
  <1>1. /\ Len(s) \in Nat /\ Len(t) \in Nat
        /\ DOMAIN s = 1 .. Len(s) /\ DOMAIN t = 1 .. Len(t) /\ DOMAIN (s \o t) = 1 .. (Len(s) + Len(t))
        /\ \A n \in 1 .. Len(s) : (s \o t)[n] = s[n]
        /\ \A n \in 1 .. Len(t) : (s \o t)[Len(s) + n] = t[n]
        /\ \A n \in Len(s) + 1 .. Len(s) + Len(t) : (s \o t)[n] = t[n - Len(s)] /\ n - Len(s) \in 1 .. Len(t)
    BY ConcatIs
  <1>2. \A n \in 1 .. Len(s) : n \in DOMAIN (s \o t) /\ s[n].what = (s \o t)[n].what
    BY <1>1
  <1>3. \A n \in 1 .. Len(t) : Len(s) + n \in DOMAIN (s \o t) /\ t[n].what = (s \o t)[Len(s) + n].what
    BY <1>1
  <1>4. \A n \in DOMAIN (s \o t) : n \in 1 .. Len(s) \/ n \in Len(s) + 1 .. Len(s) + Len(t)
    BY <1>1
  <1>5. Shared!ItemNames(s) \subseteq Shared!ItemNames(s \o t)
    BY <1>1, <1>2 DEF Shared!ItemNames
  <1>6. Shared!ItemNames(t) \subseteq Shared!ItemNames(s \o t)
    <2>1. ASSUME NEW n \in 1 .. Len(t)
          PROVE  \E k \in DOMAIN (s \o t) : t[n].what = (s \o t)[k].what
      BY <1>3
    <2>. QED
      BY <1>1, <2>1 DEF Shared!ItemNames
  <1>7. Shared!ItemNames(s \o t) \subseteq Shared!ItemNames(s) \cup Shared!ItemNames(t)
    BY <1>1, <1>4 DEF Shared!ItemNames
  <1>. QED
    BY <1>5, <1>6, <1>7

LEMMA TuplesAre ==
    ASSUME NEW a, NEW b, NEW c, NEW d
    PROVE  NamesOf(<<a>>) /\ NamesOf(<<a, b>>) /\ NamesOf(<<a, b, c>>) /\ NamesOf(<<a, b, c, d>>)
  <1>1. DOMAIN <<a>> = 1 .. 1 /\ DOMAIN <<a, b>> = 1 .. 2 /\ DOMAIN <<a, b, c>> = 1 .. 3 /\ DOMAIN <<a, b, c, d>> = 1 .. 4
    OBVIOUS
  <1>2. 1 \in Nat /\ 2 \in Nat /\ 3 \in Nat /\ 4 \in Nat
    OBVIOUS
  <1>. QED
    BY <1>1, <1>2 DEF NamesOf

LEMMA TablesAre ==
    /\ Over(Shared!CoreTables, {"create"}) /\ Over(Shared!ScheduleTables, {"create"}) /\ Over(Shared!NoteTables, {"create"})
    /\ Over(Shared!ChannelTables, {"create"}) /\ Over(Shared!TelegramTables, {"create"}) /\ Over(Shared!GatewayTables, {"create"})
    /\ Over(Shared!Tables, {"create"})
    /\ Shared!ItemNames(Shared!Tables) = Shared!ItemNames(Shared!CoreTables) \cup Shared!ItemNames(Shared!ScheduleTables) \cup Shared!ItemNames(Shared!NoteTables)
          \cup Shared!ItemNames(Shared!ChannelTables) \cup Shared!ItemNames(Shared!TelegramTables) \cup Shared!ItemNames(Shared!GatewayTables)
  <1>1. Over(Shared!CoreTables, {"create"})
    BY CreateIs, TuplesAre DEF Shared!CoreTables
  <1>2. Over(Shared!ScheduleTables, {"create"})
    BY CreateIs, TuplesAre DEF Shared!ScheduleTables
  <1>3. Over(Shared!NoteTables, {"create"})
    BY CreateIs, TuplesAre DEF Shared!NoteTables
  <1>4. Over(Shared!ChannelTables, {"create"})
    BY CreateIs, TuplesAre DEF Shared!ChannelTables
  <1>5. Over(Shared!TelegramTables, {"create"})
    BY CreateIs, TuplesAre DEF Shared!TelegramTables
  <1>6. Over(Shared!GatewayTables, {"create"})
    BY CreateIs, TuplesAre DEF Shared!GatewayTables
  <1>. DEFINE T2 == Shared!CoreTables \o Shared!ScheduleTables
              T3 == T2 \o Shared!NoteTables
              T4 == T3 \o Shared!ChannelTables
              T5 == T4 \o Shared!TelegramTables
  <1>. HIDE DEF T2, T3, T4, T5
  <1>7. ASSUME NEW s, NEW t, Over(s, {"create"}), Over(t, {"create"})
        PROVE  Over(s \o t, {"create"}) /\ Shared!ItemNames(s \o t) = Shared!ItemNames(s) \cup Shared!ItemNames(t)
    <2>1. {"create"} \cup {"create"} = {"create"}
      OBVIOUS
    <2>2. Over(s \o t, {"create"} \cup {"create"})
      BY <1>7, ConcatOver
    <2>. QED
      BY <1>7, <2>1, <2>2, ConcatNames DEF Over
  <1>8. Over(T2, {"create"}) /\ Shared!ItemNames(T2) = Shared!ItemNames(Shared!CoreTables) \cup Shared!ItemNames(Shared!ScheduleTables)
    BY <1>1, <1>2, <1>7 DEF T2
  <1>9. Over(T3, {"create"}) /\ Shared!ItemNames(T3) = Shared!ItemNames(T2) \cup Shared!ItemNames(Shared!NoteTables)
    BY <1>3, <1>7, <1>8 DEF T3
  <1>10. Over(T4, {"create"}) /\ Shared!ItemNames(T4) = Shared!ItemNames(T3) \cup Shared!ItemNames(Shared!ChannelTables)
    BY <1>4, <1>7, <1>9 DEF T4
  <1>11. Over(T5, {"create"}) /\ Shared!ItemNames(T5) = Shared!ItemNames(T4) \cup Shared!ItemNames(Shared!TelegramTables)
    BY <1>5, <1>7, <1>10 DEF T5
  <1>12. Shared!Tables = T5 \o Shared!GatewayTables
    BY DEF Shared!Tables, T5, T4, T3, T2
  <1>13. Over(Shared!Tables, {"create"}) /\ Shared!ItemNames(Shared!Tables) = Shared!ItemNames(T5) \cup Shared!ItemNames(Shared!GatewayTables)
    BY <1>6, <1>7, <1>11, <1>12
  <1>. QED
    BY <1>1, <1>2, <1>3, <1>4, <1>5, <1>6, <1>8, <1>9, <1>10, <1>11, <1>13

LEMMA ColumnsAre ==
    /\ Over(Shared!TaskColumns, {"column"}) /\ Over(Shared!ReportColumns, {"column"}) /\ Over(Shared!ProjectColumns, {"column"})
    /\ Over(Shared!ForwardColumns, {"column"}) /\ Over(Shared!LateColumns, {"column"}) /\ Over(Shared!Columns, {"column"})
    /\ Shared!ItemNames(Shared!Columns) = Shared!ItemNames(Shared!TaskColumns) \cup Shared!ItemNames(Shared!ReportColumns) \cup Shared!ItemNames(Shared!ProjectColumns)
          \cup Shared!ItemNames(Shared!ForwardColumns) \cup Shared!ItemNames(Shared!LateColumns)
    /\ {<<"tasks", "parent_id">>, <<"tasks", "channel_id">>, <<"agents", "scratch">>, <<"tasks", "reported_at">>,
        <<"channel_telegram", "agent_id">>, <<"agents", "telegram_bot">>} \subseteq Shared!ItemNames(Shared!Columns)
  <1>1. ASSUME NEW s, NEW t, Over(s, {"column"}), Over(t, {"column"})
        PROVE  Over(s \o t, {"column"}) /\ Shared!ItemNames(s \o t) = Shared!ItemNames(s) \cup Shared!ItemNames(t)
    <2>1. {"column"} \cup {"column"} = {"column"}
      OBVIOUS
    <2>2. Over(s \o t, {"column"} \cup {"column"})
      BY <1>1, ConcatOver
    <2>. QED
      BY <1>1, <2>1, <2>2, ConcatNames DEF Over
  <1>2. ASSUME NEW tbl, NEW a, NEW b
        PROVE  /\ Over(Shared!Column(tbl, <<a>>), {"column"}) /\ Over(Shared!Column(tbl, <<a, b>>), {"column"})
               /\ <<tbl, a>> \in Shared!ItemNames(Shared!Column(tbl, <<a>>))
               /\ <<tbl, a>> \in Shared!ItemNames(Shared!Column(tbl, <<a, b>>))
               /\ <<tbl, b>> \in Shared!ItemNames(Shared!Column(tbl, <<a, b>>))
    <2>1. Over(Shared!Column(tbl, <<a>>), {"column"}) /\ Over(Shared!Column(tbl, <<a, b>>), {"column"})
      BY ColumnIs, TuplesAre
    <2>2. 1 \in DOMAIN <<a>> /\ 1 \in DOMAIN <<a, b>> /\ 2 \in DOMAIN <<a, b>>
      OBVIOUS
    <2>3. DOMAIN Shared!Column(tbl, <<a>>) = DOMAIN <<a>> /\ DOMAIN Shared!Column(tbl, <<a, b>>) = DOMAIN <<a, b>>
      BY DEF Shared!Column
    <2>4. Shared!Column(tbl, <<a>>)[1].what = <<tbl, a>>
      BY <2>2 DEF Shared!Column
    <2>5. Shared!Column(tbl, <<a, b>>)[1].what = <<tbl, a>> /\ Shared!Column(tbl, <<a, b>>)[2].what = <<tbl, b>>
      BY <2>2 DEF Shared!Column
    <2>. QED
      BY <2>1, <2>2, <2>3, <2>4, <2>5 DEF Shared!ItemNames
  <1>3. Over(Shared!TaskColumns, {"column"}) /\ <<"tasks", "parent_id">> \in Shared!ItemNames(Shared!TaskColumns)
    BY <1>2 DEF Shared!TaskColumns
  <1>4. Over(Shared!ReportColumns, {"column"}) /\ <<"agents", "scratch">> \in Shared!ItemNames(Shared!ReportColumns)
        /\ <<"tasks", "reported_at">> \in Shared!ItemNames(Shared!ReportColumns)
    BY <1>1, <1>2 DEF Shared!ReportColumns
  <1>5. Over(Shared!ProjectColumns, {"column"}) /\ <<"tasks", "channel_id">> \in Shared!ItemNames(Shared!ProjectColumns)
    <2>. DEFINE A == Shared!Column("channels", <<"workspace">>)
                B == Shared!Column("tasks", <<"channel_id">>)
                C == Shared!Column("schedules", <<"channel_id">>)
    <2>1. Over(A, {"column"}) /\ Over(B, {"column"}) /\ Over(C, {"column"}) /\ <<"tasks", "channel_id">> \in Shared!ItemNames(B)
      BY <1>2
    <2>2. Shared!ProjectColumns = (A \o B) \o C
      BY DEF Shared!ProjectColumns
    <2>. HIDE DEF A, B, C
    <2>3. Over(A \o B, {"column"}) /\ Shared!ItemNames(A \o B) = Shared!ItemNames(A) \cup Shared!ItemNames(B)
      BY <1>1, <2>1
    <2>4. Over((A \o B) \o C, {"column"}) /\ Shared!ItemNames((A \o B) \o C) = Shared!ItemNames(A \o B) \cup Shared!ItemNames(C)
      BY <1>1, <2>1, <2>3
    <2>. QED
      BY <2>1, <2>2, <2>3, <2>4
  <1>6. Over(Shared!ForwardColumns, {"column"}) /\ <<"channel_telegram", "agent_id">> \in Shared!ItemNames(Shared!ForwardColumns)
    BY <1>1, <1>2 DEF Shared!ForwardColumns
  <1>7. Over(Shared!LateColumns, {"column"}) /\ <<"agents", "telegram_bot">> \in Shared!ItemNames(Shared!LateColumns)
    <2>. DEFINE A == Shared!Column("agents", <<"telegram_bot">>)
                B == Shared!Column("tasks", <<"fruitless_waves">>)
                C == Shared!Column("runs", <<"cost_usd">>)
    <2>1. Over(A, {"column"}) /\ Over(B, {"column"}) /\ Over(C, {"column"}) /\ <<"agents", "telegram_bot">> \in Shared!ItemNames(A)
      BY <1>2
    <2>2. Shared!LateColumns = (A \o B) \o C
      BY DEF Shared!LateColumns
    <2>. HIDE DEF A, B, C
    <2>3. Over(A \o B, {"column"}) /\ Shared!ItemNames(A \o B) = Shared!ItemNames(A) \cup Shared!ItemNames(B)
      BY <1>1, <2>1
    <2>4. Over((A \o B) \o C, {"column"}) /\ Shared!ItemNames((A \o B) \o C) = Shared!ItemNames(A \o B) \cup Shared!ItemNames(C)
      BY <1>1, <2>1, <2>3
    <2>. QED
      BY <2>1, <2>2, <2>3, <2>4
  <1>. DEFINE C2 == Shared!TaskColumns \o Shared!ReportColumns
              C3 == C2 \o Shared!ProjectColumns
              C4 == C3 \o Shared!ForwardColumns
  <1>8. Shared!Columns = C4 \o Shared!LateColumns
    BY DEF Shared!Columns
  <1>9. Over(C2, {"column"}) /\ Shared!ItemNames(C2) = Shared!ItemNames(Shared!TaskColumns) \cup Shared!ItemNames(Shared!ReportColumns)
    BY <1>1, <1>3, <1>4
  <1>. HIDE DEF C2
  <1>10. Over(C3, {"column"}) /\ Shared!ItemNames(C3) = Shared!ItemNames(C2) \cup Shared!ItemNames(Shared!ProjectColumns)
    BY <1>1, <1>5, <1>9
  <1>. HIDE DEF C3
  <1>11. Over(C4, {"column"}) /\ Shared!ItemNames(C4) = Shared!ItemNames(C3) \cup Shared!ItemNames(Shared!ForwardColumns)
    BY <1>1, <1>6, <1>10
  <1>. HIDE DEF C4
  <1>12. Over(Shared!Columns, {"column"}) /\ Shared!ItemNames(Shared!Columns) = Shared!ItemNames(C4) \cup Shared!ItemNames(Shared!LateColumns)
    BY <1>1, <1>7, <1>8, <1>11
  <1>. QED
    BY <1>3, <1>4, <1>5, <1>6, <1>7, <1>9, <1>10, <1>11, <1>12

LEMMA BodyIs ==
    /\ Over(Body, {"create", "column"})
    /\ Shared!ItemNames(Body) = Shared!ItemNames(Shared!Tables) \cup Shared!ItemNames(Shared!Columns)
  <1>1. Over(Body, {"create"} \cup {"column"})
    BY TablesAre, ColumnsAre, ConcatOver DEF Body
  <1>2. {"create"} \cup {"column"} = {"create", "column"}
    OBVIOUS
  <1>. QED
    BY <1>1, <1>2, TablesAre, ColumnsAre, ConcatNames DEF Body, Over

LEMMA ShapeGrows ==
    ASSUME NEW s, NEW t, Shape(s), IsList(t),
           \A n \in 1 .. Len(t) : t[n].op \notin {"create", "column"}
                                  /\ (t[n].op = "index" => t[n].what \in Shared!ItemNames(Body))
    PROVE  Shape(s \o t)
  <1>1. /\ IsList(s \o t) /\ Len(s \o t) = Len(s) + Len(t) /\ Len(s) \in Nat /\ Len(t) \in Nat
        /\ \A n \in 1 .. Len(s) : (s \o t)[n] = s[n]
        /\ \A n \in Len(s) + 1 .. Len(s) + Len(t) : (s \o t)[n] = t[n - Len(s)] /\ n - Len(s) \in 1 .. Len(t)
    BY ConcatIs DEF Shape
  <1>2. Len(Body) \in Nat
    <2>1. PICK S : Body \in Seq(S)
      BY BodyIs DEF Over, IsList
    <2>. QED
      BY <2>1
  <1>3. Len(s \o t) >= Len(Body) /\ \A n \in 1 .. Len(Body) : (s \o t)[n] = Body[n]
    BY <1>1, <1>2 DEF Shape
  <1>4. ASSUME NEW n \in Len(Body) + 1 .. Len(s \o t)
        PROVE  (s \o t)[n].op \notin {"create", "column"}
               /\ ((s \o t)[n].op = "index" => (s \o t)[n].what \in Shared!ItemNames(Body))
    <2>1. CASE n \in Len(Body) + 1 .. Len(s)
      BY <1>1, <1>2, <2>1 DEF Shape
    <2>2. CASE n \in Len(s) + 1 .. Len(s) + Len(t)
      BY <1>1, <2>2
    <2>. QED
      BY <1>1, <1>2, <2>1, <2>2
  <1>. QED
    BY <1>1, <1>3, <1>4 DEF Shape

LEMMA ProgramIs == Shape(Shared!Program)
  <1>1. Shape(Body)
    <2>1. PICK S : Body \in Seq(S)
      BY BodyIs DEF Over, IsList
    <2>. QED
      BY <2>1 DEF Shape, IsList
  <1>2. \A op : IsList(Shared!Step(op)) /\ Len(Shared!Step(op)) = 1 /\ Shared!Step(op)[1].op = op
    <2>1. ASSUME NEW op
          PROVE  IsList(Shared!Step(op)) /\ Len(Shared!Step(op)) = 1 /\ Shared!Step(op)[1].op = op
      <3>1. <<[op |-> op, what |-> <<op>>]>> \in Seq({[op |-> op, what |-> <<op>>]})
        OBVIOUS
      <3>. QED
        BY <3>1 DEF Shared!Step, IsList
    <2>. QED
      BY <2>1
  <1>3. /\ IsList(Shared!Indexes) /\ Len(Shared!Indexes) = 2
        /\ \A n \in 1 .. 2 : Shared!Indexes[n].op = "index" /\ Shared!Indexes[n].what \in Shared!ItemNames(Body)
    <2>. DEFINE a == [op |-> "index", what |-> <<"tasks", "parent_id">>]
                b == [op |-> "index", what |-> <<"tasks", "channel_id">>]
    <2>1. Shared!Indexes = <<a, b>>
      BY DEF Shared!Indexes
    <2>2. a.op = "index" /\ b.op = "index" /\ a.what \in Shared!ItemNames(Body) /\ b.what \in Shared!ItemNames(Body)
      BY BodyIs, ColumnsAre
    <2>. HIDE DEF a, b
    <2>3. <<a, b>> \in Seq({a, b}) /\ Len(<<a, b>>) = 2 /\ <<a, b>>[1] = a /\ <<a, b>>[2] = b
      OBVIOUS
    <2>4. \A n \in 1 .. 2 : n = 1 \/ n = 2
      OBVIOUS
    <2>. QED
      BY <2>1, <2>2, <2>3, <2>4 DEF IsList
  <1>. DEFINE P1 == Body \o Shared!Indexes
              P2 == P1 \o Shared!Step("letters")
              P3 == P2 \o Shared!Step("bindings")
  <1>4. Shared!Program = P3 \o Shared!Step("stamp")
    BY DEF Shared!Program, Body
  <1>5. Shape(P1)
    BY <1>1, <1>3, ShapeGrows
  <1>. HIDE DEF P1
  <1>6. ASSUME NEW s, Shape(s), NEW op \in {"letters", "bindings", "stamp"}
        PROVE  Shape(s \o Shared!Step(op))
    <2>1. IsList(Shared!Step(op)) /\ Len(Shared!Step(op)) = 1 /\ Shared!Step(op)[1].op = op
      BY <1>2
    <2>2. \A n \in 1 .. Len(Shared!Step(op)) : Shared!Step(op)[n].op \notin {"create", "column"} /\ Shared!Step(op)[n].op # "index"
      BY <2>1
    <2>. QED
      BY <1>6, <2>1, <2>2, ShapeGrows
  <1>7. Shape(P2)
    BY <1>5, <1>6
  <1>. HIDE DEF P2
  <1>8. Shape(P3)
    BY <1>6, <1>7
  <1>. HIDE DEF P3
  <1>. QED
    BY <1>4, <1>6, <1>8

LEMMA ProgramHas ==
    /\ Len(Shared!Program) \in Nat /\ Len(Body) \in Nat /\ 1 <= Len(Body) /\ Len(Body) <= Len(Shared!Program)
    /\ \A x \in Shared!ItemNames(Body) : \E n \in 1 .. Len(Body) : x = Body[n].what
    /\ \A n \in 1 .. Len(Body) : Body[n].what \in Shared!ItemNames(Body)
    /\ \A n \in 1 .. Len(Shared!Program) :
          /\ Shared!Program[n].op \in {"create", "column"} <=> n <= Len(Body)
          /\ n <= Len(Body) => Shared!Program[n].what = Body[n].what
          /\ Shared!Program[n].op = "index" => Shared!Program[n].what \in Shared!ItemNames(Body) /\ n > Len(Body)
  <1>1. PICK S : Body \in Seq(S)
    BY BodyIs DEF Over, IsList
  <1>2. PICK T : Shared!Program \in Seq(T)
    BY ProgramIs DEF Shape, IsList
  <1>3. Len(Body) \in Nat /\ DOMAIN Body = 1 .. Len(Body) /\ Len(Shared!Program) \in Nat
    BY <1>1, <1>2
  <1>4. /\ \A x \in Shared!ItemNames(Body) : \E n \in 1 .. Len(Body) : x = Body[n].what
        /\ \A n \in 1 .. Len(Body) : Body[n].what \in Shared!ItemNames(Body)
    BY <1>3 DEF Shared!ItemNames
  <1>5. <<"tasks", "parent_id">> \in Shared!ItemNames(Body)
    BY BodyIs, ColumnsAre
  <1>6. 1 <= Len(Body)
    BY <1>3, <1>4, <1>5
  <1>7. Len(Body) <= Len(Shared!Program)
    BY <1>3, ProgramIs DEF Shape
  <1>8. ASSUME NEW n \in 1 .. Len(Shared!Program)
        PROVE  /\ Shared!Program[n].op \in {"create", "column"} <=> n <= Len(Body)
               /\ n <= Len(Body) => Shared!Program[n].what = Body[n].what
               /\ Shared!Program[n].op = "index" => Shared!Program[n].what \in Shared!ItemNames(Body) /\ n > Len(Body)
    <2>1. CASE n \in 1 .. Len(Body)
      <3>1. Shared!Program[n] = Body[n] /\ Body[n].op \in {"create", "column"}
        BY <2>1, ProgramIs, BodyIs DEF Shape, Over
      <3>2. Shared!Program[n].op # "index" /\ n <= Len(Body)
        BY <1>3, <2>1, <3>1
      <3>. QED
        BY <3>1, <3>2
    <2>2. CASE n \in Len(Body) + 1 .. Len(Shared!Program)
      <3>1. Shared!Program[n].op \notin {"create", "column"} /\ (Shared!Program[n].op = "index" => Shared!Program[n].what \in Shared!ItemNames(Body))
        BY <2>2, ProgramIs DEF Shape
      <3>2. ~ (n <= Len(Body)) /\ n > Len(Body)
        BY <1>3, <2>2
      <3>. QED
        BY <3>1, <3>2
    <2>. QED
      BY <1>3, <1>7, <2>1, <2>2
  <1>. QED
    BY <1>3, <1>4, <1>6, <1>7, <1>8

(* A table that CREATE TABLE lists columns of: nothing the program would not add. *)
LEMMA ListedIs == \A tbl : Shared!Listed(tbl) \subseteq Shared!ItemNames(Body)
  <1>1. Shared!ItemNames(Shared!TaskColumns) \subseteq Shared!ItemNames(Body)
    BY BodyIs, ColumnsAre
  <1>2. {<<"agents", "scratch">>, <<"tasks", "reported_at">>, <<"channel_telegram", "agent_id">>} \subseteq Shared!ItemNames(Body)
    BY BodyIs, ColumnsAre
  <1>. QED
    BY <1>1, <1>2 DEF Shared!Listed

LEMMA BuiltIs ==
    ASSUME NEW v \in {0, 2, 5, 10, 14}
    PROVE  Shared!Built(v) \subseteq Shared!ItemNames(Body)
  <1>1. Shared!ItemNames(Shared!Tables \o Shared!Columns) = Shared!ItemNames(Body)
    BY DEF Body
  <1>2. {<<"meta">>, <<"agents">>, <<"runs">>, <<"tasks">>} \subseteq Shared!ItemNames(Shared!CoreTables)
    <2>. DEFINE names == <<"meta", "agents", "runs", "tasks">>
    <2>1. DOMAIN names = 1 .. 4 /\ names[1] = "meta" /\ names[2] = "agents" /\ names[3] = "runs" /\ names[4] = "tasks"
      OBVIOUS
    <2>2. Shared!CoreTables = Shared!Create(names)
      BY DEF Shared!CoreTables
    <2>. HIDE DEF names
    <2>3. DOMAIN Shared!CoreTables = 1 .. 4 /\ \A n \in 1 .. 4 : Shared!CoreTables[n].what = <<names[n]>>
      BY <2>1, <2>2 DEF Shared!Create
    <2>4. \A n \in 1 .. 4 : <<names[n]>> \in Shared!ItemNames(Shared!CoreTables)
      BY <2>3 DEF Shared!ItemNames
    <2>. QED
      BY <2>1, <2>4
  <1>3. Shared!ItemNames(Shared!CoreTables \o Shared!ScheduleTables \o Shared!NoteTables \o Shared!TaskColumns)
            = Shared!ItemNames(Shared!CoreTables) \cup Shared!ItemNames(Shared!ScheduleTables) \cup Shared!ItemNames(Shared!NoteTables) \cup Shared!ItemNames(Shared!TaskColumns)
    <2>1. IsList(Shared!CoreTables) /\ IsList(Shared!ScheduleTables) /\ IsList(Shared!NoteTables) /\ IsList(Shared!TaskColumns)
      BY TablesAre, ColumnsAre DEF Over
    <2>. DEFINE A == Shared!CoreTables \o Shared!ScheduleTables
                B == A \o Shared!NoteTables
    <2>2. IsList(A) /\ Shared!ItemNames(A) = Shared!ItemNames(Shared!CoreTables) \cup Shared!ItemNames(Shared!ScheduleTables)
      BY <2>1, ConcatIs, ConcatNames
    <2>3. Shared!CoreTables \o Shared!ScheduleTables \o Shared!NoteTables \o Shared!TaskColumns = B \o Shared!TaskColumns
      OBVIOUS
    <2>. HIDE DEF A
    <2>4. IsList(B) /\ Shared!ItemNames(B) = Shared!ItemNames(A) \cup Shared!ItemNames(Shared!NoteTables)
      BY <2>1, <2>2, ConcatIs, ConcatNames
    <2>. HIDE DEF B
    <2>5. Shared!ItemNames(B \o Shared!TaskColumns) = Shared!ItemNames(B) \cup Shared!ItemNames(Shared!TaskColumns)
      BY <2>1, <2>4, ConcatNames
    <2>. QED
      BY <2>2, <2>3, <2>4, <2>5
  <1>4. {<<"agents", "scratch">>, <<"tasks", "reported_at">>} \subseteq Shared!ItemNames(Body)
    BY BodyIs, ColumnsAre
  <1>5. Shared!ItemNames(Shared!Tables) \cup Shared!ItemNames(Shared!Columns) = Shared!ItemNames(Body)
    BY BodyIs
  <1>6. CASE v = 0
    BY <1>6 DEF Shared!Built
  <1>7. CASE v = 2
    <2>1. Shared!Built(v) = {<<"meta">>, <<"agents">>, <<"runs">>, <<"tasks">>} \cup Shared!ItemNames(Shared!NoteTables)
      BY <1>7 DEF Shared!Built
    <2>. QED
      BY <1>2, <1>5, <2>1, TablesAre
  <1>8. CASE v = 5
    <2>1. Shared!Built(v) = Shared!ItemNames(Shared!CoreTables \o Shared!ScheduleTables \o Shared!NoteTables \o Shared!TaskColumns)
                            \cup {<<"agents", "scratch">>, <<"tasks", "reported_at">>}
      BY <1>8 DEF Shared!Built
    <2>. QED
      BY <1>3, <1>4, <1>5, <2>1, TablesAre, ColumnsAre
  <1>9. CASE v = 10
    <2>1. Shared!Built(v) \subseteq Shared!ItemNames(Shared!Tables \o Shared!Columns)
      BY <1>9 DEF Shared!Built
    <2>. QED
      BY <1>1, <2>1
  <1>10. CASE v = 14
    <2>1. Shared!Built(v) = Shared!ItemNames(Shared!Tables \o Shared!Columns)
      BY <1>10 DEF Shared!Built
    <2>. QED
      BY <1>1, <2>1
  <1>. QED
    BY <1>6, <1>7, <1>8, <1>9, <1>10

----------------------------------------------------------------------------
Procs == [Processes -> [at : {"old", "down", "opening", "open", "failed"}, pc : 1 .. Len(Shared!Program), saw : BOOLEAN]]

Migrated == Ran /\ NoneFailed

(* A statement that is passed has made what it names. *)
LEMMA PassesKeeps ==
    ASSUME SchemaInv, NEW p \in Processes, proc[p].at = "opening", Shared!Passes(p), have \subseteq have',
           proc[p].pc <= Len(Body) => Body[proc[p].pc].what \in have'
    PROVE  proc' \in Procs /\ Migrated'
  <1>1. proc \in Procs /\ Ran /\ NoneFailed /\ proc[p].pc \in 1 .. Len(Shared!Program)
    BY DEF SchemaInv, SchemaTypes, Shared!TypeOK, Procs
  <1>2. PICK k : k = proc[p].pc
    OBVIOUS
  <1>3. k \in 1 .. Len(Shared!Program) /\ k \in Nat /\ Len(Shared!Program) \in Nat /\ Len(Body) \in Nat /\ Len(Body) <= Len(Shared!Program)
    BY <1>1, <1>2, ProgramHas
  <1>4. \A q \in Processes : q # p => proc'[q] = proc[q]
    BY <1>1 DEF Shared!Passes, Procs
  <1>5. CASE k = Len(Shared!Program)
    <2>1. proc'[p] = [at |-> "open", pc |-> k, saw |-> FALSE]
      BY <1>1, <1>2, <1>5 DEF Shared!Passes, Procs
    <2>2. proc' \in Procs
      BY <1>1, <1>2, <1>5, <2>1 DEF Shared!Passes, Procs
    <2>3. ASSUME NEW n \in 1 .. Len(Body)
          PROVE  Body[n].what \in have'
      <3>1. n < k \/ n = k
        BY <1>3, <1>5
      <3>. QED
        BY <1>1, <1>2, <1>3, <3>1 DEF Ran
    <2>. QED
      BY <1>1, <1>4, <2>1, <2>2, <2>3 DEF Migrated, Ran, NoneFailed
  <1>6. CASE k # Len(Shared!Program)
    <2>. DEFINE r == [proc[p] EXCEPT !.pc = proc[p].pc + 1, !.saw = FALSE]
    <2>00. ~ (proc[p].pc = Len(Shared!Program))
      BY <1>2, <1>6
    <2>0. proc' = [proc EXCEPT ![p] = r]
      BY <2>00 DEF Shared!Passes
    <2>2. k + 1 \in 1 .. Len(Shared!Program)
      BY <1>3, <1>6
    <2>01. proc[p] \in [at : {"old", "down", "opening", "open", "failed"}, pc : 1 .. Len(Shared!Program), saw : BOOLEAN]
      BY <1>1 DEF Procs
    <2>02. r \in [at : {"old", "down", "opening", "open", "failed"}, pc : 1 .. Len(Shared!Program), saw : BOOLEAN]
      BY <1>2, <2>01, <2>2
    <2>03. r.at = "opening" /\ r.pc = k + 1
      BY <1>2, <2>01
    <2>. HIDE DEF r
    <2>1. proc'[p].at = "opening" /\ proc'[p].pc = k + 1
      BY <1>1, <2>0, <2>03 DEF Procs
    <2>3. proc' \in Procs
      BY <1>1, <2>0, <2>02 DEF Procs
    <2>4. ASSUME NEW n \in 1 .. Len(Body), n < k + 1
          PROVE  Body[n].what \in have'
      <3>1. n < k \/ n = k
        BY <1>3, <2>4
      <3>. QED
        BY <1>1, <1>2, <1>3, <3>1 DEF Ran
    <2>. QED
      BY <1>1, <1>4, <2>1, <2>3, <2>4 DEF Migrated, Ran, NoneFailed
  <1>. QED
    BY <1>5, <1>6

(* A process that does not get further has nothing new to answer for. *)
LEMMA StaysKeeps ==
    ASSUME SchemaInv, have \subseteq have',
           proc' \in Procs,
           \A q \in Processes : \/ proc'[q] = proc[q]
                                \/ /\ proc'[q].at \notin {"open", "failed"}
                                   /\ proc'[q].pc = proc[q].pc \/ proc'[q].pc = 1
    PROVE  Migrated'
  <1>1. Ran /\ NoneFailed
    BY DEF SchemaInv
  <1>2. \A n \in 1 .. Len(Body) : ~ (n < 1)
    BY ProgramHas
  <1>. QED
    BY <1>1, <1>2 DEF Migrated, Ran, NoneFailed

LEMMA MoreStays ==
    ASSUME SchemaInv, NEW p \in Processes, proc' \in Procs, have' = have,
           \A q \in Processes : q # p => proc'[q] = proc[q],
           proc'[p].at \notin {"open", "failed"}, proc'[p].pc \in {1, proc[p].pc}
    PROVE  Migrated'
  BY StaysKeeps

LEMMA ProcSteps ==
    ASSUME Shared!SharedSchemaConstants, SchemaInv, NEW p \in Processes,
           \/ Shared!Stops(p) \/ Shared!Starts(p) \/ Shared!Dies(p) \/ Shared!Creates(p) \/ Shared!LooksForColumn(p) \/ Shared!AddsColumn(p) \/ Shared!CreatesIndex(p)
           \/ (\E op \in {"letters", "bindings"} : Shared!LooksForFlag(p, op))
           \/ Shared!MovesLetters(p) \/ Shared!MovesBindings(p) \/ Shared!Stamps(p)
    PROVE  proc' \in Procs /\ Migrated' /\ have \subseteq have' /\ have' \subseteq Shared!ItemNames(Body)
  <1>. DEFINE k == proc[p].pc
  <1>0. /\ proc \in Procs /\ Ran /\ NoneFailed /\ k \in 1 .. Len(Shared!Program) /\ have \subseteq Shared!ItemNames(Body)
        /\ proc[p].saw \in BOOLEAN /\ proc[p].at \in {"old", "down", "opening", "open", "failed"}
    BY DEF SchemaInv, SchemaTypes, Shared!TypeOK, Procs, Body
  <1>1. /\ Shared!Program[k].op \in {"create", "column"} <=> k <= Len(Body)
        /\ k <= Len(Body) => Shared!What(p) = Body[k].what /\ Shared!What(p) \in Shared!ItemNames(Body)
        /\ Shared!Program[k].op = "index" => Shared!What(p) \in Shared!ItemNames(Body) /\ k > Len(Body)
    <2>1. k <= Len(Body) => k \in 1 .. Len(Body)
      BY <1>0, ProgramHas
    <2>. QED
      BY <1>0, <2>1, ProgramHas DEF Shared!What
  <1>2. 1 \in 1 .. Len(Shared!Program)
    BY ProgramHas
  <1>. HIDE DEF k
  <1>3. CASE Shared!Stops(p)
    <2>1. /\ proc' \in Procs /\ have' = have /\ \A q \in Processes : q # p => proc'[q] = proc[q]
          /\ proc'[p].at = "down" /\ proc'[p].pc \in {1, proc[p].pc}
      BY <1>0, <1>2, <1>3 DEF Shared!Stops, Procs, k
    <2>. QED
      BY <1>0, <2>1, MoreStays
  <1>4. CASE Shared!Starts(p)
    <2>1. /\ proc' \in Procs /\ have' = have /\ \A q \in Processes : q # p => proc'[q] = proc[q]
          /\ proc'[p].at = "opening" /\ proc'[p].pc \in {1, proc[p].pc}
      BY <1>0, <1>2, <1>4 DEF Shared!Starts, Procs, k
    <2>. QED
      BY <1>0, <2>1, MoreStays
  <1>5. CASE Shared!Dies(p)
    <2>1. /\ proc' \in Procs /\ have' = have /\ \A q \in Processes : q # p => proc'[q] = proc[q]
          /\ proc'[p].at = "down" /\ proc'[p].pc \in {1, proc[p].pc}
      BY <1>0, <1>2, <1>5 DEF Shared!Dies, Procs, k
    <2>. QED
      BY <1>0, <2>1, MoreStays
  <1>6. CASE proc[p].at = "opening" /\ have' = have /\ proc' = [proc EXCEPT ![p].saw = TRUE]
    <2>1. /\ proc' \in Procs /\ have' = have /\ \A q \in Processes : q # p => proc'[q] = proc[q]
          /\ proc'[p].at = "opening" /\ proc'[p].pc \in {1, proc[p].pc}
      BY <1>0, <1>2, <1>6 DEF Procs, k
    <2>. QED
      BY <1>0, <2>1, MoreStays
  <1>7. CASE proc[p].at = "opening" /\ Shared!Passes(p) /\ have \subseteq have' /\ have' \subseteq Shared!ItemNames(Body)
             /\ (k <= Len(Body) => Shared!What(p) \in have')
    BY <1>1, <1>7, PassesKeeps DEF k
  <1>8. CASE Shared!Creates(p)
    <2>1. have \subseteq have' /\ Shared!What(p) \in have' /\ Shared!Program[k].op = "create" /\ proc[p].at = "opening" /\ Shared!Passes(p)
      BY <1>8 DEF Shared!Creates, Shared!At, k
    <2>2. have' \subseteq Shared!ItemNames(Body)
      BY <1>0, <1>1, <1>8, <2>1, ListedIs DEF Shared!Creates
    <2>. QED
      BY <1>7, <2>1, <2>2
  <1>9. CASE Shared!LooksForColumn(p)
    BY <1>0, <1>6, <1>7, <1>9 DEF Shared!LooksForColumn, Shared!At
  <1>10. CASE Shared!AddsColumn(p)
    <2>1. have \subseteq have' /\ Shared!What(p) \in have' /\ Shared!Program[k].op = "column" /\ proc[p].at = "opening" /\ Shared!Passes(p)
      BY <1>10 DEF Shared!AddsColumn, Shared!At, Shared!Duplicate, k
    <2>2. have' \subseteq Shared!ItemNames(Body)
      BY <1>0, <1>1, <1>10, <2>1 DEF Shared!AddsColumn
    <2>. QED
      BY <1>7, <2>1, <2>2
  <1>11. CASE Shared!CreatesIndex(p)
    <2>1. Shared!Program[k].op = "index" /\ proc[p].at = "opening" /\ have' = have
      BY <1>11 DEF Shared!CreatesIndex, Shared!At, k
    <2>2. Shared!What(p) \in have
      <3>1. PICK n \in 1 .. Len(Body) : Shared!What(p) = Body[n].what
        BY <1>1, <2>1, ProgramHas
      <3>2. n < k
        BY <1>0, <1>1, <2>1, ProgramHas
      <3>. QED
        BY <1>0, <3>1, <3>2 DEF Ran, k
    <2>. QED
      BY <1>0, <1>7, <1>11, <2>1, <2>2 DEF Shared!CreatesIndex
  <1>12. ASSUME NEW op \in {"letters", "bindings"}, Shared!LooksForFlag(p, op)
         PROVE  proc' \in Procs /\ Migrated' /\ have \subseteq have' /\ have' \subseteq Shared!ItemNames(Body)
    <2>1. Shared!Program[k].op \notin {"create", "column"} /\ proc[p].at = "opening" /\ have' = have
      BY <1>12 DEF Shared!LooksForFlag, Shared!At, k
    <2>. QED
      BY <1>0, <1>1, <1>6, <1>7, <1>12, <2>1 DEF Shared!LooksForFlag
  <1>13. CASE Shared!MovesLetters(p) \/ Shared!MovesBindings(p) \/ Shared!Stamps(p)
    <2>1. Shared!Program[k].op \notin {"create", "column"} /\ proc[p].at = "opening" /\ have' = have /\ Shared!Passes(p)
      BY <1>13 DEF Shared!MovesLetters, Shared!MovesBindings, Shared!Stamps, Shared!At, k
    <2>. QED
      BY <1>0, <1>1, <1>7, <2>1
  <1>. QED
    BY <1>3, <1>4, <1>5, <1>8, <1>9, <1>10, <1>11, <1>12, <1>13
LetterTypes ==
    letter \in [Letters -> [row : {"none", "unread", "read"}, late : BOOLEAN, posted : {"none", "unread", "read"}]]

LineTypes ==
    line \in [RoomLines -> [written : BOOLEAN, stamp : {"none", "sent", "skipped"}, late : BOOLEAN,
                        delivery : {"none", "sent", "skipped"}, sent : 0..2]]

LEMMA LetterSteps ==
    ASSUME Shared!SharedSchemaConstants, SchemaInv, [Shared!Next]_(Shared!vars)
    PROVE  LetterTypes' /\ LetterInv' /\ meta' \subseteq {"letters", "bindings", "schema_version"} /\ meta \subseteq meta'
  <1>0. LetterTypes /\ LetterInv /\ meta \subseteq {"letters", "bindings", "schema_version"}
    BY DEF SchemaInv, SchemaTypes, Shared!TypeOK, LetterTypes
  <1>1. CASE letter' = letter /\ meta \subseteq meta' /\ meta' \subseteq {"letters", "bindings", "schema_version"}
             /\ ("letters" \in meta' => "letters" \in meta)
    BY <1>0, <1>1 DEF LetterTypes, LetterInv
  <1>2. ASSUME NEW p \in Processes, Shared!MovesLetters(p)
        PROVE  LetterTypes' /\ LetterInv' /\ meta' \subseteq {"letters", "bindings", "schema_version"} /\ meta \subseteq meta'
    <2>1. meta' = meta \cup {"letters"}
      BY <1>2 DEF Shared!MovesLetters
    <2>2. CASE "letters" \in meta
      BY <1>0, <1>2, <2>1, <2>2 DEF Shared!MovesLetters, LetterTypes, LetterInv
    <2>3. CASE "letters" \notin meta
      <3>1. letter' = [m \in Letters |-> IF letter[m].posted # "none" THEN letter[m]
                                         ELSE [letter[m] EXCEPT !.posted = letter[m].row]]
        BY <1>2, <2>3 DEF Shared!MovesLetters, Shared!Posted
      <3>2. ASSUME NEW m \in Letters
            PROVE  letter'[m] = [letter[m] EXCEPT !.posted = letter[m].row]
        BY <1>0, <2>3, <3>1 DEF LetterInv
      <3>3. ASSUME NEW m \in Letters
            PROVE  /\ letter'[m] \in [row : {"none", "unread", "read"}, late : BOOLEAN, posted : {"none", "unread", "read"}]
                   /\ letter'[m].posted = letter'[m].row
        <4>1. letter[m] \in [row : {"none", "unread", "read"}, late : BOOLEAN, posted : {"none", "unread", "read"}]
          BY <1>0 DEF LetterTypes
        <4>2. letter'[m].row = letter[m].row /\ letter'[m].posted = letter[m].row
          BY <3>2, <4>1
        <4>. QED
          BY <3>2, <4>1, <4>2
      <3>4. letter' = [m \in Letters |-> letter'[m]]
        BY <3>1
      <3>5. LetterTypes'
        BY <3>3, <3>4 DEF LetterTypes
      <3>. QED
        BY <1>0, <2>1, <3>3, <3>5 DEF LetterInv
    <2>. QED
      BY <2>2, <2>3
  <1>3. ASSUME NEW p \in Processes, NEW m \in Letters, Shared!OldSends(p, m) \/ Shared!OldReads(p, m)
        PROVE  LetterTypes' /\ LetterInv' /\ meta' = meta
    <2>1. /\ meta' = meta
          /\ \A o \in Letters : o # m => letter'[o] = letter[o]
          /\ letter'[m].posted = letter[m].posted
          /\ "letters" \in meta => letter'[m].late
      BY <1>0, <1>3 DEF Shared!OldSends, Shared!OldReads, LetterTypes
    <2>2. LetterTypes'
      BY <1>0, <1>3 DEF Shared!OldSends, Shared!OldReads, LetterTypes
    <2>. QED
      BY <1>0, <2>1, <2>2 DEF LetterInv
  <1>4. ASSUME NEW p \in Processes, Shared!MovesBindings(p) \/ Shared!Stamps(p)
        PROVE  letter' = letter /\ meta \subseteq meta' /\ meta' \subseteq {"letters", "bindings", "schema_version"}
             /\ ("letters" \in meta' => "letters" \in meta)
    BY <1>0, <1>4 DEF Shared!MovesBindings, Shared!Stamps
  <1>5. ASSUME NEW p \in Processes,
               \/ Shared!Stops(p) \/ Shared!Starts(p) \/ Shared!Dies(p) \/ Shared!Creates(p) \/ Shared!LooksForColumn(p) \/ Shared!AddsColumn(p) \/ Shared!CreatesIndex(p)
               \/ (\E op \in {"letters", "bindings"} : Shared!LooksForFlag(p, op)) \/ Shared!Unbinds(p)
               \/ (\E l \in RoomLines : Shared!Writes(p, l))
        PROVE  UNCHANGED <<letter, meta>>
    BY <1>5 DEF Shared!Stops, Shared!Starts, Shared!Dies, Shared!Creates, Shared!LooksForColumn, Shared!AddsColumn, Shared!CreatesIndex, Shared!LooksForFlag, Shared!Unbinds, Shared!Writes
  <1>6. ASSUME NEW l \in RoomLines, Shared!OldForwards(l) \/ Shared!Forwards(l)
        PROVE  UNCHANGED <<letter, meta>>
    BY <1>6 DEF Shared!OldForwards, Shared!Forwards
  <1>7. CASE UNCHANGED Shared!vars
    BY <1>0, <1>1, <1>7 DEF Shared!vars
  <1>. QED
    BY <1>0, <1>1, <1>2, <1>3, <1>4, <1>5, <1>6, <1>7 DEF Shared!Next, Shared!Executes

LEMMA OneIs ==
    /\ One(TRUE) = 1 /\ One(FALSE) = 0 /\ \A b \in BOOLEAN : One(b) \in {0, 1}
  BY DEF One

(* One line changes: what has to be shown of it. *)
LEMMA LineChanges ==
    ASSUME Shared!SharedSchemaConstants, SchemaInv, NEW l \in RoomLines, LineTypes', UNCHANGED dest,
           \A o \in RoomLines : o # l => line'[o] = line[o],
           line'[l].sent <= One(line'[l].stamp # "none") + One(line'[l].delivery # "none"),
           dest = "none" => line'[l].delivery = "none",
           \/ line'[l].late
           \/ /\ line'[l].stamp = "skipped" => line'[l].sent = 0
              /\ line'[l].stamp = "sent" => line'[l].sent = 1
              /\ line'[l].stamp = "none" /\ line'[l].delivery = "none" => line'[l].sent = 0
              /\ dest # "none" /\ line'[l].stamp # "none" => line'[l].delivery # "none"
              /\ line'[l].sent <= 1
    PROVE  LineInv'
  <1>1. LineInv
    BY DEF SchemaInv
  <1>2. ASSUME NEW o \in RoomLines, o # l
        PROVE  /\ line'[o].sent <= One(line'[o].stamp # "none") + One(line'[o].delivery # "none")
               /\ dest' = "none" => line'[o].delivery = "none"
               /\ \/ line'[o].late
                  \/ /\ line'[o].stamp = "skipped" => line'[o].sent = 0
                     /\ line'[o].stamp = "sent" => line'[o].sent = 1
                     /\ line'[o].stamp = "none" /\ line'[o].delivery = "none" => line'[o].sent = 0
                     /\ dest' # "none" /\ line'[o].stamp # "none" => line'[o].delivery # "none"
                     /\ line'[o].sent <= 1
    <2>1. line'[o] = line[o]
      BY <1>2
    <2>. QED
      BY <1>1, <2>1 DEF LineInv
  <1>. QED
    BY <1>2 DEF LineInv

LEMMA MovesBindingsKeeps ==
    ASSUME Shared!SharedSchemaConstants, SchemaInv, NEW p \in Processes, Shared!MovesBindings(p)
    PROVE  LineTypes' /\ LineInv' /\ BoundInv' /\ dest' \in {"none", "bound", "removed"}
  <1>0. LineTypes /\ LineInv /\ BoundInv /\ dest \in {"none", "bound", "removed"}
    BY DEF SchemaInv, SchemaTypes, Shared!TypeOK, LineTypes
  <1>1. meta' = meta \cup {"bindings"} /\ version' = version
    BY DEF Shared!MovesBindings
  <1>2. CASE Shared!Bound \/ ~Shared!HasBinding
    <2>1. UNCHANGED <<dest, line>>
      BY <1>2 DEF Shared!MovesBindings
    <2>. QED
      BY <1>0, <1>1, <1>2, <2>1 DEF LineTypes, LineInv, BoundInv, Shared!Bound, Shared!HasBinding
  <1>3. CASE ~ (Shared!Bound \/ ~Shared!HasBinding)
    <2>1. /\ dest = "none" /\ dest' = "bound"
          /\ line' = [l \in RoomLines |-> [line[l] EXCEPT !.delivery = Shared!Decided(l)]]
      BY <1>0, <1>3 DEF Shared!MovesBindings, BoundInv, Shared!Bound
    <2>2. ASSUME NEW l \in RoomLines
          PROVE  /\ line'[l] \in [written : BOOLEAN, stamp : {"none", "sent", "skipped"}, late : BOOLEAN,
                                   delivery : {"none", "sent", "skipped"}, sent : 0..2]
                 /\ line'[l].stamp = line[l].stamp /\ line'[l].late = line[l].late /\ line'[l].sent = line[l].sent
                 /\ line'[l].delivery = line[l].stamp /\ line[l].delivery = "none"
      <3>1. line'[l] = [line[l] EXCEPT !.delivery = Shared!Decided(l)] /\ line[l].delivery = "none"
        BY <1>0, <2>1 DEF LineInv
      <3>2. Shared!Decided(l) = line[l].stamp /\ line[l].stamp \in {"none", "sent", "skipped"}
        BY <1>0, <3>1 DEF Shared!Decided, LineTypes
      <3>. QED
        BY <1>0, <3>1, <3>2 DEF LineTypes
    <2>3. line' = [l \in RoomLines |-> line'[l]]
      BY <2>1
    <2>4. LineTypes'
      BY <2>2, <2>3 DEF LineTypes
    <2>5. LineInv'
      <3>1. ASSUME NEW l \in RoomLines
            PROVE  line'[l].sent <= One(line'[l].stamp # "none") + One(line'[l].delivery # "none")
        <4>1. line[l].sent <= One(line[l].stamp # "none") + One(line[l].delivery # "none") /\ line[l].sent \in 0 .. 2
          BY <1>0 DEF LineInv, LineTypes
        <4>. QED
          BY <2>2, <4>1 DEF One
      <3>2. ASSUME NEW l \in RoomLines, ~ line'[l].late
            PROVE  /\ line'[l].stamp = "skipped" => line'[l].sent = 0
                   /\ line'[l].stamp = "sent" => line'[l].sent = 1
                   /\ line'[l].stamp = "none" /\ line'[l].delivery = "none" => line'[l].sent = 0
                   /\ dest' # "none" /\ line'[l].stamp # "none" => line'[l].delivery # "none"
                   /\ line'[l].sent <= 1
        BY <1>0, <2>2, <3>2 DEF LineInv
      <3>. QED
        BY <2>1, <3>1, <3>2 DEF LineInv
    <2>. QED
      BY <1>1, <2>1, <2>4, <2>5 DEF BoundInv
  <1>. QED
    BY <1>2, <1>3

LEMMA LineSteps ==
    ASSUME Shared!SharedSchemaConstants, SchemaInv, [Shared!Next]_(Shared!vars)
    PROVE  LineTypes' /\ LineInv' /\ BoundInv' /\ dest' \in {"none", "bound", "removed"}
  <1>0. LineTypes /\ LineInv /\ BoundInv /\ dest \in {"none", "bound", "removed"}
    BY DEF SchemaInv, SchemaTypes, Shared!TypeOK, LineTypes
  <1>1. ASSUME NEW p \in Processes, Shared!MovesBindings(p)
        PROVE  LineTypes' /\ LineInv' /\ BoundInv' /\ dest' \in {"none", "bound", "removed"}
    BY <1>1, MovesBindingsKeeps
  <1>2. ASSUME NEW p \in Processes, NEW l \in RoomLines, Shared!Writes(p, l)
        PROVE  LineTypes' /\ LineInv' /\ BoundInv' /\ dest' \in {"none", "bound", "removed"}
    <2>1. /\ UNCHANGED <<dest, meta, version>> /\ LineTypes' /\ \A o \in RoomLines : o # l => line'[o] = line[o]
          /\ line'[l].stamp = line[l].stamp /\ line'[l].late = line[l].late /\ line'[l].sent = line[l].sent
          /\ line'[l].delivery = line[l].delivery
      BY <1>0, <1>2 DEF Shared!Writes, LineTypes
    <2>2. LineInv'
      BY <1>0, <2>1, LineChanges DEF LineInv
    <2>. QED
      BY <1>0, <2>1, <2>2 DEF BoundInv, Shared!HasBinding
  <1>3. ASSUME NEW l \in RoomLines, Shared!OldForwards(l)
        PROVE  LineTypes' /\ LineInv' /\ BoundInv' /\ dest' \in {"none", "bound", "removed"}
    <2>0. PICK how \in {"sent", "skipped"} :
              line' = [line EXCEPT ![l].stamp = how, ![l].late = "bindings" \in meta,
                                   ![l].sent = IF how = "sent" THEN @ + 1 ELSE @]
      BY <1>3 DEF Shared!OldForwards
    <2>1. /\ UNCHANGED <<dest, meta, version>> /\ \A o \in RoomLines : o # l => line'[o] = line[o]
          /\ line'[l].stamp = how /\ line'[l].delivery = line[l].delivery
          /\ line'[l].sent = (IF how = "sent" THEN line[l].sent + 1 ELSE line[l].sent)
          /\ line[l].stamp = "none" /\ Shared!HasBinding
      <3>1. UNCHANGED <<dest, meta, version>> /\ line[l].stamp = "none" /\ Shared!HasBinding
        BY <1>3 DEF Shared!OldForwards
      <3>2. \A o \in RoomLines : o # l => line'[o] = line[o]
        BY <1>0, <2>0 DEF LineTypes
      <3>3. line'[l].stamp = how /\ line'[l].delivery = line[l].delivery
        BY <1>0, <2>0 DEF LineTypes
      <3>4. line'[l].sent = (IF how = "sent" THEN line[l].sent + 1 ELSE line[l].sent)
        BY <1>0, <2>0 DEF LineTypes
      <3>. QED
        BY <3>1, <3>2, <3>3, <3>4
    <2>11. (how = "sent" => line'[l].sent = line[l].sent + 1) /\ (how = "skipped" => line'[l].sent = line[l].sent)
      BY <2>1, Zenon
    <2>12. how = "sent" \/ how = "skipped"
      BY <2>0
    <2>10. line'[l].late = ("bindings" \in meta)
      BY <1>0, <2>0 DEF LineTypes
    <2>2. line[l].sent \in 0 .. 2 /\ line[l].sent <= One(line[l].stamp # "none") + One(line[l].delivery # "none")
          /\ line[l].delivery \in {"none", "sent", "skipped"}
      BY <1>0 DEF LineInv, LineTypes
    <2>3. line[l].sent \in 0 .. 1 /\ (line[l].delivery = "none" => line[l].sent = 0)
      BY <2>1, <2>2 DEF One
    <2>4. line'[l].sent <= One(line'[l].stamp # "none") + One(line'[l].delivery # "none") /\ line'[l].sent \in 0 .. 2
      <3>1. One(line'[l].stamp # "none") = 1
        BY <2>0, <2>1 DEF One
      <3>2. One(line'[l].delivery # "none") \in 0 .. 1 /\ (line[l].sent = 1 => One(line'[l].delivery # "none") = 1)
        BY <2>1, <2>3 DEF One
      <3>3. line'[l].sent \in 0 .. 2 /\ line'[l].sent <= line[l].sent + 1
        BY <2>3, <2>11, <2>12
      <3>. QED
        BY <2>3, <3>1, <3>2, <3>3
    <2>5. LineTypes'
      <3>1. line'[l] \in [written : BOOLEAN, stamp : {"none", "sent", "skipped"}, late : BOOLEAN,
                           delivery : {"none", "sent", "skipped"}, sent : 0..2]
        <4>1. line'[l] = [line[l] EXCEPT !.stamp = how, !.late = ("bindings" \in meta), !.sent = line'[l].sent]
          BY <1>0, <2>0, <2>1, <2>10 DEF LineTypes
        <4>2. line[l] \in [written : BOOLEAN, stamp : {"none", "sent", "skipped"}, late : BOOLEAN,
                           delivery : {"none", "sent", "skipped"}, sent : 0..2]
          BY <1>0 DEF LineTypes
        <4>3. ("bindings" \in meta) \in BOOLEAN
          OBVIOUS
        <4>. QED
          BY <2>4, <4>1, <4>2, <4>3
      <3>2. DOMAIN line' = RoomLines /\ line' = [o \in RoomLines |-> line'[o]]
        BY <1>0, <2>0 DEF LineTypes
      <3>3. \A o \in RoomLines : line'[o] \in [written : BOOLEAN, stamp : {"none", "sent", "skipped"}, late : BOOLEAN,
                               delivery : {"none", "sent", "skipped"}, sent : 0..2]
        BY <1>0, <2>1, <3>1 DEF LineTypes
      <3>. QED
        BY <3>2, <3>3 DEF LineTypes
    <2>6. dest = "none" => line'[l].delivery = "none"
      BY <1>0, <2>1 DEF LineInv
    <2>7. ~ line'[l].late =>
            /\ line'[l].stamp = "skipped" => line'[l].sent = 0
            /\ line'[l].stamp = "sent" => line'[l].sent = 1
            /\ line'[l].stamp = "none" /\ line'[l].delivery = "none" => line'[l].sent = 0
            /\ dest # "none" /\ line'[l].stamp # "none" => line'[l].delivery # "none"
            /\ line'[l].sent <= 1
      <3>1. ~ line'[l].late => dest = "none"
        BY <1>0, <2>1, <2>10 DEF BoundInv
      <3>2. dest = "none" => line[l].sent = 0
        BY <1>0, <2>3 DEF LineInv
      <3>. QED
        <4>1. ~ line'[l].late => line[l].sent = 0 /\ dest = "none"
          BY <3>1, <3>2
        <4>2. line'[l].stamp = how
          BY <2>1
        <4>. QED
          BY <2>11, <2>12, <4>1, <4>2
    <2>8. LineInv'
      BY <2>1, <2>4, <2>5, <2>6, <2>7, LineChanges
    <2>. QED
      BY <1>0, <2>1, <2>5, <2>8 DEF BoundInv, Shared!HasBinding
  <1>4. ASSUME NEW l \in RoomLines, Shared!Forwards(l)
        PROVE  LineTypes' /\ LineInv' /\ BoundInv' /\ dest' \in {"none", "bound", "removed"}
    <2>1. /\ UNCHANGED <<dest, meta, version>> /\ \A o \in RoomLines : o # l => line'[o] = line[o]
          /\ line'[l].stamp = line[l].stamp /\ line'[l].late = line[l].late /\ line'[l].delivery = "sent"
          /\ line'[l].sent = line[l].sent + 1 /\ line[l].delivery = "none" /\ dest = "bound"
      BY <1>0, <1>4 DEF Shared!Forwards, LineTypes
    <2>2. line[l].sent \in 0 .. 2 /\ line[l].sent <= One(line[l].stamp # "none") + One(line[l].delivery # "none")
      BY <1>0 DEF LineInv, LineTypes
    <2>3. line[l].sent \in 0 .. 1 /\ line[l].sent <= One(line[l].stamp # "none")
      BY <2>1, <2>2 DEF One
    <2>4. line'[l].sent <= One(line'[l].stamp # "none") + One(line'[l].delivery # "none") /\ line'[l].sent \in 0 .. 2
      BY <2>1, <2>3 DEF One
    <2>5. LineTypes'
      BY <1>0, <1>4, <2>1, <2>4 DEF Shared!Forwards, LineTypes
    <2>6. ~ line'[l].late => line'[l].stamp = "none" /\ line'[l].sent = 1
      BY <1>0, <2>1, <2>2 DEF LineInv
    <2>7. LineInv'
      BY <2>1, <2>4, <2>5, <2>6, LineChanges
    <2>. QED
      BY <1>0, <2>1, <2>5, <2>7 DEF BoundInv, Shared!HasBinding
  <1>5. ASSUME NEW p \in Processes, Shared!Unbinds(p)
        PROVE  LineTypes' /\ LineInv' /\ BoundInv' /\ dest' \in {"none", "bound", "removed"}
    BY <1>0, <1>5 DEF Shared!Unbinds, LineTypes, LineInv, BoundInv, Shared!HasBinding
  <1>6. ASSUME UNCHANGED <<line, dest, version>>, "bindings" \in meta' <=> "bindings" \in meta
        PROVE  LineTypes' /\ LineInv' /\ BoundInv' /\ dest' \in {"none", "bound", "removed"}
    BY <1>0, <1>6 DEF LineTypes, LineInv, BoundInv, Shared!HasBinding
  <1>7. ASSUME NEW p \in Processes,
               \/ Shared!Stops(p) \/ Shared!Starts(p) \/ Shared!Dies(p) \/ Shared!Creates(p) \/ Shared!LooksForColumn(p) \/ Shared!AddsColumn(p) \/ Shared!CreatesIndex(p)
               \/ (\E op \in {"letters", "bindings"} : Shared!LooksForFlag(p, op)) \/ Shared!MovesLetters(p) \/ Shared!Stamps(p)
               \/ (\E m \in Letters : Shared!OldSends(p, m) \/ Shared!OldReads(p, m))
        PROVE  UNCHANGED <<line, dest, version>> /\ ("bindings" \in meta' <=> "bindings" \in meta)
    BY <1>7 DEF Shared!Stops, Shared!Starts, Shared!Dies, Shared!Creates, Shared!LooksForColumn, Shared!AddsColumn, Shared!CreatesIndex, Shared!LooksForFlag, Shared!MovesLetters, Shared!Stamps,
         Shared!OldSends, Shared!OldReads
  <1>8. CASE UNCHANGED Shared!vars
    BY <1>6, <1>8 DEF Shared!vars
  <1>. QED
    BY <1>1, <1>2, <1>3, <1>4, <1>5, <1>6, <1>7, <1>8 DEF Shared!Next, Shared!Executes

LEMMA SchemaStep ==
    ASSUME Shared!SharedSchemaConstants, SchemaInv, [Shared!Next]_(Shared!vars)
    PROVE  SchemaInv'
  <1>0. Shared!TypeOK /\ Ran /\ NoneFailed
    BY DEF SchemaInv, SchemaTypes
  <1>1. proc' \in Procs /\ Migrated' /\ have' \subseteq Shared!ItemNames(Body)
    <2>1. ASSUME NEW p \in Processes,
           \/ Shared!Stops(p) \/ Shared!Starts(p) \/ Shared!Dies(p) \/ Shared!Executes(p)
          PROVE  proc' \in Procs /\ Migrated' /\ have' \subseteq Shared!ItemNames(Body)
      BY <2>1, ProcSteps DEF Shared!Executes
    <2>2. CASE UNCHANGED <<proc, have>>
      BY <1>0, <2>2 DEF Shared!TypeOK, Procs, Body, Migrated, Ran, NoneFailed
    <2>3. ASSUME NEW p \in Processes, \/ Shared!Unbinds(p) \/ (\E m \in Letters : Shared!OldSends(p, m) \/ Shared!OldReads(p, m))
                                      \/ (\E l \in RoomLines : Shared!Writes(p, l))
          PROVE  UNCHANGED <<proc, have>>
      BY <2>3 DEF Shared!Unbinds, Shared!OldSends, Shared!OldReads, Shared!Writes
    <2>4. ASSUME NEW l \in RoomLines, Shared!OldForwards(l) \/ Shared!Forwards(l)
          PROVE  UNCHANGED <<proc, have>>
      BY <2>4 DEF Shared!OldForwards, Shared!Forwards
    <2>5. CASE UNCHANGED Shared!vars
      BY <2>2, <2>5 DEF Shared!vars
    <2>. QED
      BY <2>1, <2>2, <2>3, <2>4, <2>5 DEF Shared!Next
  <1>2. version' = version /\ crashes' \in 0 .. MaxCrashes
    <2>1. ASSUME NEW p \in Processes, Shared!Dies(p)
          PROVE  version' = version /\ crashes' \in 0 .. MaxCrashes
      BY <1>0, <2>1 DEF Shared!Dies, Shared!TypeOK, Shared!SharedSchemaConstants
    <2>2. ASSUME NEW p \in Processes, \/ Shared!Stops(p) \/ Shared!Starts(p) \/ Shared!Executes(p) \/ Shared!Unbinds(p)
                                      \/ (\E m \in Letters : Shared!OldSends(p, m) \/ Shared!OldReads(p, m))
                                      \/ (\E l \in RoomLines : Shared!Writes(p, l))
          PROVE  version' = version /\ crashes' = crashes
      BY <2>2 DEF Shared!Unbinds, Shared!OldSends, Shared!OldReads, Shared!Writes, Shared!Stops, Shared!Starts, Shared!Executes, Shared!Creates, Shared!LooksForColumn, Shared!AddsColumn,
           Shared!CreatesIndex, Shared!LooksForFlag, Shared!MovesLetters, Shared!MovesBindings, Shared!Stamps
    <2>3. ASSUME NEW l \in RoomLines, Shared!OldForwards(l) \/ Shared!Forwards(l)
          PROVE  version' = version /\ crashes' = crashes
      BY <2>3 DEF Shared!OldForwards, Shared!Forwards
    <2>. QED
      BY <1>0, <2>1, <2>2, <2>3 DEF Shared!Next, Shared!vars, Shared!TypeOK
  <1>3. LetterTypes' /\ LetterInv' /\ meta' \subseteq {"letters", "bindings", "schema_version"}
    BY LetterSteps
  <1>4. LineTypes' /\ LineInv' /\ BoundInv' /\ dest' \in {"none", "bound", "removed"}
    BY LineSteps
  <1>5. Shared!TypeOK'
    BY <1>0, <1>1, <1>2, <1>3, <1>4 DEF Shared!TypeOK, Procs, Body, LetterTypes, LineTypes
  <1>. QED
    BY <1>1, <1>3, <1>4, <1>5 DEF SchemaInv, SchemaTypes, Migrated

LEMMA SchemaStarts ==
    ASSUME Shared!SharedSchemaConstants, Shared!Init
    PROVE  SchemaInv
  <1>1. version \in {0, 2, 5, 10, 14} /\ have = Shared!Built(version)
    BY DEF Shared!Init, Shared!SharedSchemaConstants
  <1>2. have \subseteq Shared!ItemNames(Body)
    BY <1>1, BuiltIs
  <1>3. 1 \in 1 .. Len(Shared!Program) /\ \A n \in 1 .. Len(Body) : ~ (n < 1)
    BY ProgramHas
  <1>4. proc \in Procs /\ \A p \in Processes : proc[p].at \in {"down", "old"} /\ proc[p].pc = 1
    BY <1>3 DEF Shared!Init, Procs
  <1>5. Ran /\ NoneFailed
    BY <1>3, <1>4 DEF Ran, NoneFailed
  <1>6. letter = [m \in Letters |-> [row |-> "none", late |-> FALSE, posted |-> "none"]]
        /\ line = [l \in RoomLines |-> [written |-> FALSE, stamp |-> "none", late |-> FALSE, delivery |-> "none", sent |-> 0]]
        /\ dest = "none" /\ crashes = 0
    BY DEF Shared!Init
  <1>7. LetterTypes /\ LineTypes
    BY <1>6 DEF LetterTypes, LineTypes
  <1>8. LetterInv
    BY <1>6 DEF LetterInv
  <1>9. BoundInv
    <2>1. Shared!HasBinding => "bindings" \notin meta
      BY DEF Shared!Init, Shared!HasBinding
    <2>. QED
      BY <1>6, <2>1 DEF BoundInv
  <1>10. LineInv
    BY <1>6 DEF LineInv, One
  <1>11. Shared!TypeOK
    <2>1. meta \subseteq {"letters", "bindings", "schema_version"}
      BY DEF Shared!Init
    <2>. QED
      BY <1>2, <1>4, <1>6, <1>7, <2>1 DEF Shared!TypeOK, Shared!Init, Procs, Body, LetterTypes, LineTypes, Shared!SharedSchemaConstants
  <1>. QED
    BY <1>5, <1>8, <1>9, <1>10, <1>11 DEF SchemaInv, SchemaTypes

LEMMA SchemaInvIsEnough ==
    ASSUME Shared!SharedSchemaConstants, SchemaInv
    PROVE  Shared!TypeOK /\ Shared!OpensAreSafe /\ Shared!LettersTravel /\ Shared!NothingIsSentAgain
  <1>1. Shared!OpensAreSafe
    <2>1. ASSUME NEW p \in Processes, proc[p].at = "open"
          PROVE  Shared!ItemNames(Body) \subseteq have
      <3>1. \A n \in 1 .. Len(Body) : Body[n].what \in have
        BY <2>1 DEF SchemaInv, Ran
      <3>. QED
        BY <3>1, ProgramHas
    <2>. QED
      BY <2>1 DEF Shared!OpensAreSafe, Body, SchemaInv, NoneFailed
  <1>2. Shared!NothingIsSentAgain
    <2>1. LineTypes /\ LineInv
      BY DEF SchemaInv, SchemaTypes, Shared!TypeOK, LineTypes
    <2>2. ASSUME NEW l \in RoomLines, ~ line[l].late
          PROVE  line[l].sent <= (IF line[l].stamp = "skipped" THEN 0 ELSE 1)
      <3>1. line[l].sent \in 0 .. 2 /\ line[l].sent <= 1 /\ (line[l].stamp = "skipped" => line[l].sent = 0)
        BY <2>1, <2>2 DEF LineTypes, LineInv
      <3>. QED
        BY <3>1
    <2>. QED
      BY <2>2 DEF Shared!NothingIsSentAgain
  <1>. QED
    BY <1>1, <1>2 DEF SchemaInv, SchemaTypes, Shared!LettersTravel, LetterInv

LEMMA UnboundStep ==
    ASSUME Shared!SharedSchemaConstants, SchemaInv, [Shared!Next]_(Shared!vars)
    PROVE  Shared!UnboundStaysUnbound
  <1>. SUFFICES ASSUME dest = "removed"
                PROVE  dest' = "removed"
    BY DEF Shared!UnboundStaysUnbound
  <1>1. "bindings" \in meta
    BY DEF SchemaInv, BoundInv
  <1>2. ASSUME NEW p \in Processes, Shared!MovesBindings(p)
        PROVE  dest' = dest
    BY <1>1, <1>2 DEF Shared!MovesBindings, Shared!Bound
  <1>3. ASSUME NEW p \in Processes,
               \/ Shared!Stops(p) \/ Shared!Starts(p) \/ Shared!Dies(p) \/ Shared!Creates(p) \/ Shared!LooksForColumn(p) \/ Shared!AddsColumn(p) \/ Shared!CreatesIndex(p)
               \/ (\E op \in {"letters", "bindings"} : Shared!LooksForFlag(p, op)) \/ Shared!MovesLetters(p) \/ Shared!Stamps(p) \/ Shared!Unbinds(p)
               \/ (\E m \in Letters : Shared!OldSends(p, m) \/ Shared!OldReads(p, m)) \/ (\E l \in RoomLines : Shared!Writes(p, l))
        PROVE  dest' = dest
    BY <1>3 DEF Shared!Stops, Shared!Starts, Shared!Dies, Shared!Creates, Shared!LooksForColumn, Shared!AddsColumn, Shared!CreatesIndex, Shared!LooksForFlag, Shared!MovesLetters, Shared!Stamps,
         Shared!OldSends, Shared!OldReads, Shared!Writes, Shared!Unbinds
  <1>4. ASSUME NEW l \in RoomLines, Shared!OldForwards(l) \/ Shared!Forwards(l)
        PROVE  dest' = dest
    BY <1>4 DEF Shared!OldForwards, Shared!Forwards
  <1>5. CASE UNCHANGED Shared!vars
    BY <1>5 DEF Shared!vars
  <1>. QED
    BY <1>2, <1>3, <1>4, <1>5 DEF Shared!Next, Shared!Executes

(* "Safe to call from several processes at once" (coord.go:75): no Open fails and    *)
(* none returns on a database that lacks something, no letter is lost or unread      *)
(* again, and nothing is sent twice - for any number of gateways, letters and lines. *)
THEOREM OpensAreSafeForAll ==
    Shared!SharedSchemaConstants /\ Shared!Spec => [](Shared!TypeOK /\ Shared!OpensAreSafe /\ Shared!LettersTravel /\ Shared!NothingIsSentAgain)
  <1>1. Shared!SharedSchemaConstants /\ Shared!Init => SchemaInv
    BY SchemaStarts
  <1>2. Shared!SharedSchemaConstants /\ SchemaInv /\ [Shared!Next]_(Shared!vars) => SchemaInv'
    BY SchemaStep
  <1>3. Shared!SharedSchemaConstants /\ SchemaInv => Shared!TypeOK /\ Shared!OpensAreSafe /\ Shared!LettersTravel /\ Shared!NothingIsSentAgain
    BY SchemaInvIsEnough
  <1>4. CASE Shared!SharedSchemaConstants
    BY <1>1, <1>2, <1>3, <1>4, PTL DEF Shared!Spec
  <1>. QED
    BY <1>4

(* A destination a person removed is not made again by a gateway that migrates.       *)
THEOREM RemovedStaysRemoved == Shared!SharedSchemaConstants /\ Shared!Spec => [][Shared!UnboundStaysUnbound]_(Shared!vars)
  <1>1. Shared!SharedSchemaConstants /\ Shared!Init => SchemaInv
    BY SchemaStarts
  <1>2. Shared!SharedSchemaConstants /\ SchemaInv /\ [Shared!Next]_(Shared!vars) => SchemaInv'
    BY SchemaStep
  <1>3. Shared!SharedSchemaConstants /\ SchemaInv /\ [Shared!Next]_(Shared!vars) => Shared!UnboundStaysUnbound
    BY UnboundStep
  <1>4. CASE Shared!SharedSchemaConstants
    BY <1>1, <1>2, <1>3, <1>4, PTL DEF Shared!Spec
  <1>. QED
    BY <1>4

-----------------------------------------------------------------------------
(***************************************************************************)
(* The listings crawler (Crawler.tla), for every finite set of pages and         *)
(* whatever the sites hold.  The invariant: when the Once of Chrome is spent        *)
(* without an allocator there is no Chrome, and some page has heard of it.         *)
(***************************************************************************)

CONSTANTS Pages, SourceOf, Worlds, NoUrl, Budget, MaxRuns, MaxFaults

VARIABLES site, chrome, page, seen, results, at, rows, runs, faults

Crawl == INSTANCE Crawler

PagePlaces == {"start", "launched", "fetched", "done", "failed"}

(* The Once is spent, and has an allocator only where there is a Chrome; where there is none, a page has heard of it. *)
CrawlInv ==
    /\ page \in [Pages -> PagePlaces]
    /\ chrome \in [there : BOOLEAN, once : BOOLEAN, allocator : BOOLEAN]
    /\ chrome.once /\ ~chrome.allocator => ~chrome.there /\ \E p \in Pages : Crawl!UseCDP(p) /\ page[p] # "start"
    /\ at = "crashed" => ~chrome.there /\ \E p, q \in Pages : p # q /\ Crawl!UseCDP(p) /\ Crawl!UseCDP(q)
    /\ \A r, s \in rows : r.url = s.url => r = s

LEMMA CrawlStarts == Crawl!Init => CrawlInv
  <1>. SUFFICES ASSUME Crawl!Init
                PROVE  CrawlInv
    OBVIOUS
  <1>1. chrome \in [there : BOOLEAN, once : {FALSE}, allocator : {FALSE}] /\ at = "crawling" /\ rows = {}
        /\ page = [p \in Pages |-> "start"]
    BY DEF Crawl!Init
  <1>2. chrome \in [there : BOOLEAN, once : BOOLEAN, allocator : BOOLEAN] /\ ~chrome.once
    BY <1>1
  <1>3. page \in [Pages -> PagePlaces]
    BY <1>1 DEF PagePlaces
  <1>. QED
    BY <1>1, <1>2, <1>3 DEF CrawlInv

(* A page that has heard goes on having heard. *)
LEMMA PageMoves ==
    ASSUME CrawlInv, NEW p \in Pages, NEW where \in PagePlaces \ {"start"}, page' = [page EXCEPT ![p] = where],
           chrome' = chrome, at' = at, rows' = rows
    PROVE  CrawlInv'
  <1>1. page' \in [Pages -> PagePlaces] /\ \A q \in Pages : page[q] # "start" => page'[q] # "start"
    BY DEF CrawlInv
  <1>2. \A q \in Pages : Crawl!UseCDP(q)' <=> Crawl!UseCDP(q)
    BY DEF Crawl!UseCDP
  <1>. QED
    BY <1>1, <1>2 DEF CrawlInv

LEMMA CrawlSteps == CrawlInv /\ [Crawl!Next]_(Crawl!vars) => CrawlInv' /\ [Crawl!RowsStay]_(Crawl!vars)
  <1>. SUFFICES ASSUME CrawlInv, [Crawl!Next]_(Crawl!vars)
                PROVE  CrawlInv' /\ [Crawl!RowsStay]_(Crawl!vars)
    OBVIOUS
  <1>0. \A q \in Pages : Crawl!UseCDP(q)' <=> Crawl!UseCDP(q)
    BY DEF Crawl!UseCDP
  <1>1. rows' = rows => Crawl!RowsStay
    BY DEF Crawl!RowsStay, CrawlInv
  <1>2. CASE UNCHANGED Crawl!vars
    BY <1>0, <1>2 DEF Crawl!vars, CrawlInv
  <1>3. ASSUME NEW p \in Pages, Crawl!LaunchCDP(p)
        PROVE  CrawlInv' /\ rows' = rows
    <2>1. page[p] = "start" /\ Crawl!UseCDP(p) /\ at = "crawling" /\ rows' = rows /\ p \in DOMAIN page
      BY <1>3 DEF Crawl!LaunchCDP, CrawlInv
    <2>2. CASE ~chrome.once
      <3>1. /\ chrome' = [chrome EXCEPT !.once = TRUE, !.allocator = chrome.there] /\ at' = at
            /\ page' = [page EXCEPT ![p] = IF chrome.there THEN "launched" ELSE "failed"]
        BY <1>3, <2>2 DEF Crawl!LaunchCDP
      <3>2. chrome' \in [there : BOOLEAN, once : BOOLEAN, allocator : BOOLEAN]
            /\ chrome'.there = chrome.there /\ chrome'.allocator = chrome.there
        BY <3>1 DEF CrawlInv
      <3>3. page' \in [Pages -> PagePlaces] /\ page'[p] # "start"
        BY <2>1, <3>1 DEF CrawlInv, PagePlaces
      <3>. QED
        BY <1>0, <2>1, <3>1, <3>2, <3>3 DEF CrawlInv
    <2>3. CASE chrome.once /\ Crawl!Launched
      <3>1. page' = [page EXCEPT ![p] = "launched"] /\ at' = at /\ chrome' = chrome
        BY <1>3, <2>3 DEF Crawl!LaunchCDP
      <3>. QED
        BY <2>1, <3>1, PageMoves DEF PagePlaces
    <2>4. CASE chrome.once /\ ~Crawl!Launched
      <3>1. page' = page /\ at' = "crashed" /\ chrome' = chrome
        BY <1>3, <2>4 DEF Crawl!LaunchCDP
      <3>2. PICK q \in Pages : Crawl!UseCDP(q) /\ page[q] # "start"
        BY <2>4 DEF CrawlInv, Crawl!Launched
      <3>. QED
        BY <1>0, <2>1, <2>4, <3>1, <3>2 DEF CrawlInv, Crawl!Launched
    <2>. QED
      BY <2>1, <2>2, <2>3, <2>4
  <1>4. ASSUME NEW p \in Pages, Crawl!Fetched(p)
        PROVE  CrawlInv' /\ rows' = rows
    <2>1. PICK where \in {"fetched", "failed"} : page' = [page EXCEPT ![p] = where]
      BY <1>4 DEF Crawl!Fetched
    <2>. QED
      BY <1>4, <2>1, PageMoves DEF Crawl!Fetched, PagePlaces
  <1>5. ASSUME NEW p \in Pages, Crawl!Merge(p)
        PROVE  CrawlInv' /\ rows' = rows
    <2>1. page' = [page EXCEPT ![p] = "done"] /\ chrome' = chrome /\ at' = at /\ rows' = rows
      BY <1>5 DEF Crawl!Merge
    <2>. QED
      BY <2>1, PageMoves DEF PagePlaces
  <1>6. CASE Crawl!CrawlAll \/ Crawl!Show \/ Crawl!Killed
    BY <1>0, <1>1, <1>6 DEF Crawl!CrawlAll, Crawl!Show, Crawl!Killed, CrawlInv
  <1>7. CASE Crawl!Save
    <2>1. PICK l : l = Head(results)
      OBVIOUS
    <2>2. rows' = (IF \E r \in rows : r.url = l.url THEN rows ELSE rows \union {l})
          /\ page' = page /\ chrome' = chrome /\ at' = at
      BY <1>7, <2>1 DEF Crawl!Save, Crawl!Inserted
    <2>3. rows \subseteq rows' /\ \A r, s \in rows' : r.url = s.url => r = s
      BY <2>2 DEF CrawlInv
    <2>. QED
      BY <1>0, <2>2, <2>3 DEF CrawlInv, Crawl!RowsStay
  <1>8. CASE Crawl!RunAgain
    <2>1. chrome' \in [there : BOOLEAN, once : {FALSE}, allocator : {FALSE}] /\ at' = "crawling" /\ rows' = rows
          /\ page' = [p \in Pages |-> "start"]
      BY <1>8 DEF Crawl!RunAgain
    <2>2. chrome' \in [there : BOOLEAN, once : BOOLEAN, allocator : BOOLEAN] /\ ~chrome'.once
      BY <2>1
    <2>3. page' \in [Pages -> PagePlaces]
      BY <2>1 DEF PagePlaces
    <2>. QED
      BY <1>1, <2>1, <2>2, <2>3 DEF CrawlInv
  <1>. QED
    BY <1>1, <1>2, <1>3, <1>4, <1>5, <1>6, <1>7, <1>8 DEF Crawl!Next

LEMMA CrawlHolds == ASSUME IsFiniteSet(Pages), CrawlInv
                    PROVE  Crawl!CrashNeedsTwoPages
  <1>1. ASSUME at = "crashed"
        PROVE  ~chrome.there /\ Crawl!Cardinality({p \in Pages : Crawl!UseCDP(p)}) > 1
    <2>1. PICK p, q \in Pages : p # q /\ Crawl!UseCDP(p) /\ Crawl!UseCDP(q)
      BY <1>1 DEF CrawlInv
    <2>2. PICK both : both = {x \in Pages : Crawl!UseCDP(x)}
      OBVIOUS
    <2>3. both \subseteq Pages /\ p \in both /\ q \in both /\ {p, q} \subseteq both
      BY <2>1, <2>2
    <2>4. IsFiniteSet(both)
      BY <2>3, FS_Subset
    <2>5. Cardinality(both) \in Nat /\ Cardinality({p, q}) <= Cardinality(both)
      BY <2>3, <2>4, FS_Subset, FS_CardinalityType
    <2>6. Cardinality({p, q}) = 2
      <3>1. IsFiniteSet({p}) /\ Cardinality({p}) = 1 /\ q \notin {p} /\ {p} \cup {q} = {p, q}
        BY <2>1, FS_Singleton
      <3>. QED
        BY <3>1, FS_AddElement
    <2>7. Crawl!Cardinality(both) = Cardinality(both)
      BY DEF Crawl!Cardinality, Cardinality
    <2>8. Crawl!Cardinality(both) > 1
      BY <2>5, <2>6, <2>7
    <2>. QED
      BY <1>1, <2>2, <2>8 DEF CrawlInv
  <1>. QED
    BY <1>1 DEF Crawl!CrashNeedsTwoPages

(* The listings crawler: the second page that needs a Chrome where there is none takes the program down, and nothing else
   does; and a row, once saved, is neither changed nor lost by a later run, one for each address. *)
THEOREM RowsOutliveRuns == IsFiniteSet(Pages) /\ Crawl!Spec => []Crawl!CrashNeedsTwoPages /\ [][Crawl!RowsStay]_(Crawl!vars)
  <1>1. CASE IsFiniteSet(Pages)
    <2>1. Crawl!Init => CrawlInv
      BY CrawlStarts
    <2>2. CrawlInv /\ [Crawl!Next]_(Crawl!vars) => CrawlInv' /\ [Crawl!RowsStay]_(Crawl!vars)
      BY CrawlSteps
    <2>3. CrawlInv => Crawl!CrashNeedsTwoPages
      BY <1>1, CrawlHolds
    <2>. QED
      BY <2>1, <2>2, <2>3, PTL DEF Crawl!Spec
  <1>. QED
    BY <1>1
=============================================================================
