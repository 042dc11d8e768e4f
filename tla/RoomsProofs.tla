---------------------------- MODULE RoomsProofs ----------------------------
(***************************************************************************)
(* Proofs about Rooms, for any agents, any caps, and messages without number. *)
(***************************************************************************)
EXTENDS Rooms, TLAPS, FiniteSetTheorems, SequenceTheorems, WellFoundedInduction

MsgRows ==
    [by : Agents \cup {Owner}, root : Nat, body : Words, names : SUBSET Agents, to : Nat,
     unread : SUBSET Agents, read : SUBSET Agents, posting : BOOLEAN]

WatcherRows ==
    [at : Stages, list : SUBSET Nat, msg : Nat, line : Nat, open : {"no", "looked", "done"},
     rec : Nat, end : {"none", "replied", "empty", "failed"}]

StrayRows == [by : Agents, msg : Nat, line : Nat, open : {"no", "looked", "done"}, redraw : BOOLEAN]

RecordRows ==
    [msg : Nat, by : Agents, state : {"submitted", "working", "completed", "failed"},
     run : BOOLEAN, loose : BOOLEAN]

Types ==
    /\ msgs \in Seq(MsgRows) /\ records \in Seq(RecordRows)
    /\ turns \in [Ids -> [Agents -> 0 .. MaxThreadTurns]]
    /\ watcher \in [Agents -> WatcherRows] /\ stray \subseteq StrayRows
    /\ upsets \in 0 .. MaxUpsets

(* A message by itself: threads are one level deep, only what was said calls    *)
(* anybody, and whom it calls is known when it is posted.                     *)
Posts ==
    \A i \in DOMAIN msgs :
        /\ msgs[i].root < i /\ msgs[i].to < i
        /\ msgs[i].root # 0 => msgs[msgs[i].root].root = 0
        /\ msgs[i].unread \cap msgs[i].read = {}
        /\ msgs[i].body # "said" => msgs[i].by \in Agents /\ msgs[i].unread = {}
        /\ msgs[i].posting => msgs[i].body = "said" /\ msgs[i].unread = {} /\ msgs[i].read = {}

Busy  == {"closeStale", "turn", "closeTask", "land", "save", "clear"}
Lined == {"turn", "closeTask", "land", "save"}
Drawn == {"turn", "closeTask", "land"}

(* What a watcher works on still waits for it, its thread is below the cap, and *)
(* its line is a progress line of its own, in that thread.                     *)
Answering(a) ==
    LET w == watcher[a] IN
    /\ \A i \in w.list : i \in DOMAIN msgs /\ a \in msgs[i].unread
    /\ w.at \in Busy => w.msg \in DOMAIN msgs /\ a \in msgs[w.msg].unread /\ w.msg \notin w.list
    /\ w.at \in Lined =>
          /\ w.line \in DOMAIN msgs /\ w.msg < w.line
          /\ msgs[w.line].by = a /\ msgs[w.line].root = ThreadKey(w.msg)
          /\ turns[ThreadKey(w.msg)][a] < MaxThreadTurns
    /\ w.at \in Drawn => msgs[w.line].body \in {"working", "revived"}
    /\ (w.at = "turn" => w.end = "none") /\ (w.at = "save" => w.end = "replied")

(* What goes on outside the watchers is about a mention of its agent; a report  *)
(* in hand is about a line nobody will land an answer on.                     *)
Astray(s) ==
    /\ s.msg \in DOMAIN msgs /\ s.by \in msgs[s.msg].unread \cup msgs[s.msg].read
    /\ s.redraw => /\ s.line \in DOMAIN msgs /\ msgs[s.line].by = s.by
                   /\ msgs[s.line].body \notin {"said", "reply"}
                   /\ watcher[s.by].line = s.line => watcher[s.by].end = "failed"

(* A record at work that somebody holds is of a mention that waits. *)
Filed(r) ==
    /\ r.msg \in DOMAIN msgs /\ r.by \in msgs[r.msg].unread \cup msgs[r.msg].read
    /\ r.state = "working" /\ ~r.loose => r.by \in msgs[r.msg].unread

(* A watcher past its turn holds at most the record it will close next. *)
HoldsOne(a) ==
    LET w == watcher[a] IN
    w.at \in {"closeTask", "land", "save", "clear"} =>
        \A r \in DOMAIN records :
            records[r].msg = w.msg /\ records[r].by = a /\ records[r].state = "working"
            /\ ~(w.at = "closeTask" /\ r = w.rec) => records[r].loose

(* The answers of an agent in a thread that its turns have counted. *)
Counted(a, k) ==
    {i \in Replies(a) \ redone : msgs[i].root = k /\ ~(watcher[a].at = "save" /\ watcher[a].line = i)}

TurnsCount == \A a \in Agents : \A k \in Ids : Cardinality(Counted(a, k)) <= turns[k][a]

Inv ==
    /\ Types /\ Posts
    /\ \A a \in Agents : Answering(a) /\ HoldsOne(a)
    /\ \A s \in stray : Astray(s)
    /\ \A r \in DOMAIN records : Filed(records[r])
    /\ WorkingLinesAreTrue /\ TurnsCount

(* Message ids never run out. *)
AllIds == Ids = Nat \ {0}

----------------------------------------------------------------------------
(* Facts about the state *)

LEMMA Rows ==
    ASSUME Types
    PROVE  /\ Len(msgs) \in Nat /\ DOMAIN msgs = 1 .. Len(msgs)
           /\ \A i \in DOMAIN msgs : msgs[i] \in MsgRows
           /\ Len(records) \in Nat /\ DOMAIN records = 1 .. Len(records)
           /\ \A r \in DOMAIN records : records[r] \in RecordRows
           /\ \A a \in Agents : watcher[a] \in WatcherRows
  BY DEF Types

LEMMA Roots ==
    ASSUME Types, Posts, NEW i \in DOMAIN msgs
    PROVE  /\ msgs[i].root \in Nat /\ msgs[i].root < i
           /\ msgs[i].root # 0 => msgs[i].root \in DOMAIN msgs
  <1>1. Len(msgs) \in Nat /\ DOMAIN msgs = 1 .. Len(msgs) /\ msgs[i] \in MsgRows
    BY Rows
  <1>2. msgs[i].root \in Nat
    BY <1>1 DEF MsgRows
  <1>3. msgs[i].root < i
    BY DEF Posts
  <1>. QED
    BY <1>1, <1>2, <1>3

LEMMA Threads ==
    ASSUME Inv, AllIds, NEW m \in DOMAIN msgs
    PROVE  /\ ThreadKey(m) \in DOMAIN msgs /\ ThreadKey(m) \in Ids /\ ThreadKey(m) <= m
           /\ msgs[ThreadKey(m)].root = 0
  <1>1. /\ Len(msgs) \in Nat /\ DOMAIN msgs = 1 .. Len(msgs) /\ msgs[m].root \in Nat
    BY Rows DEF Inv, MsgRows
  <1>2. msgs[m].root < m /\ (msgs[m].root # 0 => msgs[msgs[m].root].root = 0)
    BY DEF Inv, Posts
  <1>. QED
    BY <1>1, <1>2 DEF ThreadKey, AllIds

(* What a step leaves to a watcher it does not move. *)
Spares(b) ==
    /\ DOMAIN msgs \subseteq DOMAIN msgs'
    /\ \A i \in DOMAIN msgs :
          /\ msgs'[i].by = msgs[i].by /\ msgs'[i].root = msgs[i].root
          /\ b \in msgs[i].unread => b \in msgs'[i].unread
          /\ msgs[i].by = b /\ msgs[i].body \in {"working", "revived"}
                => msgs'[i].body \in {"working", "revived"}
    /\ \A k \in Ids : turns'[k][b] = turns[k][b]

LEMMA AnsweringKept ==
    ASSUME Inv, AllIds, NEW b \in Agents, Spares(b), watcher'[b] = watcher[b]
    PROVE  Answering(b)'
  <1>1. Answering(b)
    BY DEF Inv
  <1>2. ASSUME NEW m \in DOMAIN msgs
        PROVE  ThreadKey(m)' = ThreadKey(m) /\ ThreadKey(m) \in Ids
    BY Threads DEF Spares, ThreadKey
  <1>. DEFINE w == watcher[b]
  <1>3. \A i \in w.list : i \in DOMAIN msgs' /\ b \in msgs'[i].unread
    BY <1>1 DEF Answering, Spares
  <1>4. w.at \in Busy => w.msg \in DOMAIN msgs' /\ b \in msgs'[w.msg].unread /\ w.msg \notin w.list
    BY <1>1 DEF Answering, Spares
  <1>5. ASSUME w.at \in Lined
        PROVE  /\ w.line \in DOMAIN msgs' /\ w.msg < w.line
               /\ msgs'[w.line].by = b /\ msgs'[w.line].root = ThreadKey(w.msg)'
               /\ turns'[ThreadKey(w.msg)'][b] < MaxThreadTurns
    <2>1. w.at \in Busy /\ w.msg \in DOMAIN msgs
      BY <1>1, <1>5 DEF Answering, Lined, Busy
    <2>. QED
      BY <1>1, <1>2, <1>5, <2>1 DEF Answering, Spares
  <1>6. w.at \in Drawn => msgs'[w.line].body \in {"working", "revived"}
    BY <1>1 DEF Answering, Spares, Drawn, Lined
  <1>7. (w.at = "turn" => w.end = "none") /\ (w.at = "save" => w.end = "replied")
    BY <1>1 DEF Answering
  <1>. QED
    BY <1>3, <1>4, <1>5, <1>6, <1>7 DEF Answering

(* Records as a step of a's leaves them: what was there ends, comes loose or      *)
(* stays, and what is new is a's.                                            *)
FiledBy(a) ==
    /\ DOMAIN records \subseteq DOMAIN records'
    /\ \A r \in DOMAIN records :
          /\ records'[r].msg = records[r].msg /\ records'[r].by = records[r].by
          /\ records'[r].state = "working" => records[r].state = "working"
          /\ records[r].loose => records'[r].loose
    /\ \A r \in DOMAIN records' \ DOMAIN records : records'[r].by = a

LEMMA HoldsOneKept ==
    ASSUME Inv, NEW a \in Agents, FiledBy(a), NEW b \in Agents, watcher'[b] = watcher[b],
           \A r \in DOMAIN records' \ DOMAIN records : b = a => records'[r].loose
    PROVE  HoldsOne(b)'
  <1>1. HoldsOne(b)
    BY DEF Inv
  <1>. QED
    BY <1>1 DEF HoldsOne, FiledBy

LEMMA FiledKept ==
    ASSUME Inv, NEW a \in Agents, FiledBy(a), NEW r \in DOMAIN records,
           DOMAIN msgs \subseteq DOMAIN msgs',
           LET m == records[r].msg IN
              m \in DOMAIN msgs =>
                 /\ msgs[m].unread \cup msgs[m].read \subseteq msgs'[m].unread \cup msgs'[m].read
                 /\ records'[r].state = "working" /\ ~records'[r].loose =>
                      msgs[m].unread \subseteq msgs'[m].unread
    PROVE  Filed(records[r])'
  <1>1. Filed(records[r])
    BY DEF Inv
  <1>. QED
    BY <1>1 DEF Filed, FiledBy

LEMMA CountedFinite ==
    ASSUME Types, NEW b, NEW k
    PROVE  IsFiniteSet(Counted(b, k)) /\ Cardinality(Counted(b, k)) \in Nat
  <1>1. Counted(b, k) \subseteq 1 .. Len(msgs) /\ Len(msgs) \in Nat
    BY Rows DEF Counted, Replies
  <1>2. IsFiniteSet(1 .. Len(msgs))
    BY <1>1, FS_Interval
  <1>. QED
    BY <1>1, <1>2, FS_Subset, FS_CardinalityType

LEMMA AstrayKept ==
    ASSUME Inv, NEW s \in stray, UNCHANGED msgs,
           NEW a \in Agents, NEW w \in WatcherRows, watcher' = [watcher EXCEPT ![a] = w],
           w.line # 0 => /\ w.line = watcher[a].line
                         /\ watcher[a].end = "failed" => w.end = "failed"
    PROVE  Astray(s)'
  <1>1. Astray(s) /\ s.by \in Agents
    BY DEF Inv, Types, StrayRows
  <1>2. \A b \in Agents : watcher'[b] = IF b = a THEN w ELSE watcher[b]
    BY DEF Inv, Types
  <1>3. s.redraw => s.line # 0
    BY <1>1, Rows DEF Astray, Inv
  <1>. QED
    BY <1>1, <1>2, <1>3 DEF Astray

(* A step of a's that leaves the room itself as it is. *)
LEMMA RoomStands ==
    ASSUME Inv, AllIds, UNCHANGED <<msgs, turns, redone>>,
           NEW a \in Agents, NEW w \in WatcherRows, watcher' = [watcher EXCEPT ![a] = w],
           Answering(a)', HoldsOne(a)',
           watcher[a].at \in Drawn => w.at \in Drawn /\ w.line = watcher[a].line,
           watcher[a].at \notin {"save", "down"} \/ w = watcher[a],
           records' \in Seq(RecordRows), FiledBy(a),
           \A r \in DOMAIN records' \ DOMAIN records : Filed(records[r])',
           stray' \subseteq StrayRows, \A s \in stray' : Astray(s)',
           upsets' \in 0 .. MaxUpsets
    PROVE  Inv'
  <1>0. Types /\ Posts /\ WorkingLinesAreTrue /\ TurnsCount
    BY DEF Inv
  <1>1. /\ watcher' \in [Agents -> WatcherRows] /\ watcher'[a] = w
        /\ \A b \in Agents \ {a} : watcher'[b] = watcher[b]
    BY <1>0 DEF Types
  <1>2. Types'
    BY <1>0, <1>1 DEF Types
  <1>3. Posts'
    BY <1>0 DEF Posts
  <1>4. ASSUME NEW b \in Agents PROVE Answering(b)' /\ HoldsOne(b)'
    <2>1. CASE b = a
      BY <2>1
    <2>2. CASE b # a
      <3>1. Answering(b)'
        BY <1>1, <2>2, AnsweringKept DEF Spares
      <3>2. HoldsOne(b)'
        BY <1>1, <2>2, HoldsOneKept
      <3>. QED
        BY <3>1, <3>2
    <2>. QED
      BY <2>1, <2>2
  <1>5. ASSUME NEW r \in DOMAIN records' PROVE Filed(records[r])'
    <2>1. CASE r \in DOMAIN records
      BY <2>1, FiledKept
    <2>. QED
      BY <2>1
  <1>6. WorkingLinesAreTrue'
    <2>. SUFFICES ASSUME NEW i \in DOMAIN msgs, msgs[i].body = "working"
                  PROVE  LET v == watcher'[msgs[i].by] IN
                         v.at = "down" \/ (v.line = i /\ v.at \in Drawn)
      BY DEF WorkingLinesAreTrue, Drawn
    <2>1. msgs[i].by \in Agents
      BY <1>0 DEF Posts
    <2>2. LET v == watcher[msgs[i].by] IN v.at = "down" \/ (v.line = i /\ v.at \in Drawn)
      BY <1>0 DEF WorkingLinesAreTrue, Drawn
    <2>. QED
      BY <1>1, <2>1, <2>2
  <1>7. ASSUME NEW b \in Agents, NEW k \in Ids
        PROVE  Cardinality(Counted(b, k)') <= turns'[k][b]
    <2>1. Counted(b, k)' \subseteq Counted(b, k)
      BY <1>1 DEF Counted, Replies
    <2>2. IsFiniteSet(Counted(b, k)) /\ Cardinality(Counted(b, k)) \in Nat
      BY <1>0, CountedFinite
    <2>3. Cardinality(Counted(b, k)') <= Cardinality(Counted(b, k)) /\ Cardinality(Counted(b, k)') \in Nat
      BY <2>1, <2>2, FS_Subset, FS_CardinalityType
    <2>4. Cardinality(Counted(b, k)) <= turns[k][b] /\ turns[k][b] \in Nat
      BY <1>0, RoomsConstants DEF TurnsCount, Types
    <2>. QED
      BY <2>2, <2>3, <2>4
  <1>8. TurnsCount'
    BY <1>7 DEF TurnsCount
  <1>. QED
    BY <1>2, <1>3, <1>4, <1>5, <1>6, <1>8 DEF Inv

----------------------------------------------------------------------------
(* Steps that leave the room as it is *)

LEMMA RecordsStay ==
    ASSUME Types, UNCHANGED records, NEW a
    PROVE  records' \in Seq(RecordRows) /\ FiledBy(a) /\ DOMAIN records' \ DOMAIN records = {}
  BY DEF Types, FiledBy

LEMMA IdleRow == Resting \in WatcherRows
  BY DEF Resting, WatcherRows, Stages

LEMMA BeforeRow ==
    ASSUME NEW list \in SUBSET Nat
    PROVE  /\ Before(list) \in WatcherRows /\ Before(list).at \in {"idle", "next"}
           /\ Before(list).list = list /\ Before(list).line = 0
  <1>1. CASE list = {}
    BY <1>1 DEF Before, Resting, WatcherRows, Stages
  <1>2. CASE list # {}
    BY <1>2 DEF Before, Resting, WatcherRows, Stages
  <1>. QED
    BY <1>1, <1>2

(* A watcher that has nothing in hand has only its batch to answer for. *)
LEMMA FreeHand ==
    ASSUME NEW a \in Agents, NEW w \in WatcherRows, watcher'[a] = w, w.at \notin Busy,
           \A i \in w.list : i \in DOMAIN msgs' /\ a \in msgs'[i].unread
    PROVE  Answering(a)' /\ HoldsOne(a)'
  BY DEF Answering, HoldsOne, Busy, Lined, Drawn

LEMMA SweepsStep ==
    ASSUME Inv, AllIds, NEW a \in Agents, Sweeps(a)
    PROVE  Inv'
  <1>. DEFINE w == Before(UnreadMentions(a))
  <1>1. UnreadMentions(a) \subseteq Unread(a) /\ Unread(a) \subseteq DOMAIN msgs
    BY DEF UnreadMentions, Unread
  <1>2. DOMAIN msgs \subseteq Nat
    BY Rows DEF Inv
  <1>4. w \in WatcherRows /\ w.at \in {"idle", "next"} /\ w.list = UnreadMentions(a) /\ w.line = 0
    BY <1>1, <1>2, BeforeRow
  <1>5. /\ watcher' = [watcher EXCEPT ![a] = w] /\ watcher[a].at = "idle"
        /\ UNCHANGED <<msgs, turns, redone, records, stray, upsets>>
    BY DEF Sweeps, w
  <1>6. watcher'[a] = w
    BY <1>5 DEF Inv, Types
  <1>7. Answering(a)' /\ HoldsOne(a)'
    BY <1>1, <1>4, <1>5, <1>6, FreeHand DEF Unread, Busy
  <1>8. \A s \in stray' : Astray(s)'
    BY <1>4, <1>5, AstrayKept
  <1>. QED
    BY <1>4, <1>5, <1>7, <1>8, RecordsStay, RoomStands DEF Inv, Types, Drawn

LEMMA OnlyHoldsRows ==
    ASSUME Types, NEW m, NEW a \in Agents, NEW held,
           NEW recs, recs = OnlyHolds(m, a, held)
    PROVE  /\ recs \in Seq(RecordRows) /\ DOMAIN recs = DOMAIN records
           /\ \A r \in DOMAIN records :
                /\ recs[r].msg = records[r].msg /\ recs[r].by = records[r].by
                /\ recs[r].state = records[r].state /\ recs[r].run = records[r].run
                /\ records[r].loose => recs[r].loose
                /\ r # held /\ records[r].msg = m /\ records[r].by = a
                     /\ records[r].state = "working" => recs[r].loose
  <1>1. /\ Len(records) \in Nat /\ DOMAIN records = 1 .. Len(records)
        /\ \A r \in DOMAIN records : records[r] \in RecordRows
    BY Rows
  <1>2. ASSUME NEW r \in DOMAIN records
        PROVE  LET new == [records[r] EXCEPT !.loose = TRUE] IN
               /\ new \in RecordRows /\ new.loose
               /\ new.msg = records[r].msg /\ new.by = records[r].by
               /\ new.state = records[r].state /\ new.run = records[r].run
    <2>1. records[r] \in RecordRows
      BY <1>1
    <2>. QED
      BY <2>1 DEF RecordRows
  <1>3. ASSUME NEW r \in DOMAIN records
        PROVE  /\ recs[r] \in {records[r], [records[r] EXCEPT !.loose = TRUE]}
               /\ r # held /\ records[r].msg = m /\ records[r].by = a
                    /\ records[r].state = "working" => recs[r] = [records[r] EXCEPT !.loose = TRUE]
    BY DEF OnlyHolds, Open
  <1>4. DOMAIN recs = DOMAIN records /\ recs = [r \in 1 .. Len(records) |-> recs[r]]
    BY <1>1 DEF OnlyHolds
  <1>5. ASSUME NEW r \in DOMAIN records PROVE recs[r] \in RecordRows
    <2>1. records[r] \in RecordRows /\ [records[r] EXCEPT !.loose = TRUE] \in RecordRows
      BY <1>1, <1>2
    <2>. QED
      BY <1>3, <2>1
  <1>6. recs \in Seq(RecordRows)
    BY <1>1, <1>4, <1>5
  <1>. QED
    BY <1>2, <1>3, <1>4, <1>6

LEMMA OnlyHoldsFiled ==
    ASSUME Types, NEW m, NEW a \in Agents, NEW held, records' = OnlyHolds(m, a, held)
    PROVE  records' \in Seq(RecordRows) /\ FiledBy(a) /\ DOMAIN records' \ DOMAIN records = {}
  BY OnlyHoldsRows DEF FiledBy

(* What a watcher takes of its batch, and what is left. *)
LEMMA NextMention ==
    ASSUME Inv, NEW a \in Agents, NEW m, IsNext(a, m)
    PROVE  /\ m \in DOMAIN msgs /\ m \in Nat /\ a \in msgs[m].unread
           /\ watcher[a].list \ {m} \in SUBSET Nat
           /\ \A i \in watcher[a].list \ {m} : i \in DOMAIN msgs /\ a \in msgs[i].unread
  <1>1. Answering(a) /\ watcher[a].list \in SUBSET Nat
    BY Rows DEF Inv, WatcherRows
  <1>. QED
    BY <1>1 DEF IsNext, Answering

LEMMA TakenRow ==
    ASSUME NEW stage \in Stages, NEW list \in SUBSET Nat, NEW m \in Nat, NEW line \in Nat,
           NEW w, w = [[Resting EXCEPT !.at = stage, !.line = line] EXCEPT !.list = list, !.msg = m]
    PROVE  /\ w \in WatcherRows /\ w.at = stage /\ w.list = list /\ w.msg = m /\ w.line = line
           /\ w.end = "none"
  <1>1. /\ w.at = stage /\ w.list = list /\ w.msg = m /\ w.line = line
        /\ w.end = "none"
    BY DEF Resting
  <1>2. w \in WatcherRows
    BY DEF Resting, WatcherRows
  <1>. QED
    BY <1>1, <1>2

LEMMA SkipsStaleStep ==
    ASSUME Inv, AllIds, NEW a \in Agents, NEW m \in watcher[a].list, SkipsStale(a, m)
    PROVE  Inv'
  <1>1. PICK w : w = [[Resting EXCEPT !.at = "closeStale"] EXCEPT !.list = watcher[a].list \ {m}, !.msg = m]
    OBVIOUS
  <1>2. /\ m \in DOMAIN msgs /\ m \in Nat /\ a \in msgs[m].unread
        /\ watcher[a].list \ {m} \in SUBSET Nat
        /\ \A i \in watcher[a].list \ {m} : i \in DOMAIN msgs /\ a \in msgs[i].unread
    BY NextMention DEF SkipsStale
  <1>3. /\ w \in WatcherRows /\ w.at = "closeStale" /\ w.list = watcher[a].list \ {m}
        /\ w.msg = m /\ w.line = 0
    BY <1>1, <1>2 DEF Resting, WatcherRows, Stages
  <1>4. /\ watcher' = [watcher EXCEPT ![a] = w] /\ watcher[a].at = "next"
        /\ UNCHANGED <<msgs, turns, redone, records, stray, upsets>>
    BY <1>1 DEF SkipsStale, Takes, IsNext
  <1>5. watcher'[a] = w
    BY <1>4 DEF Inv, Types
  <1>6. Answering(a)' /\ HoldsOne(a)'
    BY <1>2, <1>3, <1>4, <1>5 DEF Answering, HoldsOne, Busy, Lined, Drawn
  <1>7. \A s \in stray' : Astray(s)'
    BY <1>3, <1>4, AstrayKept
  <1>. QED
    BY <1>3, <1>4, <1>6, <1>7, RecordsStay, RoomStands DEF Inv, Types, Drawn

LEMMA SkipsAtCapStep ==
    ASSUME Inv, AllIds, NEW a \in Agents, NEW m \in watcher[a].list, SkipsAtCap(a, m)
    PROVE  Inv'
  <1>1. PICK w : w = [[Resting EXCEPT !.at = "clear"] EXCEPT !.list = watcher[a].list \ {m}, !.msg = m]
    OBVIOUS
  <1>2. /\ m \in DOMAIN msgs /\ m \in Nat /\ a \in msgs[m].unread
        /\ watcher[a].list \ {m} \in SUBSET Nat
        /\ \A i \in watcher[a].list \ {m} : i \in DOMAIN msgs /\ a \in msgs[i].unread
    BY NextMention DEF SkipsAtCap
  <1>3. /\ w \in WatcherRows /\ w.at = "clear" /\ w.list = watcher[a].list \ {m}
        /\ w.msg = m /\ w.line = 0
    BY <1>1, <1>2 DEF Resting, WatcherRows, Stages
  <1>4. /\ watcher' = [watcher EXCEPT ![a] = w] /\ watcher[a].at = "next"
        /\ records' = OnlyHolds(m, a, 0)
        /\ UNCHANGED <<msgs, turns, redone, stray, upsets>>
    BY <1>1 DEF SkipsAtCap, Takes, IsNext
  <1>5. watcher'[a] = w
    BY <1>4 DEF Inv, Types
  <1>6. Answering(a)'
    BY <1>2, <1>3, <1>4, <1>5 DEF Answering, Busy, Lined, Drawn
  <1>7. HoldsOne(a)'
    <2>1. 0 \notin DOMAIN records
      BY Rows DEF Inv
    <2>. QED
      BY <1>3, <1>4, <1>5, <2>1, OnlyHoldsRows DEF HoldsOne, Inv
  <1>8. \A s \in stray' : Astray(s)'
    BY <1>3, <1>4, AstrayKept
  <1>. QED
    BY <1>3, <1>4, <1>6, <1>7, <1>8, OnlyHoldsFiled, RoomStands DEF Inv, Types, Drawn

(* A watcher that goes on with what it has in hand. *)
LEMMA SameHand ==
    ASSUME Inv, AllIds, UNCHANGED <<msgs, turns>>, NEW a \in Agents, NEW w \in WatcherRows, watcher'[a] = w,
           w.at = watcher[a].at, w.list = watcher[a].list, w.msg = watcher[a].msg,
           w.line = watcher[a].line, w.end = watcher[a].end
    PROVE  Answering(a)'
  <1>1. Answering(a)
    BY DEF Inv
  <1>2. \A m : ThreadKey(m)' = ThreadKey(m)
    BY DEF ThreadKey
  <1>. QED
    BY <1>1, <1>2 DEF Answering

LEMMA NewRecord ==
    ASSUME Types, NEW a \in Agents, NEW row \in RecordRows, row.by = a, records' = Append(records, row)
    PROVE  /\ records' \in Seq(RecordRows) /\ FiledBy(a)
           /\ \A r \in DOMAIN records' \ DOMAIN records : records'[r] = row
  <1>1. records \in Seq(RecordRows)
    BY DEF Types
  <1>2. /\ records' \in Seq(RecordRows) /\ Len(records') = Len(records) + 1
        /\ \A r \in 1 .. Len(records) : records'[r] = records[r]
        /\ records'[Len(records) + 1] = row
    BY <1>1, AppendProperties
  <1>3. /\ DOMAIN records = 1 .. Len(records) /\ DOMAIN records' = 1 .. (Len(records) + 1)
        /\ Len(records) \in Nat
    BY <1>1, <1>2
  <1>4. \A r \in DOMAIN records' \ DOMAIN records : r = Len(records) + 1
    BY <1>3
  <1>. QED
    BY <1>2, <1>3, <1>4 DEF FiledBy

LEMMA RecordRow ==
    ASSUME NEW m \in Nat, NEW a \in Agents, NEW run \in BOOLEAN, NEW loose \in BOOLEAN
    PROVE  /\ Record(m, a, run, loose) \in RecordRows
           /\ Record(m, a, run, loose).msg = m /\ Record(m, a, run, loose).by = a
           /\ Record(m, a, run, loose).loose = loose
  BY DEF Record, RecordRows

LEMMA LooksForRecordStep ==
    ASSUME Inv, AllIds, NEW a \in Agents, LooksForRecord(a)
    PROVE  Inv'
  <1>. DEFINE m == watcher[a].msg
  <1>1. watcher[a] \in WatcherRows /\ watcher[a].at = "turn" /\ Types
    BY Rows DEF Inv, LooksForRecord
  <1>2. PICK w \in WatcherRows :
           /\ watcher' = [watcher EXCEPT ![a] = w]
           /\ w.at = watcher[a].at /\ w.list = watcher[a].list /\ w.msg = watcher[a].msg
           /\ w.line = watcher[a].line /\ w.end = watcher[a].end
           /\ records' \in Seq(RecordRows) /\ FiledBy(a) /\ DOMAIN records' \ DOMAIN records = {}
    <2>1. CASE Open(m) = {}
      <3>. DEFINE w == [watcher[a] EXCEPT !.open = "looked"]
      <3>1. /\ w \in WatcherRows
            /\ w.at = watcher[a].at /\ w.list = watcher[a].list /\ w.msg = watcher[a].msg
            /\ w.line = watcher[a].line /\ w.end = watcher[a].end
        BY <1>1 DEF WatcherRows
      <3>2. watcher' = [watcher EXCEPT ![a] = w] /\ UNCHANGED records
        BY <2>1, <1>1 DEF LooksForRecord, Types
      <3>. QED
        BY <1>1, <3>1, <3>2, RecordsStay
    <2>2. CASE Open(m) # {}
      <3>1. PICK r \in Open(m) :
              /\ watcher' = [watcher EXCEPT ![a].open = "done", ![a].rec = r]
              /\ records' = [OnlyHolds(m, a, r) EXCEPT ![r].run = @ \/ records[r].by = a]
        BY <2>2 DEF LooksForRecord
      <3>. DEFINE w == [watcher[a] EXCEPT !.open = "done", !.rec = r]
      <3>2. r \in DOMAIN records /\ r \in Nat
        BY <1>1, <3>1, Rows DEF Open
      <3>3. /\ w \in WatcherRows
            /\ w.at = watcher[a].at /\ w.list = watcher[a].list /\ w.msg = watcher[a].msg
            /\ w.line = watcher[a].line /\ w.end = watcher[a].end
        BY <1>1, <3>2 DEF WatcherRows
      <3>4. watcher' = [watcher EXCEPT ![a] = w]
        BY <1>1, <3>1 DEF Types
      <3>5. PICK recs : recs = OnlyHolds(m, a, r)
        OBVIOUS
      <3>6. /\ recs \in Seq(RecordRows) /\ DOMAIN recs = DOMAIN records
            /\ \A i \in DOMAIN records :
                 /\ recs[i].msg = records[i].msg /\ recs[i].by = records[i].by
                 /\ recs[i].state = records[i].state
                 /\ records[i].loose => recs[i].loose
        BY <1>1, <3>5, OnlyHoldsRows
      <3>7. recs[r] \in RecordRows
        BY <3>2, <3>6
      <3>8. LET new == [recs[r] EXCEPT !.run = recs[r].run \/ records[r].by = a] IN
              /\ new \in RecordRows /\ new.msg = recs[r].msg /\ new.by = recs[r].by
              /\ new.state = recs[r].state /\ new.loose = recs[r].loose
        BY <3>7 DEF RecordRows
      <3>9. records' = [recs EXCEPT ![r] = [recs[r] EXCEPT !.run = recs[r].run \/ records[r].by = a]]
        BY <3>1, <3>2, <3>5, <3>6
      <3>10. records' \in Seq(RecordRows) /\ DOMAIN records' = DOMAIN records
        BY <3>2, <3>6, <3>8, <3>9
      <3>11. FiledBy(a)
        BY <3>2, <3>6, <3>8, <3>9, <3>10 DEF FiledBy
      <3>. QED
        BY <3>3, <3>4, <3>10, <3>11
    <2>. QED
      BY <2>1, <2>2
  <1>3. watcher'[a] = w /\ UNCHANGED <<msgs, turns, redone, stray, upsets>>
    BY <1>1, <1>2 DEF LooksForRecord, Types
  <1>4. Answering(a)'
    BY <1>2, <1>3, SameHand
  <1>5. HoldsOne(a)'
    BY <1>1, <1>2, <1>3 DEF HoldsOne
  <1>6. \A s \in stray' : Astray(s)'
    BY <1>2, <1>3, AstrayKept
  <1>. QED
    BY <1>1, <1>2, <1>3, <1>4, <1>5, <1>6, RoomStands DEF Types

LEMMA OpensRecordStep ==
    ASSUME Inv, AllIds, NEW a \in Agents, OpensRecord(a)
    PROVE  Inv'
  <1>1. watcher[a] \in WatcherRows /\ watcher[a].at = "turn" /\ Types
    BY Rows DEF Inv, OpensRecord
  <1>. PICK n \in Nat : n = Len(records) + 1
    BY <1>1, Rows
  <1>. DEFINE m == watcher[a].msg
              w == [watcher[a] EXCEPT !.open = "done", !.rec = n]
  <1>2. /\ w \in WatcherRows
        /\ w.at = watcher[a].at /\ w.list = watcher[a].list /\ w.msg = watcher[a].msg
        /\ w.line = watcher[a].line /\ w.end = watcher[a].end
    BY <1>1 DEF WatcherRows
  <1>3. /\ watcher' = [watcher EXCEPT ![a] = w] /\ watcher'[a] = w
        /\ records' = Append(records, Record(m, a, TRUE, FALSE))
        /\ UNCHANGED <<msgs, turns, redone, stray, upsets>>
    BY <1>1 DEF OpensRecord, Types
  <1>4. m \in DOMAIN msgs /\ a \in msgs[m].unread /\ m \in Nat
    BY <1>1 DEF Inv, Answering, Busy, WatcherRows
  <1>. HIDE DEF m, w
  <1>. PICK row : row = Record(m, a, TRUE, FALSE)
    OBVIOUS
  <1>5. row \in RecordRows /\ row.msg = m /\ row.by = a
    BY <1>4, RecordRow
  <1>6. /\ records' \in Seq(RecordRows) /\ FiledBy(a)
        /\ \A r \in DOMAIN records' \ DOMAIN records : records'[r] = row
    BY <1>1, <1>3, <1>5, NewRecord
  <1>7. \A r \in DOMAIN records' \ DOMAIN records : Filed(records[r])'
    BY <1>3, <1>4, <1>6, <1>5 DEF Filed
  <1>8. Answering(a)'
    BY <1>2, <1>3, SameHand
  <1>9. HoldsOne(a)'
    BY <1>1, <1>2, <1>3 DEF HoldsOne
  <1>10. \A s \in stray' : Astray(s)'
    BY <1>2, <1>3, AstrayKept
  <1>. QED
    BY <1>1, <1>2, <1>3, <1>6, <1>7, <1>8, <1>9, <1>10, RoomStands DEF Types

(* What happens outside the watchers leaves them, and the room, as they are. *)
LEMMA StrayMoves ==
    ASSUME Inv, AllIds, UNCHANGED <<msgs, turns, redone, watcher>>,
           NEW a \in Agents, records' \in Seq(RecordRows), FiledBy(a),
           \A r \in DOMAIN records' \ DOMAIN records : records'[r].loose /\ Filed(records[r])',
           stray' \subseteq StrayRows, \A s \in stray' \ stray : Astray(s)',
           upsets' \in 0 .. MaxUpsets
    PROVE  Inv'
  <1>1. watcher[a] \in WatcherRows /\ watcher' = [watcher EXCEPT ![a] = watcher[a]] /\ watcher'[a] = watcher[a]
    BY Rows DEF Inv, Types
  <1>2. Answering(a)'
    BY <1>1, AnsweringKept DEF Spares
  <1>3. HoldsOne(a)'
    BY <1>1, HoldsOneKept
  <1>4. \A s \in stray' : Astray(s)'
    BY <1>1, AstrayKept
  <1>. QED
    BY <1>1, <1>2, <1>3, <1>4, RoomStands

LEMMA BecomesStaleStep ==
    ASSUME Inv, AllIds, NEW m \in DOMAIN msgs, BecomesStale(m)
    PROVE  Inv'
  <1>1. UNCHANGED <<msgs, turns, redone, watcher, stray, records>> /\ upsets' \in 0 .. MaxUpsets
    BY RoomsConstants DEF BecomesStale, Upset, Inv, Types
  <1>2. CASE Agents = {}
    <2>1. msgs[m].unread = {}
      BY <1>2, Rows DEF Inv, MsgRows
    <2>. QED
      BY <2>1 DEF BecomesStale
  <1>3. ASSUME NEW a \in Agents PROVE Inv'
    BY <1>1, RecordsStay, StrayMoves DEF Inv, Types
  <1>. QED
    BY <1>2, <1>3

LEMMA CommandLooksStep ==
    ASSUME Inv, AllIds, NEW a \in Agents, CommandLooks(a)
    PROVE  Inv'
  <1>1. PICK c : c = Straying(a, watcher[a].msg, 0, "looked", FALSE)
    OBVIOUS
  <1>2. /\ UNCHANGED <<msgs, turns, redone, watcher, records>> /\ stray' = stray \cup {c}
        /\ upsets' \in 0 .. MaxUpsets
    BY <1>1, RoomsConstants DEF CommandLooks, Upset, Inv, Types
  <1>3. watcher[a].msg \in DOMAIN msgs /\ a \in msgs[watcher[a].msg].unread /\ watcher[a].msg \in Nat
    BY Rows DEF CommandLooks, Inv, Answering, Busy, WatcherRows
  <1>4. c \in StrayRows /\ c.msg = watcher[a].msg /\ c.by = a /\ ~c.redraw
    BY <1>1, <1>3 DEF Straying, StrayRows
  <1>5. Astray(c)'
    BY <1>2, <1>3, <1>4 DEF Astray
  <1>. QED
    BY <1>2, <1>4, <1>5, RecordsStay, StrayMoves DEF Inv, Types

(* The same goroutine or command, further on. *)
LEMMA FurtherOn ==
    ASSUME NEW s \in StrayRows, NEW open \in {"no", "looked", "done"}
    PROVE  LET t == [s EXCEPT !.open = open] IN
           t \in StrayRows /\ t.by = s.by /\ t.msg = s.msg /\ t.line = s.line /\ t.redraw = s.redraw
  BY DEF StrayRows

LEMMA GoesOnOnly ==
    ASSUME NEW s, NEW t, stray' = GoesOn(s, t)
    PROVE  stray' \subseteq stray \cup {t}
  BY DEF GoesOn

LEMMA StrayOpensStep ==
    ASSUME Inv, AllIds, NEW s \in stray, StrayOpens(s)
    PROVE  Inv'
  <1>1. Types /\ s \in StrayRows /\ s.by \in Agents /\ s.msg \in Nat /\ Astray(s)
    BY DEF Inv, Types, StrayRows
  <1>2. PICK t : t = [s EXCEPT !.open = "done"]
    OBVIOUS
  <1>3. t \in StrayRows /\ t.by = s.by /\ t.msg = s.msg /\ t.line = s.line /\ t.redraw = s.redraw
    BY <1>1, <1>2, FurtherOn
  <1>4. PICK row : row = Record(s.msg, s.by, s.line # 0, TRUE)
    OBVIOUS
  <1>5. row \in RecordRows /\ row.msg = s.msg /\ row.by = s.by /\ row.loose
    <2>1. (s.line # 0) \in BOOLEAN
      OBVIOUS
    <2>. QED
      BY <1>1, <1>4, <2>1 DEF Record, RecordRows
  <1>6. /\ UNCHANGED <<msgs, turns, watcher, redone, upsets>>
        /\ records' = Append(records, row) /\ stray' \subseteq stray \cup {t}
    BY <1>2, <1>4, GoesOnOnly DEF StrayOpens
  <1>7. /\ records' \in Seq(RecordRows) /\ FiledBy(s.by)
        /\ \A r \in DOMAIN records' \ DOMAIN records : records'[r] = row
    BY <1>1, <1>5, <1>6, NewRecord
  <1>8. \A r \in DOMAIN records' \ DOMAIN records : records'[r].loose /\ Filed(records[r])'
    BY <1>1, <1>5, <1>6, <1>7 DEF Filed, Astray
  <1>9. Astray(t)'
    BY <1>1, <1>3, <1>6 DEF Astray
  <1>. QED
    BY <1>1, <1>3, <1>6, <1>7, <1>8, <1>9, StrayMoves DEF Types

LEMMA StrayLooksStep ==
    ASSUME Inv, AllIds, NEW s \in stray, StrayLooks(s)
    PROVE  Inv'
  <1>1. Types /\ s \in StrayRows /\ s.by \in Agents /\ Astray(s)
    BY DEF Inv, Types, StrayRows
  <1>2. PICK open \in {"looked", "done"} : open = IF Open(s.msg) = {} THEN "looked" ELSE "done"
    OBVIOUS
  <1>3. PICK t : t = [s EXCEPT !.open = open]
    OBVIOUS
  <1>4. t \in StrayRows /\ t.by = s.by /\ t.msg = s.msg /\ t.line = s.line /\ t.redraw = s.redraw
    BY <1>1, <1>3, FurtherOn
  <1>5. UNCHANGED <<msgs, turns, watcher, redone, upsets, records>> /\ stray' \subseteq stray \cup {t}
    BY <1>2, <1>3, GoesOnOnly DEF StrayLooks
  <1>6. Astray(t)'
    BY <1>1, <1>4, <1>5 DEF Astray
  <1>. QED
    BY <1>1, <1>4, <1>5, <1>6, RecordsStay, StrayMoves DEF Types

LEMMA StrayEndsStep ==
    ASSUME Inv, AllIds, NEW s \in stray, StrayEnds(s)
    PROVE  Inv'
  <1>1. Types /\ s.by \in Agents
    BY DEF Inv, Types, StrayRows
  <1>2. UNCHANGED <<msgs, turns, watcher, redone, upsets, records>> /\ stray' \subseteq stray
    BY DEF StrayEnds
  <1>. QED
    BY <1>1, <1>2, RecordsStay, StrayMoves DEF Types

LEMMA ClosingRow ==
    ASSUME NEW w \in WatcherRows, NEW end \in {"replied", "empty", "failed"},
           NEW v, v = Closing(w, end)
    PROVE  /\ v \in WatcherRows /\ v.at = (IF w.rec = 0 THEN "land" ELSE "closeTask")
           /\ v.list = w.list /\ v.msg = w.msg /\ v.line = w.line /\ v.rec = w.rec /\ v.end = end
  <1>1. CASE w.rec = 0
    BY <1>1 DEF Closing, WatcherRows, Stages
  <1>2. CASE w.rec # 0
    BY <1>2 DEF Closing, WatcherRows, Stages
  <1>. QED
    BY <1>1, <1>2

(* A turn is over for its watcher; t is what it may leave behind. *)
LEMMA TurnOver ==
    ASSUME Inv, AllIds, NEW a \in Agents, watcher[a].at = "turn",
           NEW end \in {"replied", "empty", "failed"},
           watcher' = [watcher EXCEPT ![a] = Closing(watcher[a], end)],
           records' = OnlyHolds(watcher[a].msg, a, watcher[a].rec),
           UNCHANGED <<msgs, turns, redone>>, upsets' \in 0 .. MaxUpsets,
           NEW t \in StrayRows, stray' \subseteq stray \cup {t},
           t.by = a, t.msg = watcher[a].msg, t.line = watcher[a].line, t.redraw => end = "failed"
    PROVE  Inv'
  <1>1. Types /\ watcher[a] \in WatcherRows /\ Answering(a)
    BY Rows DEF Inv
  <1>2. PICK v : v = Closing(watcher[a], end)
    OBVIOUS
  <1>3. /\ v \in WatcherRows /\ v.at = (IF watcher[a].rec = 0 THEN "land" ELSE "closeTask")
        /\ v.list = watcher[a].list /\ v.msg = watcher[a].msg /\ v.line = watcher[a].line
        /\ v.rec = watcher[a].rec /\ v.end = end
    BY <1>1, <1>2, ClosingRow
  <1>4. watcher' = [watcher EXCEPT ![a] = v] /\ watcher'[a] = v
    BY <1>1, <1>2 DEF Types
  <1>5. \A m : ThreadKey(m)' = ThreadKey(m)
    BY DEF ThreadKey
  <1>6. Answering(a)'
    BY <1>1, <1>3, <1>4, <1>5 DEF Answering, Busy, Lined, Drawn
  <1>7. HoldsOne(a)'
    <2>1. 0 \notin DOMAIN records
      BY <1>1, Rows
    <2>. QED
      BY <1>1, <1>3, <1>4, <2>1, OnlyHoldsRows DEF HoldsOne
  <1>8. Astray(t)'
    BY <1>1, <1>3, <1>4 DEF Astray, Answering, Busy, Lined, Drawn
  <1>9. \A s \in stray : Astray(s)'
    <2>1. watcher[a].end = "none" /\ UNCHANGED msgs
      BY <1>1 DEF Answering
    <2>2. v.line # 0 => /\ v.line = watcher[a].line
                        /\ watcher[a].end = "failed" => v.end = "failed"
      BY <1>3, <2>1
    <2>3. v \in WatcherRows
      BY <1>3
    <2>4. watcher' = [watcher EXCEPT ![a] = v]
      BY <1>4
    <2>. QED
      BY <2>1, <2>2, <2>3, <2>4, AstrayKept, Zenon
  <1>10. /\ records' \in Seq(RecordRows) /\ FiledBy(a) /\ DOMAIN records' \ DOMAIN records = {}
    BY <1>1, OnlyHoldsFiled
  <1>11. /\ watcher[a].at \in Drawn => v.at \in Drawn /\ v.line = watcher[a].line
         /\ watcher[a].at \notin {"save", "down"}
    BY <1>3 DEF Drawn
  <1>12. stray' \subseteq StrayRows /\ \A s \in stray' : Astray(s)'
    BY <1>1, <1>8, <1>9 DEF Types
  <1>. QED
    BY <1>3, <1>4, <1>6, <1>7, <1>10, <1>11, <1>12, RoomStands

LEMMA StrayingRow ==
    ASSUME NEW a \in Agents, NEW m \in Nat, NEW line \in Nat,
           NEW open \in {"no", "looked", "done"}, NEW redraw \in BOOLEAN,
           NEW t, t = Straying(a, m, line, open, redraw)
    PROVE  t \in StrayRows /\ t.by = a /\ t.msg = m /\ t.line = line /\ t.redraw = redraw
  BY DEF Straying, StrayRows

LEMMA TurnEndsStep ==
    ASSUME Inv, AllIds, NEW a \in Agents, NEW end \in {"replied", "empty"}, TurnEnds(a, end)
    PROVE  Inv'
  <1>1. Types /\ watcher[a] \in WatcherRows /\ upsets \in 0 .. MaxUpsets
    BY Rows DEF Inv, Types
  <1>2. PICK t : t = Straying(a, watcher[a].msg, watcher[a].line, "looked", FALSE)
    OBVIOUS
  <1>3. watcher[a].msg \in Nat /\ watcher[a].line \in Nat
    BY <1>1 DEF WatcherRows
  <1>4. /\ t \in StrayRows /\ t.by = a /\ t.msg = watcher[a].msg /\ t.line = watcher[a].line
        /\ ~t.redraw
    BY <1>2, <1>3 DEF Straying, StrayRows
  <1>5. /\ watcher[a].at = "turn" /\ watcher' = [watcher EXCEPT ![a] = Closing(watcher[a], end)]
        /\ records' = OnlyHolds(watcher[a].msg, a, watcher[a].rec)
        /\ UNCHANGED <<msgs, turns, redone, upsets>> /\ stray' \subseteq stray \cup {t}
    BY <1>2 DEF TurnEnds
  <1>. QED
    BY <1>1, <1>4, <1>5, TurnOver

LEMMA TurnFailsStep ==
    ASSUME Inv, AllIds, NEW a \in Agents, TurnFails(a)
    PROVE  Inv'
  <1>1. Types /\ watcher[a] \in WatcherRows
    BY Rows DEF Inv
  <1>2. watcher[a].msg \in Nat /\ watcher[a].line \in Nat /\ watcher[a].open \in {"no", "looked", "done"}
    BY <1>1 DEF WatcherRows
  <1>3. PICK redraw \in BOOLEAN :
           stray' \subseteq stray \cup {Straying(a, watcher[a].msg, watcher[a].line, watcher[a].open, redraw)}
    BY DEF TurnFails
  <1>4. PICK t : t = Straying(a, watcher[a].msg, watcher[a].line, watcher[a].open, redraw)
    OBVIOUS
  <1>5. t \in StrayRows /\ t.by = a /\ t.msg = watcher[a].msg /\ t.line = watcher[a].line
    BY <1>2, <1>4, StrayingRow
  <1>6. /\ watcher[a].at = "turn" /\ watcher' = [watcher EXCEPT ![a] = Closing(watcher[a], "failed")]
        /\ records' = OnlyHolds(watcher[a].msg, a, watcher[a].rec)
        /\ UNCHANGED <<msgs, turns, redone>> /\ upsets' \in 0 .. MaxUpsets
    BY <1>1, RoomsConstants DEF TurnFails, Upset, Types
  <1>. QED
    BY <1>3, <1>4, <1>5, <1>6, TurnOver

LEMMA ClosedRows ==
    ASSUME NEW recs \in Seq(RecordRows), NEW r, NEW a \in Agents, NEW state \in {"completed", "failed"},
           NEW new, new = CloseMentionTask(recs, r, a, state)
    PROVE  /\ new \in Seq(RecordRows) /\ DOMAIN new = DOMAIN recs
           /\ \A i \in DOMAIN recs :
                /\ new[i].msg = recs[i].msg /\ new[i].by = recs[i].by /\ new[i].loose = recs[i].loose
                /\ new[i].state = "working" => recs[i].state = "working" /\ ~(i = r /\ recs[i].by = a)
  <1>1. CASE r \in DOMAIN recs /\ recs[r].by = a /\ recs[r].state = "working"
    <2>1. recs[r] \in RecordRows
      BY <1>1
    <2>2. LET row == [recs[r] EXCEPT !.state = state] IN
            /\ row \in RecordRows /\ row.msg = recs[r].msg /\ row.by = recs[r].by
            /\ row.loose = recs[r].loose /\ row.state = state
      BY <2>1 DEF RecordRows
    <2>3. new = [recs EXCEPT ![r] = [recs[r] EXCEPT !.state = state]]
      BY <1>1 DEF CloseMentionTask
    <2>. QED
      BY <1>1, <2>2, <2>3
  <1>2. CASE ~(r \in DOMAIN recs /\ recs[r].by = a /\ recs[r].state = "working")
    <2>1. new = recs
      BY <1>2 DEF CloseMentionTask
    <2>. QED
      BY <1>2, <2>1
  <1>. QED
    BY <1>1, <1>2

LEMMA ClosesTaskStep ==
    ASSUME Inv, AllIds, NEW a \in Agents, ClosesTask(a)
    PROVE  Inv'
  <1>1. Types /\ watcher[a] \in WatcherRows /\ Answering(a) /\ HoldsOne(a) /\ watcher[a].at = "closeTask"
    BY Rows DEF Inv, ClosesTask
  <1>. DEFINE w == [watcher[a] EXCEPT !.at = "land", !.rec = 0]
  <1>2. /\ w \in WatcherRows /\ w.at = "land" /\ w.list = watcher[a].list /\ w.msg = watcher[a].msg
        /\ w.line = watcher[a].line /\ w.end = watcher[a].end
    BY <1>1 DEF WatcherRows, Stages
  <1>3. /\ watcher' = [watcher EXCEPT ![a] = w] /\ watcher'[a] = w
        /\ UNCHANGED <<msgs, turns, redone, stray, upsets>>
    BY <1>1 DEF ClosesTask, Types
  <1>. HIDE DEF w
  <1>4. PICK state \in {"completed", "failed"} :
           records' = CloseMentionTask(records, watcher[a].rec, a, state)
    BY DEF ClosesTask
  <1>5. /\ records' \in Seq(RecordRows) /\ DOMAIN records' = DOMAIN records
        /\ \A i \in DOMAIN records :
             /\ records'[i].msg = records[i].msg /\ records'[i].by = records[i].by
             /\ records'[i].loose = records[i].loose
             /\ records'[i].state = "working" => records[i].state = "working"
                                                 /\ ~(i = watcher[a].rec /\ records[i].by = a)
    BY <1>1, <1>4, ClosedRows DEF Types
  <1>6. FiledBy(a)
    BY <1>5 DEF FiledBy
  <1>7. \A m : ThreadKey(m)' = ThreadKey(m)
    BY <1>3 DEF ThreadKey
  <1>8. Answering(a)'
    BY <1>1, <1>2, <1>3, <1>7 DEF Answering, Busy, Lined, Drawn
  <1>9. HoldsOne(a)'
    BY <1>1, <1>2, <1>3, <1>5 DEF HoldsOne
  <1>10. \A s \in stray' : Astray(s)'
    BY <1>2, <1>3, AstrayKept
  <1>. QED
    BY <1>1, <1>2, <1>3, <1>5, <1>6, <1>8, <1>9, <1>10, RoomStands DEF Types, Drawn

LEMMA CloseStaleStep ==
    ASSUME Inv, AllIds, NEW a \in Agents, CloseStaleMentionTask(a)
    PROVE  Inv'
  <1>1. Types /\ watcher[a] \in WatcherRows /\ Answering(a) /\ watcher[a].at = "closeStale"
    BY Rows DEF Inv, CloseStaleMentionTask
  <1>. DEFINE w == [watcher[a] EXCEPT !.at = "clear"]
              m == watcher[a].msg
  <1>2. /\ w \in WatcherRows /\ w.at = "clear" /\ w.list = watcher[a].list /\ w.msg = m
        /\ w.line = watcher[a].line /\ w.end = watcher[a].end
    BY <1>1 DEF WatcherRows, Stages
  <1>3. /\ watcher' = [watcher EXCEPT ![a] = w] /\ watcher'[a] = w
        /\ UNCHANGED <<msgs, turns, redone, stray, upsets>>
    BY <1>1 DEF CloseStaleMentionTask, Types
  <1>. HIDE DEF w
  <1>4. /\ records' \in Seq(RecordRows) /\ FiledBy(a) /\ DOMAIN records' = DOMAIN records
        /\ \A i \in DOMAIN records : records'[i].msg = m /\ records'[i].by = a
                                     /\ records'[i].state = "working" => records'[i].loose
    <2>1. CASE Open(m) = {}
      <3>1. UNCHANGED records
        BY <2>1 DEF CloseStaleMentionTask
      <3>2. \A i \in DOMAIN records : ~(records[i].msg = m /\ records[i].state = "working")
        BY <2>1 DEF Open
      <3>. QED
        BY <1>1, <3>1, <3>2, RecordsStay
    <2>2. CASE Open(m) # {}
      <3>1. PICK r \in Open(m) :
               records' = CloseMentionTask(OnlyHolds(m, a, r), r, a, "failed")
        BY <2>2 DEF CloseStaleMentionTask
      <3>2. PICK recs : recs = OnlyHolds(m, a, r)
        OBVIOUS
      <3>3. /\ recs \in Seq(RecordRows) /\ DOMAIN recs = DOMAIN records
            /\ \A i \in DOMAIN records :
                 /\ recs[i].msg = records[i].msg /\ recs[i].by = records[i].by
                 /\ recs[i].state = records[i].state
                 /\ records[i].loose => recs[i].loose
                 /\ i # r /\ records[i].msg = m /\ records[i].by = a
                      /\ records[i].state = "working" => recs[i].loose
        BY <1>1, <3>2, OnlyHoldsRows
      <3>4. /\ records' \in Seq(RecordRows) /\ DOMAIN records' = DOMAIN recs
            /\ \A i \in DOMAIN recs :
                 /\ records'[i].msg = recs[i].msg /\ records'[i].by = recs[i].by
                 /\ records'[i].loose = recs[i].loose
                 /\ records'[i].state = "working" => recs[i].state = "working"
                                                     /\ ~(i = r /\ recs[i].by = a)
        BY <3>1, <3>2, <3>3, ClosedRows
      <3>5. FiledBy(a)
        BY <3>3, <3>4 DEF FiledBy
      <3>. QED
        BY <3>3, <3>4, <3>5
    <2>. QED
      BY <2>1, <2>2
  <1>5. Answering(a)'
    BY <1>1, <1>2, <1>3 DEF Answering, Busy, Lined, Drawn
  <1>6. HoldsOne(a)'
    BY <1>2, <1>3, <1>4 DEF HoldsOne
  <1>7. \A s \in stray' : Astray(s)'
    BY <1>2, <1>3, AstrayKept
  <1>. QED
    BY <1>1, <1>2, <1>3, <1>4, <1>5, <1>6, <1>7, RoomStands DEF Types, Drawn

----------------------------------------------------------------------------
(* Steps that post *)

LEMMA CountsKept ==
    ASSUME Inv, NEW b \in Agents, NEW k \in Ids, turns'[k][b] = turns[k][b],
           Counted(b, k)' \subseteq Counted(b, k)
    PROVE  Cardinality(Counted(b, k)') <= turns'[k][b]
  <1>1. IsFiniteSet(Counted(b, k)) /\ Cardinality(Counted(b, k)) \in Nat
    BY CountedFinite DEF Inv
  <1>2. Cardinality(Counted(b, k)') <= Cardinality(Counted(b, k)) /\ Cardinality(Counted(b, k)') \in Nat
    BY <1>1, FS_Subset, FS_CardinalityType
  <1>3. Cardinality(Counted(b, k)) <= turns[k][b] /\ turns[k][b] \in Nat
    BY RoomsConstants DEF Inv, TurnsCount, Types
  <1>. QED
    BY <1>1, <1>2, <1>3

(* Nothing but the messages changes: what they say stays, whom they call stays   *)
(* or is recorded, and what is new was said.                                 *)
LEMMA RoomGrows ==
    ASSUME Inv, AllIds, UNCHANGED <<turns, watcher, stray, records, redone>>,
           upsets' \in 0 .. MaxUpsets, msgs' \in Seq(MsgRows), Posts',
           DOMAIN msgs \subseteq DOMAIN msgs',
           \A i \in DOMAIN msgs :
              /\ msgs'[i].by = msgs[i].by /\ msgs'[i].root = msgs[i].root
              /\ msgs'[i].body = msgs[i].body
              /\ msgs[i].unread \subseteq msgs'[i].unread /\ msgs[i].read \subseteq msgs'[i].read,
           \A i \in DOMAIN msgs' \ DOMAIN msgs : msgs'[i].body = "said"
    PROVE  Inv'
  <1>0. Types /\ Posts /\ WorkingLinesAreTrue
    BY DEF Inv
  <1>1. Types'
    BY <1>0 DEF Types
  <1>2. ASSUME NEW b \in Agents PROVE Answering(b)' /\ HoldsOne(b)'
    <2>1. Answering(b)'
      BY AnsweringKept DEF Spares
    <2>2. HoldsOne(b)'
      BY HoldsOneKept DEF FiledBy
    <2>. QED
      BY <2>1, <2>2
  <1>3. ASSUME NEW s \in stray' PROVE Astray(s)'
    <2>1. Astray(s)
      BY <1>3 DEF Inv
    <2>. QED
      BY <2>1 DEF Astray
  <1>4. ASSUME NEW r \in DOMAIN records' PROVE Filed(records[r])'
    <2>1. Filed(records[r])
      BY DEF Inv
    <2>. QED
      BY <2>1 DEF Filed
  <1>5. WorkingLinesAreTrue'
    BY <1>0 DEF WorkingLinesAreTrue
  <1>6. ASSUME NEW b \in Agents, NEW k \in Ids
        PROVE  Cardinality(Counted(b, k)') <= turns'[k][b]
    <2>1. Counted(b, k)' \subseteq Counted(b, k)
      BY DEF Counted, Replies
    <2>. QED
      BY <2>1, CountsKept
  <1>7. TurnsCount'
    BY <1>6 DEF TurnsCount
  <1>. QED
    BY <1>1, <1>2, <1>3, <1>4, <1>5, <1>7 DEF Inv

(* A new message, of a thread that is there. *)
LEMMA Appended ==
    ASSUME Types, Posts, NEW new \in MsgRows, msgs' = Append(msgs, new),
           new.root \in {0} \cup {m \in DOMAIN msgs : msgs[m].root = 0}, new.to = 0,
           new.unread = {}, new.read = {}, new.body # "said" => new.by \in Agents,
           new.posting => new.body = "said"
    PROVE  /\ msgs' \in Seq(MsgRows) /\ Posts' /\ Len(msgs) \in Nat
           /\ DOMAIN msgs = 1 .. Len(msgs) /\ DOMAIN msgs' = DOMAIN msgs \cup {Len(msgs) + 1}
           /\ \A i \in DOMAIN msgs : msgs'[i] = msgs[i]
           /\ msgs'[Len(msgs) + 1] = new
  <1>1. Len(msgs) \in Nat /\ DOMAIN msgs = 1 .. Len(msgs) /\ msgs \in Seq(MsgRows)
    BY Rows DEF Types
  <1>2. /\ msgs' \in Seq(MsgRows) /\ Len(msgs') = Len(msgs) + 1
        /\ \A i \in 1 .. Len(msgs) : msgs'[i] = msgs[i]
        /\ msgs'[Len(msgs) + 1] = new
    BY <1>1, AppendProperties
  <1>3. DOMAIN msgs' = DOMAIN msgs \cup {Len(msgs) + 1}
    BY <1>1, <1>2
  <1>4. ASSUME NEW i \in DOMAIN msgs
        PROVE  /\ msgs'[i].root < i /\ msgs'[i].to < i
               /\ msgs'[i].root # 0 => msgs'[msgs'[i].root].root = 0
               /\ msgs'[i].unread \cap msgs'[i].read = {}
               /\ msgs'[i].body # "said" => msgs'[i].by \in Agents /\ msgs'[i].unread = {}
               /\ msgs'[i].posting => msgs'[i].body = "said" /\ msgs'[i].unread = {} /\ msgs'[i].read = {}
    <2>1. msgs[i].root # 0 => msgs[i].root \in DOMAIN msgs
      BY Roots
    <2>. QED
      BY <1>1, <1>2, <2>1 DEF Posts
  <1>5. /\ new.root < Len(msgs) + 1 /\ new.to < Len(msgs) + 1
        /\ new.root # 0 => msgs'[new.root].root = 0
    BY <1>1, <1>2
  <1>6. ASSUME NEW i \in DOMAIN msgs'
        PROVE  /\ msgs'[i].root < i /\ msgs'[i].to < i
               /\ msgs'[i].root # 0 => msgs'[msgs'[i].root].root = 0
               /\ msgs'[i].unread \cap msgs'[i].read = {}
               /\ msgs'[i].body # "said" => msgs'[i].by \in Agents /\ msgs'[i].unread = {}
               /\ msgs'[i].posting => msgs'[i].body = "said" /\ msgs'[i].unread = {} /\ msgs'[i].read = {}
    <2>1. CASE i \in DOMAIN msgs
      BY <1>4, <2>1
    <2>2. CASE i = Len(msgs) + 1
      BY <1>2, <1>5, <2>2
    <2>. QED
      BY <1>3, <2>1, <2>2
  <1>7. Posts'
    BY <1>6 DEF Posts
  <1>. QED
    BY <1>1, <1>2, <1>3, <1>7

LEMMA PostsStep ==
    ASSUME Inv, AllIds, NEW by \in Agents \cup {Owner}, NEW names \in SUBSET Agents,
           NEW root \in {0} \cup {m \in DOMAIN msgs : msgs[m].root = 0},
           PostMessage(by, root, names),
           UNCHANGED <<turns, watcher, stray, records, redone, upsets>>
    PROVE  Inv'
  <1>1. PICK new : new = Message(by, root, "said", names, 0)
    OBVIOUS
  <1>2. root \in Nat
    BY Rows DEF Inv
  <1>3. /\ new \in MsgRows /\ new.root = root /\ new.to = 0 /\ new.body = "said"
        /\ new.unread = {} /\ new.read = {}
    BY <1>1, <1>2 DEF Message, MsgRows, Words
  <1>4. msgs' = Append(msgs, new) /\ Types /\ Posts /\ upsets' \in 0 .. MaxUpsets
    BY <1>1 DEF PostMessage, Inv, Types
  <1>5. /\ msgs' \in Seq(MsgRows) /\ Posts' /\ DOMAIN msgs' = DOMAIN msgs \cup {Len(msgs) + 1}
        /\ \A i \in DOMAIN msgs : msgs'[i] = msgs[i]
        /\ msgs'[Len(msgs) + 1] = new
    BY <1>3, <1>4, Appended
  <1>. QED
    BY <1>3, <1>4, <1>5, RoomGrows

LEMMA PersonPostsStep ==
    ASSUME Inv, AllIds, NEW names \in SUBSET Agents, PersonPosts(names)
    PROVE  Inv'
  <1>1. PICK root \in {0} \cup {m \in DOMAIN msgs : msgs[m].root = 0} : PostMessage(Owner, root, names)
    BY DEF PersonPosts
  <1>. QED
    BY <1>1, PostsStep DEF PersonPosts

LEMMA AgentPostsStep ==
    ASSUME Inv, AllIds, NEW a \in Agents, NEW names \in SUBSET Agents, AgentPosts(a, names)
    PROVE  Inv'
  <1>1. watcher[a].msg \in DOMAIN msgs
    BY DEF AgentPosts, Inv, Answering, Busy
  <1>2. ThreadKey(watcher[a].msg) \in {0} \cup {m \in DOMAIN msgs : msgs[m].root = 0}
    BY <1>1, Threads
  <1>. QED
    BY <1>2, PostsStep DEF AgentPosts

LEMMA RowWritten ==
    ASSUME Types, NEW m \in DOMAIN msgs, NEW new \in MsgRows, msgs' = [msgs EXCEPT ![m] = new]
    PROVE  /\ msgs' \in Seq(MsgRows) /\ DOMAIN msgs' = DOMAIN msgs /\ msgs'[m] = new
           /\ \A i \in DOMAIN msgs \ {m} : msgs'[i] = msgs[i]
  <1>1. msgs \in Seq(MsgRows)
    BY DEF Types
  <1>. QED
    BY <1>1

(* One message changes in whom it calls. *)
LEMMA SettlesStep ==
    ASSUME Inv, AllIds, NEW m \in DOMAIN msgs, msgs[m].posting, NEW to \in SUBSET Agents,
           msgs' = [msgs EXCEPT ![m].posting = FALSE, ![m].names = {}, ![m].unread = to],
           UNCHANGED <<turns, watcher, stray, records, redone>>, upsets' \in 0 .. MaxUpsets
    PROVE  Inv'
  <1>0. /\ Types /\ Posts /\ Len(msgs) \in Nat /\ DOMAIN msgs = 1 .. Len(msgs)
        /\ msgs[m] \in MsgRows
    BY Rows DEF Inv
  <1>1. PICK new : new = [msgs[m] EXCEPT !.posting = FALSE, !.names = {}, !.unread = to]
    OBVIOUS
  <1>2. /\ new.by = msgs[m].by /\ new.root = msgs[m].root /\ new.body = msgs[m].body
        /\ new.to = msgs[m].to /\ new.read = msgs[m].read /\ new.unread = to /\ ~new.posting
    BY <1>0, <1>1 DEF MsgRows
  <1>3. new \in MsgRows
    BY <1>0, <1>1 DEF MsgRows
  <1>4. msgs' = [msgs EXCEPT ![m] = new]
    BY <1>1
  <1>5. /\ msgs' \in Seq(MsgRows) /\ DOMAIN msgs' = DOMAIN msgs /\ msgs'[m] = new
        /\ \A i \in DOMAIN msgs \ {m} : msgs'[i] = msgs[i]
    BY <1>0, <1>3, <1>4, RowWritten
  <1>6. msgs[m].body = "said" /\ msgs[m].unread = {} /\ msgs[m].read = {}
    BY <1>0 DEF Posts
  <1>7. \A i \in DOMAIN msgs : msgs'[i].root = msgs[i].root
    BY <1>2, <1>5
  <1>8. ASSUME NEW i \in DOMAIN msgs, msgs[i].root # 0
        PROVE  msgs'[msgs[i].root].root = 0
    <2>1. msgs[i].root \in DOMAIN msgs
      BY <1>0, <1>8, Roots DEF Inv
    <2>. QED
      BY <1>0, <1>7, <1>8, <2>1 DEF Posts
  <1>9. ASSUME NEW i \in DOMAIN msgs'
        PROVE  /\ msgs'[i].root < i /\ msgs'[i].to < i
               /\ msgs'[i].root # 0 => msgs'[msgs'[i].root].root = 0
               /\ msgs'[i].unread \cap msgs'[i].read = {}
               /\ msgs'[i].body # "said" => msgs'[i].by \in Agents /\ msgs'[i].unread = {}
               /\ msgs'[i].posting => msgs'[i].body = "said" /\ msgs'[i].unread = {} /\ msgs'[i].read = {}
    <2>1. i \in DOMAIN msgs
      BY <1>5
    <2>2. /\ msgs[i].root < i /\ msgs[i].to < i
          /\ msgs[i].root # 0 => msgs[msgs[i].root].root = 0
          /\ msgs[i].unread \cap msgs[i].read = {}
          /\ msgs[i].body # "said" => msgs[i].by \in Agents /\ msgs[i].unread = {}
          /\ msgs[i].posting => msgs[i].body = "said" /\ msgs[i].unread = {} /\ msgs[i].read = {}
      BY <1>0, <2>1 DEF Posts
    <2>3. msgs'[i].root # 0 => msgs'[msgs'[i].root].root = 0
      BY <1>7, <1>8, <2>1
    <2>4. CASE i = m
      BY <1>2, <1>5, <1>6, <2>2, <2>3, <2>4
    <2>5. CASE i # m
      <3>1. msgs'[i] = msgs[i]
        BY <1>5, <2>1, <2>5
      <3>. QED
        BY <2>2, <2>3, <3>1
    <2>. QED
      BY <2>4, <2>5
  <1>10. Posts'
    BY <1>9 DEF Posts
  <1>. QED
    BY <1>2, <1>5, <1>6, <1>10, RoomGrows

LEMMA RecordsMentionsStep ==
    ASSUME Inv, AllIds, NEW m \in DOMAIN msgs, RecordsMentions(m)
    PROVE  Inv'
  <1>1. msgs[m] \in MsgRows /\ upsets \in 0 .. MaxUpsets
    BY Rows DEF Inv, Types
  <1>2. Addressed(msgs[m].by, msgs[m].root, msgs[m].names) \in SUBSET Agents
    BY <1>1 DEF Addressed, ThreadAgents, MsgRows
  <1>. QED
    BY <1>1, <1>2, SettlesStep DEF RecordsMentions

LEMMA PostBreaksOffStep ==
    ASSUME Inv, AllIds, NEW m \in DOMAIN msgs, PostBreaksOff(m)
    PROVE  Inv'
  <1>1. msgs[m] \in MsgRows /\ msgs \in Seq(MsgRows) /\ msgs[m].unread = {}
    BY Rows DEF Inv, Types, Posts, PostBreaksOff
  <1>2. upsets' \in 0 .. MaxUpsets
    BY RoomsConstants DEF PostBreaksOff, Upset, Inv, Types
  <1>3. msgs' = [msgs EXCEPT ![m].posting = FALSE, ![m].names = {}, ![m].unread = {}]
    <2>1. [msgs[m] EXCEPT !.posting = FALSE, !.names = {}]
             = [msgs[m] EXCEPT !.posting = FALSE, !.names = {}, !.unread = {}]
      BY <1>1 DEF MsgRows
    <2>2. msgs' = [msgs EXCEPT ![m] = [msgs[m] EXCEPT !.posting = FALSE, !.names = {}]]
      BY DEF PostBreaksOff
    <2>. QED
      BY <2>1, <2>2
  <1>. QED
    BY <1>1, <1>2, <1>3, SettlesStep DEF PostBreaksOff

----------------------------------------------------------------------------
(* Steps of a turn that write its line *)

(* What is left to say of a step of a's: the rest of the room is kept. *)
LEMMA RoomMoves ==
    ASSUME Inv, AllIds, Types', Posts', NEW a \in Agents,
           \A b \in Agents \ {a} : watcher'[b] = watcher[b] /\ Spares(b),
           Answering(a)', HoldsOne(a)', FiledBy(a), DOMAIN records' = DOMAIN records,
           \A s \in stray' : Astray(s)', \A r \in DOMAIN records : Filed(records[r])',
           WorkingLinesAreTrue',
           \A b \in Agents : \A k \in Ids : Cardinality(Counted(b, k)') <= turns'[k][b]
    PROVE  Inv'
  <1>1. ASSUME NEW b \in Agents PROVE Answering(b)' /\ HoldsOne(b)'
    <2>1. CASE b = a
      BY <2>1
    <2>2. CASE b # a
      <3>1. Answering(b)'
        BY <2>2, AnsweringKept
      <3>2. HoldsOne(b)'
        BY <2>2, HoldsOneKept
      <3>. QED
        BY <3>1, <3>2
    <2>. QED
      BY <2>1, <2>2
  <1>2. TurnsCount'
    BY DEF TurnsCount
  <1>. QED
    BY <1>1, <1>2 DEF Inv

LEMMA Redrawn ==
    ASSUME Types, Posts, NEW m \in DOMAIN msgs, msgs[m].body # "said",
           NEW body \in Words \ {"said"}, NEW to \in Nat, to < m, UpdateMessageBody(m, body, to)
    PROVE  /\ msgs' \in Seq(MsgRows) /\ Posts' /\ DOMAIN msgs' = DOMAIN msgs
           /\ \A i \in DOMAIN msgs :
                /\ msgs'[i].by = msgs[i].by /\ msgs'[i].root = msgs[i].root
                /\ msgs'[i].unread = msgs[i].unread /\ msgs'[i].read = msgs[i].read
                /\ i # m => msgs'[i].body = msgs[i].body
           /\ msgs'[m].body = IF msgs[m].body = "gone" THEN "gone" ELSE body
  <1>1. msgs[m] \in MsgRows
    BY Rows
  <1>2. PICK new : new = IF msgs[m].body = "gone" THEN msgs[m]
                         ELSE [msgs[m] EXCEPT !.body = body, !.to = to]
    OBVIOUS
  <1>3. /\ new.by = msgs[m].by /\ new.root = msgs[m].root /\ new.unread = msgs[m].unread
        /\ new.read = msgs[m].read /\ new.posting = msgs[m].posting
        /\ new.body = IF msgs[m].body = "gone" THEN "gone" ELSE body
        /\ new.to \in {msgs[m].to, to}
    BY <1>1, <1>2 DEF MsgRows
  <1>4. new \in MsgRows
    BY <1>1, <1>2 DEF MsgRows
  <1>5. msgs' = [msgs EXCEPT ![m] = new]
    BY <1>2 DEF UpdateMessageBody
  <1>6. /\ msgs' \in Seq(MsgRows) /\ DOMAIN msgs' = DOMAIN msgs /\ msgs'[m] = new
        /\ \A i \in DOMAIN msgs \ {m} : msgs'[i] = msgs[i]
    BY <1>4, <1>5, RowWritten
  <1>7. \A i \in DOMAIN msgs :
          /\ msgs'[i].by = msgs[i].by /\ msgs'[i].root = msgs[i].root
          /\ msgs'[i].unread = msgs[i].unread /\ msgs'[i].read = msgs[i].read
          /\ i # m => msgs'[i] = msgs[i]
    BY <1>3, <1>6
  <1>8. msgs[m].to < m /\ (msgs[m].posting => msgs[m].body = "said") /\ msgs[m].by \in Agents
        /\ msgs[m].unread = {} /\ msgs[m].unread \cap msgs[m].read = {}
    BY DEF Posts
  <1>9. ASSUME NEW i \in DOMAIN msgs, msgs[i].root # 0
        PROVE  msgs'[msgs[i].root].root = 0
    <2>1. msgs[i].root \in DOMAIN msgs
      BY <1>9, Roots
    <2>. QED
      BY <1>7, <1>9, <2>1 DEF Posts
  <1>10. ASSUME NEW i \in DOMAIN msgs'
         PROVE  /\ msgs'[i].root < i /\ msgs'[i].to < i
                /\ msgs'[i].root # 0 => msgs'[msgs'[i].root].root = 0
                /\ msgs'[i].unread \cap msgs'[i].read = {}
                /\ msgs'[i].body # "said" => msgs'[i].by \in Agents /\ msgs'[i].unread = {}
                /\ msgs'[i].posting => msgs'[i].body = "said" /\ msgs'[i].unread = {} /\ msgs'[i].read = {}
    <2>1. i \in DOMAIN msgs
      BY <1>6
    <2>2. /\ msgs[i].root < i /\ msgs[i].to < i
          /\ msgs[i].unread \cap msgs[i].read = {}
          /\ msgs[i].body # "said" => msgs[i].by \in Agents /\ msgs[i].unread = {}
          /\ msgs[i].posting => msgs[i].body = "said" /\ msgs[i].unread = {} /\ msgs[i].read = {}
      BY <2>1 DEF Posts
    <2>3. msgs'[i].root # 0 => msgs'[msgs'[i].root].root = 0
      BY <1>7, <1>9, <2>1
    <2>4. CASE i = m
      BY <1>3, <1>6, <1>8, <2>2, <2>3, <2>4
    <2>5. CASE i # m
      <3>1. msgs'[i] = msgs[i]
        BY <1>7, <2>1, <2>5
      <3>. QED
        BY <2>2, <2>3, <3>1
    <2>. QED
      BY <2>4, <2>5
  <1>11. Posts'
    BY <1>10 DEF Posts
  <1>. QED
    BY <1>3, <1>6, <1>7, <1>11

LEMMA StartsTurnStep ==
    ASSUME Inv, AllIds, NEW a \in Agents, NEW m \in watcher[a].list, StartsTurn(a, m)
    PROVE  Inv'
  <1>0. /\ Types /\ Posts /\ WorkingLinesAreTrue /\ Len(msgs) \in Nat /\ Len(msgs) + 1 \in Nat
        /\ DOMAIN msgs = 1 .. Len(msgs)
    BY Rows DEF Inv
  <1>1. /\ m \in DOMAIN msgs /\ m \in Nat /\ a \in msgs[m].unread
        /\ watcher[a].list \ {m} \in SUBSET Nat
        /\ \A i \in watcher[a].list \ {m} : i \in DOMAIN msgs /\ a \in msgs[i].unread
    BY NextMention DEF StartsTurn
  <1>2. PICK w : w = [[Resting EXCEPT !.at = "turn", !.line = Len(msgs) + 1]
                        EXCEPT !.list = watcher[a].list \ {m}, !.msg = m]
    OBVIOUS
  <1>3. /\ w \in WatcherRows /\ w.at = "turn" /\ w.list = watcher[a].list \ {m}
        /\ w.msg = m /\ w.line = Len(msgs) + 1 /\ w.end = "none"
    BY <1>0, <1>1, <1>2 DEF Resting, WatcherRows, Stages
  <1>4. /\ watcher' = [watcher EXCEPT ![a] = w] /\ watcher[a].at = "next" /\ ~AtCap(a, m)
        /\ UNCHANGED <<turns, redone, records, stray, upsets>>
    BY <1>2 DEF StartsTurn, Takes, IsNext
  <1>5. /\ watcher' \in [Agents -> WatcherRows] /\ watcher'[a] = w
        /\ \A b \in Agents \ {a} : watcher'[b] = watcher[b]
    BY <1>0, <1>3, <1>4 DEF Types
  <1>6. /\ ThreadKey(m) \in DOMAIN msgs /\ ThreadKey(m) \in Ids /\ ThreadKey(m) \in Nat
        /\ msgs[ThreadKey(m)].root = 0
    BY <1>0, <1>1, Threads
  <1>7. PICK new : new = Message(a, ThreadKey(m), "working", {}, 0)
    OBVIOUS
  <1>8. /\ new \in MsgRows /\ new.by = a /\ new.root = ThreadKey(m) /\ new.body = "working"
        /\ new.to = 0 /\ new.unread = {} /\ new.read = {} /\ ~new.posting
    BY <1>6, <1>7 DEF Message, MsgRows, Words
  <1>9. msgs' = Append(msgs, new)
    BY <1>7 DEF StartsTurn
  <1>10. /\ msgs' \in Seq(MsgRows) /\ Posts' /\ DOMAIN msgs' = DOMAIN msgs \cup {Len(msgs) + 1}
         /\ \A i \in DOMAIN msgs : msgs'[i] = msgs[i]
         /\ msgs'[Len(msgs) + 1] = new
    BY <1>0, <1>6, <1>8, <1>9, Appended
  <1>11. Types'
    BY <1>0, <1>4, <1>5, <1>10 DEF Types
  <1>12. \A b \in Agents \ {a} : watcher'[b] = watcher[b] /\ Spares(b)
    BY <1>4, <1>5, <1>10 DEF Spares
  <1>13. Answering(a)'
    <2>1. ThreadKey(m)' = ThreadKey(m)
      BY <1>1, <1>10 DEF ThreadKey
    <2>2. turns[ThreadKey(m)][a] \in 0 .. MaxThreadTurns /\ MaxThreadTurns \in Nat
      BY <1>0, <1>6, RoomsConstants DEF Types
    <2>3. turns'[ThreadKey(m)][a] < MaxThreadTurns
      BY <1>4, <2>2 DEF AtCap
    <2>4. m < Len(msgs) + 1 /\ m # Len(msgs) + 1
      BY <1>0, <1>1
    <2>5. \A i \in w.list : i \in DOMAIN msgs' /\ a \in msgs'[i].unread
      BY <1>1, <1>3, <1>10
    <2>6. m \in DOMAIN msgs' /\ a \in msgs'[m].unread /\ m \notin w.list
      BY <1>1, <1>3, <1>10
    <2>7. /\ w.line \in DOMAIN msgs' /\ msgs'[w.line].by = a /\ msgs'[w.line].root = ThreadKey(m)'
          /\ msgs'[w.line].body = "working"
      BY <1>3, <1>8, <1>10, <2>1
    <2>. QED
      BY <1>3, <1>5, <2>1, <2>3, <2>4, <2>5, <2>6, <2>7 DEF Answering
  <1>14. HoldsOne(a)'
    BY <1>3, <1>5 DEF HoldsOne
  <1>15. ASSUME NEW s \in stray' PROVE Astray(s)'
    <2>1. Astray(s) /\ s.by \in Agents
      BY <1>0, <1>4, <1>15 DEF Inv, Types, StrayRows
    <2>2. s.redraw => s.line # Len(msgs) + 1
      BY <1>0, <2>1 DEF Astray
    <2>3. s.redraw /\ watcher'[s.by].line = s.line => watcher'[s.by].end = "failed"
      <3>1. CASE s.by = a
        BY <1>3, <1>5, <2>2, <3>1
      <3>2. CASE s.by # a
        BY <1>5, <2>1, <3>2 DEF Astray
      <3>. QED
        BY <3>1, <3>2
    <2>. QED
      BY <1>10, <2>1, <2>3 DEF Astray
  <1>16. ASSUME NEW r \in DOMAIN records PROVE Filed(records[r])'
    <2>1. Filed(records[r])
      BY DEF Inv
    <2>. QED
      BY <1>4, <1>10, <2>1 DEF Filed
  <1>17. WorkingLinesAreTrue'
    <2>. SUFFICES ASSUME NEW i \in DOMAIN msgs', msgs'[i].body = "working"
                  PROVE  LET v == watcher'[msgs'[i].by] IN
                         v.at = "down" \/ (v.line = i /\ v.at \in Drawn)
      BY DEF WorkingLinesAreTrue, Drawn
    <2>1. CASE i = Len(msgs) + 1
      BY <1>3, <1>5, <1>8, <1>10, <2>1 DEF Drawn
    <2>2. CASE i \in DOMAIN msgs
      <3>1. msgs'[i] = msgs[i] /\ msgs[i].by \in Agents
        BY <1>0, <1>10, <2>2 DEF Posts
      <3>2. LET v == watcher[msgs[i].by] IN v.at = "down" \/ (v.line = i /\ v.at \in Drawn)
        BY <1>0, <2>2, <3>1 DEF WorkingLinesAreTrue, Drawn
      <3>3. msgs[i].by # a
        BY <1>4, <3>2 DEF Drawn
      <3>. QED
        BY <1>5, <3>1, <3>2, <3>3
    <2>. QED
      BY <1>10, <2>1, <2>2
  <1>18. ASSUME NEW b \in Agents, NEW k \in Ids
         PROVE  Cardinality(Counted(b, k)') <= turns'[k][b]
    <2>1. Counted(b, k)' \subseteq Counted(b, k)
      BY <1>4, <1>5, <1>8, <1>10 DEF Counted, Replies
    <2>. QED
      BY <1>4, <2>1, CountsKept
  <1>19. FiledBy(a) /\ DOMAIN records' = DOMAIN records
    BY <1>4 DEF FiledBy
  <1>. QED
    BY <1>10, <1>11, <1>12, <1>13, <1>14, <1>15, <1>16, <1>17, <1>18, <1>19, RoomMoves

(* A line that is not an answer is written over: what else is kept. *)
LEMMA LineWritten ==
    ASSUME Inv, AllIds, NEW m \in DOMAIN msgs, msgs[m].body \notin {"said", "reply"},
           NEW body \in Words \ {"said"}, NEW to \in Nat, to < m, UpdateMessageBody(m, body, to),
           UNCHANGED <<records, turns>>
    PROVE  /\ msgs' \in Seq(MsgRows) /\ Posts' /\ DOMAIN msgs' = DOMAIN msgs
           /\ \A i \in DOMAIN msgs :
                /\ msgs'[i].by = msgs[i].by /\ msgs'[i].root = msgs[i].root
                /\ msgs'[i].unread = msgs[i].unread /\ msgs'[i].read = msgs[i].read
                /\ i # m => msgs'[i].body = msgs[i].body
           /\ msgs'[m].body \in {"gone", body}
           /\ \A b \in Agents :
                ( \/ msgs[m].by # b
                  \/ (body \in {"working", "revived"} /\ msgs[m].body # "gone") ) => Spares(b)
           /\ \A r \in DOMAIN records : Filed(records[r])'
           /\ \A a : FiledBy(a)
  <1>1. Types /\ Posts
    BY DEF Inv
  <1>2. /\ msgs' \in Seq(MsgRows) /\ Posts' /\ DOMAIN msgs' = DOMAIN msgs
        /\ \A i \in DOMAIN msgs :
             /\ msgs'[i].by = msgs[i].by /\ msgs'[i].root = msgs[i].root
             /\ msgs'[i].unread = msgs[i].unread /\ msgs'[i].read = msgs[i].read
             /\ i # m => msgs'[i].body = msgs[i].body
        /\ msgs'[m].body = IF msgs[m].body = "gone" THEN "gone" ELSE body
    BY <1>1, Redrawn
  <1>4. ASSUME NEW b \in Agents,
               \/ msgs[m].by # b
               \/ (body \in {"working", "revived"} /\ msgs[m].body # "gone")
        PROVE  Spares(b)
    BY <1>2, <1>4 DEF Spares
  <1>5. ASSUME NEW r \in DOMAIN records PROVE Filed(records[r])'
    <2>1. Filed(records[r])
      BY DEF Inv
    <2>. QED
      BY <1>2, <2>1 DEF Filed
  <1>6. \A a : FiledBy(a)
    BY DEF FiledBy
  <1>. QED
    BY <1>2, <1>4, <1>5, <1>6

LEMMA StrayRedrawsStep ==
    ASSUME Inv, AllIds, NEW s \in stray, StrayRedraws(s)
    PROVE  Inv'
  <1>0. Types /\ Posts /\ WorkingLinesAreTrue
    BY DEF Inv
  <1>1. s \in StrayRows /\ s.by \in Agents /\ s.redraw /\ Astray(s)
    BY <1>0 DEF Inv, Types, StrayRows, StrayRedraws
  <1>. DEFINE m == s.line
  <1>2. m \in DOMAIN msgs /\ msgs[m].by = s.by /\ msgs[m].body \notin {"said", "reply"} /\ 0 < m
    BY <1>0, <1>1, Rows DEF Astray
  <1>3. UpdateMessageBody(m, "revived", 0) /\ UNCHANGED <<turns, watcher, records, redone, upsets>>
    BY DEF StrayRedraws
  <1>4. "revived" \in Words \ {"said"} /\ 0 \in Nat
    BY DEF Words
  <1>5. /\ msgs' \in Seq(MsgRows) /\ Posts' /\ DOMAIN msgs' = DOMAIN msgs
        /\ \A i \in DOMAIN msgs :
             /\ msgs'[i].by = msgs[i].by /\ msgs'[i].root = msgs[i].root
             /\ msgs'[i].unread = msgs[i].unread /\ msgs'[i].read = msgs[i].read
             /\ i # m => msgs'[i].body = msgs[i].body
        /\ msgs'[m].body \in {"gone", "revived"}
        /\ \A r \in DOMAIN records : Filed(records[r])'
        /\ FiledBy(s.by)
    BY <1>2, <1>3, <1>4, LineWritten
  <1>6. ASSUME NEW b \in Agents PROVE Spares(b)
    <2>1. msgs[m].body \in {"working", "revived"} => msgs'[m].body = "revived"
      BY <1>2, <1>3 DEF UpdateMessageBody
    <2>. QED
      BY <1>3, <1>5, <2>1 DEF Spares
  <1>7. PICK t : t = [s EXCEPT !.redraw = FALSE]
    OBVIOUS
  <1>8. t \in StrayRows /\ t.by = s.by /\ t.msg = s.msg /\ ~t.redraw
    BY <1>1, <1>7 DEF StrayRows
  <1>9. stray' \subseteq stray \cup {t}
    BY <1>7, GoesOnOnly DEF StrayRedraws
  <1>10. Types'
    BY <1>0, <1>3, <1>5, <1>8, <1>9 DEF Types
  <1>11. Answering(s.by)' /\ HoldsOne(s.by)'
    <2>1. Answering(s.by)'
      BY <1>1, <1>3, <1>6, AnsweringKept
    <2>2. HoldsOne(s.by)'
      BY <1>1, <1>3, <1>5, HoldsOneKept
    <2>. QED
      BY <2>1, <2>2
  <1>12. ASSUME NEW u \in stray' PROVE Astray(u)'
    <2>1. CASE u = t
      BY <1>1, <1>5, <1>8, <2>1 DEF Astray
    <2>2. CASE u \in stray
      <3>1. Astray(u)
        BY <2>2 DEF Inv
      <3>2. u.redraw => msgs'[u.line].body \notin {"said", "reply"}
        BY <1>5, <3>1 DEF Astray
      <3>. QED
        BY <1>3, <1>5, <3>1, <3>2 DEF Astray
    <2>. QED
      BY <1>9, <2>1, <2>2
  <1>13. WorkingLinesAreTrue'
    <2>1. \A i \in DOMAIN msgs' : msgs'[i].body = "working" => msgs[i].body = "working"
      BY <1>5
    <2>. QED
      BY <1>0, <1>3, <1>5, <2>1 DEF WorkingLinesAreTrue
  <1>14. ASSUME NEW b \in Agents, NEW k \in Ids
         PROVE  Cardinality(Counted(b, k)') <= turns'[k][b]
    <2>1. Counted(b, k)' \subseteq Counted(b, k)
      BY <1>3, <1>5 DEF Counted, Replies
    <2>. QED
      BY <1>3, <2>1, CountsKept
  <1>. QED
    BY <1>1, <1>3, <1>5, <1>6, <1>10, <1>11, <1>12, <1>13, <1>14, RoomMoves

LEMMA LandsReplyStep ==
    ASSUME Inv, AllIds, NEW a \in Agents, LandsReply(a)
    PROVE  Inv'
  <1>0. Types /\ Posts /\ WorkingLinesAreTrue /\ watcher[a] \in WatcherRows /\ Answering(a)
    BY Rows DEF Inv
  <1>1. watcher[a].at = "land" /\ watcher[a].end = "replied"
    BY DEF LandsReply
  <1>. DEFINE m == watcher[a].line
  <1>2. /\ m \in DOMAIN msgs /\ msgs[m].by = a /\ watcher[a].msg < m /\ watcher[a].msg \in Nat
        /\ msgs[m].body \in {"working", "revived"}
    BY <1>0, <1>1 DEF Answering, Lined, Drawn, WatcherRows
  <1>3. /\ UpdateMessageBody(m, "reply", watcher[a].msg)
        /\ UNCHANGED <<turns, stray, records, redone, upsets>>
    BY DEF LandsReply
  <1>4. PICK w : w = [watcher[a] EXCEPT !.at = "save"]
    OBVIOUS
  <1>5. /\ w \in WatcherRows /\ w.at = "save" /\ w.list = watcher[a].list /\ w.msg = watcher[a].msg
        /\ w.line = m /\ w.end = "replied"
    BY <1>0, <1>1, <1>4 DEF WatcherRows, Stages
  <1>6. /\ watcher' \in [Agents -> WatcherRows] /\ watcher'[a] = w
        /\ \A b \in Agents \ {a} : watcher'[b] = watcher[b]
    BY <1>0, <1>4, <1>5 DEF LandsReply, Types
  <1>7. "reply" \in Words \ {"said"}
    BY DEF Words
  <1>8. /\ msgs' \in Seq(MsgRows) /\ Posts' /\ DOMAIN msgs' = DOMAIN msgs
        /\ \A i \in DOMAIN msgs :
             /\ msgs'[i].by = msgs[i].by /\ msgs'[i].root = msgs[i].root
             /\ msgs'[i].unread = msgs[i].unread /\ msgs'[i].read = msgs[i].read
             /\ i # m => msgs'[i].body = msgs[i].body
        /\ msgs'[m].body \in {"gone", "reply"}
        /\ \A b \in Agents : a # b => Spares(b)
        /\ \A r \in DOMAIN records : Filed(records[r])'
        /\ FiledBy(a)
    BY <1>2, <1>3, <1>7, LineWritten
  <1>9. Types'
    BY <1>0, <1>3, <1>6, <1>8 DEF Types
  <1>10. Answering(a)'
    <2>1. watcher[a].msg \in DOMAIN msgs
      BY <1>0, <1>1 DEF Answering, Busy
    <2>2. ThreadKey(watcher[a].msg)' = ThreadKey(watcher[a].msg)
      BY <1>5, <1>6, <1>8, <2>1 DEF ThreadKey
    <2>. QED
      BY <1>0, <1>1, <1>3, <1>5, <1>6, <1>8, <2>1, <2>2 DEF Answering, Busy, Lined, Drawn
  <1>11. HoldsOne(a)'
    <2>1. HoldsOne(a)
      BY DEF Inv
    <2>. QED
      BY <1>1, <1>3, <1>5, <1>6, <2>1 DEF HoldsOne
  <1>12. ASSUME NEW s \in stray' PROVE Astray(s)'
    <2>1. Astray(s) /\ s.by \in Agents
      BY <1>0, <1>3, <1>12 DEF Inv, Types, StrayRows
    <2>2. s.redraw => s.line # m
      BY <1>1, <1>2, <2>1 DEF Astray
    <2>3. watcher'[s.by].line = watcher[s.by].line /\ watcher'[s.by].end = watcher[s.by].end
      BY <1>1, <1>5, <1>6, <2>1
    <2>. QED
      BY <1>8, <2>1, <2>2, <2>3 DEF Astray
  <1>13. WorkingLinesAreTrue'
    <2>. SUFFICES ASSUME NEW i \in DOMAIN msgs', msgs'[i].body = "working"
                  PROVE  LET v == watcher'[msgs'[i].by] IN
                         v.at = "down" \/ (v.line = i /\ v.at \in Drawn)
      BY DEF WorkingLinesAreTrue, Drawn
    <2>1. i \in DOMAIN msgs /\ i # m /\ msgs[i].body = "working" /\ msgs'[i].by = msgs[i].by
      BY <1>8
    <2>2. msgs[i].by \in Agents
      BY <1>0, <2>1 DEF Posts
    <2>3. LET v == watcher[msgs[i].by] IN v.at = "down" \/ (v.line = i /\ v.at \in Drawn)
      BY <1>0, <2>1 DEF WorkingLinesAreTrue, Drawn
    <2>4. msgs[i].by # a
      BY <1>1, <2>1, <2>3
    <2>. QED
      BY <1>6, <2>1, <2>2, <2>3, <2>4
  <1>14. ASSUME NEW b \in Agents, NEW k \in Ids
         PROVE  Cardinality(Counted(b, k)') <= turns'[k][b]
    <2>1. ASSUME NEW i \in Counted(b, k)' PROVE i \in Counted(b, k)
      <3>1. i \in DOMAIN msgs' /\ msgs'[i].by = b /\ msgs'[i].body = "reply" /\ i \notin redone'
            /\ msgs'[i].root = k /\ ~(watcher'[b].at = "save" /\ watcher'[b].line = i)
        BY DEF Counted, Replies
      <3>2. i # m
        BY <1>2, <1>5, <1>6, <1>8, <3>1
      <3>3. ~(watcher[b].at = "save" /\ watcher[b].line = i)
        BY <1>1, <1>6, <3>1
      <3>. QED
        BY <1>3, <1>8, <3>1, <3>2, <3>3 DEF Counted, Replies
    <2>. QED
      BY <1>3, <2>1, CountsKept
  <1>. QED
    BY <1>3, <1>6, <1>8, <1>9, <1>10, <1>11, <1>12, <1>13, <1>14, RoomMoves

LEMMA FinishesProgressStep ==
    ASSUME Inv, AllIds, NEW a \in Agents, FinishesProgress(a)
    PROVE  Inv'
  <1>0. Types /\ Posts /\ WorkingLinesAreTrue /\ watcher[a] \in WatcherRows /\ Answering(a)
    BY Rows DEF Inv
  <1>1. watcher[a].at = "land"
    BY DEF FinishesProgress
  <1>. DEFINE m == watcher[a].line
  <1>2. /\ m \in DOMAIN msgs /\ msgs[m].by = a /\ 0 < m
        /\ msgs[m].body \in {"working", "revived"}
    BY <1>0, <1>1, Rows DEF Answering, Lined, Drawn
  <1>3. PICK body \in {"note", "gone"} : UpdateMessageBody(m, body, 0)
    BY DEF FinishesProgress
  <1>4. UNCHANGED <<turns, stray, records, redone, upsets>>
    BY DEF FinishesProgress
  <1>5. PICK w : w = [watcher[a] EXCEPT !.at = "clear", !.line = 0]
    OBVIOUS
  <1>6. /\ w \in WatcherRows /\ w.at = "clear" /\ w.list = watcher[a].list /\ w.msg = watcher[a].msg
        /\ w.line = 0
    BY <1>0, <1>5 DEF WatcherRows, Stages
  <1>7. /\ watcher' \in [Agents -> WatcherRows] /\ watcher'[a] = w
        /\ \A b \in Agents \ {a} : watcher'[b] = watcher[b]
    BY <1>0, <1>5, <1>6 DEF FinishesProgress, Types
  <1>8. body \in Words \ {"said"} /\ 0 \in Nat
    BY DEF Words
  <1>9. /\ msgs' \in Seq(MsgRows) /\ Posts' /\ DOMAIN msgs' = DOMAIN msgs
        /\ \A i \in DOMAIN msgs :
             /\ msgs'[i].by = msgs[i].by /\ msgs'[i].root = msgs[i].root
             /\ msgs'[i].unread = msgs[i].unread /\ msgs'[i].read = msgs[i].read
             /\ i # m => msgs'[i].body = msgs[i].body
        /\ msgs'[m].body \in {"gone", body}
        /\ \A b \in Agents : a # b => Spares(b)
        /\ \A r \in DOMAIN records : Filed(records[r])'
        /\ FiledBy(a)
    BY <1>2, <1>3, <1>4, <1>8, LineWritten
  <1>10. Types'
    BY <1>0, <1>4, <1>7, <1>9 DEF Types
  <1>11. Answering(a)'
    BY <1>0, <1>1, <1>6, <1>7, <1>9 DEF Answering, Busy, Lined, Drawn
  <1>12. HoldsOne(a)'
    <2>1. HoldsOne(a)
      BY DEF Inv
    <2>. QED
      BY <1>1, <1>4, <1>6, <1>7, <2>1 DEF HoldsOne
  <1>13. ASSUME NEW s \in stray' PROVE Astray(s)'
    <2>1. Astray(s) /\ s.by \in Agents
      BY <1>0, <1>4, <1>13 DEF Inv, Types, StrayRows
    <2>2. s.redraw => s.line # 0
      BY <1>0, <2>1, Rows DEF Astray
    <2>3. s.redraw /\ watcher'[s.by].line = s.line => watcher'[s.by].end = "failed"
      BY <1>6, <1>7, <2>1, <2>2 DEF Astray
    <2>4. s.redraw => msgs'[s.line].body \notin {"said", "reply"}
      BY <1>9, <2>1 DEF Astray
    <2>. QED
      BY <1>9, <2>1, <2>3, <2>4 DEF Astray
  <1>14. WorkingLinesAreTrue'
    <2>. SUFFICES ASSUME NEW i \in DOMAIN msgs', msgs'[i].body = "working"
                  PROVE  LET v == watcher'[msgs'[i].by] IN
                         v.at = "down" \/ (v.line = i /\ v.at \in Drawn)
      BY DEF WorkingLinesAreTrue, Drawn
    <2>1. i \in DOMAIN msgs /\ i # m /\ msgs[i].body = "working" /\ msgs'[i].by = msgs[i].by
      BY <1>9
    <2>2. msgs[i].by \in Agents
      BY <1>0, <2>1 DEF Posts
    <2>3. LET v == watcher[msgs[i].by] IN v.at = "down" \/ (v.line = i /\ v.at \in Drawn)
      BY <1>0, <2>1 DEF WorkingLinesAreTrue, Drawn
    <2>4. msgs[i].by # a
      BY <1>1, <2>1, <2>3
    <2>. QED
      BY <1>7, <2>1, <2>2, <2>3, <2>4
  <1>15. ASSUME NEW b \in Agents, NEW k \in Ids
         PROVE  Cardinality(Counted(b, k)') <= turns'[k][b]
    <2>1. Counted(b, k)' \subseteq Counted(b, k)
      BY <1>1, <1>4, <1>6, <1>7, <1>9 DEF Counted, Replies
    <2>. QED
      BY <1>4, <2>1, CountsKept
  <1>. QED
    BY <1>4, <1>7, <1>9, <1>10, <1>11, <1>12, <1>13, <1>14, <1>15, RoomMoves

(* The turn is counted under the thread its line is in. *)
LEMMA SaveThreadSessionStep ==
    ASSUME Inv, AllIds, NEW a \in Agents, SaveThreadSession(a)
    PROVE  Inv'
  <1>0. Types /\ Posts /\ WorkingLinesAreTrue /\ watcher[a] \in WatcherRows /\ Answering(a)
    BY Rows DEF Inv
  <1>1. watcher[a].at = "save" /\ UNCHANGED <<msgs, stray, records, redone, upsets>>
    BY DEF SaveThreadSession
  <1>. DEFINE key == ThreadKey(watcher[a].msg)
  <1>2. /\ watcher[a].msg \in DOMAIN msgs /\ watcher[a].line \in DOMAIN msgs
        /\ msgs[watcher[a].line].root = key /\ turns[key][a] < MaxThreadTurns
    BY <1>0, <1>1 DEF Answering, Busy, Lined
  <1>3. key \in Ids
    BY <1>0, <1>2, Threads
  <1>4. turns[key] \in [Agents -> 0 .. MaxThreadTurns] /\ turns[key][a] \in 0 .. MaxThreadTurns
        /\ MaxThreadTurns \in Nat
    BY <1>0, <1>3, RoomsConstants DEF Types
  <1>5. turns[key][a] + 1 \in 0 .. MaxThreadTurns
    BY <1>2, <1>4
  <1>6. /\ turns' \in [Ids -> [Agents -> 0 .. MaxThreadTurns]]
        /\ turns'[key][a] = turns[key][a] + 1
        /\ \A k \in Ids : \A b \in Agents : k # key \/ b # a => turns'[k][b] = turns[k][b]
    BY <1>0, <1>3, <1>4, <1>5 DEF SaveThreadSession, Types
  <1>7. PICK w : w = [watcher[a] EXCEPT !.at = "clear"]
    OBVIOUS
  <1>8. /\ w \in WatcherRows /\ w.at = "clear" /\ w.list = watcher[a].list /\ w.msg = watcher[a].msg
        /\ w.line = watcher[a].line /\ w.end = watcher[a].end
    BY <1>0, <1>7 DEF WatcherRows, Stages
  <1>9. watcher' = [watcher EXCEPT ![a] = w]
    BY <1>7 DEF SaveThreadSession
  <1>10. /\ watcher' \in [Agents -> WatcherRows] /\ watcher'[a] = w
        /\ \A b \in Agents \ {a} : watcher'[b] = watcher[b]
    BY <1>0, <1>8, <1>9 DEF Types
  <1>11. Types' /\ Posts'
    BY <1>0, <1>1, <1>6, <1>10 DEF Types, Posts
  <1>12. \A b \in Agents \ {a} : watcher'[b] = watcher[b] /\ Spares(b)
    BY <1>1, <1>6, <1>10 DEF Spares
  <1>13. Answering(a)'
    BY <1>0, <1>1, <1>8, <1>10 DEF Answering, Busy, Lined, Drawn
  <1>14. HoldsOne(a)'
    <2>1. HoldsOne(a)
      BY DEF Inv
    <2>. QED
      BY <1>1, <1>8, <1>10, <2>1 DEF HoldsOne
  <1>15. \A s \in stray' : Astray(s)'
    BY <1>1, <1>8, <1>9, AstrayKept
  <1>16. ASSUME NEW r \in DOMAIN records PROVE Filed(records[r])'
    <2>1. Filed(records[r])
      BY DEF Inv
    <2>. QED
      BY <1>1, <2>1 DEF Filed
  <1>17. WorkingLinesAreTrue'
    <2>. SUFFICES ASSUME NEW i \in DOMAIN msgs, msgs[i].body = "working"
                  PROVE  LET v == watcher'[msgs[i].by] IN
                         v.at = "down" \/ (v.line = i /\ v.at \in Drawn)
      BY <1>1 DEF WorkingLinesAreTrue, Drawn
    <2>1. msgs[i].by \in Agents
      BY <1>0 DEF Posts
    <2>2. LET v == watcher[msgs[i].by] IN v.at = "down" \/ (v.line = i /\ v.at \in Drawn)
      BY <1>0 DEF WorkingLinesAreTrue, Drawn
    <2>3. msgs[i].by # a
      BY <1>1, <2>2 DEF Drawn
    <2>. QED
      BY <1>10, <2>1, <2>2, <2>3
  <1>18. ASSUME NEW b \in Agents, NEW k \in Ids
         PROVE  Cardinality(Counted(b, k)') <= turns'[k][b]
    <2>1. CASE b = a /\ k = key
      <3>1. Counted(b, k)' \subseteq Counted(b, k) \cup {watcher[a].line}
        BY <1>1, <1>10, <2>1 DEF Counted, Replies
      <3>2. IsFiniteSet(Counted(b, k)) /\ Cardinality(Counted(b, k)) \in Nat
        BY <1>0, CountedFinite
      <3>3. /\ IsFiniteSet(Counted(b, k) \cup {watcher[a].line})
            /\ Cardinality(Counted(b, k) \cup {watcher[a].line}) \in {Cardinality(Counted(b, k)), Cardinality(Counted(b, k)) + 1}
        BY <3>2, FS_AddElement
      <3>4. /\ Cardinality(Counted(b, k)') <= Cardinality(Counted(b, k) \cup {watcher[a].line})
            /\ Cardinality(Counted(b, k)') \in Nat
        BY <3>1, <3>3, FS_Subset, FS_CardinalityType
      <3>5. Cardinality(Counted(b, k)) <= turns[k][b]
        BY DEF Inv, TurnsCount
      <3>6. turns'[k][b] = turns[k][b] + 1 /\ turns[k][b] \in Nat
        BY <1>4, <1>6, <2>1
      <3>. QED
        BY <3>2, <3>3, <3>4, <3>5, <3>6
    <2>2. CASE ~(b = a /\ k = key)
      <3>1. turns'[k][b] = turns[k][b]
        BY <1>6, <2>2
      <3>2. ASSUME NEW i \in Counted(b, k)' PROVE i \in Counted(b, k)
        <4>1. i \in Replies(b) \ redone /\ msgs[i].root = k
          BY <1>1 DEF Counted, Replies
        <4>2. ~(watcher[b].at = "save" /\ watcher[b].line = i)
          <5>1. CASE b = a
            BY <1>2, <2>2, <4>1, <5>1
          <5>2. CASE b # a
            BY <1>10, <5>2 DEF Counted
          <5>. QED
            BY <5>1, <5>2
        <4>. QED
          BY <4>1, <4>2 DEF Counted
      <3>. QED
        BY <3>1, <3>2, CountsKept
    <2>. QED
      BY <2>1, <2>2
  <1>19. FiledBy(a) /\ DOMAIN records' = DOMAIN records
    BY <1>1 DEF FiledBy
  <1>. QED
    BY <1>11, <1>12, <1>13, <1>14, <1>15, <1>16, <1>17, <1>18, <1>19, RoomMoves

(* The mention is read, and no record of it waits for its turn. *)
LEMMA MarkMentionsReadStep ==
    ASSUME Inv, AllIds, NEW a \in Agents, MarkMentionsRead(a)
    PROVE  Inv'
  <1>0. Types /\ Posts /\ WorkingLinesAreTrue /\ watcher[a] \in WatcherRows /\ Answering(a) /\ HoldsOne(a)
    BY Rows DEF Inv
  <1>1. watcher[a].at = "clear" /\ UNCHANGED <<turns, stray, records, redone, upsets>>
    BY DEF MarkMentionsRead
  <1>. DEFINE m == watcher[a].msg
  <1>2. m \in DOMAIN msgs /\ a \in msgs[m].unread /\ m \notin watcher[a].list
    BY <1>0, <1>1 DEF Answering, Busy
  <1>3. msgs[m] \in MsgRows
    BY <1>0, <1>2, Rows
  <1>4. PICK new : new = [msgs[m] EXCEPT !.unread = msgs[m].unread \ {a}, !.read = msgs[m].read \cup {a}]
    OBVIOUS
  <1>5. /\ new.by = msgs[m].by /\ new.root = msgs[m].root /\ new.body = msgs[m].body
        /\ new.to = msgs[m].to /\ new.posting = msgs[m].posting
        /\ new.unread = msgs[m].unread \ {a} /\ new.read = msgs[m].read \cup {a}
    BY <1>3, <1>4 DEF MsgRows
  <1>6. new \in MsgRows
    BY <1>3, <1>4 DEF MsgRows
  <1>7. msgs' = [msgs EXCEPT ![m] = new]
    BY <1>4 DEF MarkMentionsRead
  <1>8. /\ msgs' \in Seq(MsgRows) /\ DOMAIN msgs' = DOMAIN msgs /\ msgs'[m] = new
        /\ \A i \in DOMAIN msgs \ {m} : msgs'[i] = msgs[i]
    BY <1>0, <1>2, <1>6, <1>7, RowWritten
  <1>9. \A i \in DOMAIN msgs :
          /\ msgs'[i].by = msgs[i].by /\ msgs'[i].root = msgs[i].root /\ msgs'[i].body = msgs[i].body
          /\ \A b \in Agents \ {a} : b \in msgs[i].unread => b \in msgs'[i].unread
          /\ msgs'[i].unread \cup msgs'[i].read = msgs[i].unread \cup msgs[i].read
          /\ i # m => msgs'[i] = msgs[i]
    <2>. TAKE i \in DOMAIN msgs
    <2>1. CASE i = m
      BY <1>2, <1>5, <1>8, <2>1
    <2>2. CASE i # m
      <3>1. msgs'[i] = msgs[i]
        BY <1>8, <2>2
      <3>. QED
        BY <3>1
    <2>. QED
      BY <2>1, <2>2
  <1>10. PICK w : w = Before(watcher[a].list)
    OBVIOUS
  <1>11. w \in WatcherRows /\ w.at \in {"idle", "next"} /\ w.list = watcher[a].list /\ w.line = 0
    <2>1. watcher[a].list \in SUBSET Nat
      BY <1>0 DEF WatcherRows
    <2>. QED
      BY <1>10, <2>1, BeforeRow
  <1>12. /\ watcher' \in [Agents -> WatcherRows] /\ watcher'[a] = w
         /\ \A b \in Agents \ {a} : watcher'[b] = watcher[b]
    BY <1>0, <1>10, <1>11 DEF MarkMentionsRead, Types
  <1>13. Types'
    BY <1>0, <1>1, <1>8, <1>12 DEF Types
  <1>14. msgs[m].body = "said" /\ ~msgs[m].posting
    BY <1>0, <1>2 DEF Posts
  <1>15. ASSUME NEW i \in DOMAIN msgs'
         PROVE  /\ msgs'[i].root < i /\ msgs'[i].to < i
                /\ msgs'[i].root # 0 => msgs'[msgs'[i].root].root = 0
                /\ msgs'[i].unread \cap msgs'[i].read = {}
                /\ msgs'[i].body # "said" => msgs'[i].by \in Agents /\ msgs'[i].unread = {}
                /\ msgs'[i].posting => msgs'[i].body = "said" /\ msgs'[i].unread = {} /\ msgs'[i].read = {}
    <2>1. i \in DOMAIN msgs
      BY <1>8
    <2>2. /\ msgs[i].root < i /\ msgs[i].to < i
          /\ msgs[i].root # 0 => msgs[msgs[i].root].root = 0
          /\ msgs[i].unread \cap msgs[i].read = {}
          /\ msgs[i].body # "said" => msgs[i].by \in Agents /\ msgs[i].unread = {}
          /\ msgs[i].posting => msgs[i].body = "said" /\ msgs[i].unread = {} /\ msgs[i].read = {}
      BY <1>0, <2>1 DEF Posts
    <2>3. msgs[i].root # 0 => msgs[i].root \in DOMAIN msgs
      BY <1>0, <2>1, Roots
    <2>4. msgs'[i].root # 0 => msgs'[msgs'[i].root].root = 0
      BY <1>9, <2>1, <2>2, <2>3
    <2>5. CASE i = m
      BY <1>5, <1>8, <1>14, <2>2, <2>4, <2>5
    <2>6. CASE i # m
      <3>1. msgs'[i] = msgs[i]
        BY <1>8, <2>1, <2>6
      <3>. QED
        BY <2>2, <2>4, <3>1
    <2>. QED
      BY <2>5, <2>6
  <1>16. Posts'
    BY <1>15 DEF Posts
  <1>17. \A b \in Agents \ {a} : watcher'[b] = watcher[b] /\ Spares(b)
    BY <1>1, <1>8, <1>9, <1>12 DEF Spares
  <1>18. Answering(a)' /\ HoldsOne(a)'
    <2>1. \A i \in w.list : i \in DOMAIN msgs' /\ a \in msgs'[i].unread
      <3>1. \A i \in watcher[a].list : i \in DOMAIN msgs /\ a \in msgs[i].unread /\ i # m
        BY <1>0, <1>2 DEF Answering
      <3>. QED
        BY <1>8, <1>9, <1>11, <3>1
    <2>2. w.at \notin Busy
      BY <1>11 DEF Busy
    <2>. QED
      BY <1>11, <1>12, <2>1, <2>2, FreeHand
  <1>19. ASSUME NEW s \in stray' PROVE Astray(s)'
    <2>1. Astray(s) /\ s.by \in Agents
      BY <1>0, <1>1, <1>19 DEF Inv, Types, StrayRows
    <2>2. s.redraw => s.line # 0
      BY <1>0, <2>1, Rows DEF Astray
    <2>3. s.redraw /\ watcher'[s.by].line = s.line => watcher'[s.by].end = "failed"
      BY <1>11, <1>12, <2>1, <2>2 DEF Astray
    <2>. QED
      BY <1>8, <1>9, <2>1, <2>3 DEF Astray
  <1>20. ASSUME NEW r \in DOMAIN records PROVE Filed(records[r])'
    <2>1. Filed(records[r]) /\ records[r] \in RecordRows
      BY <1>0, Rows DEF Inv
    <2>2. ASSUME records[r].state = "working", ~records[r].loose
          PROVE  records[r].by \in msgs'[records[r].msg].unread
      <3>1. records[r].by \in msgs[records[r].msg].unread /\ records[r].msg \in DOMAIN msgs
            /\ records[r].by \in Agents
        BY <2>1, <2>2 DEF Filed, RecordRows
      <3>2. ~(records[r].msg = m /\ records[r].by = a)
        BY <1>0, <1>1, <2>2 DEF HoldsOne
      <3>. QED
        BY <1>9, <3>1, <3>2
    <2>. QED
      BY <1>1, <1>8, <1>9, <2>1, <2>2 DEF Filed
  <1>21. WorkingLinesAreTrue'
    <2>. SUFFICES ASSUME NEW i \in DOMAIN msgs', msgs'[i].body = "working"
                  PROVE  LET v == watcher'[msgs'[i].by] IN
                         v.at = "down" \/ (v.line = i /\ v.at \in Drawn)
      BY DEF WorkingLinesAreTrue, Drawn
    <2>1. i \in DOMAIN msgs /\ msgs[i].body = "working" /\ msgs'[i].by = msgs[i].by
      BY <1>8, <1>9
    <2>2. msgs[i].by \in Agents
      BY <1>0, <2>1 DEF Posts
    <2>3. LET v == watcher[msgs[i].by] IN v.at = "down" \/ (v.line = i /\ v.at \in Drawn)
      BY <1>0, <2>1 DEF WorkingLinesAreTrue, Drawn
    <2>4. msgs[i].by # a
      BY <1>1, <2>3 DEF Drawn
    <2>. QED
      BY <1>12, <2>1, <2>2, <2>3, <2>4
  <1>22. ASSUME NEW b \in Agents, NEW k \in Ids
         PROVE  Cardinality(Counted(b, k)') <= turns'[k][b]
    <2>1. Counted(b, k)' \subseteq Counted(b, k)
      BY <1>1, <1>8, <1>9, <1>12 DEF Counted, Replies
    <2>. QED
      BY <1>1, <2>1, CountsKept
  <1>23. FiledBy(a) /\ DOMAIN records' = DOMAIN records
    BY <1>1 DEF FiledBy
  <1>. QED
    BY <1>13, <1>16, <1>17, <1>18, <1>19, <1>20, <1>21, <1>22, <1>23, RoomMoves

----------------------------------------------------------------------------
(* Gateways stop and start *)

LEMMA DownRow ==
    ASSUME Types, NEW a \in Agents, Down(a)
    PROVE  /\ watcher' \in [Agents -> WatcherRows]
           /\ watcher'[a].at = "down" /\ watcher'[a].list = {} /\ watcher'[a].line = 0
           /\ \A b \in Agents \ {a} : watcher'[b] = watcher[b]
  <1>1. PICK w : w = [Resting EXCEPT !.at = "down"]
    OBVIOUS
  <1>2. w \in WatcherRows /\ w.at = "down" /\ w.list = {} /\ w.line = 0
    BY <1>1 DEF Resting, WatcherRows, Stages
  <1>3. watcher' = [watcher EXCEPT ![a] = w] /\ watcher \in [Agents -> WatcherRows]
    BY <1>1 DEF Down, Types
  <1>. QED
    BY <1>2, <1>3

LEMMA ShutsDownStep ==
    ASSUME Inv, AllIds, NEW a \in Agents, ShutsDown(a)
    PROVE  Inv'
  <1>0. Types /\ Posts /\ WorkingLinesAreTrue /\ Answering(a)
    BY DEF Inv
  <1>1. watcher[a].at = "turn" /\ Down(a) /\ stray' = Left(a)
    BY DEF ShutsDown
  <1>. DEFINE m == watcher[a].line
  <1>2. /\ m \in DOMAIN msgs /\ msgs[m].by = a /\ 0 < m
        /\ msgs[m].body \in {"working", "revived"}
    BY <1>0, <1>1, Rows DEF Answering, Lined, Drawn
  <1>3. /\ UpdateMessageBody(m, "gone", 0) /\ UNCHANGED <<turns, records, redone>>
        /\ upsets' \in 0 .. MaxUpsets
    BY <1>0, RoomsConstants DEF ShutsDown, Upset, Types
  <1>4. /\ watcher' \in [Agents -> WatcherRows]
        /\ watcher'[a].at = "down" /\ watcher'[a].list = {} /\ watcher'[a].line = 0
        /\ \A b \in Agents \ {a} : watcher'[b] = watcher[b]
    BY <1>0, <1>1, DownRow
  <1>5. "gone" \in Words \ {"said"} /\ 0 \in Nat
    BY DEF Words
  <1>6. /\ msgs' \in Seq(MsgRows) /\ Posts' /\ DOMAIN msgs' = DOMAIN msgs
        /\ \A i \in DOMAIN msgs :
             /\ msgs'[i].by = msgs[i].by /\ msgs'[i].root = msgs[i].root
             /\ msgs'[i].unread = msgs[i].unread /\ msgs'[i].read = msgs[i].read
             /\ i # m => msgs'[i].body = msgs[i].body
        /\ msgs'[m].body \in {"gone"}
        /\ \A b \in Agents : a # b => Spares(b)
        /\ \A r \in DOMAIN records : Filed(records[r])'
        /\ FiledBy(a)
    BY <1>2, <1>3, <1>5, LineWritten
  <1>7. stray' \subseteq stray
    BY <1>1 DEF Left
  <1>8. Types'
    BY <1>0, <1>3, <1>4, <1>6, <1>7 DEF Types
  <1>9. Answering(a)' /\ HoldsOne(a)'
    BY <1>4, FreeHand DEF Busy
  <1>10. ASSUME NEW s \in stray' PROVE Astray(s)'
    <2>1. Astray(s) /\ s.by \in Agents /\ (s.by # a \/ s.line = 0)
      BY <1>0, <1>1, <1>10 DEF Inv, Types, StrayRows, Left
    <2>2. s.redraw => s.line # 0
      BY <1>0, <2>1, Rows DEF Astray
    <2>3. s.redraw => watcher'[s.by] = watcher[s.by] /\ msgs'[s.line].body \notin {"said", "reply"}
      BY <1>4, <1>6, <2>1, <2>2 DEF Astray
    <2>. QED
      BY <1>6, <2>1, <2>3 DEF Astray
  <1>11. WorkingLinesAreTrue'
    <2>1. \A i \in DOMAIN msgs' : msgs'[i].body = "working" => msgs[i].body = "working" /\ msgs[i].by \in Agents
      BY <1>0, <1>6 DEF Posts
    <2>. QED
      BY <1>0, <1>4, <1>6, <2>1 DEF WorkingLinesAreTrue
  <1>12. ASSUME NEW b \in Agents, NEW k \in Ids
         PROVE  Cardinality(Counted(b, k)') <= turns'[k][b]
    <2>1. Counted(b, k)' \subseteq Counted(b, k)
      BY <1>1, <1>3, <1>4, <1>6 DEF Counted, Replies
    <2>. QED
      BY <1>3, <2>1, CountsKept
  <1>. QED
    BY <1>3, <1>4, <1>6, <1>8, <1>9, <1>10, <1>11, <1>12, RoomMoves

(* An answer not counted yet when its gateway died is one to be made again. *)
LEMMA DiesStep ==
    ASSUME Inv, AllIds, NEW a \in Agents, Dies(a)
    PROVE  Inv'
  <1>0. Types /\ Posts /\ WorkingLinesAreTrue /\ Answering(a)
    BY DEF Inv
  <1>1. /\ Down(a) /\ stray' = Left(a) /\ UNCHANGED <<msgs, turns, records>>
        /\ redone \subseteq redone' /\ upsets' \in 0 .. MaxUpsets
    BY <1>0, RoomsConstants DEF Dies, Upset, Types
  <1>2. watcher[a].at = "save" => watcher[a].line \in redone'
    BY <1>0 DEF Dies, Answering
  <1>3. /\ watcher' \in [Agents -> WatcherRows]
        /\ watcher'[a].at = "down" /\ watcher'[a].list = {} /\ watcher'[a].line = 0
        /\ \A b \in Agents \ {a} : watcher'[b] = watcher[b]
    BY <1>0, <1>1, DownRow
  <1>4. stray' \subseteq stray
    BY <1>1 DEF Left
  <1>5. Types' /\ Posts'
    BY <1>0, <1>1, <1>3, <1>4 DEF Types, Posts
  <1>6. Answering(a)' /\ HoldsOne(a)'
    BY <1>3, FreeHand DEF Busy
  <1>7. ASSUME NEW s \in stray' PROVE Astray(s)'
    <2>1. Astray(s) /\ s.by \in Agents /\ (s.by # a \/ s.line = 0)
      BY <1>0, <1>1, <1>7 DEF Inv, Types, StrayRows, Left
    <2>2. s.redraw => s.line # 0
      BY <1>0, <2>1, Rows DEF Astray
    <2>3. s.redraw => watcher'[s.by] = watcher[s.by]
      BY <1>3, <2>1, <2>2
    <2>. QED
      BY <1>1, <2>1, <2>3 DEF Astray
  <1>8. ASSUME NEW r \in DOMAIN records PROVE Filed(records[r])'
    <2>1. Filed(records[r])
      BY DEF Inv
    <2>. QED
      BY <1>1, <2>1 DEF Filed
  <1>9. WorkingLinesAreTrue'
    <2>1. \A i \in DOMAIN msgs : msgs[i].body = "working" => msgs[i].by \in Agents
      BY <1>0 DEF Posts
    <2>. QED
      BY <1>0, <1>1, <1>3, <2>1 DEF WorkingLinesAreTrue
  <1>10. ASSUME NEW b \in Agents, NEW k \in Ids
         PROVE  Cardinality(Counted(b, k)') <= turns'[k][b]
    <2>1. Counted(b, k)' \subseteq Counted(b, k)
      BY <1>1, <1>2, <1>3 DEF Counted, Replies
    <2>. QED
      BY <1>1, <2>1, CountsKept
  <1>11. \A b \in Agents \ {a} : watcher'[b] = watcher[b] /\ Spares(b)
    BY <1>1, <1>3 DEF Spares
  <1>12. FiledBy(a) /\ DOMAIN records' = DOMAIN records
    BY <1>1 DEF FiledBy
  <1>. QED
    BY <1>5, <1>6, <1>7, <1>8, <1>9, <1>10, <1>11, <1>12, RoomMoves

LEMMA SweptRows ==
    ASSUME Types, Posts, NEW a \in Agents, msgs' = SweepProgressLines(a)
    PROVE  /\ msgs' \in Seq(MsgRows) /\ Posts' /\ DOMAIN msgs' = DOMAIN msgs
           /\ \A i \in DOMAIN msgs :
                /\ msgs'[i].by = msgs[i].by /\ msgs'[i].root = msgs[i].root
                /\ msgs'[i].unread = msgs[i].unread /\ msgs'[i].read = msgs[i].read
                /\ msgs'[i].body = IF msgs[i].by = a /\ msgs[i].body \in {"working", "revived"}
                                   THEN "gone" ELSE msgs[i].body
  <1>1. /\ Len(msgs) \in Nat /\ DOMAIN msgs = 1 .. Len(msgs)
        /\ \A i \in DOMAIN msgs : msgs[i] \in MsgRows
    BY Rows
  <1>2. /\ DOMAIN msgs' = DOMAIN msgs /\ msgs' = [i \in 1 .. Len(msgs) |-> msgs'[i]]
        /\ \A i \in DOMAIN msgs :
             msgs'[i] = IF msgs[i].by = a /\ msgs[i].body \in {"working", "revived"}
                        THEN [msgs[i] EXCEPT !.body = "gone"] ELSE msgs[i]
    BY <1>1 DEF SweepProgressLines
  <1>3. ASSUME NEW i \in DOMAIN msgs
        PROVE  LET new == [msgs[i] EXCEPT !.body = "gone"] IN
               /\ new \in MsgRows /\ new.body = "gone" /\ new.by = msgs[i].by /\ new.root = msgs[i].root
               /\ new.unread = msgs[i].unread /\ new.read = msgs[i].read /\ new.to = msgs[i].to
               /\ new.posting = msgs[i].posting
    <2>1. msgs[i] \in MsgRows
      BY <1>1
    <2>. QED
      BY <2>1 DEF MsgRows, Words
  <1>4. ASSUME NEW i \in DOMAIN msgs
        PROVE  /\ msgs'[i] \in MsgRows
               /\ msgs'[i].by = msgs[i].by /\ msgs'[i].root = msgs[i].root /\ msgs'[i].to = msgs[i].to
               /\ msgs'[i].unread = msgs[i].unread /\ msgs'[i].read = msgs[i].read
               /\ msgs'[i].posting = msgs[i].posting
               /\ msgs'[i].body = IF msgs[i].by = a /\ msgs[i].body \in {"working", "revived"}
                                  THEN "gone" ELSE msgs[i].body
    <2>1. CASE msgs[i].by = a /\ msgs[i].body \in {"working", "revived"}
      <3>1. PICK new : new = [msgs[i] EXCEPT !.body = "gone"]
        OBVIOUS
      <3>2. /\ new \in MsgRows /\ new.body = "gone" /\ new.by = msgs[i].by /\ new.root = msgs[i].root
            /\ new.unread = msgs[i].unread /\ new.read = msgs[i].read /\ new.to = msgs[i].to
            /\ new.posting = msgs[i].posting
        BY <1>3, <3>1
      <3>3. msgs'[i] = new
        BY <1>2, <2>1, <3>1
      <3>. QED
        BY <2>1, <3>2, <3>3
    <2>2. CASE ~(msgs[i].by = a /\ msgs[i].body \in {"working", "revived"})
      <3>1. msgs'[i] = msgs[i] /\ msgs[i] \in MsgRows
        BY <1>1, <1>2, <2>2
      <3>. QED
        BY <2>2, <3>1
    <2>. QED
      BY <2>1, <2>2
  <1>5. msgs' \in Seq(MsgRows)
    BY <1>1, <1>2, <1>4
  <1>6. ASSUME NEW i \in DOMAIN msgs
        PROVE  /\ msgs'[i].root < i /\ msgs'[i].to < i
               /\ msgs'[i].root # 0 => msgs'[msgs'[i].root].root = 0
               /\ msgs'[i].unread \cap msgs'[i].read = {}
               /\ msgs'[i].body # "said" => msgs'[i].by \in Agents /\ msgs'[i].unread = {}
               /\ msgs'[i].posting => msgs'[i].body = "said" /\ msgs'[i].unread = {} /\ msgs'[i].read = {}
    <2>1. /\ msgs[i].root < i /\ msgs[i].to < i
          /\ msgs[i].root # 0 => msgs[msgs[i].root].root = 0
          /\ msgs[i].unread \cap msgs[i].read = {}
          /\ msgs[i].body # "said" => msgs[i].by \in Agents /\ msgs[i].unread = {}
          /\ msgs[i].posting => msgs[i].body = "said" /\ msgs[i].unread = {} /\ msgs[i].read = {}
      BY DEF Posts
    <2>2. msgs'[i].root # 0 => msgs'[msgs'[i].root].root = 0
      <3>1. msgs[i].root # 0 => msgs[i].root \in DOMAIN msgs
        BY Roots
      <3>. QED
        BY <1>4, <2>1, <3>1
    <2>3. msgs'[i].body # "said" => msgs[i].body # "said"
      BY <1>4
    <2>4. msgs'[i].posting => msgs'[i].body = "said"
      BY <1>4, <2>1
    <2>. QED
      BY <1>4, <2>1, <2>2, <2>3, <2>4
  <1>7. Posts'
    BY <1>2, <1>6 DEF Posts
  <1>. QED
    BY <1>2, <1>4, <1>5, <1>7

LEMMA ReleasedRows ==
    ASSUME Types, NEW a \in Agents, records' = ReleaseInterruptedRuns(a)
    PROVE  /\ records' \in Seq(RecordRows) /\ FiledBy(a) /\ DOMAIN records' = DOMAIN records
           /\ \A r \in DOMAIN records : records'[r].loose = records[r].loose
  <1>1. /\ Len(records) \in Nat /\ DOMAIN records = 1 .. Len(records)
        /\ \A r \in DOMAIN records : records[r] \in RecordRows
    BY Rows
  <1>2. /\ DOMAIN records' = DOMAIN records /\ records' = [r \in 1 .. Len(records) |-> records'[r]]
        /\ \A r \in DOMAIN records :
             records'[r] \in {records[r], [records[r] EXCEPT !.state = "submitted"]}
    BY <1>1 DEF ReleaseInterruptedRuns
  <1>3. ASSUME NEW r \in DOMAIN records
        PROVE  LET new == [records[r] EXCEPT !.state = "submitted"] IN
               /\ new \in RecordRows /\ new.state = "submitted" /\ new.msg = records[r].msg
               /\ new.by = records[r].by /\ new.loose = records[r].loose
    <2>1. records[r] \in RecordRows
      BY <1>1
    <2>. QED
      BY <2>1 DEF RecordRows
  <1>4. ASSUME NEW r \in DOMAIN records
        PROVE  /\ records'[r] \in RecordRows /\ records'[r].msg = records[r].msg
               /\ records'[r].by = records[r].by /\ records'[r].loose = records[r].loose
               /\ records'[r].state = "working" => records[r].state = "working"
    BY <1>1, <1>2, <1>3
  <1>5. records' \in Seq(RecordRows)
    BY <1>1, <1>2, <1>4
  <1>6. FiledBy(a)
    BY <1>2, <1>4 DEF FiledBy
  <1>. QED
    BY <1>2, <1>4, <1>5, <1>6

(* A gateway comes back to lines that only its own turns had drawn. *)
LEMMA ReturnsStep ==
    ASSUME Inv, AllIds, NEW a \in Agents, Returns(a)
    PROVE  Inv'
  <1>0. Types /\ Posts /\ WorkingLinesAreTrue
    BY DEF Inv
  <1>1. watcher[a].at = "down" /\ UNCHANGED <<turns, stray, redone, upsets>>
    BY DEF Returns
  <1>2. /\ msgs' \in Seq(MsgRows) /\ Posts' /\ DOMAIN msgs' = DOMAIN msgs
        /\ \A i \in DOMAIN msgs :
             /\ msgs'[i].by = msgs[i].by /\ msgs'[i].root = msgs[i].root
             /\ msgs'[i].unread = msgs[i].unread /\ msgs'[i].read = msgs[i].read
             /\ msgs'[i].body = IF msgs[i].by = a /\ msgs[i].body \in {"working", "revived"}
                                THEN "gone" ELSE msgs[i].body
    BY <1>0, SweptRows DEF Returns
  <1>3. /\ records' \in Seq(RecordRows) /\ FiledBy(a) /\ DOMAIN records' = DOMAIN records
    BY <1>0, ReleasedRows DEF Returns
  <1>4. /\ watcher' \in [Agents -> WatcherRows] /\ watcher'[a] = Resting
        /\ \A b \in Agents \ {a} : watcher'[b] = watcher[b]
    BY <1>0, IdleRow DEF Returns, Types
  <1>5. Types'
    BY <1>0, <1>1, <1>2, <1>3, <1>4 DEF Types
  <1>6. \A b \in Agents \ {a} : watcher'[b] = watcher[b] /\ Spares(b)
    BY <1>1, <1>2, <1>4 DEF Spares
  <1>7. Answering(a)' /\ HoldsOne(a)'
    BY <1>4, IdleRow, FreeHand DEF Resting, Busy
  <1>8. ASSUME NEW s \in stray' PROVE Astray(s)'
    <2>1. Astray(s) /\ s.by \in Agents
      BY <1>0, <1>1, <1>8 DEF Inv, Types, StrayRows
    <2>2. s.redraw => s.line # 0
      BY <1>0, <2>1, Rows DEF Astray
    <2>3. s.redraw /\ watcher'[s.by].line = s.line => watcher'[s.by].end = "failed"
      BY <1>4, <2>1, <2>2 DEF Astray, Resting
    <2>4. s.redraw => msgs'[s.line].body \notin {"said", "reply"}
      BY <1>2, <2>1 DEF Astray
    <2>. QED
      BY <1>2, <2>1, <2>3, <2>4 DEF Astray
  <1>9. ASSUME NEW r \in DOMAIN records PROVE Filed(records[r])'
    BY <1>2, <1>3, FiledKept
  <1>10. WorkingLinesAreTrue'
    <2>. SUFFICES ASSUME NEW i \in DOMAIN msgs', msgs'[i].body = "working"
                  PROVE  LET v == watcher'[msgs'[i].by] IN
                         v.at = "down" \/ (v.line = i /\ v.at \in Drawn)
      BY DEF WorkingLinesAreTrue, Drawn
    <2>1. i \in DOMAIN msgs /\ msgs[i].body = "working" /\ msgs'[i].by = msgs[i].by /\ msgs[i].by # a
      BY <1>2
    <2>2. msgs[i].by \in Agents
      BY <1>0, <2>1 DEF Posts
    <2>3. LET v == watcher[msgs[i].by] IN v.at = "down" \/ (v.line = i /\ v.at \in Drawn)
      BY <1>0, <2>1 DEF WorkingLinesAreTrue, Drawn
    <2>. QED
      BY <1>4, <2>1, <2>2, <2>3
  <1>11. ASSUME NEW b \in Agents, NEW k \in Ids
         PROVE  Cardinality(Counted(b, k)') <= turns'[k][b]
    <2>1. Counted(b, k)' \subseteq Counted(b, k)
      BY <1>1, <1>2, <1>4 DEF Counted, Replies
    <2>. QED
      BY <1>1, <2>1, CountsKept
  <1>. QED
    BY <1>2, <1>3, <1>5, <1>6, <1>7, <1>8, <1>9, <1>10, <1>11, RoomMoves

----------------------------------------------------------------------------
(* The invariant *)

LEMMA InitHolds == Init => Inv
  <1>. SUFFICES ASSUME Init PROVE Inv
    OBVIOUS
  <1>1. /\ msgs = <<>> /\ records = <<>> /\ stray = {} /\ upsets = 0 /\ redone = {}
        /\ turns = [k \in Ids |-> [a \in Agents |-> 0]]
        /\ watcher = [a \in Agents |-> Resting]
    BY DEF Init
  <1>2. 0 \in 0 .. MaxThreadTurns /\ 0 \in 0 .. MaxUpsets
    BY RoomsConstants
  <1>3. Types
    BY <1>1, <1>2, IdleRow DEF Types
  <1>4. DOMAIN msgs = {} /\ DOMAIN records = {}
    BY <1>1
  <1>5. Posts /\ WorkingLinesAreTrue
    BY <1>4 DEF Posts, WorkingLinesAreTrue
  <1>6. ASSUME NEW a \in Agents PROVE Answering(a) /\ HoldsOne(a)
    BY <1>1 DEF Answering, HoldsOne, Resting, Busy, Lined, Drawn
  <1>7. TurnsCount
    <2>. SUFFICES ASSUME NEW a \in Agents, NEW k \in Ids PROVE Cardinality(Counted(a, k)) <= turns[k][a]
      BY DEF TurnsCount
    <2>1. Counted(a, k) = {}
      BY <1>4 DEF Counted, Replies
    <2>2. Cardinality(Counted(a, k)) = 0
      BY <2>1, FS_EmptySet
    <2>3. turns[k][a] = 0
      BY <1>1
    <2>. QED
      BY <2>2, <2>3
  <1>. QED
    BY <1>1, <1>3, <1>4, <1>5, <1>6, <1>7 DEF Inv

LEMMA StutterKept ==
    ASSUME Inv, UNCHANGED vars
    PROVE  Inv'
  <1>1. /\ msgs' = msgs /\ turns' = turns /\ watcher' = watcher /\ stray' = stray
        /\ records' = records /\ redone' = redone /\ upsets' = upsets
    BY DEF vars
  <1>2. Types' /\ Posts' /\ WorkingLinesAreTrue'
    BY <1>1 DEF Inv, Types, Posts, WorkingLinesAreTrue
  <1>3. ASSUME NEW a \in Agents PROVE Answering(a)' /\ HoldsOne(a)'
    <2>1. ThreadKey(watcher[a].msg)' = ThreadKey(watcher[a].msg)
      BY <1>1 DEF ThreadKey
    <2>2. Answering(a) /\ HoldsOne(a)
      BY DEF Inv
    <2>. QED
      BY <1>1, <2>1, <2>2 DEF Answering, HoldsOne
  <1>4. \A s \in stray' : Astray(s)'
    BY <1>1 DEF Inv, Astray
  <1>5. \A r \in DOMAIN records' : Filed(records[r])'
    BY <1>1 DEF Inv, Filed
  <1>6. \A a, k : Counted(a, k)' = Counted(a, k)
    BY <1>1 DEF Counted, Replies
  <1>7. TurnsCount'
    BY <1>1, <1>6 DEF Inv, TurnsCount
  <1>. QED
    BY <1>2, <1>3, <1>4, <1>5, <1>7 DEF Inv

LEMMA WatchesStep ==
    ASSUME Inv, AllIds, NEW a \in Agents, Watches(a)
    PROVE  Inv'
  <1>1. CASE Sweeps(a)
    BY <1>1, SweepsStep
  <1>2. ASSUME NEW m \in watcher[a].list, SkipsStale(a, m) \/ SkipsAtCap(a, m) \/ StartsTurn(a, m)
        PROVE  Inv'
    BY <1>2, SkipsStaleStep, SkipsAtCapStep, StartsTurnStep
  <1>3. CASE OpensRecord(a)
    BY <1>3, OpensRecordStep
  <1>4. ASSUME NEW end \in {"replied", "empty"}, TurnEnds(a, end) PROVE Inv'
    BY <1>4, TurnEndsStep
  <1>5. CASE ClosesTask(a)
    BY <1>5, ClosesTaskStep
  <1>6. CASE CloseStaleMentionTask(a)
    BY <1>6, CloseStaleStep
  <1>7. CASE LandsReply(a)
    BY <1>7, LandsReplyStep
  <1>8. CASE FinishesProgress(a)
    BY <1>8, FinishesProgressStep
  <1>9. CASE SaveThreadSession(a)
    BY <1>9, SaveThreadSessionStep
  <1>10. CASE MarkMentionsRead(a)
    BY <1>10, MarkMentionsReadStep
  <1>11. CASE Returns(a)
    BY <1>11, ReturnsStep
  <1>. QED
    BY <1>1, <1>2, <1>3, <1>4, <1>5, <1>6, <1>7, <1>8, <1>9, <1>10, <1>11 DEF Watches

LEMMA StepHolds ==
    ASSUME Inv, AllIds, [Next]_vars
    PROVE  Inv'
  <1>1. ASSUME NEW names \in SUBSET Agents, PersonPosts(names) PROVE Inv'
    BY <1>1, PersonPostsStep
  <1>2. ASSUME NEW names \in SUBSET Agents, NEW a \in Agents, AgentPosts(a, names) PROVE Inv'
    BY <1>2, AgentPostsStep
  <1>3. ASSUME NEW m \in DOMAIN msgs, RecordsMentions(m) \/ PostBreaksOff(m) \/ BecomesStale(m) PROVE Inv'
    BY <1>3, RecordsMentionsStep, PostBreaksOffStep, BecomesStaleStep
  <1>4. ASSUME NEW a \in Agents, Watches(a) PROVE Inv'
    BY <1>4, WatchesStep
  <1>5. ASSUME NEW a \in Agents, LooksForRecord(a) \/ CommandLooks(a) PROVE Inv'
    BY <1>5, LooksForRecordStep, CommandLooksStep
  <1>6. ASSUME NEW a \in Agents, TurnFails(a) \/ ShutsDown(a) \/ Dies(a) PROVE Inv'
    BY <1>6, TurnFailsStep, ShutsDownStep, DiesStep
  <1>7. ASSUME NEW s \in stray, Strays(s) PROVE Inv'
    BY <1>7, StrayOpensStep, StrayLooksStep, StrayRedrawsStep, StrayEndsStep DEF Strays
  <1>8. CASE UNCHANGED vars
    BY <1>8, StutterKept
  <1>. QED
    BY <1>1, <1>2, <1>3, <1>4, <1>5, <1>6, <1>7, <1>8 DEF Next

----------------------------------------------------------------------------
(* What follows from it *)

LEMMA ShapesHold ==
    ASSUME Inv, AllIds
    PROVE  TypeOK
  <1>1. /\ Types /\ Posts /\ DOMAIN msgs = 1 .. Len(msgs) /\ Len(msgs) \in Nat
        /\ \A i \in DOMAIN msgs : msgs[i] \in MsgRows
        /\ \A r \in DOMAIN records : records[r] \in RecordRows
        /\ \A a \in Agents : watcher[a] \in WatcherRows
    BY Rows DEF Inv
  <1>2. DOMAIN msgs \subseteq Ids
    BY <1>1 DEF AllIds
  <1>3. ASSUME NEW i \in DOMAIN msgs
        PROVE  /\ msgs[i].by \in Agents \cup {Owner} /\ msgs[i].body \in Words
               /\ msgs[i].root \in 0..(i - 1) /\ msgs[i].to \in 0..(i - 1)
               /\ msgs[i].root # 0 => msgs[msgs[i].root].root = 0
               /\ msgs[i].unread \subseteq Agents \ msgs[i].read
               /\ msgs[i].body # "said" => msgs[i].by \in Agents /\ msgs[i].unread = {}
    <2>1. /\ msgs[i].by \in Agents \cup {Owner} /\ msgs[i].body \in Words
          /\ msgs[i].root \in Nat /\ msgs[i].to \in Nat /\ msgs[i].unread \subseteq Agents
      <3>1. msgs[i] \in MsgRows
        BY <1>1
      <3>. QED
        BY <3>1 DEF MsgRows
    <2>2. /\ msgs[i].root < i /\ msgs[i].to < i
          /\ msgs[i].root # 0 => msgs[msgs[i].root].root = 0
          /\ msgs[i].unread \cap msgs[i].read = {}
          /\ msgs[i].body # "said" => msgs[i].by \in Agents /\ msgs[i].unread = {}
      BY <1>1 DEF Posts
    <2>3. msgs[i].root \in 0..(i - 1) /\ msgs[i].to \in 0..(i - 1)
      BY <1>1, <2>1, <2>2
    <2>. QED
      BY <2>1, <2>2, <2>3
  <1>4. ASSUME NEW r \in DOMAIN records
        PROVE  /\ records[r].by \in msgs[records[r].msg].unread \cup msgs[records[r].msg].read
               /\ records[r].state \in {"submitted", "working", "completed", "failed"}
    <2>1. Filed(records[r]) /\ records[r] \in RecordRows
      BY <1>1 DEF Inv
    <2>. QED
      BY <2>1 DEF Filed, RecordRows
  <1>5. \A a \in Agents : watcher[a].at \in Stages
    BY <1>1 DEF WatcherRows
  <1>. QED
    BY <1>1, <1>2, <1>3, <1>4, <1>5 DEF TypeOK, Types

(* The one answer that may still be uncounted is of a thread below its cap. *)
LEMMA CapHolds ==
    ASSUME Inv, AllIds
    PROVE  ThreadsStop
  <1>. SUFFICES ASSUME NEW a \in Agents, NEW k \in DOMAIN msgs
                PROVE  Cardinality({i \in Replies(a) \ redone : msgs[i].root = k}) <= MaxThreadTurns
    BY DEF ThreadsStop
  <1>. DEFINE All == {i \in Replies(a) \ redone : msgs[i].root = k}
  <1>1. k \in Ids /\ Types
    BY Rows DEF AllIds, Inv
  <1>2. turns[k][a] \in 0 .. MaxThreadTurns /\ MaxThreadTurns \in Nat
    BY <1>1, RoomsConstants DEF Types
  <1>3. IsFiniteSet(Counted(a, k)) /\ Cardinality(Counted(a, k)) \in Nat
    BY <1>1, CountedFinite
  <1>4. Cardinality(Counted(a, k)) <= turns[k][a]
    BY <1>1 DEF Inv, TurnsCount
  <1>5. CASE All \subseteq Counted(a, k)
    <2>1. Cardinality(All) <= Cardinality(Counted(a, k)) /\ Cardinality(All) \in Nat
      BY <1>3, <1>5, FS_Subset, FS_CardinalityType
    <2>. QED
      BY <1>2, <1>3, <1>4, <2>1
  <1>6. CASE ~(All \subseteq Counted(a, k))
    <2>. DEFINE line == watcher[a].line
    <2>1. PICK i \in All : i \notin Counted(a, k)
      BY <1>6
    <2>2. watcher[a].at = "save" /\ line = i /\ msgs[line].root = k
      BY <2>1 DEF Counted
    <2>3. turns[k][a] < MaxThreadTurns
      BY <2>2 DEF Inv, Answering, Lined
    <2>4. All \subseteq Counted(a, k) \cup {line}
      BY DEF Counted
    <2>5. /\ IsFiniteSet(Counted(a, k) \cup {line})
          /\ Cardinality(Counted(a, k) \cup {line}) \in {Cardinality(Counted(a, k)), Cardinality(Counted(a, k)) + 1}
      BY <1>3, FS_AddElement
    <2>6. Cardinality(All) <= Cardinality(Counted(a, k) \cup {line}) /\ Cardinality(All) \in Nat
      BY <2>4, <2>5, FS_Subset, FS_CardinalityType
    <2>. QED
      BY <1>2, <1>3, <1>4, <2>3, <2>5, <2>6
  <1>. QED
    BY <1>5, <1>6

LEMMA SafetyHolds ==
    ASSUME Inv, AllIds
    PROVE  RoomSafe
  <1>1. RecordsAreClosed
    BY DEF Inv, Filed, RecordsAreClosed
  <1>2. WorkingLinesAreTrue
    BY DEF Inv
  <1>. QED
    BY <1>1, <1>2, ShapesHold, CapHolds DEF RoomSafe

(* A room keeps its rules however its agents, gateways, commands and late        *)
(* goroutines interleave (internal/gateway/mentions.go): no agent answers more   *)
(* than its cap in a thread, no record stays open without its mention, and a     *)
(* line that says somebody is at work says so of a turn that runs.            *)
THEOREM RoomIsSafe ==
    ASSUME AllIds
    PROVE  Spec => []RoomSafe
  <1>1. Inv /\ [Next]_vars => Inv'
    BY StepHolds
  <1>2. Inv => RoomSafe
    BY SafetyHolds
  <1>. QED
    BY <1>1, <1>2, InitHolds, PTL DEF Spec

----------------------------------------------------------------------------
(* Answers stay *)

BodiesStay ==
    \A i \in DOMAIN msgs : msgs[i].body \in {"said", "reply"} => msgs'[i].body = msgs[i].body

LEMMA LineWrittenStays ==
    ASSUME Inv, NEW m \in DOMAIN msgs, msgs[m].body \notin {"said", "reply"}, NEW body, NEW to,
           UpdateMessageBody(m, body, to)
    PROVE  BodiesStay
  BY DEF UpdateMessageBody, BodiesStay

LEMMA AppendStays ==
    ASSUME Inv, NEW new, msgs' = Append(msgs, new)
    PROVE  BodiesStay
  <1>1. Len(msgs) \in Nat /\ DOMAIN msgs = 1 .. Len(msgs) /\ msgs \in Seq(MsgRows)
    BY Rows DEF Inv, Types
  <1>2. \A i \in DOMAIN msgs : msgs'[i] = msgs[i]
    BY <1>1
  <1>. QED
    BY <1>2 DEF BodiesStay

(* The line of a turn that has not landed is not an answer yet. *)
LEMMA DrawnLine ==
    ASSUME Inv, NEW a \in Agents, watcher[a].at \in Drawn
    PROVE  watcher[a].line \in DOMAIN msgs /\ msgs[watcher[a].line].body \notin {"said", "reply"}
  BY DEF Inv, Answering, Drawn, Lined

LEMMA WatchesStays ==
    ASSUME Inv, NEW a \in Agents, Watches(a)
    PROVE  BodiesStay
  <1>1. CASE UNCHANGED msgs
    BY <1>1 DEF BodiesStay
  <1>2. ASSUME NEW m \in watcher[a].list, StartsTurn(a, m) PROVE BodiesStay
    BY <1>2, AppendStays DEF StartsTurn
  <1>3. CASE LandsReply(a)
    BY <1>3, DrawnLine, LineWrittenStays DEF LandsReply, Drawn
  <1>4. CASE FinishesProgress(a)
    BY <1>4, DrawnLine, LineWrittenStays DEF FinishesProgress, Drawn
  <1>5. CASE MarkMentionsRead(a)
    BY <1>5 DEF MarkMentionsRead, BodiesStay
  <1>6. CASE Returns(a)
    BY <1>6, SweptRows DEF Returns, Inv, BodiesStay
  <1>7. CASE Sweeps(a) \/ OpensRecord(a) \/ ClosesTask(a) \/ CloseStaleMentionTask(a) \/ SaveThreadSession(a)
    BY <1>1, <1>7 DEF Sweeps, OpensRecord, ClosesTask, CloseStaleMentionTask, SaveThreadSession
  <1>8. ASSUME NEW m \in watcher[a].list, SkipsStale(a, m) \/ SkipsAtCap(a, m) PROVE BodiesStay
    BY <1>1, <1>8 DEF SkipsStale, SkipsAtCap
  <1>9. ASSUME NEW end \in {"replied", "empty"}, TurnEnds(a, end) PROVE BodiesStay
    BY <1>1, <1>9 DEF TurnEnds
  <1>. QED
    BY <1>2, <1>3, <1>4, <1>5, <1>6, <1>7, <1>8, <1>9 DEF Watches

LEMMA StepStays ==
    ASSUME Inv, [Next]_vars
    PROVE  BodiesStay
  <1>1. CASE UNCHANGED msgs
    BY <1>1 DEF BodiesStay
  <1>2. ASSUME NEW names \in SUBSET Agents, PersonPosts(names) PROVE BodiesStay
    BY <1>2, AppendStays DEF PersonPosts, PostMessage
  <1>3. ASSUME NEW names \in SUBSET Agents, NEW a \in Agents, AgentPosts(a, names) PROVE BodiesStay
    BY <1>3, AppendStays DEF AgentPosts, PostMessage
  <1>4. ASSUME NEW m \in DOMAIN msgs, RecordsMentions(m) \/ PostBreaksOff(m) PROVE BodiesStay
    <2>1. msgs[m] \in MsgRows
      BY Rows DEF Inv
    <2>2. PICK to \in {msgs[m].unread, Addressed(msgs[m].by, msgs[m].root, msgs[m].names)} :
            msgs' = [msgs EXCEPT ![m] = [msgs[m] EXCEPT !.posting = FALSE, !.names = {}, !.unread = to]]
      <3>1. CASE RecordsMentions(m)
        BY <3>1 DEF RecordsMentions
      <3>2. CASE PostBreaksOff(m)
        <4>1. [msgs[m] EXCEPT !.posting = FALSE, !.names = {}]
                 = [msgs[m] EXCEPT !.posting = FALSE, !.names = {}, !.unread = msgs[m].unread]
          BY <2>1 DEF MsgRows
        <4>. QED
          BY <3>2, <4>1 DEF PostBreaksOff
      <3>. QED
        BY <1>4, <3>1, <3>2
    <2>3. [msgs[m] EXCEPT !.posting = FALSE, !.names = {}, !.unread = to].body = msgs[m].body
      BY <2>1 DEF MsgRows
    <2>. QED
      BY <2>2, <2>3 DEF BodiesStay
  <1>5. ASSUME NEW a \in Agents, Watches(a) PROVE BodiesStay
    BY <1>5, WatchesStays
  <1>6. ASSUME NEW a \in Agents, ShutsDown(a) PROVE BodiesStay
    BY <1>6, DrawnLine, LineWrittenStays DEF ShutsDown, Drawn
  <1>7. ASSUME NEW s \in stray, StrayRedraws(s) PROVE BodiesStay
    <2>1. s.line \in DOMAIN msgs /\ msgs[s.line].body \notin {"said", "reply"}
      BY <1>7 DEF Inv, Astray, StrayRedraws
    <2>. QED
      BY <1>7, <2>1, LineWrittenStays DEF StrayRedraws
  <1>8. ASSUME NEW s \in stray, StrayOpens(s) \/ StrayLooks(s) \/ StrayEnds(s) PROVE BodiesStay
    BY <1>1, <1>8 DEF StrayOpens, StrayLooks, StrayEnds
  <1>9. ASSUME NEW a \in Agents, LooksForRecord(a) \/ CommandLooks(a) \/ TurnFails(a) \/ Dies(a) PROVE BodiesStay
    BY <1>1, <1>9 DEF LooksForRecord, CommandLooks, TurnFails, Dies
  <1>10. ASSUME NEW m \in DOMAIN msgs, BecomesStale(m) PROVE BodiesStay
    BY <1>1, <1>10 DEF BecomesStale
  <1>11. CASE UNCHANGED vars
    BY <1>1, <1>11 DEF vars
  <1>. QED
    BY <1>2, <1>3, <1>4, <1>5, <1>6, <1>7, <1>8, <1>9, <1>10, <1>11 DEF Next, Strays

(* What was said, and an answer that landed, is never written over: not by a     *)
(* late progress report, a shutdown, or the sweep of a gateway that comes back   *)
(* (mentions.go:306-310, 990-992).                                           *)
THEOREM AnswersAreKept ==
    ASSUME AllIds
    PROVE  Spec => AnswersStay
  <1>1. Inv /\ [Next]_vars => Inv'
    BY StepHolds
  <1>2. Inv /\ [Next]_vars => [BodiesStay]_vars
    BY StepStays
  <1>3. Spec => [][BodiesStay]_vars
    BY <1>1, <1>2, InitHolds, PTL DEF Spec
  <1>. QED
    BY <1>3 DEF AnswersStay, BodiesStay

-----------------------------------------------------------------------------
(* The mail of the tasks, TaskMail.tla. *)

CONSTANTS Readers, Tasks, None, Window, MaxLines, MaxReads, MaxFaults

VARIABLES lines, unread, read, runner, mailWatcher, shell, told, over, reads, faults

Letters == INSTANCE TaskMail WITH watcher <- mailWatcher

LEMMA LeastOf ==
    ASSUME NEW S \in SUBSET Nat, S # {}
    PROVE  \E k \in S : \A j \in S : k <= j
  <1>. DEFINE R == {ss \in Nat \X Nat : ss[1] < ss[2]}
  <1>1. IsWellFoundedOn(R, Nat)
    BY NatLessThanWellFounded DEF OpToRel
  <1>2. PICK x \in S : \A y \in S : ~ (<<y, x>> \in R)
    BY <1>1, WFMin
  <1>3. ASSUME NEW y \in S
        PROVE  x <= y
    <2>1. <<y, x>> \in Nat \X Nat /\ <<y, x>>[1] = y /\ <<y, x>>[2] = x
      OBVIOUS
    <2>2. <<y, x>> \notin R
      BY <1>2
    <2>3. ~ (y < x)
      BY <2>1, <2>2
    <2>. QED
      BY <2>3
  <1>. QED
    BY <1>3

MailNamed ==
    /\ \A p \in unread \cup read : p[1] \in DOMAIN lines /\ p[2] \notin lines[p[1]].left
    /\ \A a \in Readers :
        \A k \in runner[a].has \cup mailWatcher[a].has \cup shell[a].has : <<k, a>> \in unread \cup read
    /\ \A p \in Letters!Seen : told.prompt[p] + told.turn[p] > 0 => p \in unread \cup read

MailShown == \A a \in Readers : \A k \in shell[a].has : <<k, a>> \in over

MailOnce ==
    \A a \in Readers, k \in 1 .. MaxLines :
        LET p == <<k, a>> IN
        /\ p \in unread => told.prompt[p] <= faults /\ told.turn[p] <= faults
        /\ k \in mailWatcher[a].has => told.turn[p] <= faults
        /\ k \in runner[a].has =>
            /\ told.prompt[p] <= faults
            /\ runner[a].at = "marked" /\ p \in unread => told.prompt[p] + 1 <= faults

MailInv == Letters!TypeOK /\ MailNamed /\ MailShown /\ Letters!ReadIsSeen /\ Letters!SeenOnceEach /\ MailOnce

LineRow == [task : Tasks \cup {None}, to : SUBSET Agents, left : SUBSET Agents]

LEMMA LineChanges ==
    ASSUME NEW R, NEW s \in Seq(R), NEW k \in DOMAIN s, NEW r \in R
    PROVE  [s EXCEPT ![k] = r] \in Seq(R) /\ Len([s EXCEPT ![k] = r]) = Len(s)
  OBVIOUS

LEMMA OldestIsThere ==
    ASSUME Letters!TaskMailConstants, Letters!TypeOK, NEW a \in Readers, mailWatcher[a].at # "off"
    PROVE  Letters!Oldest(a) \in mailWatcher[a].has
  <1>1. mailWatcher[a].has \in SUBSET Nat /\ mailWatcher[a].has # {}
    BY DEF Letters!TypeOK, Letters!TaskMailConstants
  <1>. QED
    BY <1>1, LeastOf DEF Letters!Oldest

LEMMA InboxIsUnread ==
    ASSUME Letters!TypeOK, NEW a \in Readers, NEW n
    PROVE  /\ Letters!Inbox(a, n) \subseteq 1 .. MaxLines
           /\ \A k \in Letters!Inbox(a, n) : <<k, a>> \in unread
  <1>1. ASSUME NEW k \in Letters!Inbox(a, n)
        PROVE  k \in 1 .. MaxLines /\ <<k, a>> \in unread
    <2>1. PICK p \in unread : p[2] = a /\ p[1] = k
      BY <1>1 DEF Letters!Inbox
    <2>2. p \in (1 .. MaxLines) \X Agents
      BY DEF Letters!TypeOK, Letters!Pairs
    <2>3. p = <<k, a>>
      BY <2>1, <2>2
    <2>. QED
      BY <2>1, <2>2, <2>3
  <1>. QED
    BY <1>1

LEMMA MailTypes ==
    ASSUME Letters!TaskMailConstants, Letters!TypeOK, [Letters!Next]_(Letters!vars)
    PROVE  Letters!TypeOK'
  <1>. USE DEF Letters!TaskMailConstants, Letters!Pairs, Letters!Seen, Letters!Mail, Letters!History, Letters!Bounds, Letters!Fault
  <1>. DEFINE Spots == [Readers -> [at : {"off", "next", "turn"}, has : SUBSET (1 .. MaxLines)]]
  <1>0. Readers \subseteq Agents /\ MaxReads \in Nat /\ MaxFaults \in Nat
    OBVIOUS
  <1>1. ASSUME NEW a \in Readers, NEW ks, Letters!MarkRead(a, ks)
        PROVE  unread' \subseteq Letters!Pairs /\ read' \subseteq Letters!Pairs
    BY <1>1 DEF Letters!TypeOK, Letters!MarkRead
  <1>2. ASSUME NEW a \in Readers, NEW ks, NEW w \in {"prompt", "turn"}, Letters!Sees(w, a, ks)
        PROVE  told' \in [{"prompt", "turn"} -> [Letters!Seen -> Nat]]
    BY <1>2 DEF Letters!TypeOK, Letters!Sees
  <1>3. ASSUME NEW a \in Readers, Letters!Rest(a)
        PROVE  /\ mailWatcher' \in Spots
               /\ \A b \in Readers : mailWatcher'[b].at = "off" <=> mailWatcher'[b].has = {}
    BY <1>3 DEF Letters!TypeOK, Letters!Rest, Letters!Off
  <1>4. ASSUME NEW task \in Tasks \cup {None}, NEW to \in SUBSET Agents, Letters!SendMessage(task, to)
        PROVE  Letters!TypeOK'
    BY <1>4 DEF Letters!TypeOK, Letters!SendMessage
  <1>5. ASSUME NEW k \in DOMAIN lines, Letters!WriterDies(k)
        PROVE  Letters!TypeOK'
    <2>1. lines \in Seq(LineRow)
      BY DEF Letters!TypeOK, LineRow
    <2>2. [lines[k] EXCEPT !.left = {}] \in LineRow
      <3>1. lines[k] \in LineRow
        BY <2>1
      <3>. QED
        BY <3>1 DEF LineRow
    <2>3. lines' \in Seq(LineRow) /\ Len(lines') = Len(lines)
      BY <1>5, <2>1, <2>2, LineChanges DEF Letters!WriterDies
    <2>4. /\ UNCHANGED <<unread, read, runner, mailWatcher, shell, told, over, reads>>
          /\ faults' \in 0 .. MaxFaults
      BY <1>5 DEF Letters!TypeOK, Letters!WriterDies
    <2>. QED
      BY <2>3, <2>4 DEF Letters!TypeOK, LineRow
  <1>6. ASSUME NEW k \in DOMAIN lines, NEW a \in Agents, Letters!Names(k, a)
        PROVE  Letters!TypeOK'
    <2>1. lines \in Seq(LineRow)
      BY DEF Letters!TypeOK, LineRow
    <2>2. [lines[k] EXCEPT !.left = lines[k].left \ {a}] \in LineRow
      <3>1. lines[k] \in LineRow
        BY <2>1
      <3>. QED
        BY <3>1 DEF LineRow
    <2>3. lines' \in Seq(LineRow) /\ Len(lines') = Len(lines)
      BY <1>6, <2>1, <2>2, LineChanges DEF Letters!Names
    <2>4. k \in 1 .. MaxLines
      BY DEF Letters!TypeOK
    <2>5. /\ UNCHANGED <<read, runner, mailWatcher, shell, told, over, reads, faults>>
          /\ unread' \subseteq Letters!Pairs
      BY <1>6, <2>4 DEF Letters!TypeOK, Letters!Names
    <2>. QED
      BY <2>3, <2>5 DEF Letters!TypeOK, LineRow
  <1>7. ASSUME NEW a \in Readers, NEW t \in Tasks, Letters!RunReads(a, t)
        PROVE  Letters!TypeOK'
    BY <1>7, InboxIsUnread DEF Letters!TypeOK, Letters!RunReads, Letters!Runner
  <1>8. ASSUME NEW a \in Readers, Letters!RunMarks(a)
        PROVE  Letters!TypeOK'
    BY <1>1, <1>8 DEF Letters!TypeOK, Letters!RunMarks, Letters!Runner
  <1>9. ASSUME NEW a \in Readers, Letters!RunFailsToMark(a)
        PROVE  Letters!TypeOK'
    BY <1>9 DEF Letters!TypeOK, Letters!RunFailsToMark, Letters!Runner
  <1>10. ASSUME NEW a \in Readers, Letters!RunStarts(a)
        PROVE  Letters!TypeOK'
    BY <1>2, <1>10 DEF Letters!TypeOK, Letters!RunStarts, Letters!NoRun
  <1>11. ASSUME NEW a \in Readers
        PROVE  Letters!Unheard(a) \subseteq Letters!Pairs
    BY DEF Letters!TypeOK, Letters!Unheard
  <1>12. ASSUME NEW a \in Readers, Letters!RunNeverStarts(a)
        PROVE  Letters!TypeOK'
    BY <1>11, <1>12 DEF Letters!TypeOK, Letters!RunNeverStarts, Letters!NoRun
  <1>13. ASSUME NEW a \in Readers, Letters!Sweeps(a)
        PROVE  Letters!TypeOK'
    BY <1>13, InboxIsUnread DEF Letters!TypeOK, Letters!Sweeps
  <1>14. ASSUME NEW a \in Readers, Letters!StartsTurn(a)
        PROVE  Letters!TypeOK'
    BY <1>14 DEF Letters!TypeOK, Letters!StartsTurn
  <1>15. ASSUME NEW a \in Readers, mailWatcher[a].at # "off"
        PROVE  Letters!Oldest(a) \in 1 .. MaxLines
    BY <1>15, OldestIsThere DEF Letters!TypeOK
  <1>16. ASSUME NEW a \in Readers, Letters!Skips(a)
        PROVE  Letters!TypeOK'
    BY <1>1, <1>3, <1>15, <1>16 DEF Letters!TypeOK, Letters!Skips
  <1>17. ASSUME NEW a \in Readers, Letters!Leaves(a)
        PROVE  Letters!TypeOK'
    BY <1>3, <1>17 DEF Letters!TypeOK, Letters!Leaves
  <1>18. ASSUME NEW a \in Readers, Letters!TurnEnds(a)
        PROVE  Letters!TypeOK'
    BY <1>1, <1>2, <1>3, <1>18 DEF Letters!TypeOK, Letters!TurnEnds
  <1>19. ASSUME NEW a \in Readers, Letters!Shows(a)
        PROVE  Letters!TypeOK'
    BY <1>19, InboxIsUnread DEF Letters!TypeOK, Letters!Shows
  <1>20. ASSUME NEW a \in Readers, Letters!MarksShown(a)
        PROVE  Letters!TypeOK'
    BY <1>1, <1>20 DEF Letters!TypeOK, Letters!MarksShown, Letters!Off
  <1>21. ASSUME NEW a \in Readers, Letters!GatewayStops(a)
        PROVE  Letters!TypeOK'
    BY <1>11, <1>21 DEF Letters!TypeOK, Letters!GatewayStops, Letters!NoRun, Letters!Off
  <1>22. ASSUME UNCHANGED Letters!vars
        PROVE  Letters!TypeOK'
    BY <1>22 DEF Letters!TypeOK, Letters!vars
  <1>. QED
    BY <1>4, <1>5, <1>6, <1>7, <1>8, <1>9, <1>10, <1>12, <1>13, <1>14, <1>16, <1>17, <1>18, <1>19,
       <1>20, <1>21, <1>22 DEF Letters!Next

(* What MarkRead does to a pair. *)
LEMMA MarkReadMoves ==
    ASSUME Letters!TypeOK, NEW a \in Readers, NEW ks, Letters!MarkRead(a, ks)
    PROVE  /\ unread' \cup read' = unread \cup read
           /\ unread' \subseteq unread
           /\ \A p \in read' : p \in read \/ (p[2] = a /\ p[1] \in ks /\ p \in unread /\ p \in Letters!Seen)
           /\ \A k \in ks : <<k, a>> \notin unread'
  <1>1. \A p \in unread : p \in Letters!Pairs
    BY DEF Letters!TypeOK
  <1>2. ASSUME NEW p \in unread \cap {<<k, a>> : k \in ks}
        PROVE  p[2] = a /\ p[1] \in ks /\ p \in Letters!Seen
    BY <1>1, <1>2 DEF Letters!Pairs, Letters!Seen
  <1>. QED
    BY <1>2 DEF Letters!MarkRead

LEMMA SeesCounts ==
    ASSUME Letters!TypeOK, NEW a \in Readers, NEW ks, NEW w \in {"prompt", "turn"}, Letters!Sees(w, a, ks)
    PROVE  /\ \A v \in {"prompt", "turn"} : v # w => told'[v] = told[v]
           /\ \A p \in Letters!Seen : told'[w][p] = IF p[2] = a /\ p[1] \in ks THEN told[w][p] + 1 ELSE told[w][p]
  BY DEF Letters!TypeOK, Letters!Sees

(* What a reader holds it found, and only what was named is read. *)
LEMMA MailNamedStep ==
    ASSUME Letters!TaskMailConstants, MailInv, [Letters!Next]_(Letters!vars)
    PROVE  MailNamed'
  <1>. USE DEF MailInv, Letters!Mail, Letters!History, Letters!Bounds, Letters!Fault
  <1>. Letters!TypeOK
    OBVIOUS
  <1>. DEFINE Named(u, l) == \A p \in u : p[1] \in DOMAIN l /\ p[2] \notin l[p[1]].left
              Held(u, r, w, s) == \A a \in Readers : \A k \in r[a].has \cup w[a].has \cup s[a].has : <<k, a>> \in u
              AllCounted(u, t) == \A p \in Letters!Seen : t.prompt[p] + t.turn[p] > 0 => p \in u
  <1>1. /\ Named(unread \cup read, lines)
        /\ Held(unread \cup read, runner, mailWatcher, shell)
        /\ AllCounted(unread \cup read, told)
    BY DEF MailNamed
  <1>2. ASSUME Named(unread' \cup read', lines'), Held(unread' \cup read', runner', mailWatcher', shell'),
               AllCounted(unread' \cup read', told')
        PROVE  MailNamed'
    BY <1>2 DEF MailNamed, Letters!Seen
  <1>3. ASSUME NEW a \in Readers, Letters!Rest(a)
        PROVE  \A b \in Readers : mailWatcher'[b].has \subseteq mailWatcher[b].has
    BY <1>3 DEF Letters!Rest, Letters!Off, Letters!TypeOK
  <1>4. ASSUME NEW task \in Tasks \cup {None}, NEW to \in SUBSET Agents, Letters!SendMessage(task, to)
        PROVE  MailNamed'
    <2>1. \A k \in DOMAIN lines : k \in DOMAIN lines' /\ lines'[k] = lines[k]
      BY <1>4 DEF Letters!SendMessage, Letters!TypeOK
    <2>. QED
      BY <1>1, <1>2, <1>4, <2>1 DEF Letters!SendMessage
  <1>5. ASSUME NEW k \in DOMAIN lines, Letters!WriterDies(k)
        PROVE  MailNamed'
    <2>1. \A j \in DOMAIN lines : j \in DOMAIN lines' /\ lines'[j].left \subseteq lines[j].left
      BY <1>5 DEF Letters!WriterDies, Letters!TypeOK
    <2>. QED
      BY <1>1, <1>2, <1>5, <2>1 DEF Letters!WriterDies
  <1>6. ASSUME NEW k \in DOMAIN lines, NEW a \in Agents, Letters!Names(k, a)
        PROVE  MailNamed'
    <2>0. lines \in Seq(LineRow) /\ lines[k] \in LineRow
      <3>1. lines \in Seq(LineRow)
        BY DEF Letters!TypeOK, LineRow
      <3>. QED
        BY <3>1
    <2>1. ASSUME NEW j \in DOMAIN lines
          PROVE  j \in DOMAIN lines' /\ lines'[j].left \subseteq lines[j].left /\ (j = k => a \notin lines'[j].left)
      BY <1>6, <2>0 DEF Letters!Names, LineRow
    <2>2. a \notin lines'[k].left
      BY <2>1
    <2>3. unread' = unread \cup {<<k, a>>} /\ UNCHANGED <<read, runner, mailWatcher, shell, told>>
      BY <1>6 DEF Letters!Names
    <2>4. Named(unread' \cup read', lines')
      BY <1>1, <2>1, <2>2, <2>3
    <2>. QED
      BY <1>1, <1>2, <2>3, <2>4
  <1>7. ASSUME NEW a \in Readers, NEW t \in Tasks, Letters!RunReads(a, t)
        PROVE  MailNamed'
    <2>1. \A b \in Readers : runner'[b].has \subseteq runner[b].has
                             \/ (b = a /\ runner'[b].has \subseteq Letters!Inbox(a, Window))
      BY <1>7 DEF Letters!RunReads, Letters!Runner, Letters!TypeOK
    <2>. QED
      BY <1>1, <1>2, <1>7, <2>1, InboxIsUnread DEF Letters!RunReads
  <1>8. ASSUME NEW a \in Readers, Letters!RunMarks(a)
        PROVE  MailNamed'
    <2>1. \A b \in Readers : runner'[b].has = runner[b].has
      BY <1>8 DEF Letters!RunMarks, Letters!Runner, Letters!TypeOK
    <2>2. unread' \cup read' = unread \cup read
      BY <1>8, MarkReadMoves DEF Letters!RunMarks
    <2>. QED
      BY <1>1, <1>2, <1>8, <2>1, <2>2 DEF Letters!RunMarks
  <1>9. ASSUME NEW a \in Readers, Letters!RunFailsToMark(a)
        PROVE  MailNamed'
    <2>1. \A b \in Readers : runner'[b].has = runner[b].has
      BY <1>9 DEF Letters!RunFailsToMark, Letters!Runner, Letters!TypeOK
    <2>. QED
      BY <1>1, <1>2, <1>9, <2>1 DEF Letters!RunFailsToMark
  <1>10. ASSUME NEW a \in Readers, Letters!RunStarts(a)
        PROVE  MailNamed'
    <2>1. \A b \in Readers : runner'[b].has \subseteq runner[b].has
      BY <1>10 DEF Letters!RunStarts, Letters!NoRun, Letters!TypeOK
    <2>2. ASSUME NEW p \in Letters!Seen, told'.prompt[p] + told'.turn[p] > 0
          PROVE  p \in unread \cup read
      <3>1. CASE p[2] = a /\ p[1] \in runner[a].has
        <4>1. p = <<p[1], a>>
          BY <3>1 DEF Letters!Seen
        <4>. QED
          BY <1>1, <3>1, <4>1
      <3>2. CASE ~ (p[2] = a /\ p[1] \in runner[a].has)
        <4>1. told'.prompt[p] = told.prompt[p] /\ told'.turn[p] = told.turn[p]
          BY <1>10, <3>2, SeesCounts DEF Letters!RunStarts
        <4>. QED
          BY <1>1, <2>2, <4>1
      <3>. QED
        BY <3>1, <3>2
    <2>. QED
      BY <1>1, <1>2, <1>10, <2>1, <2>2 DEF Letters!RunStarts
  <1>11. ASSUME NEW a \in Readers, Letters!RunNeverStarts(a)
        PROVE  MailNamed'
    <2>1. \A b \in Readers : runner'[b].has \subseteq runner[b].has
      BY <1>11 DEF Letters!RunNeverStarts, Letters!NoRun, Letters!TypeOK
    <2>. QED
      BY <1>1, <1>2, <1>11, <2>1 DEF Letters!RunNeverStarts
  <1>12. ASSUME NEW a \in Readers, Letters!Sweeps(a)
        PROVE  MailNamed'
    <2>1. \A b \in Readers : mailWatcher'[b].has \subseteq mailWatcher[b].has
                             \/ (b = a /\ mailWatcher'[b].has \subseteq Letters!Inbox(a, MentionsPerSweep))
      BY <1>12 DEF Letters!Sweeps, Letters!TypeOK
    <2>. QED
      BY <1>1, <1>2, <1>12, <2>1, InboxIsUnread DEF Letters!Sweeps
  <1>13. ASSUME NEW a \in Readers, Letters!StartsTurn(a)
        PROVE  MailNamed'
    <2>1. \A b \in Readers : mailWatcher'[b].has = mailWatcher[b].has
      BY <1>13 DEF Letters!StartsTurn, Letters!TypeOK
    <2>. QED
      BY <1>1, <1>2, <1>13, <2>1 DEF Letters!StartsTurn
  <1>14. ASSUME NEW a \in Readers, Letters!Skips(a)
        PROVE  MailNamed'
    <2>1. unread' \cup read' = unread \cup read
      BY <1>14, MarkReadMoves DEF Letters!Skips
    <2>. QED
      BY <1>1, <1>2, <1>3, <1>14, <2>1 DEF Letters!Skips
  <1>15. ASSUME NEW a \in Readers, Letters!Leaves(a)
        PROVE  MailNamed'
    BY <1>1, <1>2, <1>3, <1>15 DEF Letters!Leaves
  <1>16. ASSUME NEW a \in Readers, Letters!TurnEnds(a)
        PROVE  MailNamed'
    <2>1. unread' \cup read' = unread \cup read
      BY <1>16, MarkReadMoves DEF Letters!TurnEnds
    <2>2. Letters!Oldest(a) \in mailWatcher[a].has
      BY <1>16, OldestIsThere DEF Letters!TurnEnds
    <2>3. ASSUME NEW p \in Letters!Seen, told'.prompt[p] + told'.turn[p] > 0
          PROVE  p \in unread \cup read
      <3>1. CASE p[2] = a /\ p[1] = Letters!Oldest(a)
        <4>1. p = <<p[1], a>>
          BY <3>1 DEF Letters!Seen
        <4>. QED
          BY <1>1, <2>2, <3>1, <4>1
      <3>2. CASE ~ (p[2] = a /\ p[1] = Letters!Oldest(a))
        <4>1. told'.prompt[p] = told.prompt[p] /\ told'.turn[p] = told.turn[p]
          BY <1>16, <3>2, SeesCounts DEF Letters!TurnEnds
        <4>. QED
          BY <1>1, <2>3, <4>1
      <3>. QED
        BY <3>1, <3>2
    <2>. QED
      BY <1>1, <1>2, <1>3, <1>16, <2>1, <2>3 DEF Letters!TurnEnds
  <1>17. ASSUME NEW a \in Readers, Letters!Shows(a)
        PROVE  MailNamed'
    <2>1. \A b \in Readers : shell'[b].has \subseteq shell[b].has
                             \/ (b = a /\ shell'[b].has \subseteq Letters!Inbox(a, Window))
      BY <1>17 DEF Letters!Shows, Letters!TypeOK
    <2>. QED
      BY <1>1, <1>2, <1>17, <2>1, InboxIsUnread DEF Letters!Shows
  <1>18. ASSUME NEW a \in Readers, Letters!MarksShown(a)
        PROVE  MailNamed'
    <2>1. \A b \in Readers : shell'[b].has \subseteq shell[b].has
      BY <1>18 DEF Letters!MarksShown, Letters!Off, Letters!TypeOK
    <2>2. unread' \cup read' = unread \cup read
      BY <1>18, MarkReadMoves DEF Letters!MarksShown
    <2>. QED
      BY <1>1, <1>2, <1>18, <2>1, <2>2 DEF Letters!MarksShown
  <1>19. ASSUME NEW a \in Readers, Letters!GatewayStops(a)
        PROVE  MailNamed'
    <2>1. \A b \in Readers : runner'[b].has \subseteq runner[b].has /\ mailWatcher'[b].has \subseteq mailWatcher[b].has
      BY <1>19 DEF Letters!GatewayStops, Letters!NoRun, Letters!Off, Letters!TypeOK
    <2>. QED
      BY <1>1, <1>2, <1>19, <2>1 DEF Letters!GatewayStops
  <1>20. ASSUME UNCHANGED Letters!vars
        PROVE  MailNamed'
    BY <1>1, <1>2, <1>20 DEF Letters!vars
  <1>. QED
    BY <1>4, <1>5, <1>6, <1>7, <1>8, <1>9, <1>10, <1>11, <1>12, <1>13, <1>14, <1>15, <1>16, <1>17, <1>18,
       <1>19, <1>20 DEF Letters!Next

(* What a shell holds was on its screen. *)
LEMMA MailShownStep ==
    ASSUME Letters!TaskMailConstants, MailInv, [Letters!Next]_(Letters!vars)
    PROVE  MailShown'
  <1>. USE DEF MailInv, Letters!Mail, Letters!History, Letters!Bounds, Letters!Fault, Letters!TypeOK
  <1>1. over \subseteq over'
    BY DEF Letters!Next, Letters!vars, Letters!SendMessage, Letters!WriterDies, Letters!Names, Letters!RunReads, Letters!RunMarks, Letters!RunFailsToMark, Letters!RunStarts,
           Letters!RunNeverStarts, Letters!Sweeps, Letters!StartsTurn, Letters!Skips, Letters!Leaves, Letters!TurnEnds, Letters!Shows, Letters!MarksShown, Letters!GatewayStops
  <1>2. CASE UNCHANGED shell
    BY <1>1, <1>2 DEF MailShown
  <1>3. ASSUME NEW a \in Readers, Letters!Shows(a)
        PROVE  MailShown'
    BY <1>3 DEF MailShown, Letters!Shows
  <1>4. ASSUME NEW a \in Readers, Letters!MarksShown(a)
        PROVE  MailShown'
    BY <1>4 DEF MailShown, Letters!MarksShown, Letters!Off
  <1>5. UNCHANGED shell \/ \E a \in Readers : Letters!Shows(a) \/ Letters!MarksShown(a)
    BY DEF Letters!Next, Letters!vars, Letters!SendMessage, Letters!WriterDies, Letters!Names, Letters!RunReads, Letters!RunMarks, Letters!RunFailsToMark, Letters!RunStarts,
           Letters!RunNeverStarts, Letters!Sweeps, Letters!StartsTurn, Letters!Skips, Letters!Leaves, Letters!TurnEnds, Letters!GatewayStops
  <1>. QED
    BY <1>2, <1>3, <1>4, <1>5

(* A pair is accounted for as Letters!ReadIsSeen says. *)
Accounted(p) ==
    /\ p \in Letters!Seen
    /\ \/ told.prompt[p] + told.turn[p] > 0
       \/ p \in over
       \/ p \in Letters!Unheard(p[2])

LEMMA ReadIsSeenStep ==
    ASSUME Letters!TaskMailConstants, MailInv, [Letters!Next]_(Letters!vars)
    PROVE  Letters!ReadIsSeen'
  <1>. USE DEF Letters!Mail, Letters!History, Letters!Bounds, Letters!Fault
  <1>. Letters!TypeOK /\ MailShown
    BY DEF MailInv
  <1>0. \A p \in read : Accounted(p)
    BY DEF MailInv, Letters!ReadIsSeen, Accounted
  <1>1. ASSUME \A p \in read' : Accounted(p)'
        PROVE  Letters!ReadIsSeen'
    BY <1>1 DEF Letters!ReadIsSeen, Accounted, Letters!Seen
  <1>2. ASSUME UNCHANGED <<told, over>>,
               \A b \in Readers : Letters!Unheard(b) \subseteq Letters!Unheard(b)',
               NEW p \in Letters!Seen, Accounted(p)
        PROVE  Accounted(p)'
    BY <1>2 DEF Accounted, Letters!Seen
  <1>3. ASSUME told = told', over \subseteq over', UNCHANGED runner, NEW p \in Letters!Seen, Accounted(p)
        PROVE  Accounted(p)'
    BY <1>3 DEF Accounted, Letters!Seen, Letters!Unheard
  <1>4. \A p \in read : p \in Letters!Seen
    BY <1>0 DEF Accounted
  <1>5. CASE UNCHANGED <<read, told, over, runner>>
    BY <1>0, <1>1, <1>3, <1>4, <1>5
  <1>6. ASSUME NEW a \in Readers, NEW t \in Tasks, Letters!RunReads(a, t)
        PROVE  Letters!ReadIsSeen'
    <2>1. \A b \in Readers : Letters!Unheard(b) \subseteq Letters!Unheard(b)'
      BY <1>6 DEF Letters!RunReads, Letters!Runner, Letters!Unheard, Letters!TypeOK
    <2>. QED
      BY <1>0, <1>1, <1>2, <1>4, <1>6, <2>1 DEF Letters!RunReads
  <1>7. ASSUME NEW a \in Readers, Letters!RunMarks(a)
        PROVE  Letters!ReadIsSeen'
    <2>1. \A b \in Readers : Letters!Unheard(b) \subseteq Letters!Unheard(b)'
      BY <1>7 DEF Letters!RunMarks, Letters!Runner, Letters!Unheard, Letters!TypeOK
    <2>2. Letters!Unheard(a)' = {<<k, a>> : k \in runner[a].has}
      BY <1>7 DEF Letters!RunMarks, Letters!Runner, Letters!Unheard, Letters!TypeOK
    <2>3. ASSUME NEW p \in read', p \notin read
          PROVE  Accounted(p)'
      <3>1. p[2] = a /\ p[1] \in runner[a].has /\ p \in Letters!Seen
        BY <1>7, <2>3, MarkReadMoves DEF Letters!RunMarks
      <3>2. p = <<p[1], a>>
        BY <3>1 DEF Letters!Seen
      <3>. QED
        BY <2>2, <3>1, <3>2 DEF Accounted, Letters!Seen
    <2>. QED
      BY <1>0, <1>1, <1>2, <1>4, <1>7, <2>1, <2>3 DEF Letters!RunMarks
  <1>8. ASSUME NEW a \in Readers, Letters!RunFailsToMark(a)
        PROVE  Letters!ReadIsSeen'
    <2>1. \A b \in Readers : Letters!Unheard(b) \subseteq Letters!Unheard(b)'
      BY <1>8 DEF Letters!RunFailsToMark, Letters!Runner, Letters!Unheard, Letters!TypeOK
    <2>. QED
      BY <1>0, <1>1, <1>2, <1>4, <1>8, <2>1 DEF Letters!RunFailsToMark
  <1>9. ASSUME NEW a \in Readers, Letters!RunStarts(a)
        PROVE  Letters!ReadIsSeen'
    <2>1. \A b \in Readers : b # a => Letters!Unheard(b)' = Letters!Unheard(b)
      BY <1>9 DEF Letters!RunStarts, Letters!NoRun, Letters!Unheard, Letters!TypeOK
    <2>2. ASSUME NEW p \in read
          PROVE  Accounted(p)'
      <3>1. p \in Letters!Seen /\ Accounted(p) /\ p[2] \in Readers
        BY <1>0, <1>4 DEF Letters!Seen
      <3>2. told.prompt[p] \in Nat /\ told.turn[p] \in Nat
        BY <3>1 DEF Letters!TypeOK
      <3>3. told'.turn[p] = told.turn[p]
        BY <1>9, <3>1, SeesCounts DEF Letters!RunStarts
      <3>4. CASE p[2] = a /\ p[1] \in runner[a].has
        <4>1. told'.prompt[p] = told.prompt[p] + 1
          BY <1>9, <3>1, <3>4, SeesCounts DEF Letters!RunStarts
        <4>. QED
          BY <3>1, <3>2, <3>3, <4>1 DEF Accounted, Letters!Seen
      <3>5. CASE ~ (p[2] = a /\ p[1] \in runner[a].has)
        <4>1. told'.prompt[p] = told.prompt[p]
          BY <1>9, <3>1, <3>5, SeesCounts DEF Letters!RunStarts
        <4>2. p[2] = a => p \notin Letters!Unheard(a)
          BY <3>5 DEF Letters!Unheard
        <4>3. over' = over
          BY <1>9 DEF Letters!RunStarts
        <4>. QED
          BY <2>1, <3>1, <3>3, <4>1, <4>2, <4>3 DEF Accounted, Letters!Seen
      <3>. QED
        BY <3>4, <3>5
    <2>. QED
      BY <1>1, <1>9, <2>2 DEF Letters!RunStarts
  <1>10. ASSUME NEW a \in Readers, Letters!RunNeverStarts(a) \/ Letters!GatewayStops(a)
         PROVE  Letters!ReadIsSeen'
    <2>1. \A b \in Readers : b # a => Letters!Unheard(b)' = Letters!Unheard(b)
      BY <1>10 DEF Letters!RunNeverStarts, Letters!GatewayStops, Letters!NoRun, Letters!Unheard, Letters!TypeOK
    <2>2. over' = over \cup Letters!Unheard(a) /\ UNCHANGED <<told, read>>
      BY <1>10 DEF Letters!RunNeverStarts, Letters!GatewayStops
    <2>. QED
      BY <1>0, <1>1, <1>4, <2>1, <2>2 DEF Accounted, Letters!Seen
  <1>11. ASSUME NEW a \in Readers, Letters!Skips(a)
         PROVE  Letters!ReadIsSeen'
    <2>1. ASSUME NEW p \in read', p \notin read
          PROVE  p \in Letters!Seen /\ p \in over'
      <3>1. p[2] = a /\ p[1] = Letters!Oldest(a) /\ p \in Letters!Seen
        BY <1>11, <2>1, MarkReadMoves DEF Letters!Skips
      <3>2. p = <<Letters!Oldest(a), a>>
        BY <3>1 DEF Letters!Seen
      <3>. QED
        BY <1>11, <3>1, <3>2 DEF Letters!Skips
    <2>2. told' = told /\ over \subseteq over' /\ UNCHANGED runner
      BY <1>11 DEF Letters!Skips
    <2>. QED
      BY <1>0, <1>1, <1>3, <1>4, <2>1, <2>2 DEF Accounted, Letters!Seen
  <1>12. ASSUME NEW a \in Readers, Letters!TurnEnds(a)
         PROVE  Letters!ReadIsSeen'
    <2>1. ASSUME NEW p \in read', p \notin read
          PROVE  p \in Letters!Seen /\ p[2] = a /\ p[1] = Letters!Oldest(a)
      BY <1>12, <2>1, MarkReadMoves DEF Letters!TurnEnds
    <2>2. ASSUME NEW p \in Letters!Seen
          PROVE  /\ told.prompt[p] \in Nat /\ told.turn[p] \in Nat
                 /\ told'.prompt[p] = told.prompt[p]
                 /\ told'.turn[p] = IF p[2] = a /\ p[1] = Letters!Oldest(a) THEN told.turn[p] + 1 ELSE told.turn[p]
      BY <1>12, SeesCounts DEF Letters!TurnEnds, Letters!TypeOK
    <2>3. UNCHANGED <<over, runner>>
      BY <1>12 DEF Letters!TurnEnds
    <2>4. \A b : Letters!Unheard(b)' = Letters!Unheard(b)
      BY <2>3 DEF Letters!Unheard
    <2>5. ASSUME NEW p \in read'
          PROVE  p \in Letters!Seen /\ (p \in read \/ told'.turn[p] > 0)
      BY <1>4, <2>1, <2>2
    <2>6. ASSUME NEW p \in Letters!Seen, Accounted(p)
          PROVE  Accounted(p)'
      BY <2>2, <2>3, <2>4, <2>6 DEF Accounted, Letters!Seen
    <2>7. ASSUME NEW p \in Letters!Seen, told'.turn[p] > 0
          PROVE  Accounted(p)'
      <3>1. told'.prompt[p] \in Nat /\ told'.turn[p] \in Nat
        BY <2>2
      <3>. QED
        BY <2>7, <3>1 DEF Accounted, Letters!Seen
    <2>. QED
      BY <1>0, <1>1, <2>5, <2>6, <2>7
  <1>13. ASSUME NEW a \in Readers, Letters!Shows(a)
         PROVE  Letters!ReadIsSeen'
    <2>1. UNCHANGED <<told, read, runner>> /\ over \subseteq over'
      BY <1>13 DEF Letters!Shows
    <2>. QED
      BY <1>0, <1>1, <1>3, <1>4, <2>1
  <1>14. ASSUME NEW a \in Readers, Letters!MarksShown(a)
         PROVE  Letters!ReadIsSeen'
    <2>1. ASSUME NEW p \in read', p \notin read
          PROVE  p \in Letters!Seen /\ p \in over
      <3>1. p[2] = a /\ p[1] \in shell[a].has /\ p \in Letters!Seen
        BY <1>14, <2>1, MarkReadMoves DEF Letters!MarksShown
      <3>2. p = <<p[1], a>>
        BY <3>1 DEF Letters!Seen
      <3>. QED
        BY <3>1, <3>2 DEF MailShown
    <2>2. UNCHANGED <<told, over, runner>>
      BY <1>14 DEF Letters!MarksShown
    <2>. QED
      BY <1>0, <1>1, <1>3, <1>4, <2>1, <2>2 DEF Accounted, Letters!Seen
  <1>15. \/ UNCHANGED <<read, told, over, runner>>
         \/ \E a \in Readers : \/ \E t \in Tasks : Letters!RunReads(a, t)
                               \/ Letters!RunMarks(a) \/ Letters!RunFailsToMark(a) \/ Letters!RunStarts(a) \/ Letters!RunNeverStarts(a)
                               \/ Letters!Skips(a) \/ Letters!TurnEnds(a) \/ Letters!Shows(a) \/ Letters!MarksShown(a) \/ Letters!GatewayStops(a)
    BY DEF Letters!Next, Letters!vars, Letters!SendMessage, Letters!WriterDies, Letters!Names, Letters!Sweeps, Letters!StartsTurn, Letters!Leaves
  <1>. QED
    BY <1>5, <1>6, <1>7, <1>8, <1>9, <1>10, <1>11, <1>12, <1>13, <1>14, <1>15

(* MailOnce, of one line and one reader. *)
Once(k, a) ==
    /\ <<k, a>> \in unread => told.prompt[<<k, a>>] <= faults /\ told.turn[<<k, a>>] <= faults
    /\ k \in mailWatcher[a].has => told.turn[<<k, a>>] <= faults
    /\ k \in runner[a].has =>
        /\ told.prompt[<<k, a>>] <= faults
        /\ runner[a].at = "marked" /\ <<k, a>> \in unread => told.prompt[<<k, a>>] + 1 <= faults

LEMMA MailOnceStep ==
    ASSUME Letters!TaskMailConstants, MailInv, [Letters!Next]_(Letters!vars), NEW k \in 1 .. MaxLines, NEW a \in Readers
    PROVE  Once(k, a)'
  <1>. USE DEF Letters!Mail, Letters!History, Letters!Bounds, Letters!Fault
  <1>. DEFINE p == <<k, a>>
  <1>. Letters!TypeOK /\ MailNamed /\ Once(k, a)
    BY DEF MailInv, MailOnce, Once
  <1>0. p \in Letters!Seen /\ told.prompt[p] \in Nat /\ told.turn[p] \in Nat /\ faults \in Nat
    BY DEF Letters!Seen, Letters!TypeOK
  <1>1. faults' \in {faults, faults + 1}
    BY DEF Letters!Next, Letters!vars, Letters!SendMessage, Letters!WriterDies, Letters!Names, Letters!RunReads, Letters!RunMarks, Letters!RunFailsToMark, Letters!RunStarts,
           Letters!RunNeverStarts, Letters!Sweeps, Letters!StartsTurn, Letters!Skips, Letters!Leaves, Letters!TurnEnds, Letters!Shows, Letters!MarksShown, Letters!GatewayStops
  <1>2. ASSUME told'.prompt[p] = told.prompt[p], told'.turn[p] = told.turn[p],
               p \in unread' => p \in unread \/ (told.prompt[p] = 0 /\ told.turn[p] = 0),
               k \in mailWatcher'[a].has => k \in mailWatcher[a].has \/ p \in unread,
               k \in runner'[a].has => k \in runner[a].has \/ p \in unread,
               k \in runner'[a].has /\ runner'[a].at = "marked" /\ p \in unread' =>
                  (k \in runner[a].has /\ runner[a].at = "marked" /\ p \in unread) \/ faults' = faults + 1
        PROVE  Once(k, a)'
    <2>1. told.prompt[p] <= faults' \/ ~ (told.prompt[p] <= faults)
      BY <1>0, <1>1
    <2>2. told.turn[p] <= faults' \/ ~ (told.turn[p] <= faults)
      BY <1>0, <1>1
    <2>3. p \in unread' => told'.prompt[p] <= faults' /\ told'.turn[p] <= faults'
      BY <1>0, <1>1, <1>2, <2>1, <2>2 DEF Once
    <2>4. k \in mailWatcher'[a].has => told'.turn[p] <= faults'
      BY <1>2, <2>2 DEF Once
    <2>5. k \in runner'[a].has => told.prompt[p] <= faults
      BY <1>2 DEF Once
    <2>6. k \in runner'[a].has /\ runner'[a].at = "marked" /\ p \in unread' => told'.prompt[p] + 1 <= faults'
      BY <1>0, <1>1, <1>2, <2>5 DEF Once
    <2>. QED
      BY <1>2, <2>1, <2>3, <2>4, <2>5, <2>6 DEF Once
  <1>3. p \notin unread \cup read => told.prompt[p] = 0 /\ told.turn[p] = 0
    BY <1>0 DEF MailNamed
  <1>4. ASSUME NEW b \in Readers, Letters!Rest(b)
        PROVE  k \in mailWatcher'[a].has => k \in mailWatcher[a].has /\ (b = a => k # Letters!Oldest(a))
    BY <1>4 DEF Letters!Rest, Letters!Off, Letters!TypeOK
  <1>5. ASSUME UNCHANGED <<told, runner, mailWatcher>>, unread' \subseteq unread
        PROVE  Once(k, a)'
    BY <1>2, <1>5
  <1>6. ASSUME NEW j \in DOMAIN lines, NEW b \in Agents, Letters!Names(j, b)
        PROVE  Once(k, a)'
    <2>1. UNCHANGED <<read, told, runner, mailWatcher>>
      BY <1>6 DEF Letters!Names
    <2>2. p \in unread' => p \in unread \/ p \notin unread \cup read
      <3>1. CASE p = <<j, b>>
        <4>1. j = k /\ b = a
          BY <3>1
        <4>. QED
          BY <1>6, <4>1 DEF Letters!Names, MailNamed
      <3>2. CASE p # <<j, b>>
        BY <1>6, <3>2 DEF Letters!Names
      <3>. QED
        BY <3>1, <3>2
    <2>3. k \in runner[a].has \cup mailWatcher[a].has => p \in unread \cup read
      BY DEF MailNamed
    <2>. QED
      BY <1>2, <1>3, <2>1, <2>2, <2>3
  <1>7. ASSUME NEW b \in Readers, NEW t \in Tasks, Letters!RunReads(b, t)
        PROVE  Once(k, a)'
    <2>1. UNCHANGED <<told, unread, mailWatcher>>
      BY <1>7 DEF Letters!RunReads
    <2>2. b # a => runner'[a] = runner[a]
      BY <1>7 DEF Letters!RunReads, Letters!Runner, Letters!TypeOK
    <2>3. b = a => runner'[a].at = "read" /\ (k \in runner'[a].has => p \in unread)
      BY <1>7, InboxIsUnread DEF Letters!RunReads, Letters!Runner, Letters!TypeOK
    <2>. QED
      BY <1>2, <2>1, <2>2, <2>3
  <1>8. ASSUME NEW b \in Readers, Letters!RunMarks(b)
        PROVE  Once(k, a)'
    <2>1. UNCHANGED <<told, mailWatcher>> /\ unread' \subseteq unread
      BY <1>8, MarkReadMoves DEF Letters!RunMarks
    <2>2. runner'[a].has = runner[a].has /\ (b # a => runner'[a] = runner[a])
      BY <1>8 DEF Letters!RunMarks, Letters!Runner, Letters!TypeOK
    <2>3. b = a /\ k \in runner[a].has => p \notin unread'
      BY <1>8, MarkReadMoves DEF Letters!RunMarks
    <2>. QED
      BY <1>2, <2>1, <2>2, <2>3
  <1>9. ASSUME NEW b \in Readers, Letters!RunFailsToMark(b)
        PROVE  Once(k, a)'
    <2>1. UNCHANGED <<told, mailWatcher, unread>> /\ faults' = faults + 1
      BY <1>9 DEF Letters!RunFailsToMark
    <2>2. runner'[a].has = runner[a].has
      BY <1>9 DEF Letters!RunFailsToMark, Letters!Runner, Letters!TypeOK
    <2>. QED
      BY <1>2, <2>1, <2>2
  <1>10. ASSUME NEW b \in Readers, Letters!RunStarts(b)
         PROVE  Once(k, a)'
    <2>1. UNCHANGED <<mailWatcher, unread, faults>> /\ told'.turn[p] = told.turn[p]
      BY <1>0, <1>10, SeesCounts DEF Letters!RunStarts
    <2>2. CASE b = a /\ k \in runner[a].has
      <3>1. told'.prompt[p] = told.prompt[p] + 1
        BY <1>0, <1>10, <2>2, SeesCounts DEF Letters!RunStarts
      <3>2. runner'[a].has = {} /\ runner[a].at = "marked"
        BY <1>10, <2>2 DEF Letters!RunStarts, Letters!NoRun, Letters!TypeOK
      <3>. QED
        BY <1>0, <2>1, <2>2, <3>1, <3>2 DEF Once
    <2>3. CASE ~ (b = a /\ k \in runner[a].has)
      <3>1. told'.prompt[p] = told.prompt[p]
        BY <1>0, <1>10, <2>3, SeesCounts DEF Letters!RunStarts
      <3>2. runner'[a] = runner[a] \/ runner'[a].has = {}
        BY <1>10 DEF Letters!RunStarts, Letters!NoRun, Letters!TypeOK
      <3>. QED
        BY <1>2, <2>1, <3>1, <3>2
    <2>. QED
      BY <2>2, <2>3
  <1>11. ASSUME NEW b \in Readers, Letters!RunNeverStarts(b) \/ Letters!GatewayStops(b)
         PROVE  Once(k, a)'
    <2>1. runner'[a] = runner[a] \/ runner'[a].has = {}
      BY <1>11 DEF Letters!RunNeverStarts, Letters!GatewayStops, Letters!NoRun, Letters!TypeOK
    <2>2. mailWatcher'[a] = mailWatcher[a] \/ mailWatcher'[a].has = {}
      BY <1>11 DEF Letters!RunNeverStarts, Letters!GatewayStops, Letters!Off, Letters!TypeOK
    <2>3. UNCHANGED <<told, unread>>
      BY <1>11 DEF Letters!RunNeverStarts, Letters!GatewayStops
    <2>. QED
      BY <1>2, <2>1, <2>2, <2>3
  <1>12. ASSUME NEW b \in Readers, Letters!Sweeps(b)
         PROVE  Once(k, a)'
    <2>1. UNCHANGED <<told, unread, runner>>
      BY <1>12 DEF Letters!Sweeps
    <2>2. b # a => mailWatcher'[a] = mailWatcher[a]
      BY <1>12 DEF Letters!Sweeps, Letters!TypeOK
    <2>3. b = a => (k \in mailWatcher'[a].has => p \in unread)
      BY <1>12, InboxIsUnread DEF Letters!Sweeps, Letters!TypeOK
    <2>. QED
      BY <1>2, <2>1, <2>2, <2>3
  <1>13. ASSUME NEW b \in Readers, Letters!StartsTurn(b)
         PROVE  Once(k, a)'
    <2>1. mailWatcher'[a].has = mailWatcher[a].has
      BY <1>13 DEF Letters!StartsTurn, Letters!TypeOK
    <2>. QED
      BY <1>2, <1>13, <2>1 DEF Letters!StartsTurn
  <1>14. ASSUME NEW b \in Readers, Letters!Skips(b) \/ Letters!Leaves(b)
         PROVE  Once(k, a)'
    <2>1. UNCHANGED <<told, runner>> /\ unread' \subseteq unread
      BY <1>14, MarkReadMoves DEF Letters!Skips, Letters!Leaves
    <2>2. k \in mailWatcher'[a].has => k \in mailWatcher[a].has
      BY <1>4, <1>14 DEF Letters!Skips, Letters!Leaves
    <2>. QED
      BY <1>2, <2>1, <2>2
  <1>15. ASSUME NEW b \in Readers, Letters!TurnEnds(b)
         PROVE  Once(k, a)'
    <2>1. UNCHANGED runner /\ unread' \subseteq unread /\ told'.prompt[p] = told.prompt[p]
      BY <1>0, <1>15, MarkReadMoves, SeesCounts DEF Letters!TurnEnds
    <2>2. Letters!Oldest(b) \in mailWatcher[b].has
      BY <1>15, OldestIsThere DEF Letters!TurnEnds
    <2>3. k \in mailWatcher'[a].has => k \in mailWatcher[a].has /\ (b = a => k # Letters!Oldest(a))
      BY <1>4, <1>15 DEF Letters!TurnEnds
    <2>4. CASE b = a /\ k = Letters!Oldest(a)
      <3>1. told'.turn[p] = told.turn[p] + 1 /\ told.turn[p] <= faults
        BY <1>0, <1>15, <2>2, <2>4, SeesCounts DEF Letters!TurnEnds, Once
      <3>2. p \in unread' => faults' = faults + 1
        BY <1>15, <2>4, MarkReadMoves DEF Letters!TurnEnds
      <3>3. p \in unread' => told'.prompt[p] <= faults' /\ told'.turn[p] <= faults'
        BY <1>0, <2>1, <3>1, <3>2 DEF Once
      <3>4. k \notin mailWatcher'[a].has
        BY <2>3, <2>4
      <3>5. k \in runner'[a].has => told'.prompt[p] <= faults'
        BY <1>0, <1>1, <2>1 DEF Once
      <3>6. k \in runner'[a].has /\ runner'[a].at = "marked" /\ p \in unread' => told'.prompt[p] + 1 <= faults'
        BY <1>0, <1>1, <2>1 DEF Once
      <3>. QED
        BY <3>3, <3>4, <3>5, <3>6 DEF Once
    <2>5. CASE ~ (b = a /\ k = Letters!Oldest(a))
      <3>1. told'.turn[p] = told.turn[p]
        BY <1>0, <1>15, <2>5, SeesCounts DEF Letters!TurnEnds
      <3>. QED
        BY <1>2, <2>1, <2>3, <3>1
    <2>. QED
      BY <2>4, <2>5
  <1>16. \/ UNCHANGED <<told, runner, mailWatcher>> /\ unread' \subseteq unread
         \/ \E j \in DOMAIN lines, b \in Agents : Letters!Names(j, b)
         \/ \E b \in Readers : \/ \E t \in Tasks : Letters!RunReads(b, t)
                               \/ Letters!RunMarks(b) \/ Letters!RunFailsToMark(b) \/ Letters!RunStarts(b) \/ Letters!RunNeverStarts(b)
                               \/ Letters!Sweeps(b) \/ Letters!StartsTurn(b) \/ Letters!Skips(b) \/ Letters!Leaves(b) \/ Letters!TurnEnds(b)
                               \/ Letters!GatewayStops(b)
    BY MarkReadMoves DEF Letters!Next, Letters!vars, Letters!SendMessage, Letters!WriterDies, Letters!Shows, Letters!MarksShown
  <1>. QED
    BY <1>5, <1>6, <1>7, <1>8, <1>9, <1>10, <1>11, <1>12, <1>13, <1>14, <1>15, <1>16

LEMMA SeenOnceStep ==
    ASSUME Letters!TaskMailConstants, MailInv, [Letters!Next]_(Letters!vars)
    PROVE  Letters!SeenOnceEach'
  <1>. USE DEF Letters!Mail, Letters!History, Letters!Bounds, Letters!Fault
  <1>. Letters!TypeOK /\ Letters!SeenOnceEach /\ MailOnce
    BY DEF MailInv
  <1>0. faults \in Nat /\ faults' \in {faults, faults + 1}
    <2>1. faults' \in {faults, faults + 1}
      BY DEF Letters!Next, Letters!vars, Letters!SendMessage, Letters!WriterDies, Letters!Names, Letters!RunReads, Letters!RunMarks, Letters!RunFailsToMark, Letters!RunStarts,
             Letters!RunNeverStarts, Letters!Sweeps, Letters!StartsTurn, Letters!Skips, Letters!Leaves, Letters!TurnEnds, Letters!Shows, Letters!MarksShown, Letters!GatewayStops
    <2>. QED
      BY <2>1 DEF Letters!TypeOK
  <1>1. SUFFICES ASSUME NEW p \in Letters!Seen
                 PROVE  told'.prompt[p] <= 1 + faults' /\ told'.turn[p] <= 1 + faults'
    BY DEF Letters!SeenOnceEach, Letters!Seen
  <1>2. /\ told.prompt[p] \in Nat /\ told.turn[p] \in Nat
        /\ told.prompt[p] <= 1 + faults /\ told.turn[p] <= 1 + faults
    BY DEF Letters!TypeOK, Letters!SeenOnceEach
  <1>3. CASE UNCHANGED told
    BY <1>0, <1>2, <1>3
  <1>4. ASSUME NEW a \in Readers, Letters!RunStarts(a)
        PROVE  told'.prompt[p] <= 1 + faults' /\ told'.turn[p] <= 1 + faults'
    <2>1. told'.turn[p] = told.turn[p]
      BY <1>4, SeesCounts DEF Letters!RunStarts
    <2>2. CASE p[2] = a /\ p[1] \in runner[a].has
      <3>1. p = <<p[1], a>> /\ p[1] \in 1 .. MaxLines
        BY <2>2 DEF Letters!Seen
      <3>2. told.prompt[p] <= faults
        BY <2>2, <3>1 DEF MailOnce
      <3>3. told'.prompt[p] = told.prompt[p] + 1
        BY <1>4, <2>2, SeesCounts DEF Letters!RunStarts
      <3>. QED
        BY <1>0, <1>2, <2>1, <3>2, <3>3
    <2>3. CASE ~ (p[2] = a /\ p[1] \in runner[a].has)
      <3>1. told'.prompt[p] = told.prompt[p]
        BY <1>4, <2>3, SeesCounts DEF Letters!RunStarts
      <3>. QED
        BY <1>0, <1>2, <2>1, <3>1
    <2>. QED
      BY <2>2, <2>3
  <1>5. ASSUME NEW a \in Readers, Letters!TurnEnds(a)
        PROVE  told'.prompt[p] <= 1 + faults' /\ told'.turn[p] <= 1 + faults'
    <2>1. told'.prompt[p] = told.prompt[p]
      BY <1>5, SeesCounts DEF Letters!TurnEnds
    <2>2. CASE p[2] = a /\ p[1] = Letters!Oldest(a)
      <3>1. p = <<p[1], a>> /\ p[1] \in 1 .. MaxLines
        BY <2>2 DEF Letters!Seen
      <3>2. p[1] \in mailWatcher[a].has
        BY <1>5, <2>2, OldestIsThere DEF Letters!TurnEnds
      <3>3. told.turn[p] <= faults
        BY <3>1, <3>2 DEF MailOnce
      <3>4. told'.turn[p] = told.turn[p] + 1
        BY <1>5, <2>2, SeesCounts DEF Letters!TurnEnds
      <3>. QED
        BY <1>0, <1>2, <2>1, <3>3, <3>4
    <2>3. CASE ~ (p[2] = a /\ p[1] = Letters!Oldest(a))
      <3>1. told'.turn[p] = told.turn[p]
        BY <1>5, <2>3, SeesCounts DEF Letters!TurnEnds
      <3>. QED
        BY <1>0, <1>2, <2>1, <3>1
    <2>. QED
      BY <2>2, <2>3
  <1>6. UNCHANGED told \/ \E a \in Readers : Letters!RunStarts(a) \/ Letters!TurnEnds(a)
    BY DEF Letters!Next, Letters!vars, Letters!SendMessage, Letters!WriterDies, Letters!Names, Letters!RunReads, Letters!RunMarks, Letters!RunFailsToMark,
           Letters!RunNeverStarts, Letters!Sweeps, Letters!StartsTurn, Letters!Skips, Letters!Leaves, Letters!Shows, Letters!MarksShown, Letters!GatewayStops
  <1>. QED
    BY <1>3, <1>4, <1>5, <1>6

LEMMA MailInit ==
    ASSUME Letters!TaskMailConstants, Letters!Init
    PROVE  MailInv
  <1>. USE DEF Letters!Init, Letters!TaskMailConstants, Letters!NoRun, Letters!Off, Letters!Seen
  <1>1. Letters!TypeOK
    BY DEF Letters!TypeOK, Letters!Pairs
  <1>2. MailNamed /\ MailShown /\ Letters!ReadIsSeen
    BY DEF MailNamed, MailShown, Letters!ReadIsSeen
  <1>3. Letters!SeenOnceEach /\ MailOnce
    BY DEF Letters!SeenOnceEach, MailOnce
  <1>. QED
    BY <1>1, <1>2, <1>3 DEF MailInv

LEMMA MailStep ==
    ASSUME Letters!TaskMailConstants, MailInv, [Letters!Next]_(Letters!vars)
    PROVE  MailInv'
  <1>1. Letters!TypeOK'
    BY MailTypes DEF MailInv
  <1>2. MailOnce'
    <2>1. \A a \in Readers, k \in 1 .. MaxLines : Once(k, a)'
      BY MailOnceStep
    <2>. QED
      BY <2>1 DEF MailOnce, Once
  <1>. QED
    BY <1>1, <1>2, MailNamedStep, MailShownStep, ReadIsSeenStep, SeenOnceStep DEF MailInv

(* For any agents, tasks and lines: whatever cleared a line of the mail has put it   *)
(* before its agent (Letters!ReadIsSeen), and no reader puts one there twice, except after a *)
(* fault (Letters!SeenOnceEach), with gateways, shells and the watcher in any order.         *)
THEOREM MailIsSafe ==
    Letters!TaskMailConstants /\ Letters!Spec => [](Letters!TypeOK /\ Letters!ReadIsSeen /\ Letters!SeenOnceEach)
  <1>1. Letters!TaskMailConstants /\ Letters!Init => MailInv
    BY MailInit
  <1>2. Letters!TaskMailConstants /\ MailInv /\ [Letters!Next]_(Letters!vars) => MailInv'
    BY MailStep
  <1>3. MailInv => Letters!TypeOK /\ Letters!ReadIsSeen /\ Letters!SeenOnceEach
    BY DEF MailInv
  <1>4. CASE Letters!TaskMailConstants
    BY <1>1, <1>2, <1>3, <1>4, PTL DEF Letters!Spec
  <1>. QED
    BY <1>4
=============================================================================
