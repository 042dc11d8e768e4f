------------------------------- MODULE Sessions -------------------------------
(***************************************************************************)
(* The sessions of one chat and their rows (session/manager.go,              *)
(* storage/sessions.go, storage/messages.go).  The manager's *)
(* lock keeps its own changes apart, but a save reads the maps without it, row *)
(* by row, while chats, commands and timers go on.  The content of a session   *)
(* (resume id, counters, label) is one version number.                        *)
(***************************************************************************)
EXTENDS Naturals, FiniteSets

CONSTANTS
    Lanes,          \* goroutines that run the chat's turns
    Commands,       \* goroutines that handle its commands
    Timer,          \* the goroutine of the debounce timer
    MaxSeq,         \* bound: sessions ever created are 0 .. MaxSeq
    Cap,            \* MaxSessionsPerChat
    MaxChanges,     \* bound: changes of a session's content
    MaxFaults       \* bound: saves that fail, and restarts

VARIABLES
    chat,           \* ChatState: active id, next sequence number, sessions and their content
    mu,             \* the worker inside newSession while it deletes a row, or Nobody
    timer,          \* is a save due
    rows, state,    \* sessions and chat_state
    spoke,          \* the sessions that have messages
    saver,          \* SaveNow under way
    worker,         \* where each worker is, and the session it holds
    quiet,          \* history: a change nobody marked dirty, whose save failed, or over
                    \* which a save that overlapped another put its older copy
    faults

vars == <<chat, mu, timer, rows, state, spoke, saver, worker, quiet, faults>>

Ids == 0 .. MaxSeq
Nobody == "nobody"
NoId == MaxSeq + 1
Workers == Lanes \cup Commands
Savers == Workers \cup {Timer}
Resting == [at |-> "off", due |-> {}, took |-> <<>>]
NoChat == [active |-> NoId, next |-> 0, has |-> <<>>]
NoState == [active |-> NoId, next |-> 0]

Init ==
    /\ chat = NoChat
    /\ mu = Nobody
    /\ timer = FALSE
    /\ rows = <<>>
    /\ state = NoState
    /\ spoke = {}
    /\ saver = [p \in Savers |-> Resting]
    /\ worker = [w \in Workers |-> [at |-> "idle", id |-> NoId]]
    /\ quiet = FALSE
    /\ faults = 0

Has == DOMAIN chat.has
With(f, i, v) == [j \in DOMAIN f \cup {i} |-> IF j = i THEN v ELSE f[j]]
Without(f, i) == [j \in DOMAIN f \ {i} |-> f[j]]
Total == LET vs == {chat.has[i] : i \in Has} IN IF vs = {} THEN 0 ELSE CHOOSE v \in vs : \A u \in vs : u <= v

(* A content nobody has seen: newer than that of every session. *)
Touched(i) == [chat EXCEPT !.has = With(@, i, Total + 1)]

At(w, where) == worker[w].at = where
Goes(w, where, i) == worker' = [worker EXCEPT ![w] = [at |-> where, id |-> i]]

Store == <<rows, state, spoke>>

(* SaveNow stops the timer and clears it before it looks at the sessions. *)
SaveBegins(p, has) ==
    /\ saver' = [saver EXCEPT ![p] = [Resting EXCEPT !.at = "on", !.due = has]]
    /\ timer' = FALSE
    /\ quiet' = FALSE

First(w) ==
    /\ chat' = [active |-> 0, next |-> 1, has |-> With(<<>>, 0, 0)]
    /\ Goes(w, "saving", 0)
    /\ SaveBegins(w, {0})

(* Get: the active session; a stale id falls back on some session. *)
Get(w) ==
    /\ At(w, "idle") /\ mu = Nobody
    /\ \/ /\ chat.active \in Has
          /\ Goes(w, "turn", chat.active)
          /\ UNCHANGED <<chat, timer, saver, quiet>>
       \/ /\ chat.active \notin Has /\ Has # {}
          /\ \E i \in Has : chat' = [chat EXCEPT !.active = i] /\ Goes(w, "turn", i)
          /\ timer' = TRUE
          /\ UNCHANGED <<saver, quiet>>
       \/ Has = {} /\ First(w)
    /\ UNCHANGED <<mu, Store, faults>>

Running == {worker[w].id : w \in {w \in Workers : At(w, "run")}}

(* pruneOldestLocked: neither the active session nor one that runs.  Which of   *)
(* the others is oldest is not modelled.                                       *)
Evictable == Has \ ({chat.active} \cup Running)

(* newSession from the sequence number on, and the save after the unlock. *)
Creates(w, c) ==
    /\ chat' = [active |-> c.next, next |-> c.next + 1, has |-> With(c.has, c.next, 0)]
    /\ Goes(w, "saving", c.next)
    /\ SaveBegins(w, DOMAIN c.has \cup {c.next})

Evicts(w) ==
    /\ \E i \in Evictable : chat' = [chat EXCEPT !.has = Without(@, i)] /\ Goes(w, "evict", i)
    /\ mu' = w
    /\ UNCHANGED <<timer, saver, quiet>>

(* When nothing may be evicted the command is refused and nothing changes. *)
NewSession(w) ==
    /\ At(w, "idle") /\ mu = Nobody /\ chat.next \in 1 .. MaxSeq
    /\ IF Cardinality(Has) < Cap THEN Creates(w, chat) /\ mu' = mu ELSE Evicts(w)
    /\ UNCHANGED <<Store, faults>>

(* DeleteSession; the messages go by cascade.  The loop goes on while the chat    *)
(* is full: a restart may have found a row again that an eviction had deleted.  *)
DeleteRow(w) ==
    /\ At(w, "evict")
    /\ rows' = Without(rows, worker[w].id)
    /\ spoke' = spoke \ {worker[w].id}
    /\ IF Cardinality(Has) >= Cap /\ Evictable # {} THEN Evicts(w)
       ELSE /\ mu' = Nobody
            /\ IF Cardinality(Has) < Cap THEN Creates(w, chat)
               ELSE Goes(w, "idle", NoId) /\ UNCHANGED <<chat, timer, saver, quiet>>
    /\ UNCHANGED <<state, faults>>

SwitchActive(w) ==
    /\ At(w, "idle") /\ mu = Nobody
    /\ \E i \in Has \ {chat.active} : chat' = [chat EXCEPT !.active = i]
    /\ timer' = TRUE
    /\ UNCHANGED <<mu, Store, saver, worker, quiet, faults>>

Reset(w) ==
    /\ At(w, "idle") /\ mu = Nobody
    /\ chat.active \in Has /\ Total < MaxChanges
    /\ chat' = Touched(chat.active)
    /\ timer' = TRUE
    /\ UNCHANGED <<mu, Store, saver, worker, quiet, faults>>

(* Append: rejected by the foreign key when the session has no row. *)
Append(i) == spoke' = IF i \in DOMAIN rows THEN spoke \cup {i} ELSE spoke

(* A turn takes its session's lane, is marked running and stores what was asked. *)
Ask(w) ==
    /\ At(w, "turn")
    /\ worker[w].id \notin Running
    /\ Append(worker[w].id)
    /\ Goes(w, "run", worker[w].id)
    /\ UNCHANGED <<chat, mu, timer, rows, state, saver, quiet, faults>>

(* The reply: stored, the session marked dirty. *)
Reply(w) ==
    LET i == worker[w].id IN
    /\ At(w, "run") /\ Total < MaxChanges
    /\ Append(i)
    /\ chat' = IF i \in Has THEN Touched(i) ELSE chat
    /\ timer' = TRUE
    /\ Goes(w, "idle", NoId)
    /\ UNCHANGED <<mu, rows, state, saver, quiet, faults>>

(* A turn cancelled or timed out returns early: its resume id is set, and nobody *)
(* marks the session dirty.                                                    *)
Cancelled(w) ==
    LET i == worker[w].id IN
    /\ At(w, "run") /\ Total < MaxChanges
    /\ chat' = IF i \in Has THEN Touched(i) ELSE chat
    /\ quiet' = TRUE
    /\ Goes(w, "idle", NoId)
    /\ UNCHANGED <<mu, timer, Store, saver, faults>>

(* The debounce of a second.  A save that takes longer than that is not       *)
(* overtaken by the next.                                                     *)
TimerFires ==
    /\ timer /\ saver[Timer].at = "off"
    /\ SaveBegins(Timer, Has)
    /\ UNCHANGED <<chat, mu, Store, worker, faults>>

On(p) == saver[p].at = "on"

(* The copy of the first row is taken before the statement that may have to     *)
(* wait for the lock; from there to the commit the file is the saver's alone.   *)
SaveTakes(p) ==
    /\ On(p) /\ saver[p].took = <<>>
    /\ \E i \in Has : saver' = [saver EXCEPT ![p].took = With(<<>>, i, chat.has[i])]
    /\ UNCHANGED <<chat, mu, timer, Store, worker, quiet, faults>>

Draft(p, late) ==
    [i \in DOMAIN saver[p].took \cup (Has \cap saver[p].due) \cup late |->
        IF i \in DOMAIN saver[p].took THEN saver[p].took[i] ELSE chat.has[i]]

Returns(p) ==
    /\ saver' = [saver EXCEPT ![p] = Resting]
    /\ IF p \in Workers THEN Goes(p, IF p \in Lanes THEN "turn" ELSE "idle", worker[p].id) ELSE UNCHANGED worker

(* chat_state is written last, from the state as it is then. *)
Saved == [active |-> chat.active, next |-> chat.next]

SaveCommits(p) ==
    /\ On(p) /\ saver[p].took # <<>>
    /\ \E late \in SUBSET (Has \ saver[p].due) :
          LET draft == Draft(p, late) IN
          /\ rows' = [i \in DOMAIN rows \cup DOMAIN draft |-> IF i \in DOMAIN draft THEN draft[i] ELSE rows[i]]
          /\ quiet' = (quiet \/ \E i \in DOMAIN rows \cap DOMAIN draft : draft[i] < rows[i])
    /\ state' = Saved
    /\ Returns(p)
    /\ UNCHANGED <<chat, mu, timer, spoke, faults>>

(* Rolled back and logged: the file is busy for ten seconds, or the disk is full. *)
SaveFails(p) ==
    /\ On(p) /\ faults < MaxFaults
    /\ faults' = faults + 1
    /\ quiet' = TRUE
    /\ Returns(p)
    /\ UNCHANGED <<chat, mu, timer, rows, state, spoke>>

(* Load: a chat is known by its session rows; an active id that is not there   *)
(* is kept, and Get falls back.                                                *)
Loaded == IF rows = <<>> THEN NoChat ELSE [active |-> state.active, next |-> state.next, has |-> rows]

Restart ==
    /\ faults < MaxFaults
    /\ faults' = faults + 1
    /\ chat' = Loaded
    /\ mu' = Nobody
    /\ timer' = FALSE
    /\ saver' = [p \in Savers |-> Resting]
    /\ worker' = [w \in Workers |-> [at |-> "idle", id |-> NoId]]
    /\ quiet' = FALSE
    /\ UNCHANGED <<rows, state, spoke>>

Next ==
    \/ \E w \in Lanes : Get(w) \/ Ask(w) \/ Reply(w) \/ Cancelled(w)
    \/ \E w \in Commands : NewSession(w) \/ DeleteRow(w) \/ SwitchActive(w) \/ Reset(w)
    \/ TimerFires
    \/ \E p \in Savers : SaveTakes(p) \/ SaveCommits(p) \/ SaveFails(p)
    \/ Restart

Spec == Init /\ [][Next]_vars

SessionsConstants ==
    /\ Timer \notin Lanes \cup Commands /\ Nobody \notin Lanes \cup Commands
    /\ Cap \in Nat \ {0} /\ {MaxSeq, MaxChanges, MaxFaults} \subseteq Nat

-----------------------------------------------------------------------------
(* Type correctness of the manager's state and of the rows. *)
TypeOK ==
    /\ chat.active \in Ids \cup {NoId} /\ chat.next \in 0 .. MaxSeq + 1
    /\ Has \subseteq Ids
    /\ \A i \in Has : chat.has[i] \in 0 .. MaxChanges
    /\ timer \in BOOLEAN /\ quiet \in BOOLEAN
    /\ DOMAIN rows \subseteq Ids /\ spoke \subseteq Ids
    /\ state.active \in Ids \cup {NoId} /\ state.next \in 0 .. MaxSeq + 1
    /\ mu \in Workers \cup {Nobody}
    /\ \A w \in Workers : At(w, "saving") <=> On(w)
    /\ faults \in 0 .. MaxFaults

(* With no save due or under way and none failed, the file is what the manager  *)
(* holds, except for what a cancelled turn left unmarked and for an older copy   *)
(* that waited for the lock while another save went by: the debounce loses no   *)
(* change, although a save clears it and then reads maps that go on changing.   *)
NothingUnsaved ==
    (~timer /\ ~quiet /\ (\A p \in Savers : ~On(p)) /\ mu = Nobody /\ Has # {}) =>
        /\ \A i \in Has : i \in DOMAIN rows /\ rows[i] = chat.has[i]
        /\ state = Saved

(* A session created now does not find the messages or the row of an earlier one   *)
(* of the same id, across crashes, failed saves and evictions.  The id itself may     *)
(* come back: when two commands evict every saved session and the process dies        *)
(* before a save, Load knows nothing of the chat and counts from 0.                *)
IdsAreFresh ==
    \A w \in Workers : (At(w, "saving")' /\ ~At(w, "saving")) => worker'[w].id \notin spoke \cup DOMAIN rows

(* What a turn was asked is stored, as the doc of Get promises: not when the     *)
(* session was evicted since, when the save of who created it is still under    *)
(* way (Get returns it to others at once), or when a save failed.               *)
QuestionsLand ==
    \A w \in Lanes :
          LET i == worker[w].id IN
          (At(w, "turn") /\ At(w, "run")' /\ i \in Has /\ ~quiet /\ ~\E p \in Savers : On(p) /\ i \in saver[p].due)
              => i \in spoke'
=============================================================================
