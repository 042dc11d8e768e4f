------------------------------ MODULE OwnSchema ------------------------------
(***************************************************************************)
(* Opening an agent's own database (storage/schema.go, migrate.go,             *)
(* conversations.go): a ladder of versions, each rung a migration and then a     *)
(* statement that stamps it.  The gateway opens the file when it starts, and so  *)
(* does the dashboard process; nothing keeps the two apart.                     *)
(***************************************************************************)
EXTENDS Naturals, FiniteSets

CONSTANTS
    Openers,        \* processes that open the file: the gateway, the dashboard
    Gateway,        \* the one that binds the Telegram chats it knows
    Telegram,       \* Telegram chats
    Web,            \* the chat the dashboard used to have: id 1
    Sessions,
    None,
    Found,          \* versions the file may have; 0 is no file
    MaxDeaths       \* bound: processes that die

OwnSchemaConstants ==
    /\ Gateway \in Openers /\ Web \notin Telegram /\ Found \subseteq 0 .. 7 /\ MaxDeaths \in Nat
    /\ None \notin Telegram \cup Sessions \cup {Web}

VARIABLES
    store,          \* version stamped, columns of sessions, is legacy data on disk
    sess,           \* chat_id of each session row
    active,         \* chat_state: the active session of a chat
    conversations,  \* rows of conversations
    bound,          \* channel_bindings: the conversation of a chat, or of the web account
    opener,         \* where each process is, and the version it believes in
    torn,           \* history: a stamp was left out, overtaken, or ahead of the import
    before,         \* history: the rows that were found
    deaths

vars == <<store, sess, active, conversations, bound, opener, torn, before, deaths>>

Chats == Telegram \cup {Web}

Known == {sess[s] : s \in Sessions} \ {None}

(* Columns of sessions by the version that adds them. *)
Adds == [v \in {3, 5, 7} |->
            CASE v = 3 -> "memory_flushed" [] v = 5 -> "provider" [] v = 7 -> "account"]

ColumnsAt(v) == {Adds[w] : w \in {w \in DOMAIN Adds : w <= v}}

(* Up to version 1 a chat had one session; chat_state came with version 2. *)
Init ==
    /\ \E v \in Found, file \in [Sessions -> Chats \cup {None}] :
          /\ v <= 1 => \A s, t \in Sessions : file[s] = file[t] /\ file[s] # None => s = t
          /\ v = 0 => \A s \in Sessions : file[s] # Web
          /\ before = file
          /\ store = [ver |-> v, cols |-> IF v = 0 THEN {} ELSE ColumnsAt(v), legacy |-> v = 0]
          /\ sess = IF v = 0 THEN [s \in Sessions |-> None] ELSE file
          /\ \E a \in [Chats -> Sessions \cup {None}] :
                /\ active = a
                /\ \A c \in Chats :
                      IF v >= 2 /\ \E s \in Sessions : file[s] = c
                      THEN a[c] # None /\ file[a[c]] = c ELSE a[c] = None
          /\ conversations = IF v >= 6 THEN {file[s] : s \in Sessions} \ {None} ELSE {}
          /\ bound = [c \in Chats |-> IF v >= 6 /\ \E s \in Sessions : file[s] = c THEN c ELSE None]
    /\ opener = [o \in Openers |-> [at |-> "down", ver |-> 0]]
    /\ torn = FALSE
    /\ deaths = 0

At(o, where) == opener[o].at = where

Goes(o, where, v) == opener' = [opener EXCEPT ![o] = [at |-> where, ver |-> v]]

(* currentVersion: without a version everything is created. *)
Reads(o) ==
    /\ opener[o].at \in {"down", "failed"}
    /\ IF store.ver = 0 THEN Goes(o, "create", 0)
       ELSE IF store.ver = 7 THEN Goes(o, "ready", 7) ELSE Goes(o, "migrate", store.ver)
    /\ torn' = (torn \/ (store.ver = 7 /\ store.legacy))
    /\ UNCHANGED <<store, sess, active, conversations, bound, before, deaths>>

(* createTables: IF NOT EXISTS, so that a table found stays as it is. *)
CreatesTables(o) ==
    /\ At(o, "create")
    /\ store' = [store EXCEPT !.cols = IF @ = {} THEN ColumnsAt(7) ELSE @]
    /\ Goes(o, "stamp", 7)
    /\ UNCHANGED <<sess, active, conversations, bound, torn, before, deaths>>

(* ALTER TABLE ADD COLUMN fails on a column that is there. *)
Alters(o, v) ==
    IF Adds[v] \in store.cols
    THEN Goes(o, "failed", 0) /\ UNCHANGED store
    ELSE Goes(o, "stamp", v) /\ store' = [store EXCEPT !.cols = @ \cup {Adds[v]}]

AddsColumn(o) ==
    /\ At(o, "migrate") /\ opener[o].ver + 1 \in DOMAIN Adds
    /\ Alters(o, opener[o].ver + 1)
    /\ UNCHANGED <<sess, active, conversations, bound, torn, before, deaths>>

(* INSERT OR IGNORE INTO chat_state SELECT ... FROM sessions. *)
Activated ==
    [c \in Chats |-> IF active[c] = None /\ \E s \in Sessions : sess[s] = c
                     THEN CHOOSE s \in Sessions : sess[s] = c ELSE active[c]]

(* migrateV1ToV2 copies the columns of version 1 into a new table.  A process that
   comes late with it takes away what was added since. *)
RecreatesSessions(o) ==
    /\ At(o, "migrate") /\ opener[o].ver = 1
    /\ store' = [store EXCEPT !.cols = {}]
    /\ active' = Activated
    /\ torn' = (torn \/ store.cols # {})
    /\ Goes(o, "stamp", 2)
    /\ UNCHANGED <<sess, conversations, bound, before, deaths>>

(* migrateV3ToV4 adds the tables of the login. *)
AddsUsers(o) ==
    /\ At(o, "migrate") /\ opener[o].ver = 3
    /\ Goes(o, "stamp", 4)
    /\ UNCHANGED <<store, sess, active, conversations, bound, torn, before, deaths>>

(* "A merge must not yank a live Telegram conversation onto the dashboard's last
   session." *)
MergedActive(to) == [active EXCEPT ![Web] = None]

(* mergeChats: every session moves. *)
MergedSessions(to) == [s \in Sessions |-> IF sess[s] = Web THEN to ELSE sess[s]]

Binds(c, k) == [bound EXCEPT ![c] = IF @ = None THEN k ELSE @]

(* migrateV5ToV6: every chat becomes a conversation and binds to itself, and with one
   Telegram chat the dashboard's is merged into it. *)
FoldsChats(o) ==
    /\ At(o, "migrate") /\ opener[o].ver = 5
    /\ LET chats == Known \cup {c \in Chats : active[c] # None}
           talks == chats \cap Telegram
           self == [c \in Chats |-> IF c \in talks /\ bound[c] = None THEN c ELSE bound[c]] IN
       IF Web \notin chats
       THEN /\ conversations' = conversations \cup chats
            /\ bound' = self
            /\ UNCHANGED <<sess, active>>
       ELSE IF Cardinality(talks) = 1
       THEN LET to == CHOOSE c \in talks : TRUE IN
            /\ sess' = MergedSessions(to)
            /\ active' = MergedActive(to)
            /\ conversations' = (conversations \cup chats) \ {Web}
            /\ bound' = [self EXCEPT ![Web] = IF @ = None THEN to ELSE @]
       ELSE /\ conversations' = conversations \cup chats
            /\ bound' = [self EXCEPT ![Web] = IF @ = None THEN Web ELSE @]
            /\ UNCHANGED <<sess, active>>
    /\ Goes(o, "stamp", 6)
    /\ UNCHANGED <<store, torn, before, deaths>>

(* What follows a stamp. *)
NextRung(v) == IF v = 7 THEN "ready" ELSE "migrate"

Stamped(v) == v

(* setVersion: whatever is stamped by now. *)
StampsVersion(o) ==
    /\ At(o, "stamp")
    /\ LET v == opener[o].ver IN
       /\ store' = [store EXCEPT !.ver = Stamped(v)]
       /\ torn' = (torn \/ v < store.ver)
       /\ IF store.legacy THEN Goes(o, "import", v) ELSE Goes(o, NextRung(v), v)
    /\ UNCHANGED <<sess, active, conversations, bound, before, deaths>>

(* migrateFromLegacy: one transaction of INSERT OR IGNORE; the files are kept. *)
Imports(o) ==
    /\ At(o, "import")
    /\ sess' = before
    /\ active' = [c \in Chats |-> IF active[c] = None /\ \E s \in Sessions : before[s] = c
                                  THEN CHOOSE s \in Sessions : before[s] = c ELSE active[c]]
    /\ store' = [store EXCEPT !.legacy = FALSE]
    /\ Goes(o, "ready", 7)
    /\ UNCHANGED <<conversations, bound, torn, before, deaths>>

(* EnsureTelegramBindings, when the gateway has read its sessions. *)
EnsuresBindings(o) ==
    /\ At(o, "ready")
    /\ LET chats == IF o = Gateway THEN {c \in Known \ {Web} : bound[c] = None} ELSE {} IN
       /\ conversations' = conversations \cup chats
       /\ bound' = [c \in Chats |-> IF c \in chats THEN c ELSE bound[c]]
    /\ Goes(o, "open", 7)
    /\ UNCHANGED <<store, sess, active, torn, before, deaths>>

(* ResolveWeb, at the dashboard's first request: "when exactly one Telegram
   conversation exists, the dashboard joins it". *)
ResolvesWeb ==
    /\ At(Gateway, "open") /\ bound[Web] = None
    /\ LET talks == {bound[c] : c \in Telegram} \ {None}
           to == IF Cardinality(talks) = 1 THEN CHOOSE c \in talks : TRUE ELSE Web IN
       /\ bound' = [bound EXCEPT ![Web] = to]
       /\ conversations' = conversations \cup {to}
    /\ UNCHANGED <<store, sess, active, opener, torn, before, deaths>>

(* Death between a column and its stamp leaves the rung half done. *)
Dies(o) ==
    /\ opener[o].at \in {"create", "migrate", "stamp", "import", "ready", "open"} /\ deaths < MaxDeaths
    /\ Goes(o, "down", 0)
    /\ torn' = (torn \/ (At(o, "stamp") /\ opener[o].ver \in DOMAIN Adds /\ store.ver # 0))
    /\ deaths' = deaths + 1
    /\ UNCHANGED <<store, sess, active, conversations, bound, before>>

Opening(o) ==
    \/ Reads(o) \/ CreatesTables(o) \/ AddsColumn(o) \/ RecreatesSessions(o) \/ AddsUsers(o)
    \/ FoldsChats(o) \/ StampsVersion(o) \/ Imports(o) \/ EnsuresBindings(o)

Next == ResolvesWeb \/ \E o \in Openers : Opening(o) \/ Dies(o)

Spec == Init /\ [][Next]_vars


----------------------------------------------------------------------------
(* Type correctness. *)
TypeOK ==
    /\ store \in [ver : 0..7, cols : SUBSET {Adds[v] : v \in DOMAIN Adds}, legacy : BOOLEAN]
    /\ sess \in [Sessions -> Chats \cup {None}]
    /\ active \in [Chats -> Sessions \cup {None}]
    /\ conversations \subseteq Chats
    /\ bound \in [Chats -> Chats \cup {None}]
    /\ opener \in [Openers -> [at : {"down", "failed", "create", "migrate", "stamp", "import",
                                     "ready", "open"}, ver : 0..7]]
    /\ torn \in BOOLEAN
    /\ deaths \in 0..MaxDeaths

(* Once the gateway is open, the sessions found, in whatever shape and by whichever
   process they were brought up, are all there, in a chat that some channel leads to
   (schema.go:181-193), and the columns this build reads and writes are there too. *)
SessionsAreKept ==
    At(Gateway, "open") /\ ~torn =>
        /\ store.cols = ColumnsAt(7)
        /\ \A s \in Sessions : before[s] # None =>
              /\ sess[s] # None
              /\ \E c \in Chats : bound[c] = sess[s]

(* chat_state never names a session of another chat, or one that is gone: the merge
   moves sessions and drops a state, and no rung may separate the two. *)
ActiveIsItsOwn == \A c \in Chats : active[c] # None => sess[active[c]] = c

(* Whatever is merged into it, and by whom, a Telegram chat that had an active session
   keeps it (conversations.go:144-147). *)
LiveTalkStays == \A c \in Telegram : active[c] # None => active'[c] = active[c]


=============================================================================
