---------------------------- MODULE SharedSchema ----------------------------
(***************************************************************************)
(* Opening coord.db (coord/coord.go: Open, migrate).  Every gateway runs the    *)
(* whole list of statements when it starts, without a lock around it, on a     *)
(* database some older build may have made - and peers that still run that      *)
(* build go on using it until their turn to restart comes.  Two of the steps     *)
(* move data: old messages into channels, Telegram bindings into gateways.     *)
(***************************************************************************)
EXTENDS Naturals, FiniteSets, Sequences

CONSTANTS
    Processes,      \* the gateways
    Carrier,        \* the one whose bot carries the bound room
    Versions,       \* what the database found may be; 0 is no database
    Letters,        \* rows of agent_messages
    Lines,          \* messages of the bound room
    MaxCrashes      \* bound: processes that die

VARIABLES
    version,        \* the build that made the database, which the peers still run
    have,           \* tables, columns and indexes that exist
    meta,           \* the keys of meta that are set
    proc,           \* what each process runs, and where its migration is
    letter,         \* each row of agent_messages, and the message made of it
    line,           \* each line of the room: written, stamped, delivered, sent
    dest,           \* the row of channel_gateways made of the room's binding
    crashes

vars == <<version, have, meta, proc, letter, line, dest, crashes>>

----------------------------------------------------------------------------
(* The statements.  A table is <<name>>, a column <<table, name>>.            *)

Create(names) == [n \in DOMAIN names |-> [op |-> "create", what |-> <<names[n]>>]]

Column(table, names) == [n \in DOMAIN names |-> [op |-> "column", what |-> <<table, names[n]>>]]

Step(op) == <<[op |-> op, what |-> <<op>>]>>

(* Of every group of statements some stand for all: the tables and columns that a
   later statement names, and the first and last of what is left. *)
CoreTables == Create(<<"meta", "agents", "runs", "tasks">>)

ScheduleTables == Create(<<"schedules">>)

NoteTables == Create(<<"agent_messages", "shared_notes">>)

ChannelTables == Create(<<"artifacts", "channels", "channel_messages">>)

TelegramTables == Create(<<"channel_telegram">>)

GatewayTables == Create(<<"channel_gateways", "channel_deliveries">>)

TaskColumns == Column("tasks", <<"parent_id", "fail_reason">>)

ReportColumns == Column("agents", <<"scratch">>) \o Column("tasks", <<"reported_at", "acceptance">>)

ProjectColumns == Column("channels", <<"workspace">>) \o Column("tasks", <<"channel_id">>)
                  \o Column("schedules", <<"channel_id">>)

ForwardColumns == Column("channel_messages", <<"forwarded_at">>)
                  \o Column("channel_telegram", <<"agent_id">>)

LateColumns == Column("agents", <<"telegram_bot">>)
               \o Column("tasks", <<"fruitless_waves">>)
               \o Column("runs", <<"cost_usd">>)

Columns == TaskColumns \o ReportColumns \o ProjectColumns \o ForwardColumns \o LateColumns

Indexes == <<[op |-> "index", what |-> <<"tasks", "parent_id">>],
             [op |-> "index", what |-> <<"tasks", "channel_id">>]>>

Tables == CoreTables \o ScheduleTables \o NoteTables \o ChannelTables \o TelegramTables
          \o GatewayTables

(* migrate: the order of its statements. *)
Program == Tables \o Columns \o Indexes \o Step("letters") \o Step("bindings") \o Step("stamp")

ItemNames(stmts) == {stmts[n].what : n \in DOMAIN stmts}

(* Columns that CREATE TABLE lists as well, so that a new table has them at once. *)
Listed(table) ==
    {c \in ItemNames(TaskColumns) \cup {<<"agents", "scratch">>, <<"tasks", "reported_at">>,
                                     <<"channel_telegram", "agent_id">>} : c[1] = table}

(* What a database of an older build has. *)
Built(v) ==
    CASE v = 0  -> {}
      [] v = 2  -> {<<"meta">>, <<"agents">>, <<"runs">>, <<"tasks">>} \cup ItemNames(NoteTables)
      [] v = 5  -> ItemNames(CoreTables \o ScheduleTables \o NoteTables \o TaskColumns)
                   \cup {<<"agents", "scratch">>, <<"tasks", "reported_at">>}
      [] v = 10 -> ItemNames(Tables \o Columns)
                   \ ((ItemNames(GatewayTables) \cup ItemNames(LateColumns)) \ {<<"agents", "telegram_bot">>})
      [] v = 14 -> ItemNames(Tables \o Columns)

HasLetters == version \in {2, 5}

HasBinding == version = 10

----------------------------------------------------------------------------
Init ==
    /\ version \in Versions
    /\ have = Built(version)
    /\ meta = (IF version >= 10 THEN {"letters"} ELSE {}) \cup (IF version >= 11 THEN {"bindings"} ELSE {})
    /\ proc = [p \in Processes |-> [at |-> IF version = 0 THEN "down" ELSE "old", pc |-> 1, saw |-> FALSE]]
    /\ letter = [m \in Letters |-> [row |-> "none", late |-> FALSE, posted |-> "none"]]
    /\ line = [l \in Lines |-> [written |-> FALSE, stamp |-> "none", late |-> FALSE,
                                delivery |-> "none", sent |-> 0]]
    /\ dest = "none"
    /\ crashes = 0

(* The old process stops; the new build is in place. *)
Stops(p) ==
    /\ proc[p].at = "old"
    /\ proc' = [proc EXCEPT ![p].at = "down"]
    /\ UNCHANGED <<version, have, meta, letter, line, dest, crashes>>

Starts(p) ==
    /\ proc[p].at = "down"
    /\ proc' = [proc EXCEPT ![p] = [at |-> "opening", pc |-> 1, saw |-> FALSE]]
    /\ UNCHANGED <<version, have, meta, letter, line, dest, crashes>>

At(p, op) == proc[p].at = "opening" /\ Program[proc[p].pc].op = op

What(p) == Program[proc[p].pc].what

Passes(p) ==
    proc' = [proc EXCEPT ![p] =
        IF @.pc = Len(Program) THEN [@ EXCEPT !.at = "open", !.saw = FALSE]
        ELSE [@ EXCEPT !.pc = proc[p].pc + 1, !.saw = FALSE]]

Fails(p) == proc' = [proc EXCEPT ![p].at = "failed"]

(* CREATE TABLE IF NOT EXISTS leaves a table that exists as it is. *)
Creates(p) ==
    /\ At(p, "create")
    /\ have' = IF What(p) \in have THEN have ELSE have \cup {What(p)} \cup Listed(What(p)[1])
    /\ Passes(p)
    /\ UNCHANGED <<version, meta, letter, line, dest, crashes>>

(* ensureColumn looks into the catalogue ... *)
LooksForColumn(p) ==
    /\ At(p, "column") /\ ~proc[p].saw
    /\ IF What(p) \in have THEN Passes(p) ELSE proc' = [proc EXCEPT ![p].saw = TRUE]
    /\ UNCHANGED <<version, have, meta, letter, line, dest, crashes>>

(* "That error is the one benign outcome." *)
Duplicate(p) == Passes(p)

(* ... and adds what was missing then. *)
AddsColumn(p) ==
    /\ At(p, "column") /\ proc[p].saw
    /\ IF What(p) \in have THEN Duplicate(p) /\ UNCHANGED have
       ELSE have' = have \cup {What(p)} /\ Passes(p)
    /\ UNCHANGED <<version, meta, letter, line, dest, crashes>>

CreatesIndex(p) ==
    /\ At(p, "index")
    /\ IF What(p) \in have THEN Passes(p) ELSE Fails(p)
    /\ UNCHANGED <<version, have, meta, letter, line, dest, crashes>>

(* The look at the flag outside the write lock. *)
LooksForFlag(p, op) ==
    /\ At(p, op) /\ ~proc[p].saw
    /\ IF op \in meta THEN Passes(p) ELSE proc' = [proc EXCEPT ![p].saw = TRUE]
    /\ UNCHANGED <<version, have, meta, letter, line, dest, crashes>>

(* A moved message keeps its id and, as a mention, whether it was read. *)
Posted(m) == letter[m].row

(* migrateMessagesToChannels: one transaction, looking at the flag again first. *)
MovesLetters(p) ==
    /\ At(p, "letters") /\ proc[p].saw
    /\ meta' = meta \cup {"letters"}
    /\ letter' = IF "letters" \in meta THEN letter
                 ELSE [m \in Letters |->
                          IF letter[m].posted # "none" THEN letter[m]
                          ELSE [letter[m] EXCEPT !.posted = Posted(m)]]
    /\ Passes(p)
    /\ UNCHANGED <<version, have, line, dest, crashes>>

(* "Both outcomes travel." *)
Decided(l) ==
    IF line[l].stamp # "none" /\ line[l].delivery = "none" THEN line[l].stamp ELSE line[l].delivery

(* "Re-check inside the write lock: another gateway may have just finished." *)
Bound == "bindings" \in meta

(* migrateBindingsToGateways. *)
MovesBindings(p) ==
    /\ At(p, "bindings") /\ proc[p].saw
    /\ meta' = meta \cup {"bindings"}
    /\ IF Bound \/ ~HasBinding THEN UNCHANGED <<dest, line>>
       ELSE /\ dest' = "bound"
            /\ line' = [l \in Lines |-> [line[l] EXCEPT !.delivery = Decided(l)]]
    /\ Passes(p)
    /\ UNCHANGED <<version, have, letter, crashes>>

Stamps(p) ==
    /\ At(p, "stamp")
    /\ meta' = meta \cup {"schema_version"}
    /\ Passes(p)
    /\ UNCHANGED <<version, have, letter, line, dest, crashes>>

Dies(p) ==
    /\ proc[p].at \in {"opening", "open"} /\ crashes < MaxCrashes
    /\ proc' = [proc EXCEPT ![p].at = "down"]
    /\ crashes' = crashes + 1
    /\ UNCHANGED <<version, have, meta, letter, line, dest>>

----------------------------------------------------------------------------
(* The builds before: they know agent_messages, or the stamp on a line.       *)

OldSends(p, m) ==
    /\ proc[p].at = "old" /\ HasLetters /\ letter[m].row = "none"
    /\ letter' = [letter EXCEPT ![m].row = "unread", ![m].late = "letters" \in meta]
    /\ UNCHANGED <<version, have, meta, proc, line, dest, crashes>>

OldReads(p, m) ==
    /\ proc[p].at = "old" /\ letter[m].row = "unread"
    /\ letter' = [letter EXCEPT ![m].row = "read", ![m].late = @ \/ "letters" \in meta]
    /\ UNCHANGED <<version, have, meta, proc, line, dest, crashes>>

OldForwards(l) ==
    /\ proc[Carrier].at = "old" /\ HasBinding /\ line[l].written /\ line[l].stamp = "none"
    /\ \E as \in {"sent", "skipped"} :
          line' = [line EXCEPT ![l].stamp = as, ![l].late = "bindings" \in meta,
                               ![l].sent = IF as = "sent" THEN @ + 1 ELSE @]
    /\ UNCHANGED <<version, have, meta, proc, letter, dest, crashes>>

(* What they and the new build do alike. *)
Writes(p, l) ==
    /\ proc[p].at = "open" \/ (proc[p].at = "old" /\ HasBinding)
    /\ ~line[l].written
    /\ line' = [line EXCEPT ![l].written = TRUE]
    /\ UNCHANGED <<version, have, meta, proc, letter, dest, crashes>>

(* The new build: a line without a delivery is decided on. *)
Forwards(l) ==
    /\ proc[Carrier].at = "open" /\ dest = "bound"
    /\ line[l].written /\ line[l].delivery = "none"
    /\ line' = [line EXCEPT ![l].delivery = "sent", ![l].sent = @ + 1]
    /\ UNCHANGED <<version, have, meta, proc, letter, dest, crashes>>

(* A person removes the destination. *)
Unbinds(p) ==
    /\ proc[p].at = "open" /\ dest = "bound"
    /\ dest' = "removed"
    /\ UNCHANGED <<version, have, meta, proc, letter, line, crashes>>

----------------------------------------------------------------------------
Executes(p) ==
    \/ Creates(p) \/ LooksForColumn(p) \/ AddsColumn(p) \/ CreatesIndex(p)
    \/ \E op \in {"letters", "bindings"} : LooksForFlag(p, op)
    \/ MovesLetters(p) \/ MovesBindings(p) \/ Stamps(p)

Next ==
    \/ \E p \in Processes : \/ Stops(p) \/ Starts(p) \/ Executes(p) \/ Dies(p)
                            \/ Unbinds(p)
                            \/ \E m \in Letters : OldSends(p, m) \/ OldReads(p, m)
                            \/ \E l \in Lines : Writes(p, l)
    \/ \E l \in Lines : OldForwards(l) \/ Forwards(l)

Spec == Init /\ [][Next]_vars

SharedSchemaConstants ==
    /\ Versions \subseteq {0, 2, 5, 10, 14} /\ Carrier \in Processes /\ MaxCrashes \in Nat

----------------------------------------------------------------------------
(* Type correctness. *)
TypeOK ==
    /\ version \in Versions
    /\ have \subseteq ItemNames(Tables \o Columns)
    /\ meta \subseteq {"letters", "bindings", "schema_version"}
    /\ proc \in [Processes -> [at : {"old", "down", "opening", "open", "failed"},
                               pc : 1..Len(Program), saw : BOOLEAN]]
    /\ letter \in [Letters -> [row : {"none", "unread", "read"}, late : BOOLEAN,
                               posted : {"none", "unread", "read"}]]
    /\ line \in [Lines -> [written : BOOLEAN, stamp : {"none", "sent", "skipped"}, late : BOOLEAN,
                           delivery : {"none", "sent", "skipped"}, sent : 0..2]]
    /\ dest \in {"none", "bound", "removed"}
    /\ crashes \in 0..MaxCrashes

(* "Safe to call from several processes at once" (coord.go:75): whatever was found,
   whoever migrates beside it and wherever others died, no Open fails, and one that
   returned works on a database that has all this build's queries name. *)
OpensAreSafe ==
    \A p \in Processes : /\ proc[p].at # "failed"
                         /\ proc[p].at = "open" => ItemNames(Tables \o Columns) \subseteq have

(* No message is left behind, and none read comes back unread, whichever gateway
   moves them (messages.go:148): but for what an older build, still running beside,
   writes or reads after the move. *)
LettersTravel ==
    "letters" \in meta => \A m \in Letters : letter[m].late \/ letter[m].posted = letter[m].row

(* What was sent, or declined, before the move is not sent by the first sweep after it
   (gateways.go:604-606): nothing goes out twice, and nothing declined at all, unless a
   peer of the older build decided on it after the move. *)
NothingIsSentAgain ==
    \A l \in Lines :
        line[l].late \/ line[l].sent <= (IF line[l].stamp = "skipped" THEN 0 ELSE 1)

(* A destination a person removed does not come back with the next gateway that
   migrates, though the old binding is still in its table (gateways.go:626). *)
UnboundStaysUnbound == dest = "removed" => dest' = "removed"


=============================================================================
