--------------------------- MODULE CredentialPool ---------------------------
(***************************************************************************)
(* The accounts agents run their turns under (internal/credentials and the   *)
(* clients that ask for one, internal/claude/client.go).                     *)
(*                                                                         *)
(* Every agent has a pool of its own: the accounts of its config and of the    *)
(* token store's file, which of them are benched, and a rotation.  Benches and *)
(* load are shared with the other agents in one database.  A turn picks an     *)
(* account, calls the CLI, and on a cap or a refused token hands itself to      *)
(* another account of the same session store.                               *)
(***************************************************************************)
EXTENDS Naturals, SequencesExt

CONSTANTS
    Agents, Sessions, AgentOf,
    Accounts,       \* every account, in the order pools list them
    Stored,         \* those that come from the token store
    Dir,            \* the session store of each
    OptedOut,       \* NoRotate
    Blank,          \* those whose credential is not there
    Login,          \* those that are a login, not a credential in the environment
    KeyOf,          \* what identifies the credential across agents
    Default,        \* the CLI's own session store
    Rotation,       \* GroupPin
    None,
    RotateEvery,
    MaxTokenFailovers,
    Before,         \* the sessions there may be at the start
    Caps,           \* how long a failure may bench an account
    MaxNow, MaxTurns, MaxUpsets    \* bounds; an upset is an edit, a reset or a
                                  \* new session, as long as a turn may follow it

Known == ToSet(Accounts)
Keys  == {KeyOf[a] : a \in Known}

PoolConstants ==
    /\ Stored \cup OptedOut \cup Blank \cup Login \subseteq Known
    /\ AgentOf \in [Sessions -> Agents]
    /\ DOMAIN Dir = Known /\ DOMAIN KeyOf = Known
    /\ Caps \subseteq 1 .. 2
    /\ {RotateEvery, MaxTokenFailovers, MaxNow, MaxTurns, MaxUpsets} \subseteq Nat

VARIABLES
    now,
    file,   \* the tokens in the store's file
    pool,   \* each agent's pool
    row,    \* cooldowns: until when each credential is benched
    load,   \* turns: how many each credential has served
    sess,   \* the pin and the conversation of each session; whether a person named the pin
    turn,   \* the turn of each session
    left    \* what the bounds still allow

vars == <<now, file, pool, row, load, sess, turn, left>>

NoTurn == [at |-> "idle", acct |-> None, err |-> "", tries |-> 0, retried |-> FALSE,
           new |-> FALSE, told |-> 0]

NoConv == [dir |-> None, pinned |-> FALSE]

NewSess == [pin |-> None, named |-> FALSE, conv |-> NoConv]

Init ==
    /\ now = 0
    /\ file = Stored
    /\ pool = [g \in Agents |-> [names |-> Known, bench |-> [a \in Known |-> 0],
                                 cursor |-> 0, uses |-> 0, started |-> FALSE]]
    /\ row = [k \in Keys |-> 0]
    /\ load = [k \in Keys |-> 0]
    /\ sess \in Before
    /\ turn = [s \in Sessions |-> NoTurn]
    /\ left = [turns |-> MaxTurns, upsets |-> MaxUpsets]

----------------------------------------------------------------------------
(* What a pool knows.                                                      *)

Rotates(a) == a \notin OptedOut

(* syncLocked: the file's tokens join the accounts of the config; one that      *)
(* comes back starts anew.                                                 *)
Loaded(p) ==
    LET names == (Known \ Stored) \cup file
    IN [p EXCEPT !.names = names,
                 !.bench = [a \in Known |-> IF a \in p.names THEN p.bench[a] ELSE 0]]

(* syncSharedLocked: a shared bench lengthens the pool's own, and the pool's own  *)
(* - which is always shared - ends with its row.                             *)
Told(until, k) == IF row[k] > now THEN Max({until, row[k]}) ELSE 0

(* Mutant: the other agents' benches are not looked at. *)
SyncedAlone(p) == p

Synced(p) ==
    [p EXCEPT !.bench = [a \in Known |->
                           IF a \in p.names THEN Told(p.bench[a], KeyOf[a]) ELSE p.bench[a]]]

Usable(p, a) == a \notin Blank /\ p.bench[a] <= now

(* tokenGroup *)
Group(p, anchor) ==
    SelectSeq(Accounts, LAMBDA a : a \in p.names /\ Rotates(a) /\ Dir[a] = Dir[anchor])

(* The places of a group from the one after cur round to cur itself, or from     *)
(* cur on when this agent has had no turn yet.                                *)
Round(n, cur, started) ==
    [i \in 1 .. n |-> ((cur + i - (IF started THEN 0 ELSE 1)) % n) + 1]

Sooner(a, i, b, j) == a < b \/ (a = b /\ i <= j)

(* The first of those usable with the least load, or, with none, the current    *)
(* one unless another that has a credential recovers sooner.                  *)
Successor(p, group, cur) ==
    LET n     == Len(group)
        round == Round(n, cur, p.started)
        able  == {i \in 1 .. n : Usable(p, group[round[i]])}
        key(i)   == load[KeyOf[group[i]]]
        until(i) == p.bench[group[i]]
        sooner   == {i \in 1 .. n : group[i] \notin Blank /\ until(i) < until(cur + 1)}
    IN IF able # {}
       THEN round[CHOOSE i \in able : \A j \in able : Sooner(key(round[i]), i, key(round[j]), j)] - 1
       ELSE IF sooner = {} THEN cur
       ELSE (CHOOSE i \in sooner : \A j \in sooner : Sooner(until(i), i, until(j), j)) - 1

(* Another token starts a run, and so does the only usable one when its run is over. *)
RunSoFar(p, moved, over) == IF moved \/ (over /\ p.uses >= RotateEvery) THEN 0 ELSE p.uses

(* rotateToken: the pool after it, and the account the turn gets. *)
Rotated(p, anchor) ==
    LET group == Group(p, anchor)
        n     == Len(group)
        cur   == p.cursor % n
        over  == ~ p.started \/ p.uses >= RotateEvery \/ ~ Usable(p, group[cur + 1])
        found == IF over THEN Successor(p, group, cur) ELSE cur
        uses  == RunSoFar(p, over /\ found # cur, over)
        at    == IF over /\ found # cur THEN found ELSE p.cursor
    IN IF n = 0 THEN [pool |-> p, acct |-> anchor]
       ELSE [pool |-> [p EXCEPT !.cursor = at, !.uses = uses + 1, !.started = TRUE],
             acct |-> group[(at % n) + 1]]

Served(p, a) ==
    IF RotateEvery > 0 /\ Rotates(a) THEN Rotated(p, a) ELSE [pool |-> p, acct |-> a]

Ambient(p) == [pool |-> p, acct |-> None]

(* Pick with nothing pinned: a healthy account of the rotation, or else the one  *)
(* that recovers soonest.  Which of the healthy ones was used least is open.    *)
Fresh(p) ==
    LET rotating == {a \in p.names : Rotates(a)}
        healthy  == {a \in rotating : p.bench[a] <= now}
        best     == IF healthy # {} THEN healthy
                    ELSE {a \in rotating : \A b \in rotating :
                                              p.bench[a] <= p.bench[b]}
    IN IF rotating = {} THEN {Ambient(p)} ELSE {Served(p, a) : a \in best}

(* pickGroup: the default store's rotation, or the ambient login. *)
Grouped(p) ==
    LET group == SelectSeq(Accounts, LAMBDA a : a \in p.names /\ Rotates(a) /\ Dir[a] = Default)
    IN IF group = << >> THEN Ambient(p) ELSE Served(p, group[1])

(* Pick, for a pin that names an account the pool has, the rotation, or nothing. *)
Picks(p, pin) ==
    CASE p.names = {} -> {Ambient(p)}
      [] pin = Rotation -> {Grouped(p)}
      [] pin \in p.names -> {Served(p, pin)}
      [] OTHER -> Fresh(p)

PinFor(a) ==
    IF RotateEvery > 0 /\ Rotates(a) /\ Dir[a] = Default THEN Rotation ELSE a

DirOf(a) == IF a = None THEN Default ELSE Dir[a]

----------------------------------------------------------------------------
(* A turn.                                                                 *)

At(s, rec) == turn' = [turn EXCEPT ![s] = rec]

Counted(a) == IF a = None THEN load ELSE [load EXCEPT ![KeyOf[a]] = @ + 1]

(* account: the pool is read afresh, and a session without a pin gets one. *)
Starts(s) ==
    LET g == AgentOf[s]
        p == Synced(Loaded(pool[g]))
        pin == sess[s].pin
    IN /\ turn[s].at = "idle" /\ left.turns > 0
       /\ left' = [left EXCEPT !.turns = @ - 1]
       /\ IF pin \in {None, Rotation} \cup p.names \/ p.names = {}
          THEN \E got \in Picks(p, pin) :
                  /\ pool' = [pool EXCEPT ![g] = got.pool]
                  /\ load' = Counted(got.acct)
                  /\ sess' = [sess EXCEPT ![s].pin = IF @ = None /\ got.acct # None
                                                     THEN PinFor(got.acct) ELSE @]
                  /\ At(s, [NoTurn EXCEPT !.at = "calling", !.acct = got.acct,
                                          !.new = sess[s].conv = NoConv])
          ELSE /\ pool' = [pool EXCEPT ![g] = p]
               /\ At(s, [NoTurn EXCEPT !.at = "refused"])
               /\ UNCHANGED <<load, sess>>
       /\ UNCHANGED <<now, file, row>>

Refused(s) ==
    /\ turn[s].at = "refused"
    /\ At(s, NoTurn)
    /\ UNCHANGED <<now, file, pool, row, load, sess, left>>

(* The CLI opens a conversation in the store of the account it runs under. *)
Names(s) ==
    /\ turn[s].at = "calling" /\ turn[s].new
    /\ sess' = [sess EXCEPT ![s].conv = [dir |-> DirOf(turn[s].acct), pinned |-> sess[s].pin # None]]
    /\ At(s, [turn[s] EXCEPT !.new = FALSE])
    /\ UNCHANGED <<now, file, pool, row, load, left>>

(* /reset, at any time. *)
Resets(s) ==
    /\ left.upsets > 0 /\ left.turns > 0
    /\ left' = [left EXCEPT !.upsets = @ - 1]
    /\ sess' = [sess EXCEPT ![s] = NewSess]
    /\ UNCHANGED <<now, file, pool, row, load, turn>>

(* handleAccountsUse: the chat goes on in a new session, on the account a person    *)
(* named.  Between turns: a turn that runs keeps the session it was given.      *)
Uses(s, a) ==
    /\ turn[s].at = "idle" /\ a \in pool[AgentOf[s]].names /\ left.upsets > 0 /\ left.turns > 0
    /\ left' = [left EXCEPT !.upsets = @ - 1]
    /\ sess' = [sess EXCEPT ![s] = [NewSess EXCEPT !.pin = a, !.named = TRUE]]
    /\ UNCHANGED <<now, file, pool, row, load, turn>>

(* A turn that is cut short, by its person or its timeout, is not held against   *)
(* the account.                                                            *)
Canceled(s) ==
    /\ turn[s].at = "calling"
    /\ At(s, NoTurn)
    /\ UNCHANGED <<now, file, pool, row, load, sess, left>>

Errors == {"limit", "auth", "killed", "other"}

Capping == {"limit", "auth"}

(* The loop of SendMessage: fail over, or once more after a kill, or give up. *)
MayFailOver(t, err) ==
    t.tries < MaxTokenFailovers /\ t.acct # None /\ Rotates(t.acct) /\ err \in Capping

MayRetry(t, err) == t.tries < MaxTokenFailovers /\ err = "killed" /\ ~ t.retried

Retries(s, err) ==
    /\ turn[s].at = "calling" /\ MayRetry(turn[s], err)
    /\ At(s, [turn[s] EXCEPT !.at = "again", !.retried = TRUE, !.tries = @ + 1])
    /\ UNCHANGED <<now, file, pool, row, load, sess, left>>

(* The CLI is spawned once more, for the session as it now is. *)
Respawns(s) ==
    /\ turn[s].at = "again"
    /\ At(s, [turn[s] EXCEPT !.at = "calling", !.new = sess[s].conv = NoConv])
    /\ UNCHANGED <<now, file, pool, row, load, sess, left>>

(* MarkFailure, the part under the lock: the pool's own bench, before the others  *)
(* are told.  A cap names the time it ends; a login is not benched for a refusal. *)
Benches(a, err) == err \in Capping /\ ~ (a \in Login /\ err = "auth")

MarkFailure(s, err, next) ==
    LET g == AgentOf[s]
        a == turn[s].acct
    IN IF a = None \/ a \notin pool[g].names \/ ~ Benches(a, err)
       THEN At(s, IF next = "over" THEN NoTurn ELSE [turn[s] EXCEPT !.at = next, !.err = err])
            /\ UNCHANGED pool
       ELSE \E d \in Caps :
               LET until == Max({pool[g].bench[a], now + d})
               IN /\ pool' = [pool EXCEPT ![g].bench[a] = until]
                  /\ At(s, [turn[s] EXCEPT !.at = next, !.err = err, !.told = until])

FailsOver(s, err) ==
    /\ turn[s].at = "calling" /\ MayFailOver(turn[s], err)
    /\ MarkFailure(s, err, "leaving")
    /\ UNCHANGED <<now, file, row, load, sess, left>>

GivesUp(s, err) ==
    /\ turn[s].at = "calling" /\ ~ MayFailOver(turn[s], err) /\ ~ MayRetry(turn[s], err)
    /\ MarkFailure(s, err, "over")
    /\ UNCHANGED <<now, file, row, load, sess, left>>

(* Bench: the others are told, and the longest known cap wins. *)
BenchRow(k, until) == [row EXCEPT ![k] = Max({@, until})]

Bench(s) ==
    /\ turn[s].told > 0
    /\ row' = BenchRow(KeyOf[turn[s].acct], turn[s].told)
    /\ At(s, IF turn[s].at = "over" THEN NoTurn ELSE [turn[s] EXCEPT !.told = 0])
    /\ UNCHANGED <<now, file, pool, load, sess, left>>

(* Failover, once the failure is marked: the first other account of the group   *)
(* that can serve becomes the current one.                                   *)
Others(p, from) == SelectSeq(Group(p, from), LAMBDA a : a # from /\ Usable(p, a))

MovesOn(s) ==
    LET g == AgentOf[s]
        t == turn[s]
        p == Synced(pool[g])
        others == Others(p, t.acct)
        next == others[1]
        place == CHOOSE i \in 1 .. Len(Group(p, t.acct)) : Group(p, t.acct)[i] = next
    IN /\ t.at = "leaving" /\ t.told = 0
       /\ IF others = << >>
          THEN /\ pool' = [pool EXCEPT ![g] = p]
               /\ At(s, [t EXCEPT !.at = "stuck"])
               /\ UNCHANGED load
          ELSE /\ pool' = [pool EXCEPT ![g] = [p EXCEPT !.cursor = place - 1, !.uses = 1,
                                                        !.started = TRUE]]
               /\ load' = Counted(next)
               /\ At(s, [t EXCEPT !.at = "calling", !.acct = next, !.err = "", !.tries = @ + 1,
                                  !.new = sess[s].conv = NoConv])
       /\ UNCHANGED <<now, file, row, sess, left>>

(* With nowhere to go the failure is recorded once more. *)
Records(s) ==
    /\ turn[s].at = "stuck"
    /\ MarkFailure(s, turn[s].err, "over")
    /\ UNCHANGED <<now, file, row, load, sess, left>>

(* MarkSuccess: the pool's own bench is lifted, and then the row. *)
MarkSuccess(s) ==
    LET g == AgentOf[s]
        a == turn[s].acct
        benched == a # None /\ a \in pool[g].names /\ pool[g].bench[a] # 0
    IN /\ turn[s].at = "calling" /\ ~ turn[s].new
       /\ IF benched
          THEN /\ pool' = [pool EXCEPT ![g].bench[a] = 0]
               /\ At(s, [turn[s] EXCEPT !.at = "lifting"])
          ELSE At(s, NoTurn) /\ UNCHANGED pool
       /\ UNCHANGED <<now, file, row, load, sess, left>>

Lift(s) ==
    /\ turn[s].at = "lifting"
    /\ row' = [row EXCEPT ![KeyOf[turn[s].acct]] = 0]
    /\ At(s, NoTurn)
    /\ UNCHANGED <<now, file, pool, load, sess, left>>

(* The dashboard deletes a token, or adds it again. *)
Edits(a) ==
    /\ left.upsets > 0 /\ left.turns > 0
    /\ left' = [left EXCEPT !.upsets = @ - 1]
    /\ file' = IF a \in file THEN file \ {a} ELSE file \cup {a}
    /\ UNCHANGED <<now, pool, row, load, sess, turn>>

Tick ==
    /\ now < MaxNow
    /\ now' = now + 1
    /\ UNCHANGED <<file, pool, row, load, sess, turn, left>>

----------------------------------------------------------------------------

TurnStep(s) ==
    \/ Names(s) \/ Bench(s) \/ MovesOn(s) \/ Records(s) \/ MarkSuccess(s) \/ Lift(s)
    \/ Refused(s) \/ Canceled(s) \/ Respawns(s)
    \/ \E err \in Errors : Retries(s, err) \/ FailsOver(s, err) \/ GivesUp(s, err)

Next ==
    \/ Tick
    \/ \E a \in Stored : Edits(a)
    \/ \E s \in Sessions : Starts(s) \/ Resets(s) \/ TurnStep(s) \/ \E a \in Known : Uses(s, a)

Spec == Init /\ [][Next]_vars

----------------------------------------------------------------------------
(* Properties.                                                             *)

(* Every variable has its type. *)
TypeOK ==
    /\ now \in 0 .. MaxNow
    /\ file \subseteq Stored
    /\ pool \in [Agents -> [names : SUBSET Known,
                            bench : [Known -> 0 .. MaxNow + 2],
                            cursor : 0 .. Len(Accounts), uses : 0 .. RotateEvery, started : BOOLEAN]]
    /\ row \in [Keys -> 0 .. MaxNow + 2]
    /\ load \in [Keys -> 0 .. MaxTurns * (MaxTokenFailovers + 1)]
    /\ sess \in [Sessions -> [pin : Known \cup {None, Rotation}, named : BOOLEAN,
                              conv : [dir : {None} \cup {DirOf(a) : a \in Known}, pinned : BOOLEAN]]]
    /\ \A s \in Sessions : turn[s].tries <= MaxTokenFailovers

(* A conversation that was opened under a pin is only ever resumed where it      *)
(* lives: rotation and failover move it between accounts of one session store    *)
(* (package comment; Failover: its session store is shared, so the conversation   *)
(* moves with the turn).                                                    *)
ResumesAtHome ==
    \A s \in Sessions :
        turn[s].at = "calling" /\ ~ turn[s].new /\ sess[s].conv.pinned
            => DirOf(turn[s].acct) = sess[s].conv.dir

(* The pool chose where the turn of s goes: at its start, or as it leaves another. *)
Chosen(s) ==
    LET a == turn'[s].acct
    IN /\ turn'[s].at = "calling" /\ a # None
       /\ \/ turn[s].at = "leaving"
          \/ turn[s].at = "idle" /\ (sess[s].pin # a \/ (RotateEvery > 0 /\ Rotates(a)))

(* An account that was taken out of the rotation serves only sessions somebody    *)
(* put on it, by name: no new chat, no rotation and no failover lands on it.      *)
OptedOutIsNeverChosen == \A s \in Sessions : Chosen(s) => turn'[s].acct \notin OptedOut

(* Deleting tokens strands no conversation the pool itself placed, and caps never  *)
(* make it refuse a turn: only a session somebody put on an account by name is     *)
(* refused (GroupPin).                                                      *)
NobodyIsStranded ==
    \A s \in Sessions : turn'[s].at = "refused" /\ turn[s].at # "refused" => sess[s].named

GroupOf(p, a) == {b \in p.names : Rotates(b) /\ Dir[b] = Dir[a]}

(* A cap one agent found is known to all of them: no turn of any agent goes, by   *)
(* rotation or by failover, to a credential whose row says it is benched while    *)
(* another account of its store could serve.                                 *)
KnownCapsAreAvoided ==
    \A s \in Sessions :
          LET p == pool'[AgentOf[s]]
              a == turn'[s].acct
          IN Chosen(s) /\ RotateEvery > 0
             => \/ row[KeyOf[a]] <= now
                \/ \A b \in GroupOf(p, a) :
                      b \in Blank \/ row[KeyOf[b]] > now \/ p.bench[b] > now

(* The longest known cap wins: a row is never shortened, only lifted by a turn    *)
(* that succeeded on the credential.                                         *)
BenchIsNotShortened ==
    \A k \in Keys : row'[k] < row[k]
          => row'[k] = 0 /\ \E s \in Sessions : turn[s].at = "lifting" /\ KeyOf[turn[s].acct] = k


=============================================================================
