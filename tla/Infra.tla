-------------------------------- MODULE Infra --------------------------------
(***************************************************************************)
(* What runs on the owner's machine and what may be done about it               *)
(* (internal/infra, gateway/infra.go, cmd/bomclaw/infracmd.go).  Every action     *)
(* looks at the machine first: pm2's list, launchd's, the listening sockets and    *)
(* the process table, one command after another, any of which may fail, while      *)
(* processes start, end and are restarted by their managers.                     *)
(***************************************************************************)
EXTENDS Naturals, FiniteSets

CONSTANTS
    Apps,           \* pm2's apps
    Jobs,           \* the user's LaunchAgents
    Self,           \* the LaunchAgent the dashboard is
    Pids,           \* process numbers (reused once free)
    Requests,       \* requests under way at once
    MaxActs,        \* bound: requests made
    MaxMoves,       \* bound: processes that start or end by themselves
    MaxFaults       \* bound: commands that fail

InfraConstants ==
    /\ Self \in Jobs /\ Apps \cap Jobs = {}
    /\ (Apps \union Jobs) \cap {"stray", "system", "child", "none"} = {}
    /\ Pids \subseteq Nat \ {0, 1}
    /\ MaxActs \in Nat /\ MaxMoves \in Nat /\ MaxFaults \in Nat

VARIABLES
    procs,          \* the process table: whose a process is, and its parent
    app,            \* pm2's list: gone, stopped or online, and the process
    dump,           \* pm2's saved list, what a reboot brings back
    job,            \* launchd: is the LaunchAgent loaded, and its process
    request,        \* the requests, with what each has seen so far
    missed,         \* history: a change of pm2's list whose save never ran or failed
    acts, moves, faults

vars == <<procs, app, dump, job, request, missed, acts, moves, faults>>

Free == [who |-> "none", parent |-> 1]

Idle == [at |-> "none"]

Managed == Apps \union Jobs

(* The verbs of each kind of target. *)
Kinds == [pm2 |-> {"restart", "stop", "start", "delete"},
          launchd |-> {"restart", "stop", "start"},
          pid |-> {"kill"}]

Init ==
    /\ procs = [p \in Pids |-> Free]
    /\ app = [a \in Apps |-> [status |-> "stopped", pid |-> 0]]
    /\ dump = [a \in Apps |-> "stopped"]
    /\ job = [j \in Jobs |-> [loaded |-> j = Self, pid |-> 0]]
    /\ request = [r \in Requests |-> Idle]
    /\ missed = FALSE
    /\ acts = 0 /\ moves = 0 /\ faults = 0

Alive(p) == procs[p].who # "none"

(* Whose a process is: its own, or its topmost parent's.                         *)
Whose(p) ==
    LET up[n \in 0..Cardinality(Pids)] ==
            IF n = 0 THEN p
            ELSE IF procs[up[n - 1]].who = "child" THEN procs[up[n - 1]].parent ELSE up[n - 1]
    IN  procs[up[Cardinality(Pids)]].who

-----------------------------------------------------------------------------
(* The machine.                                                             *)

(* A process starts: every request under way will not have seen it before.        *)
Starts(p, who, parent) ==
    /\ ~Alive(p)
    /\ procs' = [procs EXCEPT ![p] = [who |-> who, parent |-> parent]]
    /\ request' = [r \in Requests |->
          IF request[r] = Idle THEN Idle
          ELSE [request[r] EXCEPT !.young = request[r].young \union {p}]]

(* A process ends; its children are nobody's.                                   *)
Ended(p) ==
    [q \in Pids |-> IF q = p THEN Free
                    ELSE IF procs[q].parent = p THEN [who |-> "stray", parent |-> 1]
                    ELSE procs[q]]

Moves == moves < MaxMoves /\ moves' = moves + 1

Stray(p, who) ==
    /\ Moves
    /\ who \in {"stray", "system"}
    /\ Starts(p, who, 1)
    /\ UNCHANGED <<app, dump, job, missed, acts, faults>>

Child(p, parent) ==
    /\ Moves
    /\ Alive(parent)
    /\ Starts(p, "child", parent)
    /\ UNCHANGED <<app, dump, job, missed, acts, faults>>

(* pm2 and launchd start what should run and has no process.                     *)
Launch(p) ==
    /\ \/ \E a \in Apps :
            /\ app[a].status = "online" /\ app[a].pid = 0
            /\ app' = [app EXCEPT ![a].pid = p]
            /\ Starts(p, a, 1)
            /\ UNCHANGED job
       \/ \E j \in Jobs :
            /\ job[j].loaded /\ job[j].pid = 0
            /\ job' = [job EXCEPT ![j].pid = p]
            /\ Starts(p, j, 1)
            /\ UNCHANGED app
    /\ UNCHANGED <<dump, missed, acts, moves, faults>>

WithoutPid(f, p) == [x \in DOMAIN f |-> [f[x] EXCEPT !.pid = IF f[x].pid = p THEN 0 ELSE f[x].pid]]

Ends(p) ==
    /\ Moves
    /\ Alive(p)
    /\ procs' = Ended(p)
    /\ app' = WithoutPid(app, p) /\ job' = WithoutPid(job, p)
    /\ UNCHANGED <<dump, request, missed, acts, faults>>

-----------------------------------------------------------------------------
(* A request: the verb must be one of its kind's.                               *)
Allowed(kind, verb) == verb \in Kinds[kind]

Do(r, kind, target, verb) ==
    /\ request[r] = Idle /\ acts < MaxActs
    /\ Allowed(kind, verb)
    /\ acts' = acts + 1
    /\ request' = [request EXCEPT ![r] =
          [at |-> "pm2", kind |-> kind, target |-> target, verb |-> verb,
           owner |-> {}, apps |-> {}, jobs |-> {}, listening |-> {}, parents |-> <<>>,
           exes |-> {}, failed |-> {}, young |-> {}]]
    /\ UNCHANGED <<procs, app, dump, job, missed, moves, faults>>

At(r, at) == request[r] # Idle /\ request[r].at = at

(* One command of the snapshot answers (seen) or fails, and the next runs.        *)
Read(r, at, seen, next) ==
    /\ At(r, at)
    /\ \/ request' = [request EXCEPT ![r] = [seen EXCEPT !.at = next]] /\ faults' = faults
       \/ /\ faults < MaxFaults /\ faults' = faults + 1
          /\ request' = [request EXCEPT ![r] =
                             [request[r] EXCEPT !.at = next, !.failed = request[r].failed \union {at}]]
    /\ UNCHANGED <<procs, app, dump, job, missed, acts, moves>>

Owns(f) == {<<f[x].pid, x>> : x \in {y \in DOMAIN f : f[y].pid # 0}}

PM2List(r) ==
    Read(r, "pm2",
         [request[r] EXCEPT !.owner = request[r].owner \union Owns(app),
                            !.apps = {a \in Apps : app[a].status # "gone"}],
         "services")

(* The plists are there whatever launchctl says; a failed list leaves them        *)
(* unloaded, and says nothing of it.                                           *)
Services(r) ==
    Read(r, "services",
         [request[r] EXCEPT !.owner = request[r].owner \union Owns(job), !.jobs = {j \in Jobs : job[j].loaded}],
         "listeners")

Listeners(r) ==
    Read(r, "listeners", [request[r] EXCEPT !.listening = {p \in Pids : Alive(p)}], "processes")

ListsProcesses(r) ==
    Read(r, "processes",
         [request[r] EXCEPT !.parents = [p \in Pids |-> procs[p].parent],
                            !.exes = {p \in Pids : procs[p].who = "system"}],
         "act")

(* crossRef: up the parents to a process somebody owns.                          *)
OwnerOf(q, p) ==
    LET up[n \in 0..6] ==
            IF n = 0 THEN p
            ELSE IF up[n - 1] \in DOMAIN q.parents THEN q.parents[up[n - 1]] ELSE 0
    IN  {o \in q.owner : \E n \in 0..5 : up[n] = o[1]}

Refuse(r) ==
    /\ request' = [request EXCEPT ![r] = Idle]
    /\ UNCHANGED <<procs, app, dump, job, missed, acts, moves, faults>>

(* Only what listens, is nobody's and is not the system's.                       *)
Killable(q, p) == p \in q.listening /\ OwnerOf(q, p) = {} /\ p \notin q.exes

Kill(r) ==
    /\ At(r, "act") /\ request[r].kind = "pid"
    /\ LET p == request[r].target IN
       IF Killable(request[r], p) /\ Alive(p)
       THEN /\ procs' = Ended(p)
            /\ app' = WithoutPid(app, p) /\ job' = WithoutPid(job, p)
            /\ request' = [request EXCEPT ![r] = Idle]
            /\ UNCHANGED <<dump, missed, acts, moves, faults>>
       ELSE Refuse(r)

(* pm2's own answer to a verb.                                                 *)
AppAfter(a, verb) ==
    CASE verb = "stop"   -> [status |-> "stopped", pid |-> 0]
      [] verb = "delete" -> [status |-> "gone", pid |-> 0]
      [] verb = "start"  -> [status |-> "online", pid |-> app[a].pid]
      [] OTHER           -> [status |-> "online", pid |-> 0]

Leaves(old, new) ==
    IF old # 0 /\ new # old THEN procs' = Ended(old) ELSE UNCHANGED procs

(* The verb is run on an app of the list; pm2 may still fail or not know it.        *)
PM2(r) ==
    /\ At(r, "act") /\ request[r].kind = "pm2"
    /\ \/ Refuse(r)
       \/ LET a == request[r].target
              new == AppAfter(a, request[r].verb)
          IN  /\ a \in request[r].apps /\ app[a].status # "gone"
              /\ app' = [app EXCEPT ![a] = new]
              /\ Leaves(app[a].pid, new.pid)
              /\ request' = [request EXCEPT ![r].at = "save"]
              /\ UNCHANGED <<dump, job, missed, acts, moves, faults>>

Saved == [a \in Apps |-> app[a].status]

(* pm2 save, whose failure nobody hears of.                                     *)
Save(r) ==
    /\ At(r, "save")
    /\ \/ dump' = Saved /\ missed' = FALSE /\ faults' = faults
       \/ faults < MaxFaults /\ faults' = faults + 1 /\ dump' = dump /\ missed' = TRUE
    /\ request' = [request EXCEPT ![r] = Idle]
    /\ UNCHANGED <<procs, app, job, acts, moves>>

(* launchctl's command, chosen by what the snapshot said of the job; launchctl     *)
(* refuses to bootstrap what is loaded and to kick or boot out what is not.        *)
Command(q) ==
    IF q.verb = "stop" THEN "bootout"
    ELSE IF q.target \notin q.jobs THEN "bootstrap"
    ELSE IF q.verb = "restart" THEN "kickstart -k" ELSE "kickstart"

JobAfter(j, command) ==
    CASE command = "bootout"      -> [loaded |-> FALSE, pid |-> 0]
      [] command = "kickstart -k" -> [job[j] EXCEPT !.pid = 0]
      [] command = "bootstrap"    -> [job[j] EXCEPT !.loaded = TRUE]
      [] OTHER                    -> job[j]

(* The one the dashboard runs as is done after the answer.                       *)
Launchctl(r) ==
    /\ \/ At(r, "act") /\ request[r].target # Self
       \/ At(r, "pending")
    /\ request[r].kind = "launchd"
    /\ \/ Refuse(r)
       \/ LET j == request[r].target
              command == Command(request[r])
              new == JobAfter(j, command)
          IN  /\ (command = "bootstrap") # job[j].loaded
              /\ job' = [job EXCEPT ![j] = new]
              /\ Leaves(job[j].pid, new.pid)
              /\ request' = [request EXCEPT ![r] = Idle]
              /\ UNCHANGED <<app, dump, missed, acts, moves, faults>>

AnswerFirst(r) ==
    /\ At(r, "act") /\ request[r].kind = "launchd" /\ request[r].target = Self
    /\ request' = [request EXCEPT ![r].at = "pending"]
    /\ UNCHANGED <<procs, app, dump, job, missed, acts, moves, faults>>

(* The dashboard's own process ended: what it was doing is not finished.           *)
Cut(r) ==
    /\ request[r] # Idle /\ job[Self].pid = 0
    /\ request' = [request EXCEPT ![r] = Idle]
    /\ missed' = (missed \/ At(r, "save"))
    /\ UNCHANGED <<procs, app, dump, job, acts, moves, faults>>

-----------------------------------------------------------------------------
Step(r) ==
    \/ \E a \in Apps, verb \in Kinds.pm2 : Do(r, "pm2", a, verb)
    \/ \E j \in Jobs, verb \in Kinds.launchd : Do(r, "launchd", j, verb)
    \/ \E p \in Pids : Do(r, "pid", p, "kill")
    \/ PM2List(r) \/ Services(r) \/ Listeners(r) \/ ListsProcesses(r)
    \/ Kill(r) \/ PM2(r) \/ Save(r) \/ Launchctl(r) \/ AnswerFirst(r)

Next ==
    \/ \E r \in Requests : job[Self].pid # 0 /\ Step(r)
    \/ \E r \in Requests : Cut(r)
    \/ \E p \in Pids :
        \/ Launch(p) \/ Ends(p)
        \/ \E who \in {"stray", "system"} : Stray(p, who)
        \/ \E q \in Pids : Child(p, q)

Spec == Init /\ [][Next]_vars

-----------------------------------------------------------------------------
(* pm2's and launchd's process numbers are those of their own processes, and a     *)
(* child has a living parent.                                                 *)
TypeOK ==
    /\ procs \in [Pids -> [who : Managed \union {"stray", "system", "child", "none"},
                          parent : Pids \union {1}]]
    /\ \A a \in Apps : app[a].pid # 0 => procs[app[a].pid].who = a
    /\ \A j \in Jobs : job[j].pid # 0 => job[j].loaded /\ procs[job[j].pid].who = j
    /\ \A p \in Pids : procs[p].parent # 1 => Alive(procs[p].parent)
    /\ dump \in [Apps -> {"gone", "stopped", "online"}]

(* A kill from here reaches a process of pm2, of launchd or of the system only      *)
(* when that process came after the look at the machine began, or when the very     *)
(* command that would have told failed (actions.go:115-137: "only a stray server    *)
(* can be killed from here").                                                  *)
KillsStraysOnly ==
    \A r \in Requests : \A p \in Pids :
          (At(r, "act") /\ request[r].kind = "pid" /\ request[r].target = p
             /\ Alive(p) /\ procs'[p] = Free /\ request'[r] = Idle)
          => \/ Whose(p) \notin Managed /\ procs[p].who # "system"
             \/ p \in request[r].young
             \/ Whose(p) \in Apps /\ "pm2" \in request[r].failed
             \/ Whose(p) \in Jobs /\ "services" \in request[r].failed
             \/ "processes" \in request[r].failed

(* What a reboot brings back is what the owner last chose, except while a choice     *)
(* is being saved or when its save was lost (actions.go:66-68).                   *)
DumpFollows ==
    dump # [a \in Apps |-> app[a].status] => missed \/ \E r \in Requests : At(r, "save")

=============================================================================
