----------------------------- MODULE Schedules -----------------------------
(***************************************************************************)
(* One schedule of the shared database and the loops that fire it           *)
(* (internal/scheduler; internal/coord/schedules.go).                       *)
(*                                                                         *)
(* Every gateway ticks: it reads what is due, claims it, and settles the     *)
(* runs whose task has ended; a firing it won goes on beside the ticks in a  *)
(* goroutine of its own.  Each is one statement after another, and a         *)
(* gateway may die between any two.                                        *)
(***************************************************************************)
EXTENDS Naturals, FiniteSets

CONSTANTS
    Gateways, Anyone,
    MaxFirings,         \* bound: how often the schedule is fired
    Clocks,             \* what schedules there may be: kind, payload, owner
                        \* and skip_missed of the row
    DisableAfterFailures,
    MaxCrashes,
    MaxUpsets           \* bound: commands of people, statements that fail

ASSUME ScheduleConstants ==
    /\ Anyone \notin Gateways
    /\ Clocks \subseteq [kind : {"at", "every"},
                         payload : {"agent", "command", "heartbeat"},
                         owner : Gateways \cup {Anyone}, skip : BOOLEAN]
    /\ \A c \in Clocks : c.payload = "heartbeat" => c.kind = "every" /\ c.owner # Anyone
    /\ DisableAfterFailures \in Nat \ {0}
    /\ {MaxFirings, MaxCrashes, MaxUpsets} \subseteq Nat

VARIABLES
    clock,      \* which schedule this is
    row,        \* what of its row changes
    passed,     \* a one-shot's instant lies in the past
    firing,     \* its firings: goroutine, task and row of schedule_runs
    loop,       \* the tick of each gateway
    applied,    \* history: how often a firing's outcome reached the row
    done,       \* history: a one-shot that succeeded since it was last enabled
    crashes, upsets

vars == <<clock, row, passed, firing, loop, applied, done, crashes, upsets>>

(* next_run_at: what spec says, a time of the failure ladder, a time that has *)
(* come, or Never.  Its exact value, which a claim compares, is `seen`: the    *)
(* gateways whose tick saw the value the row still has.                      *)
Times == {"spec", "soon", "due", "never"}

Unfired == [stage |-> "unfired", by |-> Anyone, late |-> FALSE,
            outcome |-> "", task |-> "none", status |-> "none"]

(* Between two ticks, or among the runs a tick listed. *)
Among(listed) == [at |-> "settle", listed |-> listed, run |-> 0, status |-> ""]
Idle == Among({})

Firings == 1 .. MaxFirings

Init ==
    /\ clock \in Clocks
    /\ row = [enabled |-> TRUE, next |-> "spec", seen |-> {}, failures |-> 0]
    /\ passed = FALSE
    /\ firing = [f \in Firings |-> Unfired]
    /\ loop = [g \in Gateways |-> Idle]
    /\ applied = [f \in Firings |-> 0]
    /\ done = FALSE
    /\ crashes = 0 /\ upsets = 0

Upset == upsets < MaxUpsets /\ upsets' = upsets + 1

Fired  == {f \in Firings : firing[f].stage # "unfired"}

NextFiring == Cardinality(Fired) + 1

Up(g)  == loop[g].at # "down"
Due    == row.enabled /\ row.next = "due"

MayFire(g) == clock.owner \in {Anyone, g}

Becomes(g, state) == loop' = [loop EXCEPT ![g] = state]
At(g, place) == [loop[g] EXCEPT !.at = place]

----------------------------------------------------------------------------
(* What the statements do to the row *)

Armed(next) == [row EXCEPT !.next = next, !.seen = {}]

Unseen(g) == [row EXCEPT !.seen = @ \ {g}]

(* A one-shot whose instant has passed has no next run. *)
NextRun == IF clock.kind = "at" /\ passed THEN "never" ELSE "spec"

SetScheduleEnabled == [Armed("spec") EXCEPT !.enabled = TRUE, !.failures = 0]

ScheduleSucceeded ==
    [row EXCEPT !.failures = 0, !.enabled = @ /\ clock.kind # "at"]

(* Mutant: a failure that leaves tries switches the schedule on for them. *)
ScheduleFailedRearming ==
    [Armed("soon") EXCEPT
        !.failures = @ + 1,
        !.enabled  = row.failures + 1 < DisableAfterFailures]

ScheduleFailed ==
    [Armed("soon") EXCEPT
        !.failures = @ + 1,
        !.enabled  = @ /\ row.failures + 1 < DisableAfterFailures]

ApplyOutcome(f, outcome) ==
    /\ row' = IF outcome = "failed" THEN ScheduleFailed ELSE ScheduleSucceeded
    /\ applied' = [applied EXCEPT ![f] = @ + 1]
    /\ done' = (done \/ (outcome # "failed" /\ clock.kind = "at"))

----------------------------------------------------------------------------
(* Time, and the tasks a firing created *)

TimeUnchanged == UNCHANGED <<clock, firing, loop, applied, done, crashes, upsets>>

ComesDue ==
    /\ row.next \in {"spec", "soon"} /\ Fired # Firings
    /\ row' = [row EXCEPT !.next = "due"]
    /\ passed' = (passed \/ (clock.kind = "at" /\ row.next = "spec"))
    /\ TimeUnchanged

(* A one-shot's instant may pass while its row waits for another time. *)
InstantPasses ==
    /\ clock.kind = "at" /\ ~passed /\ row.next # "spec"
    /\ passed' = TRUE
    /\ TimeUnchanged /\ UNCHANGED row

TaskEnds(f, state) ==
    /\ firing[f].task = "open"
    /\ firing' = [firing EXCEPT ![f].task = state]
    /\ UNCHANGED <<clock, row, passed, loop, applied, done, crashes, upsets>>

----------------------------------------------------------------------------
(* Tick *)

TickUnchanged == UNCHANGED <<clock, passed, crashes>>

DueSchedules(g) ==
    /\ loop[g] = Idle
    /\ IF Due /\ MayFire(g)
       THEN Becomes(g, At(g, "claim")) /\ row' = [row EXCEPT !.seen = @ \cup {g}]
       ELSE Becomes(g, At(g, "list")) /\ UNCHANGED row
    /\ TickUnchanged /\ UNCHANGED <<firing, applied, done, upsets>>

(* Mutant: the claim does not compare next_run_at with what the tick saw. *)
WonIfDue(g) == row.enabled

Won(g) == row.enabled /\ g \in row.seen

(* A schedule found long after its time may be late; when, is the clock's. *)
ClaimSchedule(g) ==
    /\ loop[g].at = "claim"
    /\ IF Won(g)
       THEN \E late \in {clock.skip, FALSE} :
               /\ row' = Armed(NextRun)
               /\ firing' = [firing EXCEPT ![NextFiring] =
                    [Unfired EXCEPT !.stage = "fired", !.by = g, !.late = late]]
       ELSE row' = Unseen(g) /\ UNCHANGED firing
    /\ Becomes(g, At(g, "list"))
    /\ TickUnchanged /\ UNCHANGED <<applied, done, upsets>>

(* The spec no longer parses: the schedule is switched off. *)
SpecFails(g) ==
    /\ loop[g].at = "claim" /\ Upset
    /\ row' = [Unseen(g) EXCEPT !.enabled = FALSE]
    /\ Becomes(g, At(g, "list"))
    /\ TickUnchanged /\ UNCHANGED <<firing, applied, done>>

PendingScheduleRuns(g) ==
    /\ loop[g].at = "list"
    /\ Becomes(g, Among({f \in Firings : firing[f].status = "pending"}))
    /\ TickUnchanged /\ UNCHANGED <<row, firing, applied, done, upsets>>

(* Mutant: only a task that failed counts, not one canceled or rejected. *)
OutcomeOfFailed(state) ==
    CASE state = "completed" -> "ok"
      [] state = "failed"    -> "failed"
      [] OTHER               -> ""

(* Mutant: the run takes the state of its task for its status. *)
OutcomeOfState(state) == IF state = "open" THEN "" ELSE state

OutcomeOf(state) ==
    CASE state = "completed"              -> "ok"
      [] state \in {"failed", "canceled"} -> "failed"
      [] OTHER                            -> ""

Closing(g, f, status) ==
    [Among(loop[g].listed \ {f}) EXCEPT !.at = "close", !.run = f, !.status = status]

GetTask(g, f) ==
    LET outcome == OutcomeOf(firing[f].task) IN
    /\ loop[g].at = "settle" /\ f \in loop[g].listed
    /\ Becomes(g, IF outcome = "" THEN Among(loop[g].listed \ {f})
                  ELSE Closing(g, f, outcome))
    /\ TickUnchanged /\ UNCHANGED <<row, firing, applied, done, upsets>>

(* Any error of the read counts as a task that is gone: the run has failed. *)
TaskMissing(g, f) ==
    /\ loop[g].at = "settle" /\ f \in loop[g].listed /\ Upset
    /\ Becomes(g, Closing(g, f, "failed"))
    /\ TickUnchanged /\ UNCHANGED <<row, firing, applied, done>>

(* Mutant: the run is closed whatever its status. *)
ClosedAnyway(f) == TRUE

StillPending(f) == firing[f].status = "pending"

(* Whoever flips the run from pending applies its outcome; the others go on. *)
SettleScheduleRun(g) ==
    LET f == loop[g].run IN
    /\ loop[g].at = "close"
    /\ IF StillPending(f)
       THEN /\ firing' = [firing EXCEPT ![f].status = loop[g].status]
            /\ Becomes(g, At(g, "apply"))
       ELSE Becomes(g, Among(loop[g].listed)) /\ UNCHANGED firing
    /\ TickUnchanged /\ UNCHANGED <<row, applied, done, upsets>>

ApplySettled(g) ==
    /\ loop[g].at = "apply"
    /\ ApplyOutcome(loop[g].run, loop[g].status)
    /\ Becomes(g, Among(loop[g].listed))
    /\ TickUnchanged /\ UNCHANGED <<firing, upsets>>

(* A statement of the tick fails: what it was about waits for the next tick,  *)
(* or is lost when the run was closed already.                              *)
TickFails(g) ==
    /\ loop[g].at \in {"claim", "list", "close", "apply"} /\ Upset
    /\ Becomes(g, IF loop[g].at = "claim" THEN At(g, "list")
                  ELSE Among(loop[g].listed))
    /\ row' = Unseen(g)
    /\ TickUnchanged /\ UNCHANGED <<firing, applied, done>>

----------------------------------------------------------------------------
(* fire: the goroutine of a firing this gateway won *)

FireUnchanged == UNCHANGED <<clock, passed, loop, crashes>>

Goes(f, stage) == firing' = [firing EXCEPT ![f].stage = stage]

(* The goroutine has returned, or died, in this stage. *)
Gone(f, stage) ==
    [firing[f] EXCEPT !.stage = stage, !.by = Anyone, !.late = FALSE, !.outcome = ""]

(* The outcome is recorded (a heartbeat's skip is not) and then applied. *)
Ends(f, outcome, status) ==
    firing' = [firing EXCEPT ![f].stage = "ended", ![f].outcome = outcome,
                             ![f].status = status]

SkipMissed(f) ==
    /\ firing[f].stage = "fired" /\ firing[f].late
    /\ Ends(f, "skipped", "skipped")
    /\ FireUnchanged /\ UNCHANGED <<row, applied, done, upsets>>

RunCommand(f, outcome) ==
    /\ firing[f].stage = "fired" /\ ~firing[f].late /\ clock.payload = "command"
    /\ Ends(f, outcome, outcome)
    /\ FireUnchanged /\ UNCHANGED <<row, applied, done, upsets>>

(* A heartbeat has reasons to do nothing; one of them is an open task. *)
Heartbeat(f) ==
    /\ firing[f].stage = "fired" /\ ~firing[f].late /\ clock.payload = "heartbeat"
    /\ \/ Ends(f, "skipped", "none")
       \/ /\ \A other \in Firings : firing[other].task # "open"
          /\ Goes(f, "looked")
    /\ FireUnchanged /\ UNCHANGED <<row, applied, done, upsets>>

CreateTask(f) ==
    /\ firing[f].stage = IF clock.payload = "heartbeat" THEN "looked" ELSE "fired"
    /\ ~firing[f].late /\ clock.payload # "command"
    /\ firing' = [firing EXCEPT ![f].stage = "created", ![f].task = "open"]
    /\ FireUnchanged /\ UNCHANGED <<row, applied, done, upsets>>

(* A payload, a read of the scratch or the insert fails. *)
FiringFails(f) ==
    /\ firing[f].stage \in {"fired", "looked"} /\ ~firing[f].late
    /\ clock.payload # "command" /\ Upset
    /\ Ends(f, "failed", "failed")
    /\ FireUnchanged /\ UNCHANGED <<row, applied, done>>

RecordScheduleRun(f) ==
    /\ firing[f].stage = "created"
    /\ firing' = [firing EXCEPT ![f] = [Gone(f, "over") EXCEPT !.status = "pending"]]
    /\ FireUnchanged /\ UNCHANGED <<row, applied, done, upsets>>

RecordFails(f) ==
    /\ firing[f].stage = "created" /\ Upset
    /\ firing' = [firing EXCEPT ![f] = Gone(f, "over")]
    /\ FireUnchanged /\ UNCHANGED <<row, applied, done>>

ApplyFired(f) ==
    /\ firing[f].stage = "ended"
    /\ ApplyOutcome(f, firing[f].outcome)
    /\ firing' = [firing EXCEPT ![f] = Gone(f, "over")]
    /\ FireUnchanged /\ UNCHANGED upsets

----------------------------------------------------------------------------
(* People, and gateways that die *)

PersonUnchanged == UNCHANGED <<clock, passed, firing, loop, applied, crashes>>

Enable ==
    /\ NextRun # "never" /\ Upset
    /\ row' = SetScheduleEnabled /\ done' = FALSE
    /\ PersonUnchanged

Disable ==
    /\ row.enabled /\ Upset
    /\ row' = [row EXCEPT !.enabled = FALSE]
    /\ PersonUnchanged /\ UNCHANGED done

FireSchedule ==
    /\ row.enabled /\ Fired # Firings /\ Upset
    /\ row' = Armed("due")
    /\ PersonUnchanged /\ UNCHANGED done

(* Nothing waits for the loop or its goroutines when the process ends. *)
Crash(g) ==
    /\ Up(g) /\ crashes < MaxCrashes /\ crashes' = crashes + 1
    /\ Becomes(g, [Idle EXCEPT !.at = "down"])
    /\ firing' = [f \in Firings |->
                   IF firing[f].by = g THEN Gone(f, "lost") ELSE firing[f]]
    /\ row' = Unseen(g)
    /\ UNCHANGED <<clock, passed, applied, done, upsets>>

(* EnsureHeartbeat switches this gateway's own row on again. *)
Start(g) ==
    /\ ~Up(g)
    /\ Becomes(g, Idle)
    /\ row' = IF clock.payload = "heartbeat" /\ clock.owner = g /\ ~row.enabled
              THEN SetScheduleEnabled ELSE row
    /\ UNCHANGED <<clock, passed, firing, applied, done, crashes, upsets>>

----------------------------------------------------------------------------
Tick(g) ==
    \/ DueSchedules(g) \/ ClaimSchedule(g) \/ PendingScheduleRuns(g)
    \/ \E f \in Firings : GetTask(g, f)
    \/ SettleScheduleRun(g) \/ ApplySettled(g)

Fire(f) ==
    \/ SkipMissed(f) \/ Heartbeat(f)
    \/ \E outcome \in {"ok", "failed"} : RunCommand(f, outcome)
    \/ CreateTask(f) \/ RecordScheduleRun(f) \/ ApplyFired(f)

Ending(f) == \E state \in {"completed", "failed", "canceled"} : TaskEnds(f, state)

Next ==
    \/ ComesDue \/ InstantPasses
    \/ \E g \in Gateways :
         Tick(g) \/ SpecFails(g) \/ TickFails(g) \/ Crash(g) \/ Start(g)
    \/ \E f \in Firings : Fire(f) \/ FiringFails(f) \/ RecordFails(f) \/ Ending(f)
    \/ \E g \in Gateways, f \in Firings : TaskMissing(g, f)
    \/ Enable \/ Disable \/ FireSchedule

(* Time passes, ticks come round, goroutines go on, tasks end, and a gateway   *)
(* that is down comes up.                                                   *)
Spec ==
    /\ Init /\ [][Next]_vars
    /\ WF_vars(ComesDue)
    /\ \A g \in Gateways : WF_vars(Tick(g)) /\ WF_vars(Start(g))
    /\ \A f \in Firings : WF_vars(Fire(f)) /\ WF_vars(Ending(f))

----------------------------------------------------------------------------
(* Properties *)

Outcomes == {"ok", "failed", "skipped"}

Rows == [enabled : BOOLEAN, next : Times, seen : SUBSET Gateways, failures : Nat]

FiringRows ==
    [stage : {"unfired", "fired", "looked", "created", "ended", "over", "lost"},
     by : Gateways \cup {Anyone}, late : BOOLEAN,
     outcome : Outcomes \cup {""},
     task : {"none", "open", "completed", "failed", "canceled"},
     status : Outcomes \cup {"none", "pending"}]

Loops ==
    [at : {"down", "claim", "list", "settle", "close", "apply"},
     listed : SUBSET Firings, run : 0 .. MaxFirings,
     status : {"", "ok", "failed"}]

TypeOK ==
    /\ clock \in Clocks /\ row \in Rows /\ passed \in BOOLEAN
    /\ firing \in [Firings -> FiringRows]
    /\ loop \in [Gateways -> Loops]
    /\ \A g \in Gateways : loop[g].at \in {"close", "apply"} => loop[g].run \in Firings
    /\ applied \in [Firings -> Nat] /\ done \in BOOLEAN
    /\ crashes \in 0..MaxCrashes /\ upsets \in 0..MaxUpsets

(* Two gateways that see the same schedule due fire it once: a firing begins   *)
(* only while the schedule is on and its time has come, and puts that time off. *)
FiredOnce == [][Fired' # Fired => Due /\ row'.next # "due"]_vars

(* Whoever notices how a firing ended, the row hears of it once: no failure is *)
(* counted twice towards switching off, however many loops list the run.      *)
CountedOnce == \A f \in Firings : applied[f] <= 1

(* A one-shot that has succeeded stays off, so that no tick fires it, though   *)
(* an older firing of it fails afterwards - until someone enables it again.   *)
DoneStaysDone == done => ~row.enabled

(* A run whose task has ended is closed in the end, though the gateway that    *)
(* fired it has died.                                                        *)
RunsSettle ==
    \A f \in Firings :
        firing[f].status = "pending" /\ firing[f].task # "open"
            ~> firing[f].status # "pending"

(* A one-shot that is on runs until it succeeds or is switched off - or a      *)
(* gateway died, or a statement failed, with its firing in hand.             *)
OneShotEnds ==
    clock.kind = "at" /\ row.enabled
        ~> ~row.enabled \/ upsets > 0 \/ crashes > 0

(* Neither a run nor a one-shot stays open. *)
FiringsSettle == RunsSettle /\ OneShotEnds

=============================================================================
