-------------------------- MODULE ExecutionLanes --------------------------
(***************************************************************************)
(* The execution engine (internal/execution/queue.go, children.go) and the  *)
(* way a gateway goes down (internal/bot/bot.go, cmd/bomclaw/main.go).       *)
(*                                                                         *)
(* A caller hands the engine a job for a chat and waits.  Each chat has a     *)
(* lane, a goroutine that takes its jobs one by one; Slots jobs run at a time *)
(* over all lanes.  A job spawns a CLI process, which ends, fails, hangs or   *)
(* is killed.  A caller whose context ends returns and leaves its job behind. *)
(***************************************************************************)
EXTENDS Naturals, Sequences, FiniteSets

CONSTANTS
    Jobs,           \* every piece of work anyone enqueues
    Lanes, LaneOf,  \* the chats, and the chat of each job
    Slots,          \* maxConcurrent
    LaneCap         \* jobs a lane's channel holds before a sender waits

ASSUME LaneConstants ==
    /\ LaneOf \in [Jobs -> Lanes]
    /\ {Slots, LaneCap} \subseteq Nat \ {0}

VARIABLES
    job,    \* each job: its caller, its request, its context, its process
    chan,   \* the channel of each lane
    stop    \* how far the gateway is on its way down

laneVars == <<job, chan, stop>>

(* Close deletes the lanes; a job that comes later gets a lane of its own.   *)
Epochs  == {"serving", "closed"}
LaneIds == Lanes \X Epochs

Unused == [call |-> "none", epoch |-> "serving", at |-> "none", status |-> "",
           ctx |-> "live", cli |-> "none", retried |-> FALSE]

LanesInit ==
    /\ job = [j \in Jobs |-> Unused]
    /\ chan = [l \in LaneIds |-> << >>]
    /\ stop = "up"

Alive   == stop # "gone"
Closed  == stop = "closed"

LaneFor(j) == <<LaneOf[j], job[j].epoch>>

(* What lane l has in hand: it waits for a slot, or runs. *)
InHand(l) == {j \in Jobs : LaneFor(j) = l /\ job[j].at \in {"head", "running"}}

Running == {j \in Jobs : job[j].at = "running"}

(* A process that is there, working or hung. *)
Up == {"alive", "hung"}

Killed(cli) == IF cli \in Up THEN "killed" ELSE cli

Set(j, rec) == job' = [job EXCEPT ![j] = rec]

----------------------------------------------------------------------------
(* Enqueue.                                                                *)

(* getOrCreateLane gives the lane of the chat as it is now. *)
Called(j, ctx) ==
    [Unused EXCEPT !.call = "offering", !.ctx = ctx,
                   !.epoch = IF Closed THEN "closed" ELSE "serving"]

Offer(j) ==
    /\ Alive
    /\ job[j].call = "offering"
    /\ ~ (Closed /\ job[j].epoch = "serving")
    /\ Len(chan[LaneFor(j)]) < LaneCap
    /\ chan' = [chan EXCEPT ![LaneFor(j)] = Append(@, j)]
    /\ Set(j, [job[j] EXCEPT !.call = "waiting", !.at = "queued"])
    /\ UNCHANGED stop

(* A send on the channel of a lane that Close closed takes the process down. *)
OfferPanics(j) ==
    /\ Alive /\ Closed
    /\ job[j].call = "offering" /\ job[j].epoch = "serving"
    /\ stop' = "gone"
    /\ UNCHANGED <<job, chan>>

(* Enqueue returns when its request is over or its context has ended; in the   *)
(* second case the request stays in the lane.                                *)
Returns(j) ==
    \/ job[j].call = "waiting" /\ job[j].at = "over"
    \/ job[j].call \in {"offering", "waiting"} /\ job[j].ctx = "done"

Returned(j) ==
    /\ Returns(j)
    /\ \E how \in {"answered", "gaveup"} :
          /\ how = "answered" => job[j].at = "over"
          /\ how = "gaveup" => job[j].ctx = "done"
          /\ Set(j, [job[j] EXCEPT !.call = how, !.ctx = "done"])
    /\ UNCHANGED <<chan, stop>>

----------------------------------------------------------------------------
(* The lane: run and executeOne.                                            *)

Take(l) ==
    /\ Alive
    /\ InHand(l) = {} /\ chan[l] # << >>
    /\ Set(Head(chan[l]), [job[Head(chan[l])] EXCEPT !.at = "head"])
    /\ chan' = [chan EXCEPT ![l] = Tail(@)]
    /\ UNCHANGED stop

(* Of a job that is over only its status is kept. *)
Over(j, status) ==
    [Unused EXCEPT !.call = job[j].call, !.epoch = job[j].epoch, !.at = "over",
                   !.status = status, !.ctx = job[j].ctx]

(* Waiting for the slot ends with the context, and so does a job whose        *)
(* context ended while it waited.                                           *)
TurnAway(j) ==
    /\ Alive
    /\ job[j].at = "head" /\ job[j].ctx = "done"
    /\ Set(j, Over(j, "canceled"))
    /\ UNCHANGED <<chan, stop>>

Begin(j) ==
    /\ Alive
    /\ job[j].at = "head" /\ job[j].ctx = "live"
    /\ Cardinality(Running) < Slots
    /\ Set(j, [job[j] EXCEPT !.at = "running"])
    /\ UNCHANGED <<chan, stop>>

(* Mutant: a process is started whatever became of the context. *)
MaySpawnAnyway(j) ==
    \/ job[j].cli = "none"
    \/ job[j].cli = "killed" /\ ~ job[j].retried

(* A process is started under a live context only, and once more when it was  *)
(* killed from outside (claude/client.go, IsInterrupted).                   *)
MaySpawn(j) ==
    /\ job[j].ctx = "live"
    /\ \/ job[j].cli = "none"
       \/ job[j].cli = "killed" /\ ~ job[j].retried

Spawn(j) ==
    /\ Alive
    /\ job[j].at = "running" /\ MaySpawn(j)
    /\ Set(j, [job[j] EXCEPT !.cli = "alive", !.retried = @ \/ job[j].cli = "killed"])
    /\ UNCHANGED <<chan, stop>>

(* The process ends on its own, or hangs. *)
CliEnds(j, how) ==
    /\ Alive
    /\ job[j].cli = "alive"
    /\ Set(j, [job[j] EXCEPT !.cli = how])
    /\ UNCHANGED <<chan, stop>>

Outcome(j) ==
    CASE job[j].cli = "ok" -> "success"
      [] job[j].cli # "ok" /\ job[j].ctx = "done" -> "canceled"
      [] OTHER -> "failed"

Finish(j) ==
    /\ Alive
    /\ job[j].at = "running" /\ job[j].cli \notin Up /\ ~ MaySpawn(j)
    /\ Set(j, Over(j, Outcome(j)))
    /\ UNCHANGED <<chan, stop>>

(* A panic in the job is recovered; its deferred kill takes the process. *)
Panic(j) ==
    /\ Alive
    /\ job[j].at = "running"
    /\ Set(j, Over(j, "failed"))
    /\ UNCHANGED <<chan, stop>>

(* Mutant: the context ends, and the process is left alone. *)
EndedAlone(j) == [job[j] EXCEPT !.ctx = "done"]

(* The context of j ends, by its timeout or by Cancel: its process group is   *)
(* killed (Detach).                                                        *)
Ended(j) ==
    [job[j] EXCEPT !.ctx = "done", !.cli = Killed(@)]

(* Timeouts are minutes, steps are seconds: a context times out while a        *)
(* process hangs. *)
TimesOut(j) ==
    /\ Alive
    /\ \E k \in Jobs : job[k].cli = "hung"
    /\ job[j].call \in {"offering", "waiting"} /\ job[j].ctx = "live"
    /\ Set(j, Ended(j))
    /\ UNCHANGED <<chan, stop>>

----------------------------------------------------------------------------
(* Shutdown: main kills what it spawned, then the bot does, then the queue     *)
(* and the engine close, and the process is gone.                            *)

KillSpawned ==
    job' = [j \in Jobs |-> [job[j] EXCEPT !.cli = Killed(@)]]

NextStop == [up |-> "down", down |-> "swept", swept |-> "muted", muted |-> "closed",
             closed |-> "gone"]

StopStep ==
    /\ Alive
    /\ stop' = NextStop[stop]
    /\ IF stop \in {"up", "down"} THEN KillSpawned ELSE UNCHANGED job
    /\ UNCHANGED chan

LaneStep(l) ==
    \/ Take(l)
    \/ \E j \in Jobs : LaneFor(j) = l /\ (TurnAway(j) \/ Begin(j) \/ Finish(j))

----------------------------------------------------------------------------

LanesTypeOK ==
    /\ job \in [Jobs -> [call : {"none", "offering", "waiting", "answered", "gaveup"},
                         epoch : Epochs,
                         at : {"none", "queued", "head", "running", "over"},
                         status : {"", "success", "failed", "canceled"},
                         ctx : {"live", "done"},
                         cli : {"none", "alive", "hung", "ok", "error", "killed"},
                         retried : BOOLEAN]]
    /\ chan \in [LaneIds -> Seq(Jobs)]
    /\ stop \in DOMAIN NextStop \cup {"gone"}

=============================================================================
