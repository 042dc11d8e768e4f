--------------------------- MODULE ChatTurnsProofs ---------------------------
(***************************************************************************)
(* Proofs about ChatTurns and the engine it runs on, for any texts, commands, *)
(* sessions, lanes and bounds.                                             *)
(***************************************************************************)
EXTENDS ChatTurns, TLAPS, FiniteSetTheorems, SequenceTheorems, WellFoundedInduction

JobRows ==
    [call : {"none", "offering", "waiting", "answered", "gaveup"}, epoch : Epochs,
     at : {"none", "queued", "head", "running", "over"},
     status : {"", "success", "failed", "canceled"}, ctx : {"live", "done"},
     cli : {"none", "alive", "hung", "ok", "error", "killed"}, retried : BOOLEAN]

Held == {"head", "running"}

(* A row of the engine by itself: a process belongs to a job that runs, a job  *)
(* that has not been offered is nowhere, and a caller leaves its context done. *)
SoundJob(r) ==
    /\ r.cli \in Up => r.at = "running"
    /\ r.call \in {"none", "offering"} => r.at = "none"
    /\ r.call \in {"answered", "gaveup"} => r.ctx = "done"

EngineInv ==
    /\ LanesTypeOK
    /\ \A j \in Jobs : SoundJob(job[j])
    /\ \A l \in LaneIds : \A i \in 1 .. Len(chan[l]) :
          LaneFor(chan[l][i]) = l /\ job[chan[l][i]].call \notin {"none", "offering"}
    /\ \A j, k \in Jobs :
          job[j].at \in Held /\ job[k].at \in Held /\ LaneFor(j) = LaneFor(k) => j = k
    /\ stop \notin {"closed", "gone"} => \A j \in Jobs : job[j].epoch = "serving"

----------------------------------------------------------------------------

MqRows == [batch : Seq(Messages), flushing : SUBSET Seq(Messages),
           busy : BOOLEAN, collected : Seq(Messages)]

ExecRows == [at : {"idle", "begin", "rotate", "mark", "placeholder", "turn", "full", "drain"},
             texts : Seq(Messages), s : Sessions]

SessRows == [life : {"unborn", "kept", "evicted"}, conv : {None, Stored} \cup Jobs,
             spoken : BOOLEAN, marked : BOOLEAN, due : BOOLEAN, big : BOOLEAN,
             flushed : BOOLEAN, cancel : {None} \cup Jobs]

WorkRows == [s : Sessions, new : BOOLEAN]

ChatTypes ==
    /\ todo \subseteq Messages
    /\ mq \in MqRows
    /\ exec \in ExecRows
    /\ sess \in [Sessions -> SessRows]
    /\ active \in Sessions
    /\ work \in [Jobs -> WorkRows]
    /\ cmd \in [Commands -> {"asked", "clearing", "waiting", "done"}]
    /\ filed \in [Messages -> Sessions \cup {0}]
    /\ upsets \in 0 .. MaxUpsets
    /\ retired \in [now : SUBSET Sessions, at : [Messages -> SUBSET Sessions]]

(* Where a text can be. *)
Flushed == UNION {ToSet(t) : t \in mq.flushing}
Begun   == IF exec.at = "begin" THEN ToSet(exec.texts) ELSE {}
Filed   == {m \in Messages : filed[m] # 0}

Once(s) == \A i, k \in 1 .. Len(s) : s[i] = s[k] => i = k

Lists ==
    /\ Once(mq.batch) /\ Once(mq.collected) /\ (exec.at = "begin" => Once(exec.texts))
    /\ \A t \in mq.flushing : Once(t) /\ t # << >>
    /\ \A t, u \in mq.flushing : t # u => ToSet(t) \cap ToSet(u) = {}

Apart(a, b, c, d, e, f) ==
    /\ a \cap (b \cup c \cup d \cup e \cup f) = {}
    /\ b \cap (c \cup d \cup e \cup f) = {}
    /\ c \cap (d \cup e \cup f) = {}
    /\ d \cap (e \cup f) = {}
    /\ e \cap f = {}

Somewhere == todo \cup ToSet(mq.batch) \cup Flushed \cup ToSet(mq.collected) \cup Begun \cup Filed

Texts ==
    /\ Lists
    /\ Apart(todo, ToSet(mq.batch), Flushed, ToSet(mq.collected), Begun, Filed)
    /\ stop \in {"muted", "closed", "gone"} \/ Messages \subseteq Somewhere

Draining ==
    /\ mq.busy <=> exec.at # "idle"
    /\ mq.collected # << >> => mq.busy
    /\ exec.at # "idle" => exec.texts # << >>

NewTalk ==
    /\ sess[active].life = "kept"
    /\ \A s \in retired.now : sess[s].life # "unborn"
    /\ active \notin retired.now
    /\ \A m \in Messages :
         /\ active \notin retired.at[m] /\ filed[m] \notin retired.at[m]
         /\ \A s \in retired.at[m] : sess[s].life # "unborn"

ChatInv == ChatTypes /\ Texts /\ Draining /\ NewTalk

Inv == EngineInv /\ ChatInv

----------------------------------------------------------------------------
(* The engine                                                               *)

(* A job whose caller has given up gets no process. *)
Abandoned == \A j \in Jobs : job[j].call = "gaveup" /\ job[j].cli \notin Up => job'[j].cli \notin Up

(* What most steps do to a job: they take it nowhere a lane holds jobs, and move *)
(* it to no other lane.                                                     *)
Quiet(old, new) ==
    /\ SoundJob(new) /\ new.epoch = old.epoch
    /\ new.at \in Held => old.at \in Held
    /\ old.call \notin {"none", "offering"} => new.call \notin {"none", "offering"}
    /\ old.call = "gaveup" /\ old.cli \notin Up => new.cli \notin Up

Stops == {"up", "down", "swept", "muted", "closed", "gone"}

LEMMA StopNames == DOMAIN NextStop \cup {"gone"} = Stops
  BY DEF NextStop, Stops

LEMMA LaneOfJob ==
    ASSUME EngineInv, NEW j \in Jobs
    PROVE  LaneFor(j) \in LaneIds /\ job[j] \in JobRows
  BY LaneConstants DEF EngineInv, LanesTypeOK, LaneFor, LaneIds, JobRows

LEMMA QuietStep ==
    ASSUME EngineInv, job' \in [Jobs -> JobRows], UNCHANGED chan, stop' \in Stops,
           stop \in {"closed", "gone"} => stop' \in {"closed", "gone"},
           \A j \in Jobs : job'[j] = job[j] \/ Quiet(job[j], job'[j])
    PROVE  EngineInv' /\ Abandoned
  <1>1. LanesTypeOK'
    BY StopNames DEF EngineInv, LanesTypeOK, JobRows
  <1>2. \A j \in Jobs : SoundJob(job[j])'
    BY DEF EngineInv, Quiet, SoundJob
  <1>3. \A j \in Jobs : LaneFor(j)' = LaneFor(j) /\ (job'[j].at \in Held => job[j].at \in Held)
                        /\ job'[j].epoch = job[j].epoch
                        /\ (job[j].call \notin {"none", "offering"}
                              => job'[j].call \notin {"none", "offering"})
    BY DEF LaneFor, Quiet
  <1>4. ASSUME NEW l \in LaneIds, NEW i \in 1 .. Len(chan'[l])
        PROVE  LaneFor(chan[l][i])' = l /\ job'[chan'[l][i]].call \notin {"none", "offering"}
               /\ chan'[l][i] = chan[l][i]
    <2>1. chan[l] \in Seq(Jobs) /\ chan'[l] = chan[l]
      BY DEF EngineInv, LanesTypeOK
    <2>2. chan[l][i] \in Jobs
      BY <2>1
    <2>. QED
      BY <1>3, <2>1, <2>2 DEF EngineInv
  <1>5. Abandoned
    BY DEF Abandoned, Quiet
  <1>. QED
    BY <1>1, <1>2, <1>3, <1>4, <1>5 DEF EngineInv

LEMMA OneJob ==
    ASSUME EngineInv, NEW j \in Jobs, NEW new \in JobRows, Set(j, new), Quiet(job[j], new),
           UNCHANGED <<chan, stop>>
    PROVE  EngineInv' /\ Abandoned
  <1>1. /\ job \in [Jobs -> JobRows] /\ stop \in Stops
    BY StopNames DEF EngineInv, LanesTypeOK, JobRows
  <1>2. /\ job' \in [Jobs -> JobRows] /\ job'[j] = new
        /\ \A k \in Jobs \ {j} : job'[k] = job[k]
    BY <1>1 DEF Set
  <1>. QED
    BY <1>1, <1>2, QuietStep

LEMMA EngineStutters ==
    ASSUME EngineInv, UNCHANGED laneVars
    PROVE  EngineInv' /\ Abandoned
  <1>1. job \in [Jobs -> JobRows] /\ stop \in Stops /\ UNCHANGED <<job, chan, stop>>
    BY StopNames DEF EngineInv, LanesTypeOK, JobRows, laneVars
  <1>. QED
    BY <1>1, QuietStep

LEMMA OverRow ==
    ASSUME EngineInv, NEW j \in Jobs, job[j].at \in Held,
           NEW status \in {"", "success", "failed", "canceled"}
    PROVE  Over(j, status) \in JobRows /\ Quiet(job[j], Over(j, status))
  <1>1. job[j] \in JobRows /\ SoundJob(job[j])
    BY LaneOfJob DEF EngineInv
  <1>2. /\ Over(j, status).call = job[j].call /\ Over(j, status).epoch = job[j].epoch
        /\ Over(j, status).at = "over" /\ Over(j, status).ctx = job[j].ctx
        /\ Over(j, status).cli = "none"
    BY DEF Over, Unused
  <1>3. Over(j, status) \in JobRows
    BY <1>1 DEF Over, Unused, JobRows
  <1>. QED
    BY <1>1, <1>2, <1>3 DEF SoundJob, Quiet, Held, Up

LEMMA EndedRow ==
    ASSUME EngineInv, NEW j \in Jobs
    PROVE  Ended(j) \in JobRows /\ Quiet(job[j], Ended(j))
  <1>1. job[j] \in JobRows /\ SoundJob(job[j])
    BY LaneOfJob DEF EngineInv
  <1>2. Killed(job[j].cli) \in {"none", "ok", "error", "killed"}
    BY <1>1 DEF Killed, JobRows, Up
  <1>3. /\ Ended(j).call = job[j].call /\ Ended(j).epoch = job[j].epoch
        /\ Ended(j).at = job[j].at /\ Ended(j).ctx = "done"
        /\ Ended(j).cli = Killed(job[j].cli)
    BY <1>1 DEF Ended, JobRows
  <1>4. Ended(j) \in JobRows
    BY <1>1, <1>2 DEF Ended, JobRows
  <1>. QED
    BY <1>1, <1>2, <1>3, <1>4 DEF SoundJob, Quiet, Held, Up

LEMMA LaneJobs ==
    ASSUME EngineInv, NEW j \in Jobs,
           \/ Returned(j) \/ TurnAway(j) \/ Begin(j) \/ Finish(j) \/ Panic(j) \/ TimesOut(j)
    PROVE  EngineInv' /\ Abandoned
  <1>1. job[j] \in JobRows /\ SoundJob(job[j])
    BY LaneOfJob DEF EngineInv
  <1>2. CASE Returned(j)
    <2>1. PICK how \in {"answered", "gaveup"} :
            Set(j, [job[j] EXCEPT !.call = how, !.ctx = "done"])
      BY <1>2 DEF Returned
    <2>2. job[j].call \in {"offering", "waiting"} /\ UNCHANGED <<chan, stop>>
      BY <1>2 DEF Returned, Returns
    <2>3. [job[j] EXCEPT !.call = how, !.ctx = "done"] \in JobRows
      BY <1>1 DEF JobRows
    <2>4. Quiet(job[j], [job[j] EXCEPT !.call = how, !.ctx = "done"])
      BY <1>1, <2>2 DEF JobRows, SoundJob, Quiet
    <2>. QED
      BY <2>1, <2>2, <2>3, <2>4, OneJob
  <1>3. CASE TurnAway(j)
    BY <1>3, OneJob, OverRow DEF TurnAway, Held
  <1>4. CASE Begin(j)
    <2>. DEFINE new == [job[j] EXCEPT !.at = "running"]
    <2>1. new \in JobRows /\ Quiet(job[j], new)
      BY <1>1, <1>4 DEF Begin, JobRows, SoundJob, Quiet, Held
    <2>. QED
      BY <1>4, <2>1, OneJob DEF Begin
  <1>5. CASE Finish(j)
    <2>1. Outcome(j) \in {"", "success", "failed", "canceled"}
      BY DEF Outcome
    <2>. QED
      BY <1>5, <2>1, OneJob, OverRow DEF Finish, Held
  <1>6. CASE Panic(j)
    BY <1>6, OneJob, OverRow DEF Panic, Held
  <1>7. CASE TimesOut(j)
    BY <1>7, OneJob, EndedRow DEF TimesOut
  <1>. QED
    BY <1>2, <1>3, <1>4, <1>5, <1>6, <1>7

LEMMA Processes ==
    ASSUME EngineInv, NEW j \in Jobs,
           Spawn(j) \/ \E how \in {"ok", "error", "hung"} : CliEnds(j, how)
    PROVE  EngineInv' /\ Abandoned
  <1>1. job[j] \in JobRows /\ SoundJob(job[j])
    BY LaneOfJob DEF EngineInv
  <1>2. CASE Spawn(j)
    <2>1. PICK again \in BOOLEAN :
            Set(j, [job[j] EXCEPT !.cli = "alive", !.retried = again])
      BY <1>1, <1>2 DEF Spawn, JobRows
    <2>2. /\ job[j].at = "running" /\ job[j].ctx = "live" /\ UNCHANGED <<chan, stop>>
      BY <1>2 DEF Spawn, MaySpawn
    <2>. DEFINE new == [job[j] EXCEPT !.cli = "alive", !.retried = again]
    <2>3. new \in JobRows /\ Quiet(job[j], new)
      BY <1>1, <2>2 DEF JobRows, SoundJob, Quiet, Held
    <2>. QED
      BY <2>1, <2>2, <2>3, OneJob
  <1>3. ASSUME NEW how \in {"ok", "error", "hung"}, CliEnds(j, how) PROVE EngineInv' /\ Abandoned
    <2>. DEFINE new == [job[j] EXCEPT !.cli = how]
    <2>1. job[j].cli \in Up /\ Set(j, new) /\ UNCHANGED <<chan, stop>>
      BY <1>3 DEF CliEnds, Up
    <2>2. new \in JobRows /\ Quiet(job[j], new)
      BY <1>1, <2>1 DEF JobRows, SoundJob, Quiet, Held
    <2>. QED
      BY <2>1, <2>2, OneJob
  <1>. QED
    BY <1>2, <1>3

LEMMA Calls ==
    ASSUME EngineInv, NEW j \in Jobs, NEW ctx \in {"live", "done"}, job[j].call = "none",
           Set(j, Called(j, ctx)), UNCHANGED <<chan, stop>>
    PROVE  EngineInv' /\ Abandoned
  <1>1. /\ job \in [Jobs -> JobRows] /\ stop \in Stops /\ SoundJob(job[j])
    BY StopNames DEF EngineInv, LanesTypeOK, JobRows
  <1>. DEFINE new == Called(j, ctx)
  <1>2. /\ new \in JobRows /\ SoundJob(new) /\ new.at = "none" /\ new.cli = "none"
        /\ (~ Closed => new.epoch = "serving")
    BY DEF Called, Unused, JobRows, SoundJob, Epochs, Up
  <1>3. job' = [job EXCEPT ![j] = new]
    BY DEF Set
  <1>. HIDE DEF new
  <1>4. /\ job' \in [Jobs -> JobRows] /\ job'[j] = new
        /\ \A k \in Jobs \ {j} : job'[k] = job[k]
    BY <1>1, <1>2, <1>3
  <1>5. LanesTypeOK'
    BY <1>4 DEF EngineInv, LanesTypeOK, JobRows
  <1>6. \A k \in Jobs : SoundJob(job[k])'
    BY <1>2, <1>4 DEF EngineInv, SoundJob
  <1>7. ASSUME NEW l \in LaneIds, NEW i \in 1 .. Len(chan'[l])
        PROVE  LaneFor(chan[l][i])' = l /\ job'[chan[l][i]].call \notin {"none", "offering"}
               /\ chan'[l][i] = chan[l][i]
    <2>1. chan[l] \in Seq(Jobs) /\ chan'[l] = chan[l]
      BY DEF EngineInv, LanesTypeOK
    <2>2. chan[l][i] \in Jobs \ {j} /\ LaneFor(chan[l][i]) = l
      BY <2>1 DEF EngineInv
    <2>. QED
      BY <1>4, <2>1, <2>2 DEF EngineInv, LaneFor
  <1>8. \A k, m \in Jobs : job'[k].at \in Held /\ job'[m].at \in Held /\ LaneFor(k)' = LaneFor(m)'
                              => k = m
    BY <1>2, <1>4 DEF EngineInv, LaneFor, Held
  <1>9. stop' \notin {"closed", "gone"} => \A k \in Jobs : job'[k].epoch = "serving"
    BY <1>2, <1>4 DEF EngineInv, Closed
  <1>10. Abandoned
    BY <1>1, <1>2, <1>4 DEF Abandoned, Up
  <1>. QED
    BY <1>5, <1>6, <1>7, <1>8, <1>9, <1>10 DEF EngineInv

LEMMA Offers ==
    ASSUME EngineInv, NEW j \in Jobs, Offer(j)
    PROVE  EngineInv' /\ Abandoned
  <1>. DEFINE new == [job[j] EXCEPT !.call = "waiting", !.at = "queued"]
              lane == LaneFor(j)
  <1>1. /\ job \in [Jobs -> JobRows] /\ SoundJob(job[j]) /\ lane \in LaneIds
        /\ chan \in [LaneIds -> Seq(Jobs)] /\ job[j] \in JobRows
    BY LaneOfJob DEF EngineInv, LanesTypeOK, JobRows
  <1>2. /\ Set(j, new) /\ chan' = [chan EXCEPT ![lane] = Append(chan[lane], j)]
        /\ job[j].call = "offering" /\ job[j].at = "none" /\ UNCHANGED stop
    BY <1>1 DEF Offer, SoundJob
  <1>3. /\ new \in JobRows /\ SoundJob(new) /\ new.at = "queued" /\ new.epoch = job[j].epoch
        /\ new.call = "waiting" /\ new.cli = job[j].cli
    BY <1>1, <1>2 DEF JobRows, SoundJob
  <1>. HIDE DEF new, lane
  <1>4. /\ job' \in [Jobs -> JobRows] /\ job'[j] = new
        /\ \A k \in Jobs \ {j} : job'[k] = job[k]
    BY <1>1, <1>2, <1>3 DEF Set
  <1>5. \A k \in Jobs : LaneFor(k)' = LaneFor(k)
    BY <1>3, <1>4 DEF LaneFor
  <1>6. chan' \in [LaneIds -> Seq(Jobs)]
    BY <1>1, <1>2
  <1>7. LanesTypeOK'
    BY <1>2, <1>4, <1>6 DEF EngineInv, LanesTypeOK, JobRows
  <1>8. \A k \in Jobs : SoundJob(job[k])'
    BY <1>3, <1>4 DEF EngineInv, SoundJob
  <1>9. ASSUME NEW l \in LaneIds, NEW i \in 1 .. Len(chan'[l])
        PROVE  LaneFor(chan[l][i])' = l /\ job'[chan'[l][i]].call \notin {"none", "offering"}
    <2>1. CASE i \in 1 .. Len(chan[l]) /\ chan'[l][i] = chan[l][i]
      <3>1. chan[l][i] \in Jobs /\ LaneFor(chan[l][i]) = l
            /\ job[chan[l][i]].call \notin {"none", "offering"}
        BY <1>1, <2>1 DEF EngineInv
      <3>2. chan[l][i] # j
        BY <1>2, <3>1
      <3>. QED
        BY <1>4, <1>5, <2>1, <3>1, <3>2
    <2>2. CASE l = lane /\ chan'[l][i] = j
      BY <1>3, <1>4, <1>5, <2>2 DEF lane
    <2>3. \/ i \in 1 .. Len(chan[l]) /\ chan'[l][i] = chan[l][i]
          \/ l = lane /\ chan'[l][i] = j
      <3>1. CASE l # lane
        BY <1>1, <1>2, <3>1
      <3>2. CASE l = lane
        <4>1. chan'[l] = Append(chan[l], j) /\ chan[l] \in Seq(Jobs)
          BY <1>1, <1>2, <3>2
        <4>. QED
          BY <3>2, <4>1
      <3>. QED
        BY <3>1, <3>2
    <2>. QED
      BY <2>1, <2>2, <2>3
  <1>10. \A k, m \in Jobs : job'[k].at \in Held /\ job'[m].at \in Held /\ LaneFor(k)' = LaneFor(m)'
                              => k = m
    BY <1>3, <1>4, <1>5 DEF EngineInv, Held
  <1>11. stop' \notin {"closed", "gone"} => \A k \in Jobs : job'[k].epoch = "serving"
    BY <1>2, <1>3, <1>4 DEF EngineInv
  <1>12. Abandoned
    BY <1>3, <1>4 DEF Abandoned
  <1>. QED
    BY <1>7, <1>8, <1>9, <1>10, <1>11, <1>12 DEF EngineInv

(* The lane takes its next job only with nothing in hand. *)
LEMMA Takes ==
    ASSUME EngineInv, NEW l \in LaneIds, Take(l)
    PROVE  EngineInv' /\ Abandoned
  <1>. DEFINE j == Head(chan[l])
              new == [job[j] EXCEPT !.at = "head"]
  <1>1. chan \in [LaneIds -> Seq(Jobs)] /\ job \in [Jobs -> JobRows]
    BY DEF EngineInv, LanesTypeOK, JobRows
  <1>2. /\ chan[l] \in Seq(Jobs) /\ chan[l] # << >> /\ InHand(l) = {}
        /\ Set(j, new) /\ chan' = [chan EXCEPT ![l] = Tail(chan[l])] /\ UNCHANGED stop
    BY <1>1 DEF Take
  <1>3. /\ 1 \in 1 .. Len(chan[l]) /\ j = chan[l][1] /\ j \in Jobs
        /\ Tail(chan[l]) \in Seq(Jobs)
        /\ \A i \in 1 .. Len(Tail(chan[l])) :
             i + 1 \in 1 .. Len(chan[l]) /\ Tail(chan[l])[i] = chan[l][i + 1]
    <2>1. Len(chan[l]) \in Nat /\ Len(chan[l]) # 0
      BY <1>2, EmptySeq, LenProperties
    <2>. QED
      BY <1>2, <2>1, HeadTailProperties
  <1>4. /\ LaneFor(j) = l /\ job[j].call \notin {"none", "offering"} /\ job[j] \in JobRows
        /\ SoundJob(job[j])
    BY <1>1, <1>3 DEF EngineInv
  <1>5. job[j].at \notin Held
    BY <1>2, <1>3, <1>4 DEF InHand, Held
  <1>6. /\ new \in JobRows /\ SoundJob(new) /\ new.call = job[j].call /\ new.epoch = job[j].epoch
        /\ new.cli = job[j].cli
    BY <1>4, <1>5 DEF JobRows, SoundJob, Held
  <1>. HIDE DEF new, j
  <1>7. /\ job' \in [Jobs -> JobRows] /\ job'[j] = new
        /\ \A k \in Jobs \ {j} : job'[k] = job[k]
    BY <1>1, <1>2, <1>3, <1>6 DEF Set
  <1>8. /\ \A k \in Jobs : LaneFor(k)' = LaneFor(k) /\ job'[k].call = job[k].call
    BY <1>6, <1>7 DEF LaneFor
  <1>9. /\ chan' \in [LaneIds -> Seq(Jobs)] /\ chan'[l] = Tail(chan[l])
        /\ \A m \in LaneIds \ {l} : chan'[m] = chan[m]
    BY <1>1, <1>2, <1>3
  <1>10. LanesTypeOK'
    BY <1>2, <1>7, <1>9 DEF EngineInv, LanesTypeOK, JobRows
  <1>11. \A k \in Jobs : SoundJob(job[k])'
    BY <1>6, <1>7 DEF EngineInv, SoundJob
  <1>12. ASSUME NEW m \in LaneIds, NEW i \in 1 .. Len(chan'[m])
         PROVE  LaneFor(chan[m][i])' = m /\ job'[chan'[m][i]].call \notin {"none", "offering"}
    <2>1. PICK n \in 1 .. Len(chan[m]) : chan'[m][i] = chan[m][n]
      BY <1>3, <1>9
    <2>2. chan[m][n] \in Jobs /\ LaneFor(chan[m][n]) = m
          /\ job[chan[m][n]].call \notin {"none", "offering"}
      BY <1>1 DEF EngineInv
    <2>. QED
      BY <1>8, <2>1, <2>2
  <1>13. \A k, m \in Jobs : job'[k].at \in Held /\ job'[m].at \in Held /\ LaneFor(k)' = LaneFor(m)'
                              => k = m
    <2>1. \A k \in Jobs : k # j => (job'[k].at \in Held => LaneFor(k) # l)
      BY <1>2, <1>7 DEF InHand, Held
    <2>. QED
      BY <1>4, <1>7, <1>8, <2>1 DEF EngineInv
  <1>14. stop' \notin {"closed", "gone"} => \A k \in Jobs : job'[k].epoch = "serving"
    BY <1>2, <1>6, <1>7 DEF EngineInv
  <1>15. Abandoned
    BY <1>6, <1>7 DEF Abandoned
  <1>. QED
    BY <1>10, <1>11, <1>12, <1>13, <1>14, <1>15 DEF EngineInv

(* The gateway goes down, in order or by a send on a closed channel. *)
LEMMA GoesDown ==
    ASSUME EngineInv, StopStep \/ \E j \in Jobs : OfferPanics(j)
    PROVE  EngineInv' /\ Abandoned
  <1>1. /\ job \in [Jobs -> JobRows] /\ stop \in Stops
    BY StopNames DEF EngineInv, LanesTypeOK, JobRows
  <1>2. CASE \E j \in Jobs : OfferPanics(j)
    BY <1>1, <1>2, QuietStep DEF OfferPanics, Stops
  <1>3. CASE StopStep
    <2>1. /\ stop' \in Stops /\ (stop \in {"closed", "gone"} => stop' \in {"closed", "gone"})
          /\ UNCHANGED chan
      BY <1>1, <1>3 DEF StopStep, NextStop, Stops, Alive
    <2>2. \A j \in Jobs : /\ [job[j] EXCEPT !.cli = Killed(job[j].cli)] \in JobRows
                          /\ Quiet(job[j], [job[j] EXCEPT !.cli = Killed(job[j].cli)])
      <3>. SUFFICES ASSUME NEW j \in Jobs
                    PROVE  /\ [job[j] EXCEPT !.cli = Killed(job[j].cli)] \in JobRows
                           /\ Quiet(job[j], [job[j] EXCEPT !.cli = Killed(job[j].cli)])
        OBVIOUS
      <3>1. job[j] \in JobRows /\ SoundJob(job[j])
        BY LaneOfJob DEF EngineInv
      <3>. QED
        BY <3>1 DEF Killed, JobRows, SoundJob, Quiet, Up
    <2>3. CASE KillSpawned
      <3>1. job' = [j \in Jobs |-> [job[j] EXCEPT !.cli = Killed(job[j].cli)]]
        BY <2>3 DEF KillSpawned
      <3>. QED
        BY <2>1, <2>2, <3>1, QuietStep
    <2>4. CASE UNCHANGED job
      BY <1>1, <2>1, <2>4, QuietStep
    <2>. QED
      BY <1>3, <2>3, <2>4 DEF StopStep
  <1>. QED
    BY <1>2, <1>3

----------------------------------------------------------------------------
(* The chat: steps that move no text and change no session's place            *)

Late == {"muted", "closed", "gone"}

ExecPlaces == {"idle", "begin", "rotate", "mark", "placeholder", "turn", "full", "drain"}

(* The run goes on, past its beginning, with the texts it has. *)
ExecGoesOn ==
    /\ exec.at \notin {"idle", "begin"}
    /\ \E at \in ExecPlaces \ {"idle", "begin"} : exec' = [exec EXCEPT !.at = at]

LEMMA QuietChat ==
    ASSUME ChatInv, UNCHANGED <<todo, mq, active, filed, retired>>,
           exec' = exec \/ ExecGoesOn,
           sess' \in [Sessions -> SessRows], \A s \in Sessions : sess'[s].life = sess[s].life,
           work' \in [Jobs -> WorkRows],
           cmd' \in [Commands -> {"asked", "clearing", "waiting", "done"}],
           upsets' \in 0 .. MaxUpsets,
           stop \in Late => stop' \in Late
    PROVE  ChatInv'
  <1>1. /\ exec' \in ExecRows /\ exec'.texts = exec.texts
        /\ (exec'.at = "begin" <=> exec.at = "begin") /\ (exec'.at = "idle" <=> exec.at = "idle")
    <2>1. exec \in ExecRows
      BY DEF ChatInv, ChatTypes
    <2>2. CASE ExecGoesOn
      <3>1. PICK at \in ExecPlaces \ {"idle", "begin"} : exec' = [exec EXCEPT !.at = at]
        BY <2>2 DEF ExecGoesOn
      <3>. QED
        BY <2>1, <2>2, <3>1 DEF ExecGoesOn, ExecPlaces, ExecRows
    <2>. QED
      BY <2>1, <2>2
  <1>2. ChatTypes'
    BY <1>1 DEF ChatInv, ChatTypes
  <1>3. Begun' = Begun /\ Flushed' = Flushed /\ Filed' = Filed
    BY <1>1 DEF Begun, Flushed, Filed
  <1>4. Texts'
    BY <1>1, <1>3 DEF ChatInv, Texts, Lists, Apart, Somewhere, Late
  <1>5. Draining'
    BY <1>1 DEF ChatInv, Draining
  <1>6. NewTalk'
    BY DEF ChatInv, ChatTypes, NewTalk
  <1>. QED
    BY <1>2, <1>4, <1>5, <1>6 DEF ChatInv

LEMMA ChatStutters ==
    ASSUME ChatInv, UNCHANGED chatVars, stop \in Late => stop' \in Late
    PROVE  ChatInv'
  BY QuietChat DEF chatVars, ChatInv, ChatTypes

LEMMA UpsetCounts ==
    ASSUME ChatInv, Upset
    PROVE  upsets' \in 0 .. MaxUpsets
  BY ChatConstants DEF Upset, ChatInv, ChatTypes

LEMMA OneSession ==
    ASSUME ChatInv, NEW s \in Sessions, NEW row \in SessRows, row.life = sess[s].life,
           sess' = [sess EXCEPT ![s] = row]
    PROVE  sess' \in [Sessions -> SessRows] /\ \A t \in Sessions : sess'[t].life = sess[t].life
  BY DEF ChatInv, ChatTypes

LEMMA ClearedRow ==
    ASSUME ChatInv, NEW s \in Sessions
    PROVE  Cleared(s) \in SessRows /\ Cleared(s).life = sess[s].life
  <1>1. sess[s] \in SessRows
    BY DEF ChatInv, ChatTypes
  <1>. QED
    BY <1>1 DEF Cleared, SessRows

(* The jobs a run has: one of each kind goes by its first text. *)
LEMMA JobsOfTheRun ==
    ASSUME ChatInv, exec.at # "idle"
    PROVE  First \in Messages /\ {Turn(First), Rotate(First), Full(First)} \subseteq Jobs
  <1>1. exec.texts \in Seq(Messages) /\ exec.texts # << >>
    BY DEF ChatInv, ChatTypes, ExecRows, Draining
  <1>2. Head(exec.texts) \in Messages
    BY <1>1, HeadTailProperties
  <1>. QED
    BY <1>2, ChatConstants DEF First, ChatJobs, TurnJobs, FlushJobs

LEMMA JobsOfCommands ==
    ASSUME NEW c \in Commands
    PROVE  /\ KindOf[c] = "web" => Turn(c) \in Jobs
           /\ KindOf[c] \in {"reset", "new"} => Flush(c) \in Jobs
  BY ChatConstants DEF ChatJobs, TurnJobs, FlushJobs

LEMMA Enqueues ==
    ASSUME Inv, NEW j \in Jobs, NEW s \in Sessions, NEW ctx \in {"live", "done"},
           EnqueueOn(j, s, ctx), UNCHANGED <<chan, stop>>
    PROVE  EngineInv' /\ Abandoned /\ work' \in [Jobs -> WorkRows]
  <1>1. EngineInv' /\ Abandoned
    BY Calls DEF EnqueueOn, Inv
  <1>2. work' \in [Jobs -> WorkRows]
    BY DEF EnqueueOn, Inv, ChatInv, ChatTypes, WorkRows
  <1>. QED
    BY <1>1, <1>2

(* Session.Cancel ends the context of the turn it finds. *)
LEMMA Cancels ==
    ASSUME Inv, NEW s \in Sessions, job' = Cancelled(s), UNCHANGED <<chan, stop>>
    PROVE  EngineInv' /\ Abandoned
  <1>1. CASE sess[s].cancel = None
    BY <1>1, EngineStutters DEF Cancelled, laneVars, Inv
  <1>2. CASE sess[s].cancel # None
    <2>1. sess[s].cancel \in Jobs
      BY <1>2 DEF Inv, ChatInv, ChatTypes, SessRows
    <2>2. Set(sess[s].cancel, Ended(sess[s].cancel))
      BY <1>2 DEF Cancelled, Set
    <2>. QED
      BY <2>1, <2>2, OneJob, EndedRow DEF Inv
  <1>. QED
    BY <1>1, <1>2

----------------------------------------------------------------------------
(* What the engine does for the chat                                         *)

LEMMA EngineSteps ==
    ASSUME Inv,
           \/ \E l \in LaneIds : Engine(Take(l))
           \/ \E j \in Jobs : \/ Engine(TurnAway(j)) \/ Engine(Offer(j)) \/ Engine(TimesOut(j))
                              \/ Engine(OfferPanics(j))
    PROVE  Inv' /\ Abandoned
  <1>1. EngineInv' /\ Abandoned
    BY Takes, LaneJobs, Offers, GoesDown DEF Engine, Inv
  <1>2. UNCHANGED chatVars /\ (stop' = stop \/ stop' = "gone")
    BY DEF Engine, Take, TurnAway, Offer, TimesOut, OfferPanics
  <1>3. ChatInv'
    BY <1>2, ChatStutters DEF Inv, Late
  <1>. QED
    BY <1>1, <1>3 DEF Inv

LEMMA TurnSteps ==
    ASSUME Inv, NEW j \in Jobs,
           \/ TurnSpawns(j) \/ TurnNamesConversation(j) \/ TurnFails(j) \/ TurnContinues(j)
           \/ \E big \in BOOLEAN : TurnAnswers(j, big)
    PROVE  Inv' /\ Abandoned
  <1>. DEFINE s == work[j].s
              old == sess[s]
  <1>1. /\ s \in Sessions /\ old \in SessRows /\ work[j] \in WorkRows
        /\ sess \in [Sessions -> SessRows] /\ work \in [Jobs -> WorkRows]
        /\ cmd \in [Commands -> {"asked", "clearing", "waiting", "done"}]
        /\ upsets \in 0 .. MaxUpsets /\ ChatInv /\ EngineInv
    BY DEF Inv, ChatInv, ChatTypes, WorkRows
  <1>2. CASE TurnSpawns(j)
    <2>1. EngineInv' /\ Abandoned /\ stop' = stop
      BY <1>1, <1>2, Processes DEF TurnSpawns, Spawn
    <2>2. work' \in [Jobs -> WorkRows]
      BY <1>1, <1>2 DEF TurnSpawns, WorkRows
    <2>. QED
      BY <1>1, <1>2, <2>1, <2>2, QuietChat DEF TurnSpawns, Inv
  <1>3. CASE TurnNamesConversation(j)
    <2>. DEFINE row == [old EXCEPT !.conv = j]
    <2>1. row \in SessRows /\ row.life = old.life /\ sess' = [sess EXCEPT ![s] = row]
      BY <1>1, <1>3 DEF TurnNamesConversation, SessRows
    <2>. HIDE DEF row
    <2>2. sess' \in [Sessions -> SessRows] /\ \A t \in Sessions : sess'[t].life = sess[t].life
      BY <1>1, <2>1, OneSession
    <2>3. work' \in [Jobs -> WorkRows]
      BY <1>1, <1>3 DEF TurnNamesConversation, WorkRows
    <2>4. EngineInv' /\ Abandoned /\ stop' = stop
      BY <1>1, <1>3, EngineStutters DEF TurnNamesConversation, laneVars
    <2>. QED
      BY <1>1, <1>3, <2>2, <2>3, <2>4, QuietChat DEF TurnNamesConversation, Inv
  <1>4. ASSUME NEW big \in BOOLEAN, TurnAnswers(j, big) PROVE Inv' /\ Abandoned
    <2>. DEFINE row == [old EXCEPT !.spoken = TRUE, !.big = big, !.due = FALSE]
    <2>1. row \in SessRows /\ row.life = old.life /\ sess' = [sess EXCEPT ![s] = row]
      BY <1>1, <1>4 DEF TurnAnswers, SessRows
    <2>. HIDE DEF row
    <2>2. sess' \in [Sessions -> SessRows] /\ \A t \in Sessions : sess'[t].life = sess[t].life
      BY <1>1, <2>1, OneSession
    <2>3. EngineInv' /\ Abandoned /\ stop' = stop
      BY <1>1, <1>4, Processes DEF TurnAnswers, CliEnds
    <2>4. upsets' \in 0 .. MaxUpsets
      BY <1>1, <1>4, UpsetCounts DEF TurnAnswers
    <2>. QED
      BY <1>1, <1>4, <2>2, <2>3, <2>4, QuietChat DEF TurnAnswers, Inv
  <1>5. CASE TurnFails(j)
    <2>1. EngineInv' /\ Abandoned /\ stop' = stop
      BY <1>1, <1>5, Processes DEF TurnFails, CliEnds
    <2>2. upsets' \in 0 .. MaxUpsets
      BY <1>1, <1>5, UpsetCounts DEF TurnFails
    <2>. QED
      BY <1>1, <1>5, <2>1, <2>2, QuietChat DEF TurnFails, Inv
  <1>6. CASE TurnContinues(j)
    <2>. DEFINE new == [job[j] EXCEPT !.cli = "none", !.retried = FALSE]
    <2>1. Set(j, new) /\ UNCHANGED <<chan, stop>> /\ job[j].at = "running"
      BY <1>6 DEF TurnContinues
    <2>2. job[j] \in JobRows /\ SoundJob(job[j])
      BY <1>1, LaneOfJob DEF EngineInv
    <2>3. new \in JobRows /\ Quiet(job[j], new)
      BY <2>1, <2>2 DEF JobRows, SoundJob, Quiet, Held, Up
    <2>4. EngineInv' /\ Abandoned
      BY <1>1, <2>1, <2>3, OneJob
    <2>5. upsets' \in 0 .. MaxUpsets
      BY <1>1, <1>6, UpsetCounts DEF TurnContinues
    <2>. QED
      BY <1>1, <1>6, <2>4, <2>5, QuietChat DEF TurnContinues, Inv
  <1>. QED
    BY <1>2, <1>3, <1>4, <1>5, <1>6

LEMMA JobSteps ==
    ASSUME Inv, NEW j \in Jobs, JobBegins(j) \/ JobFinishes(j) \/ JobPanics(j)
    PROVE  Inv' /\ Abandoned
  <1>. DEFINE s == work[j].s
              old == sess[s]
  <1>1. /\ s \in Sessions /\ old \in SessRows
        /\ sess \in [Sessions -> SessRows] /\ work \in [Jobs -> WorkRows]
        /\ cmd \in [Commands -> {"asked", "clearing", "waiting", "done"}]
        /\ upsets \in 0 .. MaxUpsets /\ ChatInv /\ EngineInv
    BY DEF Inv, ChatInv, ChatTypes, WorkRows
  <1>2. EngineInv' /\ Abandoned /\ stop' = stop
    BY <1>1, LaneJobs DEF JobBegins, JobFinishes, JobPanics, Begin, Finish, Panic
  <1>3. \E on \in BOOLEAN : sess' = Marks(j, on)
    BY DEF JobBegins, JobFinishes, JobPanics
  <1>4. sess' \in [Sessions -> SessRows] /\ \A t \in Sessions : sess'[t].life = sess[t].life
    <2>1. PICK on \in BOOLEAN : sess' = Marks(j, on)
      BY <1>3
    <2>. DEFINE row == [old EXCEPT !.marked = on]
    <2>2. row \in SessRows /\ row.life = old.life
      BY <1>1 DEF SessRows
    <2>3. sess' = sess \/ sess' = [sess EXCEPT ![s] = row]
      BY <1>1, <2>1 DEF Marks
    <2>. HIDE DEF row
    <2>. QED
      BY <1>1, <2>2, <2>3, OneSession
  <1>5. work' \in [Jobs -> WorkRows]
    <2>1. 1 \in Sessions
      BY ChatConstants
    <2>2. NoWork \in WorkRows
      BY <2>1 DEF NoWork, WorkRows
    <2>3. work' = work \/ work' = [work EXCEPT ![j] = NoWork]
      BY DEF JobBegins, JobFinishes, JobPanics
    <2>. QED
      BY <1>1, <2>2, <2>3
  <1>6. upsets' \in 0 .. MaxUpsets
    BY <1>1, UpsetCounts DEF JobBegins, JobFinishes, JobPanics
  <1>7. UNCHANGED <<todo, mq, exec, active, cmd, filed, retired>>
    BY DEF JobBegins, JobFinishes, JobPanics
  <1>. QED
    BY <1>1, <1>2, <1>4, <1>5, <1>6, <1>7, QuietChat DEF Inv

----------------------------------------------------------------------------
(* The run and the commands                                                  *)

LEMMA Gone ==
    ASSUME Inv, NEW at \in ExecPlaces \ {"idle", "begin"}, Goto(at),
           exec.at \notin {"idle", "begin"}
    PROVE  ExecGoesOn
  BY DEF Goto, ExecGoesOn

LEMMA FlushesEnd ==
    ASSUME Inv, NEW j \in Jobs, FlushIsOver(j)
    PROVE  EngineInv' /\ Abandoned /\ stop' = stop
  BY LaneJobs, EngineStutters DEF FlushIsOver, Returned, Inv, laneVars

LEMMA RunSteps ==
    ASSUME Inv,
           \/ RotateFlushes \/ RotateResets \/ ExecMarks \/ ExecEnqueues \/ PlaceholderFails
           \/ TurnReturns \/ FullFlushes \/ FullReturns
    PROVE  Inv' /\ Abandoned
  <1>. DEFINE s == exec.s
              old == sess[s]
  <1>1. /\ s \in Sessions /\ active \in Sessions /\ old \in SessRows
        /\ sess \in [Sessions -> SessRows] /\ work \in [Jobs -> WorkRows]
        /\ cmd \in [Commands -> {"asked", "clearing", "waiting", "done"}]
        /\ upsets \in 0 .. MaxUpsets /\ ChatInv /\ EngineInv
    BY DEF Inv, ChatInv, ChatTypes, ExecRows
  <1>2. /\ First \in Messages /\ Turn(First) \in Jobs /\ Rotate(First) \in Jobs
        /\ Full(First) \in Jobs /\ exec.at \notin {"idle", "begin"}
    <2>1. exec.at \notin {"idle", "begin"}
      BY DEF RotateFlushes, RotateResets, ExecMarks, ExecEnqueues, PlaceholderFails, TurnReturns,
             FullFlushes, FullReturns
    <2>. QED
      BY <1>1, <2>1, JobsOfTheRun
  <1>3. CASE RotateFlushes
    <2>1. EngineInv' /\ Abandoned /\ work' \in [Jobs -> WorkRows]
      BY <1>1, <1>2, <1>3, Enqueues DEF RotateFlushes
    <2>. QED
      BY <1>1, <1>3, <2>1, QuietChat DEF RotateFlushes, Inv
  <1>4. CASE RotateResets
    <2>1. EngineInv' /\ Abandoned /\ stop' = stop
      BY <1>2, <1>4, FlushesEnd DEF RotateResets
    <2>2. sess' \in [Sessions -> SessRows] /\ \A t \in Sessions : sess'[t].life = sess[t].life
      BY <1>1, <1>4, ClearedRow, OneSession DEF RotateResets
    <2>3. ExecGoesOn
      BY <1>2, <1>4, Gone DEF RotateResets, ExecPlaces
    <2>. QED
      BY <1>1, <1>4, <2>1, <2>2, <2>3, QuietChat DEF RotateResets, Inv
  <1>5. CASE ExecMarks
    <2>. DEFINE row == [old EXCEPT !.marked = TRUE, !.cancel = Turn(First)]
    <2>1. sess' = [sess EXCEPT ![s] = row]
      BY <1>1, <1>5 DEF ExecMarks
    <2>2. row \in SessRows /\ row.life = old.life
      BY <1>1, <1>2 DEF SessRows
    <2>. HIDE DEF row
    <2>3. sess' \in [Sessions -> SessRows] /\ \A t \in Sessions : sess'[t].life = sess[t].life
      BY <1>1, <2>1, <2>2, OneSession
    <2>4. EngineInv' /\ Abandoned /\ stop' = stop
      BY <1>1, <1>5, EngineStutters DEF ExecMarks, laneVars
    <2>5. ExecGoesOn
      BY <1>2, <1>5, Gone DEF ExecMarks, ExecPlaces
    <2>. QED
      BY <1>1, <1>5, <2>3, <2>4, <2>5, QuietChat DEF ExecMarks, Inv
  <1>6. CASE ExecEnqueues
    <2>1. job[Turn(First)].ctx \in {"live", "done"}
      BY <1>1, <1>2, LaneOfJob DEF JobRows
    <2>2. EngineInv' /\ Abandoned /\ work' \in [Jobs -> WorkRows]
      BY <1>1, <1>2, <1>6, <2>1, Enqueues DEF ExecEnqueues
    <2>3. ExecGoesOn
      BY <1>2, <1>6, Gone DEF ExecEnqueues, ExecPlaces
    <2>. QED
      BY <1>1, <1>6, <2>2, <2>3, QuietChat DEF ExecEnqueues, Inv
  <1>7. CASE PlaceholderFails
    <2>. DEFINE row == [old EXCEPT !.cancel = None, !.marked = FALSE]
    <2>1. sess' = [sess EXCEPT ![s] = row]
      BY <1>1, <1>7 DEF PlaceholderFails
    <2>2. row \in SessRows /\ row.life = old.life
      BY <1>1 DEF SessRows
    <2>. HIDE DEF row
    <2>3. sess' \in [Sessions -> SessRows] /\ \A t \in Sessions : sess'[t].life = sess[t].life
      BY <1>1, <2>1, <2>2, OneSession
    <2>4. EngineInv' /\ Abandoned /\ stop' = stop
      BY <1>1, <1>7, EngineStutters DEF PlaceholderFails, laneVars
    <2>5. ExecGoesOn
      BY <1>2, <1>7, Gone DEF PlaceholderFails, ExecPlaces
    <2>6. upsets' \in 0 .. MaxUpsets
      BY <1>1, <1>7, UpsetCounts DEF PlaceholderFails
    <2>. QED
      BY <1>1, <1>7, <2>3, <2>4, <2>5, <2>6, QuietChat DEF PlaceholderFails, Inv
  <1>8. CASE TurnReturns
    <2>1. EngineInv' /\ Abandoned /\ stop' = stop
      BY <1>1, <1>2, <1>8, LaneJobs DEF TurnReturns, Returned
    <2>2. /\ ExecGoesOn
          /\ \/ sess' = [sess EXCEPT ![s] = [old EXCEPT !.flushed = TRUE]]
             \/ sess' = [sess EXCEPT ![s] = [old EXCEPT !.marked = FALSE]]
      BY <1>1, <1>2, <1>8, Gone DEF TurnReturns, Leaves, ExecPlaces
    <2>3. /\ [old EXCEPT !.flushed = TRUE] \in SessRows
          /\ [old EXCEPT !.flushed = TRUE].life = old.life
          /\ [old EXCEPT !.marked = FALSE] \in SessRows
          /\ [old EXCEPT !.marked = FALSE].life = old.life
      BY <1>1 DEF SessRows
    <2>4. sess' \in [Sessions -> SessRows] /\ \A t \in Sessions : sess'[t].life = sess[t].life
      BY <1>1, <2>2, <2>3, OneSession
    <2>5. UNCHANGED <<todo, mq, active, work, cmd, upsets, filed, retired>>
      BY <1>8 DEF TurnReturns
    <2>. QED
      BY <1>1, <2>1, <2>2, <2>4, <2>5, QuietChat DEF Inv
  <1>9. CASE FullFlushes
    <2>1. EngineInv' /\ Abandoned /\ work' \in [Jobs -> WorkRows]
      BY <1>1, <1>2, <1>9, Enqueues DEF FullFlushes
    <2>. QED
      BY <1>1, <1>9, <2>1, QuietChat DEF FullFlushes, Inv
  <1>10. CASE FullReturns
    <2>. DEFINE row == [old EXCEPT !.marked = FALSE]
    <2>1. sess' = [sess EXCEPT ![s] = row] /\ ExecGoesOn
      BY <1>1, <1>2, <1>10, Gone DEF FullReturns, Leaves, ExecPlaces
    <2>2. row \in SessRows /\ row.life = old.life
      BY <1>1 DEF SessRows
    <2>. HIDE DEF row
    <2>3. sess' \in [Sessions -> SessRows] /\ \A t \in Sessions : sess'[t].life = sess[t].life
      BY <1>1, <2>1, <2>2, OneSession
    <2>4. EngineInv' /\ Abandoned /\ stop' = stop
      BY <1>2, <1>10, FlushesEnd DEF FullReturns
    <2>. QED
      BY <1>1, <1>10, <2>1, <2>3, <2>4, QuietChat DEF FullReturns, Inv
  <1>. QED
    BY <1>3, <1>4, <1>5, <1>6, <1>7, <1>8, <1>9, <1>10

LEMMA CommandSteps ==
    ASSUME Inv, NEW c \in Commands,
           \/ ResetFlushes(c) \/ ResetClears(c) \/ NewRefused(c) \/ NewReturns(c) \/ Cancel(c)
           \/ WebReturns(c) \/ \E s \in Sessions : WebSends(c, s)
    PROVE  Inv' /\ Abandoned
  <1>1. /\ active \in Sessions
        /\ sess \in [Sessions -> SessRows] /\ work \in [Jobs -> WorkRows]
        /\ cmd \in [Commands -> {"asked", "clearing", "waiting", "done"}]
        /\ upsets \in 0 .. MaxUpsets /\ ChatInv /\ EngineInv
    BY DEF Inv, ChatInv, ChatTypes
  <1>2. cmd' \in [Commands -> {"asked", "clearing", "waiting", "done"}]
    <2>1. \E d \in {"clearing", "waiting", "done"} : cmd' = [cmd EXCEPT ![c] = d]
      BY DEF ResetFlushes, ResetClears, NewRefused, NewReturns, Cancel, WebReturns, WebSends
    <2>. QED
      BY <1>1, <2>1
  <1>3. CASE ResetFlushes(c)
    <2>1. CASE ShouldFlush(active)
      <3>1. Flush(c) \in Jobs /\ EnqueueOn(Flush(c), active, "live") /\ UNCHANGED <<chan, stop>>
        BY <1>3, <2>1, JobsOfCommands DEF ResetFlushes
      <3>2. EngineInv' /\ Abandoned /\ work' \in [Jobs -> WorkRows]
        BY <1>1, <3>1, Enqueues
      <3>. QED
        BY <1>1, <1>2, <1>3, <3>2, QuietChat DEF ResetFlushes, Inv
    <2>2. CASE ~ ShouldFlush(active)
      <3>1. EngineInv' /\ Abandoned /\ work' = work
        BY <1>1, <1>3, <2>2, EngineStutters DEF ResetFlushes, laneVars
      <3>. QED
        BY <1>1, <1>2, <1>3, <3>1, QuietChat DEF ResetFlushes, Inv
    <2>. QED
      BY <2>1, <2>2
  <1>4. CASE ResetClears(c)
    <2>1. EngineInv' /\ Abandoned /\ stop' = stop
      <3>1. Flush(c) \in Jobs /\ (UNCHANGED laneVars \/ Returned(Flush(c)))
        BY <1>4, JobsOfCommands DEF ResetClears
      <3>. QED
        BY <1>1, <3>1, LaneJobs, EngineStutters DEF Returned, laneVars
    <2>2. sess' \in [Sessions -> SessRows] /\ \A t \in Sessions : sess'[t].life = sess[t].life
      BY <1>1, <1>4, ClearedRow, OneSession DEF ResetClears
    <2>. QED
      BY <1>1, <1>2, <1>4, <2>1, <2>2, QuietChat DEF ResetClears, Inv
  <1>5. CASE NewRefused(c)
    <2>1. EngineInv' /\ Abandoned /\ stop' = stop
      BY <1>1, <1>5, EngineStutters DEF NewRefused, laneVars
    <2>. QED
      BY <1>1, <1>2, <1>5, <2>1, QuietChat DEF NewRefused, Inv
  <1>6. CASE NewReturns(c)
    <2>1. Flush(c) \in Jobs /\ Returned(Flush(c))
      BY <1>6, JobsOfCommands DEF NewReturns
    <2>2. EngineInv' /\ Abandoned /\ stop' = stop
      BY <1>1, <2>1, LaneJobs DEF Returned
    <2>. QED
      BY <1>1, <1>2, <1>6, <2>2, QuietChat DEF NewReturns, Inv
  <1>7. CASE Cancel(c)
    <2>. DEFINE row == [sess[active] EXCEPT !.cancel = None]
    <2>1. sess' = [sess EXCEPT ![active] = row]
      BY <1>1, <1>7 DEF Cancel
    <2>2. row \in SessRows /\ row.life = sess[active].life
      <3>1. sess[active] \in SessRows
        BY <1>1
      <3>. QED
        BY <3>1 DEF SessRows
    <2>. HIDE DEF row
    <2>3. sess' \in [Sessions -> SessRows] /\ \A t \in Sessions : sess'[t].life = sess[t].life
      BY <1>1, <2>1, <2>2, OneSession
    <2>4. EngineInv' /\ Abandoned /\ stop' = stop
      BY <1>1, <1>7, Cancels DEF Cancel
    <2>. QED
      BY <1>1, <1>2, <1>7, <2>3, <2>4, QuietChat DEF Cancel, Inv
  <1>8. CASE WebReturns(c)
    <2>1. Turn(c) \in Jobs /\ Returned(Turn(c))
      BY <1>8, JobsOfCommands DEF WebReturns
    <2>2. EngineInv' /\ Abandoned /\ stop' = stop
      BY <1>1, <2>1, LaneJobs DEF Returned
    <2>. QED
      BY <1>1, <1>2, <1>8, <2>2, QuietChat DEF WebReturns, Inv
  <1>9. ASSUME NEW s \in Sessions, WebSends(c, s) PROVE Inv' /\ Abandoned
    <2>1. Turn(c) \in Jobs /\ EnqueueOn(Turn(c), s, "live") /\ UNCHANGED <<chan, stop>>
      BY <1>9, JobsOfCommands DEF WebSends
    <2>2. EngineInv' /\ Abandoned /\ work' \in [Jobs -> WorkRows]
      BY <2>1, Enqueues
    <2>. QED
      BY <1>1, <1>2, <1>9, <2>2, QuietChat DEF WebSends, Inv
  <1>. QED
    BY <1>3, <1>4, <1>5, <1>6, <1>7, <1>8, <1>9

----------------------------------------------------------------------------
(* Texts on their way                                                        *)

LEMMA EmptyList == ToSet(<< >>) = {} /\ Once(<< >>)
  BY DEF ToSet, Once

LEMMA LongerList ==
    ASSUME NEW s \in Seq(Messages), NEW m \in Messages
    PROVE  /\ Append(s, m) \in Seq(Messages) /\ ToSet(Append(s, m)) = ToSet(s) \cup {m}
           /\ Once(s) /\ m \notin ToSet(s) => Once(Append(s, m))
  <1>1. /\ Append(s, m) \in Seq(Messages) /\ Len(Append(s, m)) = Len(s) + 1 /\ Len(s) \in Nat
        /\ Append(s, m)[Len(s) + 1] = m /\ \A i \in 1 .. Len(s) : Append(s, m)[i] = s[i]
        /\ DOMAIN s = 1 .. Len(s) /\ DOMAIN Append(s, m) = 1 .. Len(s) + 1
    BY LenProperties
  <1>2. ToSet(Append(s, m)) = ToSet(s) \cup {m}
    BY <1>1 DEF ToSet
  <1>3. Once(s) /\ m \notin ToSet(s) => Once(Append(s, m))
    BY <1>1 DEF ToSet, Once
  <1>. QED
    BY <1>1, <1>2, <1>3

LEMMA JoinedLists ==
    ASSUME NEW s \in Seq(Messages), NEW t \in Seq(Messages)
    PROVE  /\ s \o t \in Seq(Messages) /\ ToSet(s \o t) = ToSet(s) \cup ToSet(t)
           /\ Once(s) /\ Once(t) /\ ToSet(s) \cap ToSet(t) = {} => Once(s \o t)
  <1>1. /\ s \o t \in Seq(Messages) /\ Len(s \o t) = Len(s) + Len(t)
        /\ Len(s) \in Nat /\ Len(t) \in Nat
        /\ \A i \in 1 .. Len(s) : (s \o t)[i] = s[i]
        /\ DOMAIN s = 1 .. Len(s) /\ DOMAIN t = 1 .. Len(t)
        /\ DOMAIN (s \o t) = 1 .. Len(s) + Len(t)
    BY LenProperties, ConcatProperties
  <1>2. \A i \in Len(s) + 1 .. Len(s) + Len(t) :
          i - Len(s) \in 1 .. Len(t) /\ (s \o t)[i] = t[i - Len(s)]
    BY <1>1, ConcatProperties
  <1>3. \A i \in 1 .. Len(t) : (s \o t)[i + Len(s)] = t[i]
    BY <1>1, <1>2
  <1>. DEFINE u == s \o t
  <1>. HIDE DEF u
  <1>4. ToSet(u) = ToSet(s) \cup ToSet(t)
    <2>0. DOMAIN u = 1 .. Len(s) + Len(t)
      BY <1>1 DEF u
    <2>1. ASSUME NEW x \in ToSet(u) PROVE x \in ToSet(s) \cup ToSet(t)
      <3>1. PICK i \in 1 .. Len(s) + Len(t) : x = u[i]
        BY <2>0, <2>1 DEF ToSet
      <3>2. CASE i \in 1 .. Len(s)
        <4>1. u[i] = s[i] /\ i \in DOMAIN s
          BY <1>1, <3>2 DEF u
        <4>. QED
          BY <3>1, <4>1 DEF ToSet
      <3>3. CASE i \in Len(s) + 1 .. Len(s) + Len(t)
        <4>1. u[i] = t[i - Len(s)] /\ i - Len(s) \in DOMAIN t
          BY <1>1, <1>2, <3>3 DEF u
        <4>. QED
          BY <3>1, <4>1 DEF ToSet
      <3>. QED
        BY <1>1, <3>1, <3>2, <3>3
    <2>2. ASSUME NEW x \in ToSet(s) PROVE x \in ToSet(u)
      <3>1. PICK i \in 1 .. Len(s) : x = s[i]
        BY <1>1, <2>2 DEF ToSet
      <3>2. i \in DOMAIN u /\ u[i] = x
        BY <1>1, <3>1 DEF u
      <3>. QED
        BY <3>2 DEF ToSet
    <2>3. ASSUME NEW x \in ToSet(t) PROVE x \in ToSet(u)
      <3>1. PICK i \in 1 .. Len(t) : x = t[i]
        BY <1>1, <2>3 DEF ToSet
      <3>2. i + Len(s) \in DOMAIN u /\ u[i + Len(s)] = x
        BY <1>1, <1>3, <3>1 DEF u
      <3>. QED
        BY <3>2 DEF ToSet
    <2>. QED
      BY <2>1, <2>2, <2>3
  <1>5. Once(s) /\ Once(t) /\ ToSet(s) \cap ToSet(t) = {} => Once(u)
    <2>. SUFFICES ASSUME Once(s), Once(t), ToSet(s) \cap ToSet(t) = {},
                         NEW i \in 1 .. Len(u), NEW k \in 1 .. Len(u), u[i] = u[k]
                  PROVE  i = k
      BY DEF Once
    <2>1. \A n \in 1 .. Len(u) : \/ n \in 1 .. Len(s) /\ u[n] = s[n] /\ u[n] \in ToSet(s)
                                 \/ n - Len(s) \in 1 .. Len(t) /\ u[n] = t[n - Len(s)] /\ u[n] \in ToSet(t)
      <3>. SUFFICES ASSUME NEW n \in 1 .. Len(s) + Len(t)
                    PROVE  \/ n \in 1 .. Len(s) /\ u[n] = s[n] /\ u[n] \in ToSet(s)
                           \/ n - Len(s) \in 1 .. Len(t) /\ u[n] = t[n - Len(s)] /\ u[n] \in ToSet(t)
        BY <1>1 DEF u
      <3>1. CASE n \in 1 .. Len(s)
        <4>1. u[n] = s[n] /\ n \in DOMAIN s
          BY <1>1, <3>1 DEF u
        <4>. QED
          BY <3>1, <4>1 DEF ToSet
      <3>2. CASE n \in Len(s) + 1 .. Len(s) + Len(t)
        <4>1. u[n] = t[n - Len(s)] /\ n - Len(s) \in 1 .. Len(t) /\ n - Len(s) \in DOMAIN t
          BY <1>1, <1>2, <3>2 DEF u
        <4>. QED
          BY <4>1 DEF ToSet
      <3>. QED
        BY <1>1, <3>1, <3>2
    <2>2. CASE i \in 1 .. Len(s) /\ u[i] = s[i] /\ u[i] \in ToSet(s)
      BY <2>1, <2>2 DEF Once
    <2>3. CASE i - Len(s) \in 1 .. Len(t) /\ u[i] = t[i - Len(s)] /\ u[i] \in ToSet(t)
      <3>1. k - Len(s) \in 1 .. Len(t) /\ u[k] = t[k - Len(s)]
        BY <2>1, <2>3
      <3>2. i - Len(s) = k - Len(s)
        BY <2>3, <3>1 DEF Once
      <3>. QED
        BY <1>1, <3>2
    <2>. QED
      BY <2>1, <2>2, <2>3
  <1>. QED
    BY <1>1, <1>4, <1>5 DEF u

LEMMA ListTypes ==
    ASSUME ChatInv
    PROVE  /\ mq.batch \in Seq(Messages) /\ mq.collected \in Seq(Messages)
           /\ mq.flushing \in SUBSET Seq(Messages) /\ mq.busy \in BOOLEAN /\ mq \in MqRows
           /\ exec \in ExecRows /\ exec.texts \in Seq(Messages) /\ exec.s \in Sessions
           /\ exec.at \in ExecPlaces
           /\ filed \in [Messages -> Sessions \cup {0}] /\ active \in Sessions
           /\ retired.now \in SUBSET Sessions /\ retired.at \in [Messages -> SUBSET Sessions]
  BY DEF ChatInv, ChatTypes, MqRows, ExecRows, ExecPlaces

(* The sessions are as they were, and so is what was filed and retired. *)
LEMMA TalkStays ==
    ASSUME ChatInv, UNCHANGED <<active, retired, filed, sess>>
    PROVE  NewTalk'
  BY DEF ChatInv, NewTalk

LEMMA SubmitStep ==
    ASSUME Inv, NEW m \in Messages, Submit(m)
    PROVE  Inv' /\ Abandoned
  <1>. DEFINE batch == Append(mq.batch, m)
  <1>1. ChatInv /\ EngineInv /\ Texts /\ Lists
    BY DEF Inv, ChatInv, Texts
  <1>2. EngineInv' /\ Abandoned
    BY <1>1, EngineStutters DEF Submit
  <1>3. /\ m \in todo /\ todo' = todo \ {m} /\ mq' = [mq EXCEPT !.batch = batch]
        /\ retired' = [retired EXCEPT !.at[m] = retired.now]
        /\ UNCHANGED <<exec, sess, active, work, cmd, upsets, filed, stop>>
    BY DEF Submit, laneVars
  <1>4. /\ m \notin ToSet(mq.batch) /\ filed[m] = 0
        /\ Apart(todo, ToSet(mq.batch), Flushed, ToSet(mq.collected), Begun, Filed)
    BY <1>1, <1>3 DEF Texts, Apart, Filed
  <1>5. /\ batch \in Seq(Messages) /\ ToSet(batch) = ToSet(mq.batch) \cup {m} /\ Once(batch)
    BY <1>1, <1>4, ListTypes, LongerList DEF Lists
  <1>. HIDE DEF batch
  <1>6. /\ mq'.batch = batch /\ mq'.flushing = mq.flushing /\ mq'.collected = mq.collected
        /\ mq'.busy = mq.busy /\ mq' \in MqRows
    BY <1>1, <1>3, <1>5, ListTypes DEF MqRows
  <1>7. /\ retired'.now = retired.now /\ retired'.at = [retired.at EXCEPT ![m] = retired.now]
        /\ retired' \in [now : SUBSET Sessions, at : [Messages -> SUBSET Sessions]]
    BY <1>1, <1>3 DEF ChatInv, ChatTypes
  <1>8. ChatTypes'
    BY <1>1, <1>3, <1>6, <1>7 DEF ChatInv, ChatTypes
  <1>9. Flushed' = Flushed /\ Begun' = Begun /\ Filed' = Filed
    BY <1>3, <1>6 DEF Flushed, Begun, Filed
  <1>10. Lists'
    BY <1>1, <1>3, <1>5, <1>6 DEF Lists
  <1>11. Apart(todo', ToSet(mq'.batch), Flushed', ToSet(mq'.collected), Begun', Filed')
    BY <1>3, <1>4, <1>5, <1>6, <1>9 DEF Apart
  <1>12. Somewhere' = Somewhere
    BY <1>3, <1>5, <1>6, <1>9 DEF Somewhere
  <1>13. Texts'
    BY <1>1, <1>3, <1>10, <1>11, <1>12 DEF Texts
  <1>14. Draining'
    BY <1>1, <1>3, <1>6 DEF ChatInv, Draining
  <1>15. NewTalk'
    <2>1. 0 \notin Sessions
      BY ChatConstants
    <2>. QED
      BY <1>1, <1>3, <1>4, <1>7, <2>1, ListTypes DEF ChatInv, NewTalk
  <1>. QED
    BY <1>2, <1>8, <1>13, <1>14, <1>15 DEF Inv, ChatInv

LEMMA DebounceStep ==
    ASSUME Inv, DebounceEnds
    PROVE  Inv' /\ Abandoned
  <1>1. ChatInv /\ EngineInv /\ Texts /\ Lists
    BY DEF Inv, ChatInv, Texts
  <1>2. EngineInv' /\ Abandoned
    BY <1>1, EngineStutters DEF DebounceEnds
  <1>3. /\ mq.batch # << >>
        /\ mq' = [mq EXCEPT !.batch = << >>, !.flushing = mq.flushing \cup {mq.batch}]
        /\ UNCHANGED <<todo, exec, sess, active, work, cmd, upsets, filed, retired, stop>>
    BY DEF DebounceEnds, laneVars
  <1>4. Apart(todo, ToSet(mq.batch), Flushed, ToSet(mq.collected), Begun, Filed)
    BY <1>1 DEF Texts
  <1>5. /\ mq'.batch = << >> /\ mq'.flushing = mq.flushing \cup {mq.batch}
        /\ mq'.collected = mq.collected /\ mq'.busy = mq.busy /\ mq' \in MqRows
    <2>1. << >> \in Seq(Messages)
      BY EmptySeq
    <2>. QED
      BY <1>1, <1>3, <2>1, ListTypes DEF MqRows
  <1>6. ChatTypes'
    BY <1>1, <1>3, <1>5 DEF ChatInv, ChatTypes
  <1>7. Flushed' = Flushed \cup ToSet(mq.batch) /\ Begun' = Begun /\ Filed' = Filed
    BY <1>3, <1>5 DEF Flushed, Begun, Filed
  <1>8. \A t \in mq.flushing : ToSet(t) \subseteq Flushed
    BY DEF Flushed
  <1>9. Lists'
    <2>1. \A t \in mq.flushing : ToSet(t) \cap ToSet(mq.batch) = {}
      BY <1>4, <1>8 DEF Apart
    <2>. QED
      BY <1>1, <1>3, <1>5, <2>1, EmptyList DEF Lists
  <1>10. Apart(todo', ToSet(mq'.batch), Flushed', ToSet(mq'.collected), Begun', Filed')
    BY <1>3, <1>4, <1>5, <1>7, EmptyList DEF Apart
  <1>11. Somewhere' = Somewhere
    BY <1>3, <1>5, <1>7, EmptyList DEF Somewhere
  <1>12. Texts'
    BY <1>1, <1>3, <1>9, <1>10, <1>11 DEF Texts
  <1>13. Draining'
    BY <1>1, <1>3, <1>5 DEF ChatInv, Draining
  <1>. QED
    BY <1>1, <1>2, <1>3, <1>6, <1>12, <1>13, TalkStays DEF Inv, ChatInv

LEMMA RunOrCollectStep ==
    ASSUME Inv, NEW texts \in mq.flushing, TryRun(texts)
    PROVE  Inv' /\ Abandoned
  <1>. DEFINE rest == mq.flushing \ {texts}
  <1>1. ChatInv /\ EngineInv /\ Texts /\ Lists
    BY DEF Inv, ChatInv, Texts
  <1>2. EngineInv' /\ Abandoned
    BY <1>1, EngineStutters DEF TryRun
  <1>3. UNCHANGED <<todo, sess, active, work, cmd, upsets, filed, retired, stop>>
    BY DEF TryRun, laneVars
  <1>4. /\ Apart(todo, ToSet(mq.batch), Flushed, ToSet(mq.collected), Begun, Filed)
        /\ texts \in Seq(Messages) /\ texts # << >> /\ Once(texts)
    BY <1>1, ListTypes DEF Texts, Lists
  <1>5. /\ UNION {ToSet(t) : t \in rest} = Flushed \ ToSet(texts) /\ ToSet(texts) \subseteq Flushed
        /\ Filed' = Filed /\ rest \in SUBSET Seq(Messages)
    BY <1>1, <1>3, ListTypes DEF Flushed, Lists, Filed
  <1>6. CASE mq.busy
    <2>. DEFINE more == mq.collected \o texts
    <2>1. mq' = [mq EXCEPT !.flushing = rest, !.collected = more] /\ exec' = exec
      BY <1>6 DEF TryRun
    <2>2. /\ more \in Seq(Messages) /\ ToSet(more) = ToSet(mq.collected) \cup ToSet(texts)
          /\ Once(more)
      <3>1. ToSet(mq.collected) \cap ToSet(texts) = {}
        BY <1>4, <1>5 DEF Apart
      <3>. QED
        BY <1>1, <1>4, <3>1, ListTypes, JoinedLists DEF Lists
    <2>. HIDE DEF more
    <2>3. /\ mq'.batch = mq.batch /\ mq'.flushing = rest /\ mq'.collected = more
          /\ mq'.busy = mq.busy /\ mq' \in MqRows
      BY <1>1, <1>5, <2>1, <2>2, ListTypes DEF MqRows
    <2>4. ChatTypes'
      BY <1>1, <1>3, <2>1, <2>3 DEF ChatInv, ChatTypes
    <2>5. Flushed' = Flushed \ ToSet(texts) /\ Begun' = Begun
      BY <1>5, <2>1, <2>3 DEF Flushed, Begun
    <2>6. Lists'
      BY <1>1, <2>1, <2>2, <2>3 DEF Lists
    <2>7. Apart(todo', ToSet(mq'.batch), Flushed', ToSet(mq'.collected), Begun', Filed')
      BY <1>3, <1>4, <1>5, <2>2, <2>3, <2>5 DEF Apart
    <2>8. Somewhere' = Somewhere
      BY <1>3, <1>5, <2>2, <2>3, <2>5 DEF Somewhere
    <2>9. Texts'
      BY <1>1, <1>3, <2>6, <2>7, <2>8 DEF Texts
    <2>10. Draining'
      BY <1>1, <1>6, <2>1, <2>3 DEF ChatInv, Draining
    <2>. QED
      BY <1>1, <1>2, <1>3, <2>4, <2>9, <2>10, TalkStays DEF Inv, ChatInv
  <1>7. CASE ~ mq.busy
    <2>1. mq' = [mq EXCEPT !.flushing = rest, !.busy = TRUE] /\ exec' = Begins(texts)
      BY <1>7 DEF TryRun
    <2>2. /\ mq'.batch = mq.batch /\ mq'.flushing = rest /\ mq'.collected = mq.collected
          /\ mq'.busy = TRUE /\ mq' \in MqRows
      BY <1>1, <1>5, <2>1, ListTypes DEF MqRows
    <2>3. exec'.at = "begin" /\ exec'.texts = texts /\ exec' \in ExecRows
      BY <1>1, <1>4, <2>1, ListTypes DEF Begins, ExecRows
    <2>4. ChatTypes'
      BY <1>1, <1>3, <2>2, <2>3 DEF ChatInv, ChatTypes
    <2>5. exec.at = "idle" /\ mq.collected = << >>
      BY <1>1, <1>7 DEF ChatInv, Draining
    <2>6. Flushed' = Flushed \ ToSet(texts) /\ Begun = {} /\ Begun' = ToSet(texts)
      BY <1>5, <2>2, <2>3, <2>5 DEF Flushed, Begun
    <2>7. Lists'
      BY <1>1, <1>4, <2>2, <2>3 DEF Lists
    <2>8. Apart(todo', ToSet(mq'.batch), Flushed', ToSet(mq'.collected), Begun', Filed')
      BY <1>3, <1>4, <1>5, <2>2, <2>6 DEF Apart
    <2>9. Somewhere' = Somewhere
      BY <1>3, <1>5, <2>2, <2>6 DEF Somewhere
    <2>10. Texts'
      BY <1>1, <1>3, <2>7, <2>8, <2>9 DEF Texts
    <2>11. Draining'
      BY <1>4, <2>2, <2>3, <2>5 DEF Draining
    <2>. QED
      BY <1>1, <1>2, <1>3, <2>4, <2>10, <2>11, TalkStays DEF Inv, ChatInv
  <1>. QED
    BY <1>6, <1>7

LEMMA DoneStep ==
    ASSUME Inv, Done
    PROVE  Inv' /\ Abandoned
  <1>1. ChatInv /\ EngineInv /\ Texts /\ Lists
    BY DEF Inv, ChatInv, Texts
  <1>2. EngineInv' /\ Abandoned
    BY <1>1, EngineStutters DEF Done
  <1>3. /\ UNCHANGED <<todo, sess, active, work, cmd, upsets, filed, retired, stop>>
        /\ exec.at = "drain" /\ Begun = {}
    BY DEF Done, laneVars, Begun
  <1>4. /\ Apart(todo, ToSet(mq.batch), Flushed, ToSet(mq.collected), Begun, Filed)
        /\ Filed' = Filed /\ << >> \in Seq(Messages)
    BY <1>1, <1>3, EmptySeq DEF Texts, Filed
  <1>5. CASE mq.collected = << >>
    <2>1. exec' = [Idle EXCEPT !.s = exec.s] /\ mq' = [mq EXCEPT !.busy = FALSE]
      BY <1>5 DEF Done
    <2>2. /\ mq'.batch = mq.batch /\ mq'.flushing = mq.flushing /\ mq'.collected = mq.collected
          /\ mq'.busy = FALSE /\ mq' \in MqRows
      BY <1>1, <2>1, ListTypes DEF MqRows
    <2>3. exec'.at = "idle" /\ exec' \in ExecRows
      BY <1>1, <1>4, <2>1, ListTypes DEF Idle, ExecRows
    <2>4. ChatTypes'
      BY <1>1, <1>3, <2>2, <2>3 DEF ChatInv, ChatTypes
    <2>5. Flushed' = Flushed /\ Begun' = Begun
      BY <1>3, <2>2, <2>3 DEF Flushed, Begun
    <2>6. Texts'
      BY <1>1, <1>3, <1>4, <2>2, <2>3, <2>5 DEF Texts, Lists, Somewhere
    <2>7. Draining'
      BY <1>5, <2>2, <2>3 DEF Draining
    <2>. QED
      BY <1>1, <1>2, <1>3, <2>4, <2>6, <2>7, TalkStays DEF Inv, ChatInv
  <1>6. CASE mq.collected # << >>
    <2>1. exec' = Begins(mq.collected) /\ mq' = [mq EXCEPT !.collected = << >>]
      BY <1>6 DEF Done
    <2>2. /\ mq'.batch = mq.batch /\ mq'.flushing = mq.flushing /\ mq'.collected = << >>
          /\ mq'.busy = mq.busy /\ mq' \in MqRows
      BY <1>1, <1>4, <2>1, ListTypes DEF MqRows
    <2>3. exec'.at = "begin" /\ exec'.texts = mq.collected /\ exec' \in ExecRows
      BY <1>1, <2>1, ListTypes DEF Begins, ExecRows
    <2>4. ChatTypes'
      BY <1>1, <1>3, <2>2, <2>3 DEF ChatInv, ChatTypes
    <2>5. Flushed' = Flushed /\ Begun' = ToSet(mq.collected) /\ ToSet(mq'.collected) = {}
      BY <2>2, <2>3, EmptyList DEF Flushed, Begun
    <2>6. Lists'
      BY <1>1, <2>2, <2>3, EmptyList DEF Lists
    <2>7. Apart(todo', ToSet(mq'.batch), Flushed', ToSet(mq'.collected), Begun', Filed')
      BY <1>3, <1>4, <2>2, <2>5 DEF Apart
    <2>8. Somewhere' = Somewhere
      BY <1>3, <1>4, <2>2, <2>5 DEF Somewhere
    <2>9. Texts'
      BY <1>1, <1>3, <2>6, <2>7, <2>8 DEF Texts
    <2>10. Draining'
      BY <1>1, <1>6, <2>2, <2>3 DEF ChatInv, Draining
    <2>. QED
      BY <1>1, <1>2, <1>3, <2>4, <2>9, <2>10, TalkStays DEF Inv, ChatInv
  <1>. QED
    BY <1>5, <1>6

(* The texts of a run are filed under the session it finds active. *)
LEMMA BeginsStep ==
    ASSUME Inv, ExecBegins
    PROVE  Inv' /\ Abandoned
  <1>. DEFINE row == [sess[active] EXCEPT !.cancel = None]
  <1>1. ChatInv /\ EngineInv /\ Texts /\ Lists /\ NewTalk
    BY DEF Inv, ChatInv, Texts
  <1>2. /\ exec.at = "begin" /\ job' = Cancelled(active)
        /\ sess' = [sess EXCEPT ![active].cancel = None]
        /\ filed' = [m \in Messages |-> IF m \in ToSet(exec.texts) THEN active ELSE filed[m]]
        /\ UNCHANGED <<chan, stop, todo, mq, active, work, cmd, upsets, retired>>
    BY DEF ExecBegins
  <1>3. PICK at \in {"rotate", "mark"} : exec' = [exec EXCEPT !.at = at, !.s = active]
    BY DEF ExecBegins
  <1>4. EngineInv' /\ Abandoned
    BY <1>1, <1>2, Cancels, ListTypes
  <1>5. sess' \in [Sessions -> SessRows] /\ \A t \in Sessions : sess'[t].life = sess[t].life
    <2>1. sess[active] \in SessRows /\ sess' = [sess EXCEPT ![active] = row]
      BY <1>1, <1>2 DEF ChatInv, ChatTypes
    <2>2. row \in SessRows /\ row.life = sess[active].life
      BY <2>1 DEF SessRows
    <2>. HIDE DEF row
    <2>. QED
      BY <1>1, <2>1, <2>2, ListTypes, OneSession
  <1>6. exec' \in ExecRows /\ exec'.at = at /\ exec'.texts = exec.texts
    BY <1>1, <1>3, ListTypes DEF ExecRows
  <1>7. filed' \in [Messages -> Sessions \cup {0}]
    BY <1>1, <1>2, ListTypes
  <1>8. ChatTypes'
    BY <1>1, <1>2, <1>5, <1>6, <1>7 DEF ChatInv, ChatTypes
  <1>9. Flushed' = Flushed /\ Begun = ToSet(exec.texts) /\ Begun' = {}
    BY <1>2, <1>6 DEF Flushed, Begun
  <1>10. Filed' = Filed \cup Begun
    <2>1. 0 \notin Sessions /\ active \in Sessions
      BY <1>1, ChatConstants, ListTypes
    <2>2. ToSet(exec.texts) \subseteq Messages
      BY <1>1, ListTypes DEF ToSet
    <2>. QED
      BY <1>2, <1>9, <2>1, <2>2 DEF Filed
  <1>11. Apart(todo, ToSet(mq.batch), Flushed, ToSet(mq.collected), Begun, Filed)
    BY <1>1 DEF Texts
  <1>12. Lists'
    BY <1>1, <1>2, <1>6 DEF Lists
  <1>13. Apart(todo', ToSet(mq'.batch), Flushed', ToSet(mq'.collected), Begun', Filed')
    BY <1>2, <1>9, <1>10, <1>11 DEF Apart
  <1>14. Somewhere' = Somewhere
    BY <1>2, <1>9, <1>10 DEF Somewhere
  <1>15. Texts'
    BY <1>1, <1>2, <1>12, <1>13, <1>14 DEF Texts
  <1>16. Draining'
    BY <1>1, <1>2, <1>6 DEF ChatInv, Draining
  <1>17. NewTalk'
    BY <1>1, <1>2, <1>5, ListTypes DEF NewTalk
  <1>. QED
    BY <1>4, <1>8, <1>15, <1>16, <1>17 DEF Inv, ChatInv

----------------------------------------------------------------------------
(* The active session changes                                                *)

(* The texts are where they were. *)
LEMMA TextsStay ==
    ASSUME ChatInv, UNCHANGED <<todo, mq, exec, filed>>, stop \in Late => stop' \in Late
    PROVE  Texts' /\ Draining'
  <1>1. Begun' = Begun /\ Flushed' = Flushed /\ Filed' = Filed
    BY DEF Begun, Flushed, Filed
  <1>. QED
    BY <1>1 DEF ChatInv, Texts, Lists, Apart, Somewhere, Late, Draining

(* A new session has an id nobody has used, so no text has left it. *)
LEMMA NewStep ==
    ASSUME Inv, NEW c \in Commands, NewSession(c)
    PROVE  Inv' /\ Abandoned
  <1>1. ChatInv /\ EngineInv /\ NewTalk
    BY DEF Inv, ChatInv
  <1>2. /\ cmd[c] = "asked" /\ KindOf[c] = "new"
        /\ retired' = [retired EXCEPT !.now = retired.now \cup {active}]
        /\ UNCHANGED <<chan, stop, todo, mq, exec, upsets, filed>>
    BY DEF NewSession
  <1>3. PICK s \in Sessions, gone \in SUBSET Evictable :
          /\ NextSeq(s) /\ active' = s
          /\ sess' = [t \in Sessions |->
                        IF t = s THEN [NoSession EXCEPT !.life = "kept"]
                        ELSE IF t \in gone THEN [sess[t] EXCEPT !.life = "evicted"]
                        ELSE sess[t]]
    BY DEF NewSession
  <1>4. EngineInv' /\ Abandoned /\ work' \in [Jobs -> WorkRows]
        /\ cmd' \in [Commands -> {"asked", "clearing", "waiting", "done"}]
    <2>1. work \in [Jobs -> WorkRows] /\ cmd \in [Commands -> {"asked", "clearing", "waiting", "done"}]
      BY <1>1 DEF ChatInv, ChatTypes
    <2>2. CASE ShouldFlush(active)
      <3>1. EnqueueOn(Flush(c), active, "live") /\ cmd' = [cmd EXCEPT ![c] = "waiting"]
        BY <2>2 DEF NewSession
      <3>2. Flush(c) \in Jobs /\ active \in Sessions
        BY <1>1, <1>2, JobsOfCommands, ListTypes
      <3>. QED
        BY <1>2, <2>1, <3>1, <3>2, Enqueues
    <2>3. CASE ~ ShouldFlush(active)
      <3>1. cmd' = [cmd EXCEPT ![c] = "done"] /\ UNCHANGED <<job, work>>
        BY <2>3 DEF NewSession
      <3>. QED
        BY <1>1, <1>2, <2>1, <3>1, EngineStutters DEF laneVars
    <2>. QED
      BY <2>2, <2>3
  <1>5. sess[s].life = "unborn" /\ active \notin gone /\ active \in Sessions /\ active # s
    <2>1. s \in Nat /\ s >= s
      BY ChatConstants
    <2>. QED
      BY <1>1, <1>3, <2>1, ListTypes DEF NextSeq, Evictable, NewTalk
  <1>6. sess' \in [Sessions -> SessRows]
    <2>1. [NoSession EXCEPT !.life = "kept"] \in SessRows
      BY DEF NoSession, SessRows
    <2>2. ASSUME NEW t \in Sessions
          PROVE  sess[t] \in SessRows /\ [sess[t] EXCEPT !.life = "evicted"] \in SessRows
      <3>1. sess[t] \in SessRows
        BY <1>1 DEF ChatInv, ChatTypes
      <3>. QED
        BY <3>1 DEF SessRows
    <2>. QED
      BY <1>3, <2>1, <2>2
  <1>7. /\ sess'[s].life = "kept"
        /\ \A t \in Sessions : sess[t].life # "unborn" => sess'[t].life # "unborn"
    <2>1. [NoSession EXCEPT !.life = "kept"].life = "kept"
      BY DEF NoSession
    <2>2. ASSUME NEW t \in Sessions
          PROVE  [sess[t] EXCEPT !.life = "evicted"].life = "evicted"
      <3>1. sess[t] \in SessRows
        BY <1>1 DEF ChatInv, ChatTypes
      <3>. QED
        BY <3>1 DEF SessRows
    <2>. QED
      BY <1>3, <1>5, <2>1, <2>2
  <1>8. /\ retired'.now = retired.now \cup {active} /\ retired'.at = retired.at
        /\ retired' \in [now : SUBSET Sessions, at : [Messages -> SUBSET Sessions]]
    BY <1>1, <1>2, <1>5 DEF ChatInv, ChatTypes
  <1>9. ChatTypes'
    BY <1>1, <1>2, <1>3, <1>4, <1>6, <1>8 DEF ChatInv, ChatTypes
  <1>10. Texts' /\ Draining'
    BY <1>1, <1>2, TextsStay
  <1>11. NewTalk'
    BY <1>1, <1>2, <1>3, <1>5, <1>7, <1>8, ListTypes DEF NewTalk
  <1>. QED
    BY <1>4, <1>9, <1>10, <1>11 DEF Inv, ChatInv

LEMMA SwitchStep ==
    ASSUME Inv, NEW c \in Commands, NEW s \in Sessions, SwitchActive(c, s)
    PROVE  Inv' /\ Abandoned
  <1>1. ChatInv /\ EngineInv /\ NewTalk
    BY DEF Inv, ChatInv
  <1>2. /\ sess[s].life = "kept" /\ active' = s /\ cmd' = [cmd EXCEPT ![c] = "done"]
        /\ retired' = [now |-> retired.now \ {s},
                       at |-> [m \in Messages |-> retired.at[m] \ {s}]]
        /\ UNCHANGED <<job, chan, stop, todo, mq, exec, sess, work, upsets, filed>>
    BY DEF SwitchActive, There, laneVars
  <1>3. EngineInv' /\ Abandoned
    BY <1>1, <1>2, EngineStutters DEF laneVars
  <1>4. retired' \in [now : SUBSET Sessions, at : [Messages -> SUBSET Sessions]]
    BY <1>1, <1>2, ListTypes
  <1>5. ChatTypes'
    BY <1>1, <1>2, <1>4 DEF ChatInv, ChatTypes
  <1>6. Texts' /\ Draining'
    BY <1>1, <1>2, TextsStay
  <1>7. NewTalk'
    BY <1>1, <1>2 DEF NewTalk
  <1>. QED
    BY <1>3, <1>5, <1>6, <1>7 DEF Inv, ChatInv

----------------------------------------------------------------------------
(* queue.Close empties the batch, and only then.                             *)

LEMMA StopsStep ==
    ASSUME Inv, Stop
    PROVE  Inv' /\ Abandoned
  <1>1. ChatInv /\ EngineInv /\ Texts /\ Lists
    BY DEF Inv, ChatInv, Texts
  <1>2. /\ StopStep /\ UNCHANGED <<todo, exec, sess, active, work, cmd, upsets, filed, retired>>
        /\ mq' = IF stop = "swept" THEN [mq EXCEPT !.batch = << >>] ELSE mq
    BY DEF Stop
  <1>3. EngineInv' /\ Abandoned
    BY <1>1, <1>2, GoesDown
  <1>4. (stop \in Late => stop' \in Late) /\ (stop = "swept" => stop' \in Late)
    BY <1>2 DEF StopStep, Alive, NextStop, Late
  <1>5. CASE stop # "swept"
    <2>1. UNCHANGED chatVars
      BY <1>2, <1>5 DEF chatVars
    <2>. QED
      BY <1>1, <1>3, <1>4, <2>1, ChatStutters DEF Inv
  <1>6. CASE stop = "swept"
    <2>1. /\ mq'.batch = << >> /\ mq'.flushing = mq.flushing /\ mq'.collected = mq.collected
          /\ mq'.busy = mq.busy /\ mq' \in MqRows
      <3>1. << >> \in Seq(Messages)
        BY EmptySeq
      <3>. QED
        BY <1>1, <1>2, <1>6, <3>1, ListTypes DEF MqRows
    <2>2. ChatTypes'
      BY <1>1, <1>2, <2>1 DEF ChatInv, ChatTypes
    <2>3. Begun' = Begun /\ Flushed' = Flushed /\ Filed' = Filed /\ ToSet(mq'.batch) = {}
      BY <1>2, <2>1, EmptyList DEF Begun, Flushed, Filed
    <2>4. Lists'
      BY <1>1, <1>2, <2>1, EmptyList DEF Lists
    <2>5. Apart(todo', ToSet(mq'.batch), Flushed', ToSet(mq'.collected), Begun', Filed')
      <3>1. Apart(todo, ToSet(mq.batch), Flushed, ToSet(mq.collected), Begun, Filed)
        BY <1>1 DEF Texts
      <3>. QED
        BY <1>2, <2>1, <2>3, <3>1 DEF Apart
    <2>6. Texts'
      BY <1>4, <1>6, <2>4, <2>5 DEF Texts, Late
    <2>7. Draining'
      BY <1>1, <1>2, <2>1 DEF ChatInv, Draining
    <2>. QED
      BY <1>1, <1>2, <1>3, <2>2, <2>6, <2>7, TalkStays DEF Inv, ChatInv
  <1>. QED
    BY <1>5, <1>6

----------------------------------------------------------------------------
(* The invariant                                                             *)

LEMMA Starts ==
    ASSUME Init
    PROVE  Inv
  <1>1. EngineInv
    <2>1. Unused \in JobRows /\ SoundJob(Unused)
      BY DEF Unused, JobRows, SoundJob, Epochs, Up
    <2>2. << >> \in Seq(Jobs) /\ Len(<< >>) = 0
      BY EmptySeq
    <2>3. /\ job = [j \in Jobs |-> Unused] /\ chan = [l \in LaneIds |-> << >>] /\ stop = "up"
      BY DEF Init, LanesInit
    <2>4. LanesTypeOK
      <3>1. job \in [Jobs -> JobRows] /\ chan \in [LaneIds -> Seq(Jobs)]
        BY <2>1, <2>2, <2>3
      <3>2. stop \in DOMAIN NextStop \cup {"gone"}
        BY <2>3, StopNames DEF Stops
      <3>. QED
        BY <3>1, <3>2 DEF LanesTypeOK, JobRows
    <2>5. \A j \in Jobs : SoundJob(job[j]) /\ job[j].at = "none" /\ job[j].epoch = "serving"
      BY <2>1, <2>3 DEF Unused
    <2>. QED
      BY <2>2, <2>3, <2>4, <2>5 DEF EngineInv, Held
  <1>2. PICK asked \in Together, due \in BOOLEAN :
          /\ cmd = [c \in Commands |-> IF c \in asked THEN "asked" ELSE "done"]
          /\ upsets = Cardinality(asked) + (IF due THEN 1 ELSE 0)
          /\ upsets <= MaxUpsets
          /\ sess = [s \in Sessions |->
                       IF s \in {1, 2} THEN [NoSession EXCEPT !.life = "kept", !.conv = Stored,
                                                      !.spoken = TRUE, !.due = due /\ s = 1]
                       ELSE NoSession]
    BY DEF Init
  <1>3. /\ todo = Messages /\ exec = Idle /\ active = 1 /\ work = [j \in Jobs |-> NoWork]
        /\ mq = [batch |-> << >>, flushing |-> {}, busy |-> FALSE, collected |-> << >>]
        /\ filed = [m \in Messages |-> 0]
        /\ retired = [now |-> {}, at |-> [m \in Messages |-> {}]]
    BY DEF Init
  <1>4. 1 \in Sessions /\ 0 \notin Sessions /\ << >> \in Seq(Messages)
    BY ChatConstants, EmptySeq
  <1>5. upsets \in 0 .. MaxUpsets
    <2>1. MaxUpsets \in Nat /\ IsFiniteSet(asked)
      BY ChatConstants
    <2>2. Cardinality(asked) \in Nat
      BY <2>1, FS_CardinalityType
    <2>3. upsets = Cardinality(asked) + (IF due THEN 1 ELSE 0) /\ upsets <= MaxUpsets
      BY <1>2, Zenon
    <2>. QED
      BY <2>1, <2>2, <2>3
  <1>6. sess \in [Sessions -> SessRows] /\ sess[active].life = "kept"
    <2>1. \A s \in Sessions :
            [NoSession EXCEPT !.life = "kept", !.conv = Stored,
                              !.spoken = TRUE, !.due = due /\ s = 1] \in SessRows
      BY DEF NoSession, SessRows
    <2>2. NoSession \in SessRows
      BY DEF NoSession, SessRows
    <2>3. [NoSession EXCEPT !.life = "kept", !.conv = Stored,
                            !.spoken = TRUE, !.due = due /\ 1 = 1].life = "kept"
      BY DEF NoSession
    <2>. QED
      BY <1>2, <1>3, <1>4, <2>1, <2>2, <2>3
  <1>7. ChatTypes
    <2>1. mq \in MqRows
      BY <1>3, <1>4 DEF MqRows
    <2>2. exec \in ExecRows
      BY <1>3, <1>4 DEF ExecRows, Idle
    <2>3. work \in [Jobs -> WorkRows]
      BY <1>3, <1>4 DEF NoWork, WorkRows
    <2>4. cmd \in [Commands -> {"asked", "clearing", "waiting", "done"}]
      BY <1>2
    <2>5. filed \in [Messages -> Sessions \cup {0}]
      BY <1>3
    <2>6. retired \in [now : SUBSET Sessions, at : [Messages -> SUBSET Sessions]]
      BY <1>3
    <2>. QED
      BY <1>3, <1>4, <1>5, <1>6, <2>1, <2>2, <2>3, <2>4, <2>5, <2>6 DEF ChatTypes
  <1>8. Texts
    <2>1. /\ mq.batch = << >> /\ mq.collected = << >> /\ mq.flushing = {} /\ exec.at = "idle"
      BY <1>3 DEF Idle
    <2>2. Flushed = {} /\ Begun = {} /\ Filed = {} /\ ToSet(mq.batch) = {} /\ ToSet(mq.collected) = {}
      BY <1>3, <2>1, EmptyList DEF Flushed, Begun, Filed
    <2>3. Lists
      BY <2>1, EmptyList DEF Lists
    <2>. QED
      BY <1>3, <2>2, <2>3 DEF Texts, Apart, Somewhere
  <1>9. Draining
    BY <1>3 DEF Draining, Idle
  <1>10. NewTalk
    BY <1>3, <1>6 DEF NewTalk
  <1>. QED
    BY <1>1, <1>7, <1>8, <1>9, <1>10 DEF Inv, ChatInv

LEMMA Steps ==
    ASSUME Inv, [Next]_vars
    PROVE  Inv' /\ Abandoned
  <1>1. CASE UNCHANGED vars
    <2>1. UNCHANGED laneVars /\ UNCHANGED chatVars /\ stop' = stop
      BY <1>1 DEF vars, laneVars
    <2>. QED
      BY <2>1, EngineStutters, ChatStutters DEF Inv
  <1>2. CASE DebounceEnds
    BY <1>2, DebounceStep
  <1>3. CASE \E texts \in mq.flushing : TryRun(texts)
    BY <1>3, RunOrCollectStep
  <1>4. CASE ExecStep
    BY <1>4, DoneStep, BeginsStep, RunSteps DEF ExecStep
  <1>5. CASE \E l \in LaneIds : LaneGoroutine(l)
    BY <1>5, EngineSteps, JobSteps DEF LaneGoroutine
  <1>6. CASE \E c \in Commands : CommandReturns(c)
    BY <1>6, CommandSteps DEF CommandReturns
  <1>7. CASE \E j \in Jobs :
               \/ Engine(Offer(j)) \/ Engine(TimesOut(j))
               \/ TurnSpawns(j) \/ TurnNamesConversation(j) \/ JobFinishes(j)
               \/ \E big \in BOOLEAN : TurnAnswers(j, big)
    BY <1>7, EngineSteps, TurnSteps, JobSteps
  <1>8. CASE \E m \in Messages : Submit(m)
    BY <1>8, SubmitStep
  <1>9. CASE PlaceholderFails
    BY <1>9, RunSteps
  <1>10. CASE \E c \in Commands : CommandStarts(c)
    BY <1>10, CommandSteps, NewStep, SwitchStep DEF CommandStarts
  <1>11. CASE \E j \in Jobs : Engine(OfferPanics(j)) \/ TurnFails(j) \/ JobPanics(j)
                                \/ TurnContinues(j)
    BY <1>11, EngineSteps, TurnSteps, JobSteps
  <1>12. CASE Stop
    BY <1>12, StopsStep
  <1>. QED
    BY <1>1, <1>2, <1>3, <1>4, <1>5, <1>6, <1>7, <1>8, <1>9, <1>10, <1>11, <1>12 DEF Next, Progress

(* What a chat is built on: its engine is sound, its texts are apart, and what  *)
(* has been retired is not active.  Of the engine the invariant adds that a     *)
(* lane has one job in hand and a process belongs to a job that runs, of the     *)
(* texts that each list names a text once and no two lists share one.          *)
THEOREM ChatIsKept == Spec => []Inv
  <1>1. Init => Inv
    BY Starts
  <1>2. Inv /\ [Next]_vars => Inv'
    BY Steps
  <1>. QED
    BY <1>1, <1>2, PTL DEF Spec

----------------------------------------------------------------------------
(* What it implies                                                           *)

LEMMA HeldOnce ==
    ASSUME NEW s \in Seq(Messages), NEW m \in Messages, Once(s)
    PROVE  Holds(s, m) = IF m \in ToSet(s) THEN 1 ELSE 0
  <1>. DEFINE places == {i \in DOMAIN s : s[i] = m}
  <1>1. DOMAIN s = 1 .. Len(s)
    BY LenProperties
  <1>2. CASE m \in ToSet(s)
    <2>1. PICK i \in DOMAIN s : s[i] = m
      BY <1>2 DEF ToSet
    <2>2. places = {i}
      BY <1>1, <2>1 DEF Once
    <2>3. Cardinality({i}) = 1
      BY FS_Singleton
    <2>. QED
      BY <1>2, <2>2, <2>3 DEF Holds
  <1>3. CASE m \notin ToSet(s)
    <2>1. places = {}
      BY <1>3 DEF ToSet
    <2>2. Cardinality({}) = 0
      BY FS_EmptySet
    <2>. QED
      BY <1>3, <2>1, <2>2 DEF Holds
  <1>. QED
    BY <1>2, <1>3

LEMMA FlushedOnce ==
    ASSUME ChatInv, NEW m \in Messages
    PROVE  Cardinality({t \in mq.flushing : Holds(t, m) > 0}) = IF m \in Flushed THEN 1 ELSE 0
  <1>. DEFINE with == {t \in mq.flushing : Holds(t, m) > 0}
  <1>1. Lists
    BY DEF ChatInv, Texts
  <1>2. \A t \in mq.flushing : Holds(t, m) > 0 <=> m \in ToSet(t)
    <2>. SUFFICES ASSUME NEW t \in mq.flushing PROVE Holds(t, m) > 0 <=> m \in ToSet(t)
      OBVIOUS
    <2>1. t \in Seq(Messages) /\ Once(t)
      BY <1>1, ListTypes DEF Lists
    <2>2. Holds(t, m) = IF m \in ToSet(t) THEN 1 ELSE 0
      BY <2>1, HeldOnce
    <2>. QED
      BY <2>2
  <1>3. CASE m \in Flushed
    <2>1. PICK t \in mq.flushing : m \in ToSet(t)
      BY <1>3 DEF Flushed
    <2>2. with = {t}
      BY <1>1, <1>2, <2>1 DEF Lists
    <2>3. Cardinality({t}) = 1
      BY FS_Singleton
    <2>. QED
      BY <1>3, <2>2, <2>3
  <1>4. CASE m \notin Flushed
    <2>1. with = {}
      BY <1>2, <1>4 DEF Flushed
    <2>2. Cardinality({}) = 0
      BY FS_EmptySet
    <2>. QED
      BY <1>4, <2>1, <2>2
  <1>. QED
    BY <1>3, <1>4

LEMMA KeptTexts ==
    ASSUME Inv
    PROVE  TextsAreKept
  <1>1. /\ ChatInv /\ Lists
        /\ Apart(todo, ToSet(mq.batch), Flushed, ToSet(mq.collected), Begun, Filed)
        /\ stop \in Late \/ Messages \subseteq Somewhere
    BY DEF Inv, ChatInv, Texts, Late
  <1>. SUFFICES ASSUME NEW m \in Messages
                PROVE  LET places == OnItsWay(m) + (IF m \in todo THEN 1 ELSE 0)
                                     + (IF filed[m] # 0 THEN 1 ELSE 0)
                       IN  places = 1 \/ (places = 0 /\ stop \in {"muted", "closed", "gone"})
    BY DEF TextsAreKept
  <1>2. Holds(mq.batch, m) = IF m \in ToSet(mq.batch) THEN 1 ELSE 0
    BY <1>1, ListTypes, HeldOnce DEF Lists
  <1>3. Holds(mq.collected, m) = IF m \in ToSet(mq.collected) THEN 1 ELSE 0
    BY <1>1, ListTypes, HeldOnce DEF Lists
  <1>4. Cardinality({t \in mq.flushing : Holds(t, m) > 0}) = IF m \in Flushed THEN 1 ELSE 0
    BY <1>1, FlushedOnce
  <1>5. (IF exec.at = "begin" THEN Holds(exec.texts, m) ELSE 0) = IF m \in Begun THEN 1 ELSE 0
    <2>1. CASE exec.at = "begin"
      <3>1. Holds(exec.texts, m) = IF m \in ToSet(exec.texts) THEN 1 ELSE 0
        BY <1>1, <2>1, ListTypes, HeldOnce DEF Lists
      <3>. QED
        BY <2>1, <3>1 DEF Begun
    <2>2. CASE exec.at # "begin"
      BY <2>2 DEF Begun
    <2>. QED
      BY <2>1, <2>2
  <1>6. (IF filed[m] # 0 THEN 1 ELSE 0) = IF m \in Filed THEN 1 ELSE 0
    BY DEF Filed
  <1>7. OnItsWay(m) = (IF m \in ToSet(mq.batch) THEN 1 ELSE 0)
                      + (IF m \in ToSet(mq.collected) THEN 1 ELSE 0)
                      + (IF m \in Flushed THEN 1 ELSE 0) + (IF m \in Begun THEN 1 ELSE 0)
    BY <1>2, <1>3, <1>4, <1>5 DEF OnItsWay
  <1>. QED
    BY <1>1, <1>6, <1>7 DEF Apart, Somewhere, Late

LEMMA OneProcess ==
    ASSUME Inv
    PROVE  OneProcessPerChat
  <1>. SUFFICES ASSUME stop \notin {"closed", "gone"}, NEW j \in Jobs, NEW k \in Jobs,
                       {job[j].cli, job[k].cli} \subseteq Up, LaneOf[j] = LaneOf[k]
                PROVE  j = k
    BY DEF OneProcessPerChat
  <1>1. SoundJob(job[j]) /\ SoundJob(job[k]) /\ EngineInv
    BY DEF Inv, EngineInv
  <1>2. job[j].at \in Held /\ job[k].at \in Held
    BY <1>1 DEF SoundJob, Held
  <1>3. LaneFor(j) = LaneFor(k)
    BY <1>1 DEF EngineInv, LaneFor
  <1>. QED
    BY <1>1, <1>2, <1>3 DEF EngineInv

(* The engine, the queue, the sessions and the commands have their types, and   *)
(* the active session is one that is kept (session.Manager).                  *)
THEOREM TypeCorrect == Spec => []TypeOK
  <1>1. Inv => TypeOK
    BY DEF Inv, EngineInv, ChatInv, ChatTypes, NewTalk, TypeOK, MqRows, ExecRows, SessRows, WorkRows
  <1>. QED
    BY <1>1, ChatIsKept, PTL

(* A text that was written is on its way once or was run once, however the      *)
(* debouncer, the collector and the draining run take turns (msgqueue).        *)
THEOREM NoTextIsLost == Spec => []TextsAreKept
  BY KeptTexts, ChatIsKept, PTL

(* Nothing is collected behind a run that has ended (Collector.Done).          *)
THEOREM CollectedHasARun == Spec => []CollectedIsDrained
  <1>1. Inv => CollectedIsDrained
    BY DEF Inv, ChatInv, Draining, CollectedIsDrained
  <1>. QED
    BY <1>1, ChatIsKept, PTL

(* What is written after /new is run on a session /new did not leave.          *)
THEOREM NewTalkGoesNew == Spec => []NewTalkIsFiledNew
  <1>1. Inv => NewTalkIsFiledNew
    BY DEF Inv, ChatInv, NewTalk, NewTalkIsFiledNew
  <1>. QED
    BY <1>1, ChatIsKept, PTL

(* Until the engine closes, a chat has one CLI process at most, also when the    *)
(* caller of its job has left (execution.Queue: one goroutine per lane).       *)
THEOREM ChatHasOneProcess == Spec => []OneProcessPerChat
  BY OneProcess, ChatIsKept, PTL

(* The five together: what the run of the chat checks. *)
THEOREM ChatIsSafe == Spec => []ChatSafe
  BY TypeCorrect, NoTextIsLost, CollectedHasARun, NewTalkGoesNew, ChatHasOneProcess, PTL
     DEF ChatSafe

(* A job nobody waits for any more starts no process: the lane turns it away    *)
(* (executeOne looks at the context before it runs the job).                  *)
THEOREM AbandonedStayIdle == Spec => AbandonedNeverRuns
  <1>1. Inv /\ [Next]_vars => Abandoned
    BY Steps
  <1>2. Abandoned => \A j \in Jobs : job[j].call = "gaveup" /\ job[j].cli \notin Up
                                       => job'[j].cli \notin Up
    BY DEF Abandoned
  <1>. QED
    BY <1>1, <1>2, ChatIsKept, PTL DEF Spec, AbandonedNeverRuns

-----------------------------------------------------------------------------
(* The sessions of a chat and their rows, Sessions.tla. *)

CONSTANTS TalkLanes, TalkCommands, Timer, MaxSeq, Cap, MaxChanges, MaxFaults

VARIABLES chat, mu, timer, rows, state, spoke, saver, worker, quiet, faults

Talks == INSTANCE Sessions WITH Lanes <- TalkLanes, Commands <- TalkCommands

LEMMA LeastOf ==
    ASSUME NEW S \in SUBSET Nat, S # {}
    PROVE  \E k \in S : \A j \in S : k <= j
  <1>. DEFINE R == {ss \in Nat \X Nat : ss[1] < ss[2]}
  <1>1. IsWellFoundedOn(R, Nat)
    BY NatLessThanWellFounded DEF OpToRel
  <1>2. PICK x \in S : \A y \in S : ~ (<<y, x>> \in R)
    BY <1>1, WFMin
  <1>3. ASSUME NEW y \in S
        PROVE  x <= y
    <2>1. <<y, x>> \in Nat \X Nat /\ <<y, x>>[1] = y /\ <<y, x>>[2] = x
      OBVIOUS
    <2>2. <<y, x>> \notin R
      BY <1>2
    <2>3. ~ (y < x)
      BY <2>1, <2>2
    <2>. QED
      BY <2>3
  <1>. QED
    BY <1>3

Covers(p, i) == Talks!On(p) /\ i \in saver[p].due
RowsHold(p, i) == i \in DOMAIN saver[p].took => saver[p].took[i] = chat.has[i]
Maps == UNION {[D -> 0 .. MaxChanges] : D \in SUBSET Talks!Ids}

SessTypes ==
    /\ chat \in [active : Talks!Ids \cup {Talks!NoId}, next : 0 .. MaxSeq + 1, has : Maps]
    /\ rows \in Maps /\ spoke \subseteq Talks!Ids
    /\ state \in [active : Talks!Ids \cup {Talks!NoId}, next : 0 .. MaxSeq + 1]
    /\ timer \in BOOLEAN /\ quiet \in BOOLEAN
    /\ mu \in Talks!Workers \cup {Talks!Nobody}
    /\ saver \in [Talks!Savers -> [at : {"off", "on"}, due : SUBSET Talks!Ids, took : Maps]]
    /\ worker \in [Talks!Workers -> [at : {"idle", "turn", "run", "evict", "saving"}, id : Talks!Ids \cup {Talks!NoId}]]
    /\ faults \in 0 .. MaxFaults

SaverInv ==
    /\ \A w \in Talks!Workers : worker[w].at = "saving" <=> saver[w].at = "on"
    /\ \A p \in Talks!Savers : saver[p].at = "off" => saver[p].due = {} /\ saver[p].took = <<>>

IdsInv ==
    /\ \A i \in Talks!Has : i < chat.next
    /\ \A p \in Talks!Savers : \A i \in DOMAIN saver[p].took : i < chat.next
    /\ \A i \in DOMAIN rows : i < chat.next /\ i < state.next
    /\ spoke \subseteq DOMAIN rows

EvictInv ==
    /\ \A w \in Talks!Workers : Talks!At(w, "evict") => mu = w /\ worker[w].id \notin Talks!Has /\ chat.next \in 1 .. MaxSeq
    /\ Talks!Has = {} /\ mu = Talks!Nobody =>
        /\ chat = Talks!NoChat /\ ~timer /\ rows = <<>>
        /\ \A p \in Talks!Savers : ~Talks!On(p)
        /\ \A w \in Talks!Workers : Talks!At(w, "idle")

RowInv ==
    ~quiet => \A i \in Talks!Has : i \in DOMAIN rows \/ \E p \in Talks!Savers : Covers(p, i)

SaveInv ==
    /\ \A p \in Talks!Savers : \A i \in DOMAIN saver[p].took : i \in Talks!Has => saver[p].took[i] <= chat.has[i]
    /\ ~quiet /\ ~timer => \A i \in Talks!Has :
        (i \in DOMAIN rows /\ rows[i] = chat.has[i]) \/ \E p \in Talks!Savers : Covers(p, i) /\ RowsHold(p, i)
    /\ ~quiet /\ ~timer /\ Talks!Has # {} => state = Talks!Saved \/ \E p \in Talks!Savers : Talks!On(p)

SessInv == SessTypes /\ SaverInv /\ IdsInv /\ EvictInv /\ RowInv /\ SaveInv

----------------------------------------------------------------------------

LEMMA MapsHave ==
    ASSUME NEW f \in Maps
    PROVE  /\ DOMAIN f \subseteq Talks!Ids /\ f \in [DOMAIN f -> 0 .. MaxChanges]
           /\ \A i \in DOMAIN f : f[i] \in 0 .. MaxChanges
           /\ DOMAIN f = {} => f = <<>>
  <1>1. PICK D \in SUBSET Talks!Ids : f \in [D -> 0 .. MaxChanges]
    BY DEF Maps
  <1>2. DOMAIN f = {} => f = <<>>
    BY <1>1
  <1>. QED
    BY <1>1, <1>2

LEMMA MapsTake ==
    ASSUME NEW D \in SUBSET Talks!Ids, NEW f \in [D -> 0 .. MaxChanges]
    PROVE  f \in Maps
  BY DEF Maps

LEMMA NoMap == <<>> \in Maps /\ DOMAIN <<>> = {}
  <1>1. <<>> \in [{} -> 0 .. MaxChanges] /\ DOMAIN <<>> = {}
    OBVIOUS
  <1>. QED
    BY <1>1, MapsTake

LEMMA WithIs ==
    ASSUME NEW f \in Maps, NEW i \in Talks!Ids, NEW v \in 0 .. MaxChanges
    PROVE  /\ Talks!With(f, i, v) \in Maps
           /\ DOMAIN Talks!With(f, i, v) = DOMAIN f \cup {i} /\ Talks!With(f, i, v)[i] = v
           /\ \A j \in DOMAIN f : j # i => Talks!With(f, i, v)[j] = f[j]
  <1>1. DOMAIN f \cup {i} \in SUBSET Talks!Ids
    BY MapsHave
  <1>2. Talks!With(f, i, v) \in [DOMAIN f \cup {i} -> 0 .. MaxChanges]
    BY MapsHave DEF Talks!With
  <1>3. Talks!With(f, i, v) \in Maps
    BY <1>1, <1>2, MapsTake
  <1>. QED
    BY <1>3 DEF Talks!With

LEMMA WithoutIs ==
    ASSUME NEW f \in Maps, NEW i
    PROVE  /\ Talks!Without(f, i) \in Maps
           /\ DOMAIN Talks!Without(f, i) = DOMAIN f \ {i}
           /\ \A j \in DOMAIN f : j # i => Talks!Without(f, i)[j] = f[j]
  <1>1. DOMAIN f \ {i} \in SUBSET Talks!Ids
    BY MapsHave
  <1>2. Talks!Without(f, i) \in [DOMAIN f \ {i} -> 0 .. MaxChanges]
    BY MapsHave DEF Talks!Without
  <1>3. Talks!Without(f, i) \in Maps
    BY <1>1, <1>2, MapsTake
  <1>. QED
    BY <1>3 DEF Talks!Without

LEMMA BelowByOne ==
    ASSUME NEW S, NEW m \in Nat, \A v \in S : v < m /\ v \in Nat
    PROVE  \A v \in S : v <= m - 1
  <1>. SUFFICES ASSUME NEW v \in S
                PROVE  v <= m - 1
    OBVIOUS
  <1>1. v < m /\ v \in Nat
    OBVIOUS
  <1>. QED
    BY <1>1

LEMMA TotalIsGreatest ==
    ASSUME Talks!SessionsConstants, SessTypes
    PROVE  Talks!Total \in 0 .. MaxChanges /\ \A i \in Talks!Has : chat.has[i] <= Talks!Total
  <1>. DEFINE vs == {chat.has[i] : i \in Talks!Has}
              above == {u \in Nat : \A v \in vs : v <= u}
  <1>1. \A v \in vs : v \in 0 .. MaxChanges
    BY MapsHave DEF SessTypes, Talks!Has
  <1>2. MaxChanges \in Nat
    BY DEF Talks!SessionsConstants
  <1>3. CASE vs = {}
    <2>1. Talks!Has = {}
      BY <1>3
    <2>2. Talks!Total = 0
      BY <1>3 DEF Talks!Total
    <2>. QED
      BY <1>2, <2>1, <2>2
  <1>4. CASE vs # {}
    <2>1. MaxChanges \in above
      BY <1>1, <1>2
    <2>2. PICK m \in above : \A u \in above : m <= u
      BY <2>1, LeastOf
    <2>3. m \in vs
      <3>. SUFFICES ASSUME m \notin vs
                    PROVE  FALSE
        OBVIOUS
      <3>1. \A v \in vs : v < m /\ v \in Nat
        BY <1>1, <2>2
      <3>2. m \in Nat /\ m - 1 \in Nat
        <4>1. PICK v \in vs : v < m /\ v \in Nat
          BY <1>4, <3>1
        <4>. QED
          BY <4>1
      <3>. HIDE DEF vs
      <3>3. \A v \in vs : v <= m - 1
        BY <3>1, <3>2, BelowByOne
      <3>4. m - 1 \in above
        BY <3>2, <3>3
      <3>. QED
        BY <2>2, <3>2, <3>4
    <2>4. \E v \in vs : \A u \in vs : u <= v
      BY <2>2, <2>3
    <2>5. Talks!Total = CHOOSE v \in vs : \A u \in vs : u <= v
      BY <1>4 DEF Talks!Total
    <2>6. Talks!Total \in vs /\ \A u \in vs : u <= Talks!Total
      BY <2>4, <2>5
    <2>. QED
      BY <1>1, <2>6
  <1>. QED
    BY <1>3, <1>4

(* What the helpers of the actions do to the variables they change. *)
LEMMA TouchedIs ==
    ASSUME Talks!SessionsConstants, SessTypes, NEW i \in Talks!Has, Talks!Total < MaxChanges
    PROVE  /\ Talks!Touched(i) \in [active : Talks!Ids \cup {Talks!NoId}, next : 0 .. MaxSeq + 1, has : Maps]
           /\ Talks!Touched(i).active = chat.active /\ Talks!Touched(i).next = chat.next
           /\ DOMAIN Talks!Touched(i).has = Talks!Has
           /\ \A j \in Talks!Has : chat.has[j] <= Talks!Touched(i).has[j]
  <1>1. Talks!Total + 1 \in 0 .. MaxChanges /\ i \in Talks!Ids /\ chat.has \in Maps
    BY TotalIsGreatest, MapsHave DEF SessTypes, Talks!Has, Talks!SessionsConstants
  <1>2. Talks!Touched(i).has = Talks!With(chat.has, i, Talks!Total + 1) /\ Talks!Touched(i).active = chat.active
        /\ Talks!Touched(i).next = chat.next
        /\ Talks!Touched(i) = [active |-> chat.active, next |-> chat.next, has |-> Talks!With(chat.has, i, Talks!Total + 1)]
    BY DEF Talks!Touched, SessTypes
  <1>3. /\ Talks!With(chat.has, i, Talks!Total + 1) \in Maps /\ DOMAIN Talks!With(chat.has, i, Talks!Total + 1) = Talks!Has \cup {i}
        /\ Talks!With(chat.has, i, Talks!Total + 1)[i] = Talks!Total + 1
        /\ \A j \in Talks!Has : j # i => Talks!With(chat.has, i, Talks!Total + 1)[j] = chat.has[j]
    BY <1>1, WithIs DEF Talks!Has
  <1>4. ASSUME NEW j \in Talks!Has
        PROVE  chat.has[j] <= Talks!Touched(i).has[j]
    <2>1. chat.has[j] \in Nat /\ chat.has[j] <= Talks!Total /\ Talks!Total \in Nat
      BY TotalIsGreatest, MapsHave, <1>1 DEF Talks!Has
    <2>. QED
      BY <1>2, <1>3, <2>1
  <1>5. chat.active \in Talks!Ids \cup {Talks!NoId} /\ chat.next \in 0 .. MaxSeq + 1
    BY DEF SessTypes
  <1>6. Talks!Has \cup {i} = Talks!Has
    OBVIOUS
  <1>7. Talks!Touched(i) \in [active : Talks!Ids \cup {Talks!NoId}, next : 0 .. MaxSeq + 1, has : Maps]
    BY <1>2, <1>3, <1>5
  <1>. QED
    BY <1>2, <1>3, <1>4, <1>6, <1>7

LEMMA BeginsIs ==
    ASSUME SessTypes, NEW p \in Talks!Savers, NEW hs \in SUBSET Talks!Ids, Talks!SaveBegins(p, hs)
    PROVE  /\ saver' \in [Talks!Savers -> [at : {"off", "on"}, due : SUBSET Talks!Ids, took : Maps]]
           /\ saver'[p] = [at |-> "on", due |-> hs, took |-> <<>>]
           /\ \A q \in Talks!Savers : q # p => saver'[q] = saver[q]
           /\ ~timer' /\ ~quiet' /\ timer' \in BOOLEAN /\ quiet' \in BOOLEAN
  BY NoMap DEF SessTypes, Talks!SaveBegins, Talks!Resting

LEMMA GoesIs ==
    ASSUME SessTypes, NEW w \in Talks!Workers, NEW i \in Talks!Ids \cup {Talks!NoId},
           NEW to \in {"idle", "turn", "run", "evict", "saving"}, Talks!Goes(w, to, i)
    PROVE  /\ worker' \in [Talks!Workers -> [at : {"idle", "turn", "run", "evict", "saving"}, id : Talks!Ids \cup {Talks!NoId}]]
           /\ worker'[w] = [at |-> to, id |-> i]
           /\ \A v \in Talks!Workers : v # w => worker'[v] = worker[v]
  BY DEF SessTypes, Talks!Goes

(* The part counts with a Cardinality of its own. *)
LEMMA SameCount ==
    ASSUME NEW S
    PROVE  Talks!Cardinality(S) = Cardinality(S)
  BY DEF Talks!Cardinality, Cardinality

(* A new session, or the first of the chat: its save covers every session there is. *)
LEMMA CreatesIs ==
    ASSUME Talks!SessionsConstants, SessInv, NEW w \in Talks!Workers, Talks!Creates(w, chat), chat.next \in 0 .. MaxSeq
    PROVE  /\ chat' \in [active : Talks!Ids \cup {Talks!NoId}, next : 0 .. MaxSeq + 1, has : Maps]
           /\ chat'.active = chat.next /\ chat'.next = chat.next + 1
           /\ Talks!Has' = Talks!Has \cup {chat.next} /\ chat.next \notin Talks!Has
           /\ \A i \in Talks!Has : chat'.has[i] = chat.has[i]
           /\ worker'[w] = [at |-> "saving", id |-> chat.next]
           /\ worker' \in [Talks!Workers -> [at : {"idle", "turn", "run", "evict", "saving"}, id : Talks!Ids \cup {Talks!NoId}]]
           /\ \A v \in Talks!Workers : v # w => worker'[v] = worker[v]
           /\ saver' \in [Talks!Savers -> [at : {"off", "on"}, due : SUBSET Talks!Ids, took : Maps]]
           /\ saver'[w] = [at |-> "on", due |-> Talks!Has', took |-> <<>>]
           /\ \A q \in Talks!Savers : q # w => saver'[q] = saver[q]
           /\ ~timer' /\ ~quiet' /\ timer' \in BOOLEAN /\ quiet' \in BOOLEAN
  <1>1. chat.next \in Talks!Ids /\ chat.has \in Maps /\ 0 \in 0 .. MaxChanges /\ MaxSeq \in Nat
        /\ chat.next + 1 \in 0 .. MaxSeq + 1 /\ w \in Talks!Savers
    BY DEF SessInv, SessTypes, Talks!Ids, Talks!SessionsConstants, Talks!Savers
  <1>2. /\ Talks!With(chat.has, chat.next, 0) \in Maps
        /\ DOMAIN Talks!With(chat.has, chat.next, 0) = Talks!Has \cup {chat.next}
        /\ \A i \in Talks!Has : i # chat.next => Talks!With(chat.has, chat.next, 0)[i] = chat.has[i]
    <2>. DEFINE f == chat.has
                i == chat.next
                v == 0
    <2>0. f \in Maps /\ i \in Talks!Ids /\ v \in 0 .. MaxChanges
      BY <1>1
    <2>. HIDE DEF f, i, v
    <2>1. Talks!With(f, i, v) \in Maps /\ DOMAIN Talks!With(f, i, v) = DOMAIN f \cup {i}
          /\ \A j \in DOMAIN f : j # i => Talks!With(f, i, v)[j] = f[j]
      BY <2>0, WithIs
    <2>. QED
      BY <2>1 DEF Talks!Has, f, i, v
  <1>3. chat' = [active |-> chat.next, next |-> chat.next + 1, has |-> Talks!With(chat.has, chat.next, 0)]
    BY DEF Talks!Creates
  <1>4. chat.next \notin Talks!Has
    <2>1. \A i \in Talks!Has : i < chat.next
      BY DEF SessInv, IdsInv
    <2>. QED
      BY <1>1, <2>1
  <1>5. Talks!Has' = Talks!Has \cup {chat.next}
    BY <1>2, <1>3 DEF Talks!Has
  <1>6. Talks!Has \cup {chat.next} \in SUBSET Talks!Ids /\ DOMAIN chat.has = Talks!Has
    BY <1>1, MapsHave DEF Talks!Has
  <1>7. Talks!SaveBegins(w, Talks!Has \cup {chat.next}) /\ Talks!Goes(w, "saving", chat.next)
    BY <1>6 DEF Talks!Creates
  <1>8. SessTypes
    BY DEF SessInv
  <1>9. /\ worker' \in [Talks!Workers -> [at : {"idle", "turn", "run", "evict", "saving"}, id : Talks!Ids \cup {Talks!NoId}]]
        /\ worker'[w] = [at |-> "saving", id |-> chat.next]
        /\ \A v \in Talks!Workers : v # w => worker'[v] = worker[v]
    BY <1>1, <1>7, <1>8, GoesIs
  <1>10. /\ saver' \in [Talks!Savers -> [at : {"off", "on"}, due : SUBSET Talks!Ids, took : Maps]]
         /\ saver'[w] = [at |-> "on", due |-> Talks!Has \cup {chat.next}, took |-> <<>>]
         /\ \A q \in Talks!Savers : q # w => saver'[q] = saver[q]
         /\ ~timer' /\ ~quiet' /\ timer' \in BOOLEAN /\ quiet' \in BOOLEAN
    BY <1>1, <1>6, <1>7, <1>8, BeginsIs
  <1>11. chat' \in [active : Talks!Ids \cup {Talks!NoId}, next : 0 .. MaxSeq + 1, has : Maps]
    BY <1>1, <1>2, <1>3
  <1>12. chat'.active = chat.next /\ chat'.next = chat.next + 1 /\ \A i \in Talks!Has : chat'.has[i] = chat.has[i]
    BY <1>2, <1>3, <1>4
  <1>. QED
    BY <1>4, <1>5, <1>9, <1>10, <1>11, <1>12

LEMMA CreationKeeps ==
    ASSUME Talks!SessionsConstants, SessInv, NEW w \in Talks!Workers, Talks!Creates(w, chat), chat.next \in 0 .. MaxSeq,
           mu \in {Talks!Nobody, w}, mu' = Talks!Nobody, UNCHANGED <<state, faults>>,
           rows' \in Maps, DOMAIN rows' \subseteq DOMAIN rows, spoke' \subseteq spoke \cap DOMAIN rows',
           ~ Talks!At(w, "saving")
    PROVE  SessInv'
  <1>0. /\ chat' \in [active : Talks!Ids \cup {Talks!NoId}, next : 0 .. MaxSeq + 1, has : Maps]
        /\ chat'.active = chat.next /\ chat'.next = chat.next + 1
        /\ Talks!Has' = Talks!Has \cup {chat.next} /\ chat.next \notin Talks!Has
        /\ \A i \in Talks!Has : chat'.has[i] = chat.has[i]
        /\ worker'[w] = [at |-> "saving", id |-> chat.next]
        /\ worker' \in [Talks!Workers -> [at : {"idle", "turn", "run", "evict", "saving"}, id : Talks!Ids \cup {Talks!NoId}]]
        /\ \A v \in Talks!Workers : v # w => worker'[v] = worker[v]
        /\ saver' \in [Talks!Savers -> [at : {"off", "on"}, due : SUBSET Talks!Ids, took : Maps]]
        /\ saver'[w] = [at |-> "on", due |-> Talks!Has', took |-> <<>>]
        /\ \A q \in Talks!Savers : q # w => saver'[q] = saver[q]
        /\ ~timer' /\ ~quiet' /\ timer' \in BOOLEAN /\ quiet' \in BOOLEAN
    BY CreatesIs
  <1>1. SessTypes'
    BY <1>0 DEF SessInv, SessTypes
  <1>2. w \in Talks!Savers /\ Talks!Workers \subseteq Talks!Savers
    BY DEF Talks!Savers
  <1>3. SaverInv'
    BY <1>0, <1>2 DEF SessInv, SaverInv
  <1>4. chat.next \in Nat /\ chat'.next = chat.next + 1 /\ DOMAIN <<>> = {}
    BY <1>0, NoMap DEF Talks!SessionsConstants
  <1>5. IdsInv'
    <2>1. ASSUME NEW i \in Talks!Has'
          PROVE  i < chat'.next
      <3>1. i \in Talks!Ids /\ Talks!Has \subseteq Talks!Ids
        BY <1>0, MapsHave DEF SessInv, SessTypes, Talks!Has
      <3>2. i \in Nat /\ (i \in Talks!Has => i < chat.next)
        BY <3>1 DEF SessInv, IdsInv, Talks!Ids
      <3>. QED
        BY <1>0, <1>4, <3>2
    <2>2. ASSUME NEW p \in Talks!Savers, NEW i \in DOMAIN saver'[p].took
          PROVE  i < chat'.next
      <3>1. p # w /\ saver'[p] = saver[p]
        BY <1>0, <1>4
      <3>2. i \in Talks!Ids
        BY <3>1, MapsHave DEF SessInv, SessTypes
      <3>3. i < chat.next
        BY <3>1 DEF SessInv, IdsInv
      <3>. QED
        BY <1>4, <3>2, <3>3 DEF Talks!Ids
    <2>3. ASSUME NEW i \in DOMAIN rows'
          PROVE  i < chat'.next /\ i < state'.next
      <3>1. i < chat.next /\ i < state.next /\ i \in Talks!Ids
        BY MapsHave DEF SessInv, IdsInv, SessTypes
      <3>. QED
        BY <1>4, <3>1 DEF Talks!Ids
    <2>. QED
      BY <2>1, <2>2, <2>3 DEF IdsInv
  <1>6. EvictInv'
    <2>1. ASSUME NEW v \in Talks!Workers
          PROVE  worker'[v].at # "evict"
      <3>1. worker[v].at = "evict" => mu = v
        BY DEF SessInv, EvictInv, Talks!At
      <3>2. Talks!Nobody \notin Talks!Workers
        BY DEF Talks!SessionsConstants, Talks!Workers
      <3>. QED
        BY <1>0, <3>1, <3>2
    <2>2. Talks!Has' # {}
      BY <1>0
    <2>. QED
      BY <2>1, <2>2 DEF EvictInv, Talks!At
  <1>7. ASSUME NEW i \in Talks!Has'
        PROVE  Talks!On(w)' /\ i \in saver'[w].due /\ i \notin DOMAIN saver'[w].took
    BY <1>0, <1>4 DEF Talks!On
  <1>8. RowInv'
    BY <1>2, <1>7 DEF RowInv, Covers
  <1>9. SaveInv'
    <2>1. ASSUME NEW p \in Talks!Savers, NEW i \in DOMAIN saver'[p].took, i \in Talks!Has'
          PROVE  saver'[p].took[i] <= chat'.has[i]
      <3>1. p # w /\ saver'[p] = saver[p] /\ i < chat.next
        BY <1>0, <1>4 DEF SessInv, IdsInv
      <3>2. i \in Talks!Has /\ chat'.has[i] = chat.has[i]
        BY <1>0, <1>4, <2>1, <3>1
      <3>. QED
        BY <3>1, <3>2 DEF SessInv, SaveInv
    <2>2. \A i \in Talks!Has' : \E p \in Talks!Savers : Covers(p, i)' /\ RowsHold(p, i)'
      BY <1>2, <1>7 DEF Covers, RowsHold
    <2>3. \E p \in Talks!Savers : Talks!On(p)'
      BY <1>0, <1>2 DEF Talks!On
    <2>. QED
      BY <2>1, <2>2, <2>3 DEF SaveInv
  <1>. QED
    BY <1>1, <1>3, <1>5, <1>6, <1>8, <1>9 DEF SessInv

(* A command gives up one session, in the manager first. *)
LEMMA EvictionKeeps ==
    ASSUME Talks!SessionsConstants, SessInv, NEW w \in Talks!Workers, Talks!Evicts(w), chat.next \in 1 .. MaxSeq,
           mu \in {Talks!Nobody, w}, UNCHANGED <<state, faults>>, worker[w].at # "saving",
           rows' \in Maps, DOMAIN rows' \subseteq DOMAIN rows, spoke' \subseteq spoke \cap DOMAIN rows',
           \A i \in Talks!Has \cap DOMAIN rows : i \in DOMAIN rows' /\ rows'[i] = rows[i]
    PROVE  SessInv'
  <1>1. PICK i \in Talks!Evictable : chat' = [chat EXCEPT !.has = Talks!Without(@, i)] /\ Talks!Goes(w, "evict", i)
    BY DEF Talks!Evicts
  <1>2. mu' = w /\ UNCHANGED <<timer, saver, quiet>>
    BY DEF Talks!Evicts
  <1>3. i \in Talks!Has /\ i \in Talks!Ids /\ chat.has \in Maps /\ SessTypes
    BY MapsHave DEF Talks!Evictable, SessInv, SessTypes, Talks!Has
  <1>4. /\ Talks!Without(chat.has, i) \in Maps
        /\ DOMAIN Talks!Without(chat.has, i) = Talks!Has \ {i}
        /\ \A j \in Talks!Has : j # i => Talks!Without(chat.has, i)[j] = chat.has[j]
    BY <1>3, WithoutIs DEF Talks!Has
  <1>5. chat'.has = Talks!Without(chat.has, i) /\ chat'.active = chat.active /\ chat'.next = chat.next
        /\ chat' = [active |-> chat.active, next |-> chat.next, has |-> Talks!Without(chat.has, i)]
    BY <1>1, <1>3 DEF SessTypes
  <1>6. Talks!Has' = Talks!Has \ {i} /\ \A j \in Talks!Has' : chat'.has[j] = chat.has[j]
    BY <1>4, <1>5 DEF Talks!Has
  <1>7. /\ worker' \in [Talks!Workers -> [at : {"idle", "turn", "run", "evict", "saving"}, id : Talks!Ids \cup {Talks!NoId}]]
        /\ worker'[w] = [at |-> "evict", id |-> i]
        /\ \A v \in Talks!Workers : v # w => worker'[v] = worker[v]
    BY <1>1, <1>3, GoesIs
  <1>8. SessTypes'
    <2>1. chat' \in [active : Talks!Ids \cup {Talks!NoId}, next : 0 .. MaxSeq + 1, has : Maps]
      BY <1>3, <1>4, <1>5 DEF SessTypes
    <2>2. spoke' \subseteq Talks!Ids /\ mu' \in Talks!Workers \cup {Talks!Nobody}
      BY <1>2, <1>3 DEF SessTypes
    <2>. QED
      BY <1>2, <1>3, <1>7, <2>1, <2>2 DEF SessTypes
  <1>9. SaverInv'
    BY <1>2, <1>7 DEF SessInv, SaverInv
  <1>10. IdsInv'
    BY <1>2, <1>5, <1>6 DEF SessInv, IdsInv
  <1>11. EvictInv'
    <2>1. Talks!Nobody \notin Talks!Workers
      BY DEF Talks!SessionsConstants, Talks!Workers
    <2>2. ASSUME NEW v \in Talks!Workers, v # w
          PROVE  worker'[v].at # "evict"
      BY <1>7, <2>1, <2>2 DEF SessInv, EvictInv, Talks!At
    <2>3. i \notin Talks!Has' /\ mu' # Talks!Nobody
      BY <1>2, <1>6, <2>1
    <2>. QED
      BY <1>2, <1>5, <1>7, <2>2, <2>3 DEF EvictInv, Talks!At
  <1>12. \A p \in Talks!Savers, j \in Talks!Has' : (Covers(p, j) => Covers(p, j)') /\ (RowsHold(p, j) => RowsHold(p, j)')
    BY <1>2, <1>6 DEF Covers, RowsHold, Talks!On
  <1>13. RowInv'
    BY <1>2, <1>6, <1>12 DEF SessInv, RowInv
  <1>14. SaveInv'
    <2>1. Talks!Saved' = Talks!Saved
      BY <1>5 DEF Talks!Saved
    <2>2. \A p \in Talks!Savers : Talks!On(p) => Talks!On(p)'
      BY <1>2 DEF Talks!On
    <2>3. \A p \in Talks!Savers : \A j \in DOMAIN saver'[p].took : j \in Talks!Has' => saver'[p].took[j] <= chat'.has[j]
      BY <1>2, <1>6 DEF SessInv, SaveInv
    <2>4. ~quiet' /\ ~timer' => \A j \in Talks!Has' :
            (j \in DOMAIN rows' /\ rows'[j] = chat'.has[j]) \/ \E p \in Talks!Savers : Covers(p, j)' /\ RowsHold(p, j)'
      <3>1. SUFFICES ASSUME ~quiet, ~timer, NEW j \in Talks!Has'
                     PROVE  (j \in DOMAIN rows' /\ rows'[j] = chat'.has[j]) \/ \E p \in Talks!Savers : Covers(p, j)' /\ RowsHold(p, j)'
        BY <1>2
      <3>2. j \in Talks!Has /\ ((j \in DOMAIN rows /\ rows[j] = chat.has[j]) \/ \E p \in Talks!Savers : Covers(p, j) /\ RowsHold(p, j))
        BY <1>6, <3>1 DEF SessInv, SaveInv
      <3>. QED
        BY <1>6, <1>12, <3>2
    <2>5. ~quiet' /\ ~timer' /\ Talks!Has' # {} => state' = Talks!Saved' \/ \E p \in Talks!Savers : Talks!On(p)'
      BY <1>2, <1>6, <2>1, <2>2 DEF SessInv, SaveInv
    <2>. QED
      BY <2>3, <2>4, <2>5 DEF SaveInv
  <1>. QED
    BY <1>8, <1>9, <1>10, <1>11, <1>13, <1>14 DEF SessInv

(* Steps of turns and commands that leave rows and saves alone. *)
LEMMA TurnsKeep ==
    ASSUME Talks!SessionsConstants, SessInv, UNCHANGED <<mu, rows, state, saver, faults>>,
           chat' \in [active : Talks!Ids \cup {Talks!NoId}, next : 0 .. MaxSeq + 1, has : Maps],
           Talks!Has' = Talks!Has, chat'.next = chat.next, \A i \in Talks!Has : chat.has[i] <= chat'.has[i],
           ~ (Talks!Has = {} /\ mu = Talks!Nobody), spoke' \subseteq DOMAIN rows,
           timer' \in BOOLEAN, quiet' \in BOOLEAN, quiet => quiet',
           quiet' \/ timer' \/ (chat' = chat /\ timer' = timer),
           worker' \in [Talks!Workers -> [at : {"idle", "turn", "run", "evict", "saving"}, id : Talks!Ids \cup {Talks!NoId}]],
           \A v \in Talks!Workers : \/ worker'[v] = worker[v]
                                    \/ worker[v].at \in {"idle", "turn", "run"} /\ worker'[v].at \in {"idle", "turn", "run"}
    PROVE  SessInv'
  <1>1. SessTypes /\ DOMAIN rows \subseteq Talks!Ids
    BY MapsHave DEF SessInv, SessTypes
  <1>2. SessTypes'
    BY <1>1 DEF SessTypes
  <1>3. SaverInv'
    BY DEF SessInv, SaverInv
  <1>4. IdsInv'
    BY DEF SessInv, IdsInv
  <1>5. EvictInv'
    BY DEF SessInv, EvictInv, Talks!At
  <1>6. \A p \in Talks!Savers, j \in Talks!Has' : Covers(p, j) => Covers(p, j)'
    BY DEF Covers, Talks!On
  <1>7. RowInv'
    BY <1>6 DEF SessInv, RowInv
  <1>8. SaveInv'
    <2>1. ASSUME NEW p \in Talks!Savers, NEW j \in DOMAIN saver'[p].took, j \in Talks!Has'
          PROVE  saver'[p].took[j] <= chat'.has[j]
      <3>1. saver[p].took \in Maps /\ saver'[p] = saver[p]
        BY <1>1 DEF SessTypes
      <3>2. saver[p].took[j] \in 0 .. MaxChanges /\ chat.has[j] \in 0 .. MaxChanges /\ chat'.has[j] \in 0 .. MaxChanges
        BY <1>1, <2>1, <3>1, MapsHave DEF SessTypes, Talks!Has
      <3>3. saver[p].took[j] <= chat.has[j] /\ chat.has[j] <= chat'.has[j] /\ MaxChanges \in Nat
        BY <2>1, <3>1 DEF SessInv, SaveInv, Talks!SessionsConstants
      <3>. QED
        BY <3>1, <3>2, <3>3
    <2>2. CASE quiet' \/ timer'
      BY <2>1, <2>2 DEF SaveInv
    <2>3. CASE ~quiet' /\ ~timer' /\ chat' = chat /\ timer' = timer
      BY <2>1, <2>3 DEF SessInv, SaveInv, Covers, RowsHold, Talks!On, Talks!Has, Talks!Saved
    <2>. QED
      BY <2>2, <2>3
  <1>. QED
    BY <1>2, <1>3, <1>4, <1>5, <1>7, <1>8 DEF SessInv

LEMMA ActiveIs ==
    ASSUME SessTypes, NEW i \in Talks!Ids
    PROVE  /\ [chat EXCEPT !.active = i] \in [active : Talks!Ids \cup {Talks!NoId}, next : 0 .. MaxSeq + 1, has : Maps]
           /\ [chat EXCEPT !.active = i].next = chat.next /\ [chat EXCEPT !.active = i].has = chat.has
  BY DEF SessTypes

LEMMA CountIsRight ==
    ASSUME Talks!SessionsConstants, SessTypes
    PROVE  Talks!Has \subseteq Talks!Ids /\ IsFiniteSet(Talks!Has) /\ Cardinality(Talks!Has) \in Nat /\ (Talks!Has = {} => Cardinality(Talks!Has) = 0)
  <1>1. Talks!Has \subseteq Talks!Ids
    BY MapsHave DEF SessTypes, Talks!Has
  <1>2. IsFiniteSet(Talks!Ids)
    BY FS_Interval DEF Talks!Ids, Talks!SessionsConstants
  <1>3. IsFiniteSet(Talks!Has)
    BY <1>1, <1>2, FS_Subset
  <1>4. Cardinality(Talks!Has) \in Nat
    BY <1>3, FS_CardinalityType
  <1>5. Talks!Has = {} => Cardinality(Talks!Has) = 0
    BY FS_EmptySet
  <1>. QED
    BY <1>1, <1>3, <1>4, <1>5

LEMMA GetKeeps ==
    ASSUME Talks!SessionsConstants, SessInv, NEW w \in Talks!Workers, Talks!Get(w)
    PROVE  SessInv'
  <1>1. /\ Talks!At(w, "idle") /\ mu = Talks!Nobody /\ SessTypes
        /\ UNCHANGED <<mu, rows, state, spoke, faults>>
    BY DEF Talks!Get, Talks!Store, SessInv
  <1>2. spoke \subseteq DOMAIN rows /\ Talks!Has \subseteq Talks!Ids /\ DOMAIN chat.has = Talks!Has
    BY <1>1, MapsHave DEF SessInv, IdsInv, SessTypes, Talks!Has
  <1>3. CASE chat.active \in Talks!Has /\ Talks!Goes(w, "turn", chat.active) /\ UNCHANGED <<chat, timer, saver, quiet>>
    <2>1. /\ worker' \in [Talks!Workers -> [at : {"idle", "turn", "run", "evict", "saving"}, id : Talks!Ids \cup {Talks!NoId}]]
          /\ worker'[w] = [at |-> "turn", id |-> chat.active]
          /\ \A v \in Talks!Workers : v # w => worker'[v] = worker[v]
      BY <1>1, <1>2, <1>3, GoesIs
    <2>2. \A i \in Talks!Has : chat.has[i] <= chat'.has[i]
      BY <1>1, <1>2, <1>3, MapsHave DEF SessTypes, Talks!SessionsConstants
    <2>3. /\ chat' \in [active : Talks!Ids \cup {Talks!NoId}, next : 0 .. MaxSeq + 1, has : Maps]
          /\ timer' \in BOOLEAN /\ quiet' \in BOOLEAN /\ Talks!Has' = Talks!Has /\ chat'.next = chat.next
      BY <1>1, <1>3 DEF SessTypes, Talks!Has
    <2>4. \A v \in Talks!Workers : \/ worker'[v] = worker[v]
                                   \/ worker[v].at \in {"idle", "turn", "run"} /\ worker'[v].at \in {"idle", "turn", "run"}
      <3>1. worker[w].at = "idle"
        BY <1>1 DEF Talks!At
      <3>2. worker'[w].at = "turn" /\ \A v \in Talks!Workers : v # w => worker'[v] = worker[v]
        BY <2>1
      <3>. QED
        BY <3>1, <3>2
    <2>. QED
      BY <1>1, <1>2, <1>3, <2>1, <2>2, <2>3, <2>4, TurnsKeep
  <1>4. CASE /\ chat.active \notin Talks!Has /\ Talks!Has # {}
             /\ \E i \in Talks!Has : chat' = [chat EXCEPT !.active = i] /\ Talks!Goes(w, "turn", i)
             /\ timer' = TRUE
             /\ UNCHANGED <<saver, quiet>>
    <2>0. PICK i \in Talks!Has : chat' = [chat EXCEPT !.active = i] /\ Talks!Goes(w, "turn", i)
      BY <1>4
    <2>1. /\ worker' \in [Talks!Workers -> [at : {"idle", "turn", "run", "evict", "saving"}, id : Talks!Ids \cup {Talks!NoId}]]
          /\ worker'[w] = [at |-> "turn", id |-> i]
          /\ \A v \in Talks!Workers : v # w => worker'[v] = worker[v]
      BY <1>1, <1>2, <2>0, GoesIs
    <2>2. /\ chat' \in [active : Talks!Ids \cup {Talks!NoId}, next : 0 .. MaxSeq + 1, has : Maps]
          /\ chat'.next = chat.next /\ chat'.has = chat.has
      BY <1>1, <1>2, <2>0, ActiveIs
    <2>3. \A j \in Talks!Has : chat.has[j] <= chat'.has[j]
      BY <1>1, <1>2, <2>2, MapsHave DEF SessTypes, Talks!SessionsConstants
    <2>4. /\ timer' \in BOOLEAN /\ quiet' \in BOOLEAN /\ Talks!Has' = Talks!Has
      BY <1>1, <1>4, <2>2 DEF SessTypes, Talks!Has
    <2>5. \A v \in Talks!Workers : \/ worker'[v] = worker[v]
                                   \/ worker[v].at \in {"idle", "turn", "run"} /\ worker'[v].at \in {"idle", "turn", "run"}
      <3>1. worker[w].at = "idle"
        BY <1>1 DEF Talks!At
      <3>2. worker'[w].at = "turn" /\ \A v \in Talks!Workers : v # w => worker'[v] = worker[v]
        BY <2>1
      <3>. QED
        BY <3>1, <3>2
    <2>. QED
      BY <1>1, <1>2, <1>4, <2>1, <2>2, <2>3, <2>4, <2>5, TurnsKeep
  <1>5. CASE Talks!Has = {} /\ Talks!First(w)
    <2>1. chat = Talks!NoChat /\ rows = <<>>
      BY <1>1, <1>5 DEF SessInv, EvictInv
    <2>2. Talks!Creates(w, chat) /\ chat.next = 0
      BY <1>5, <2>1, NoMap DEF Talks!First, Talks!Creates, Talks!NoChat
    <2>3. chat.next \in 0 .. MaxSeq /\ rows' \in Maps /\ DOMAIN rows' \subseteq DOMAIN rows
          /\ spoke' \subseteq spoke \cap DOMAIN rows' /\ ~ Talks!At(w, "saving")
      BY <1>1, <1>2, <2>2, NoMap DEF Talks!SessionsConstants, Talks!At, SessTypes
    <2>. QED
      BY <1>1, <2>2, <2>3, CreationKeeps
  <1>. QED
    BY <1>3, <1>4, <1>5 DEF Talks!Get

LEMMA NewSessionKeeps ==
    ASSUME Talks!SessionsConstants, SessInv, NEW w \in Talks!Workers, Talks!NewSession(w)
    PROVE  SessInv'
  <1>1. /\ worker[w].at = "idle" /\ mu = Talks!Nobody /\ chat.next \in 1 .. MaxSeq
        /\ UNCHANGED <<rows, state, spoke, faults>>
    BY DEF Talks!NewSession, Talks!Store, Talks!At
  <1>2. rows' \in Maps /\ DOMAIN rows' \subseteq DOMAIN rows /\ spoke' \subseteq spoke \cap DOMAIN rows'
        /\ chat.next \in 0 .. MaxSeq
    BY <1>1 DEF SessInv, SessTypes, IdsInv, Talks!SessionsConstants
  <1>3. CASE Talks!Creates(w, chat) /\ mu' = mu
    BY <1>1, <1>2, <1>3, CreationKeeps DEF Talks!At
  <1>4. CASE Talks!Evicts(w)
    BY <1>1, <1>2, <1>4, EvictionKeeps
  <1>. QED
    BY <1>3, <1>4 DEF Talks!NewSession

LEMMA DeleteRowKeeps ==
    ASSUME Talks!SessionsConstants, SessInv, NEW w \in Talks!Workers, Talks!DeleteRow(w)
    PROVE  SessInv'
  <1>. DEFINE gone == worker[w].id
  <1>1. /\ worker[w].at = "evict" /\ mu = w /\ gone \notin Talks!Has /\ chat.next \in 1 .. MaxSeq
        /\ rows' = Talks!Without(rows, gone) /\ spoke' = spoke \ {gone} /\ UNCHANGED <<state, faults>>
    BY DEF Talks!DeleteRow, Talks!At, SessInv, EvictInv
  <1>2. /\ Talks!Without(rows, gone) \in Maps /\ DOMAIN Talks!Without(rows, gone) = DOMAIN rows \ {gone}
        /\ \A j \in DOMAIN rows : j # gone => Talks!Without(rows, gone)[j] = rows[j]
    BY WithoutIs DEF SessInv, SessTypes
  <1>. HIDE DEF gone
  <1>3. /\ rows' \in Maps /\ DOMAIN rows' \subseteq DOMAIN rows /\ spoke' \subseteq spoke \cap DOMAIN rows'
        /\ chat.next \in 0 .. MaxSeq
        /\ \A i \in Talks!Has \cap DOMAIN rows : i \in DOMAIN rows' /\ rows'[i] = rows[i]
    BY <1>1, <1>2 DEF SessInv, IdsInv, Talks!SessionsConstants
  <1>4. CASE Talks!Evicts(w)
    BY <1>1, <1>3, <1>4, EvictionKeeps
  <1>5. CASE mu' = Talks!Nobody /\ Talks!Creates(w, chat)
    BY <1>1, <1>3, <1>5, CreationKeeps DEF Talks!At
  <1>6. CASE mu' = Talks!Nobody /\ ~ (Talks!Cardinality(Talks!Has) < Cap) /\ Talks!Goes(w, "idle", Talks!NoId) /\ UNCHANGED <<chat, timer, saver, quiet>>
    <2>0. SessTypes /\ SaverInv /\ IdsInv /\ EvictInv /\ RowInv /\ SaveInv /\ Talks!NoId \in Talks!Ids \cup {Talks!NoId}
      BY DEF SessInv
    <2>1. /\ worker' \in [Talks!Workers -> [at : {"idle", "turn", "run", "evict", "saving"}, id : Talks!Ids \cup {Talks!NoId}]]
          /\ worker'[w] = [at |-> "idle", id |-> Talks!NoId]
          /\ \A v \in Talks!Workers : v # w => worker'[v] = worker[v]
      BY <1>6, <2>0, GoesIs
    <2>2. Talks!Has' = Talks!Has /\ Talks!Has # {} /\ Talks!Nobody \notin Talks!Workers
      BY <1>6, <2>0, CountIsRight, SameCount DEF Talks!SessionsConstants, Talks!Has, Talks!Workers
    <2>3. SessTypes'
      BY <1>1, <1>3, <1>6, <2>0, <2>1 DEF SessTypes
    <2>4. SaverInv'
      BY <1>1, <1>6, <2>0, <2>1 DEF SaverInv
    <2>5. IdsInv'
      BY <1>1, <1>3, <1>6, <2>0, <2>2 DEF IdsInv
    <2>6. EvictInv'
      BY <1>1, <1>6, <2>0, <2>1, <2>2 DEF EvictInv, Talks!At
    <2>7. \A p \in Talks!Savers, j \in Talks!Has : (Covers(p, j)' <=> Covers(p, j)) /\ (RowsHold(p, j)' <=> RowsHold(p, j))
      BY <1>6 DEF Covers, RowsHold, Talks!On
    <2>8. RowInv'
      BY <1>3, <1>6, <2>0, <2>2, <2>7 DEF RowInv
    <2>9. SaveInv'
      <3>1. state' = Talks!Saved' <=> state = Talks!Saved
        BY <1>1, <1>6 DEF Talks!Saved
      <3>2. \A p \in Talks!Savers : Talks!On(p)' <=> Talks!On(p)
        BY <1>6 DEF Talks!On
      <3>. QED
        BY <1>1, <1>3, <1>6, <2>0, <2>2, <2>7, <3>1, <3>2 DEF SaveInv
    <2>. QED
      BY <2>3, <2>4, <2>5, <2>6, <2>8, <2>9 DEF SessInv
  <1>. QED
    <2>1. \/ Talks!Evicts(w)
          \/ mu' = Talks!Nobody /\ Talks!Creates(w, chat)
          \/ mu' = Talks!Nobody /\ ~ (Talks!Cardinality(Talks!Has) < Cap) /\ Talks!Goes(w, "idle", Talks!NoId) /\ UNCHANGED <<chat, timer, saver, quiet>>
      BY DEF Talks!DeleteRow
    <2>. QED
      BY <1>4, <1>5, <1>6, <2>1

LEMMA TurnStepsKeep ==
    ASSUME Talks!SessionsConstants, SessInv, NEW w \in Talks!Workers,
           Talks!Ask(w) \/ Talks!Reply(w) \/ Talks!Cancelled(w) \/ Talks!SwitchActive(w) \/ Talks!Reset(w)
    PROVE  SessInv'
  <1>0. SessTypes /\ spoke \subseteq DOMAIN rows /\ Talks!Has \subseteq Talks!Ids /\ DOMAIN chat.has = Talks!Has /\ Talks!NoId \in Talks!Ids \cup {Talks!NoId}
    BY MapsHave DEF SessInv, IdsInv, SessTypes, Talks!Has
  <1>1. UNCHANGED <<mu, rows, state, saver, faults>>
    BY DEF Talks!Ask, Talks!Reply, Talks!Cancelled, Talks!SwitchActive, Talks!Reset, Talks!Store
  <1>2. worker[w].at \in {"idle", "turn", "run"} /\ ~ (Talks!Has = {} /\ mu = Talks!Nobody)
    BY DEF Talks!Ask, Talks!Reply, Talks!Cancelled, Talks!SwitchActive, Talks!Reset, Talks!At, SessInv, EvictInv
  <1>3. /\ worker' \in [Talks!Workers -> [at : {"idle", "turn", "run", "evict", "saving"}, id : Talks!Ids \cup {Talks!NoId}]]
        /\ \A v \in Talks!Workers : \/ worker'[v] = worker[v]
                                    \/ worker[v].at \in {"idle", "turn", "run"} /\ worker'[v].at \in {"idle", "turn", "run"}
    <2>1. CASE UNCHANGED worker
      <3>1. worker \in [Talks!Workers -> [at : {"idle", "turn", "run", "evict", "saving"}, id : Talks!Ids \cup {Talks!NoId}]]
        BY <1>0 DEF SessTypes
      <3>2. worker' = worker
        BY <2>1
      <3>. QED
        BY <3>1, <3>2
    <2>2. CASE \E to \in {"idle", "run"}, i \in Talks!Ids \cup {Talks!NoId} : Talks!Goes(w, to, i)
      <3>1. PICK to \in {"idle", "run"}, i \in Talks!Ids \cup {Talks!NoId} : Talks!Goes(w, to, i)
        BY <2>2
      <3>0. to \in {"idle", "turn", "run", "evict", "saving"}
        BY <3>1
      <3>2. /\ worker' \in [Talks!Workers -> [at : {"idle", "turn", "run", "evict", "saving"}, id : Talks!Ids \cup {Talks!NoId}]]
            /\ worker'[w] = [at |-> to, id |-> i]
            /\ \A v \in Talks!Workers : v # w => worker'[v] = worker[v]
        BY <1>0, <3>0, <3>1, GoesIs
      <3>3. worker'[w].at \in {"idle", "turn", "run"}
        <4>1. to \in {"idle", "turn", "run"}
          BY <3>1
        <4>. QED
          BY <3>2, <4>1
      <3>4. worker[w].at \in {"idle", "turn", "run"}
        BY <1>2
      <3>. QED
        BY <3>2, <3>3, <3>4
    <2>3. worker[w].id \in Talks!Ids \cup {Talks!NoId}
      BY <1>0 DEF SessTypes
    <2>4. CASE Talks!Ask(w)
      BY <2>2, <2>3, <2>4 DEF Talks!Ask
    <2>. QED
      BY <1>0, <2>1, <2>2, <2>4 DEF Talks!Reply, Talks!Cancelled, Talks!SwitchActive, Talks!Reset
  <1>4. spoke' \subseteq DOMAIN rows
    BY <1>0 DEF Talks!Ask, Talks!Reply, Talks!Cancelled, Talks!SwitchActive, Talks!Reset, Talks!Store, Talks!Append
  <1>5. timer' \in BOOLEAN /\ quiet' \in BOOLEAN /\ (quiet => quiet')
    BY <1>0 DEF Talks!Ask, Talks!Reply, Talks!Cancelled, Talks!SwitchActive, Talks!Reset, SessTypes
  <1>6. quiet' \/ timer' \/ (chat' = chat /\ timer' = timer)
    BY DEF Talks!Ask, Talks!Reply, Talks!Cancelled, Talks!SwitchActive, Talks!Reset
  <1>7. /\ chat' \in [active : Talks!Ids \cup {Talks!NoId}, next : 0 .. MaxSeq + 1, has : Maps]
        /\ Talks!Has' = Talks!Has /\ chat'.next = chat.next /\ \A i \in Talks!Has : chat.has[i] <= chat'.has[i]
    <2>1. \A i \in Talks!Has : chat.has[i] <= chat.has[i]
      BY <1>0, MapsHave DEF SessTypes, Talks!SessionsConstants
    <2>2. CASE chat' = chat
      BY <1>0, <2>1, <2>2 DEF SessTypes, Talks!Has
    <2>3. CASE \E i \in Talks!Has : chat' = [chat EXCEPT !.active = i]
      <3>1. PICK i \in Talks!Has : chat' = [chat EXCEPT !.active = i]
        BY <2>3
      <3>2. /\ chat' \in [active : Talks!Ids \cup {Talks!NoId}, next : 0 .. MaxSeq + 1, has : Maps]
            /\ chat'.next = chat.next /\ chat'.has = chat.has
        BY <1>0, <3>1, ActiveIs
      <3>. QED
        BY <2>1, <3>2 DEF Talks!Has
    <2>4. CASE \E i \in Talks!Has : Talks!Total < MaxChanges /\ chat' = Talks!Touched(i)
      <3>1. PICK i \in Talks!Has : Talks!Total < MaxChanges /\ chat' = Talks!Touched(i)
        BY <2>4
      <3>2. /\ Talks!Touched(i) \in [active : Talks!Ids \cup {Talks!NoId}, next : 0 .. MaxSeq + 1, has : Maps]
            /\ Talks!Touched(i).next = chat.next /\ DOMAIN Talks!Touched(i).has = Talks!Has
            /\ \A j \in Talks!Has : chat.has[j] <= Talks!Touched(i).has[j]
        BY <1>0, <3>1, TouchedIs
      <3>. QED
        BY <3>1, <3>2 DEF Talks!Has
    <2>5. CASE Talks!Ask(w)
      BY <2>2, <2>5 DEF Talks!Ask
    <2>6. CASE Talks!Reply(w) \/ Talks!Cancelled(w)
      BY <2>2, <2>4, <2>6 DEF Talks!Reply, Talks!Cancelled
    <2>7. CASE Talks!SwitchActive(w)
      BY <2>3, <2>7 DEF Talks!SwitchActive
    <2>8. CASE Talks!Reset(w)
      BY <2>4, <2>8 DEF Talks!Reset
    <2>. QED
      BY <2>5, <2>6, <2>7, <2>8
  <1>. QED
    BY <1>1, <1>2, <1>3, <1>4, <1>5, <1>6, <1>7, TurnsKeep

LEMMA TimerFiresKeeps ==
    ASSUME Talks!SessionsConstants, SessInv, Talks!TimerFires
    PROVE  SessInv'
  <1>0. SessTypes /\ SaverInv /\ IdsInv /\ EvictInv /\ RowInv /\ SaveInv /\ Talks!Has \subseteq Talks!Ids /\ DOMAIN <<>> = {}
    BY MapsHave, NoMap DEF SessInv, SessTypes, Talks!Has
  <1>1. timer /\ Talks!SaveBegins(Timer, Talks!Has) /\ UNCHANGED <<chat, mu, rows, state, spoke, worker, faults>> /\ Talks!Has' = Talks!Has
    BY DEF Talks!TimerFires, Talks!Store, Talks!Has
  <1>2. Timer \in Talks!Savers /\ Timer \notin Talks!Workers /\ Talks!Has \in SUBSET Talks!Ids
    BY <1>0 DEF Talks!Savers, Talks!Workers, Talks!SessionsConstants
  <1>3. /\ saver' \in [Talks!Savers -> [at : {"off", "on"}, due : SUBSET Talks!Ids, took : Maps]]
        /\ saver'[Timer] = [at |-> "on", due |-> Talks!Has, took |-> <<>>]
        /\ \A q \in Talks!Savers : q # Timer => saver'[q] = saver[q]
        /\ ~timer' /\ ~quiet' /\ timer' \in BOOLEAN /\ quiet' \in BOOLEAN
    BY <1>0, <1>1, <1>2, BeginsIs
  <1>4. SessTypes'
    BY <1>0, <1>1, <1>3 DEF SessTypes
  <1>5. SaverInv'
    BY <1>0, <1>1, <1>2, <1>3 DEF SaverInv, Talks!Savers
  <1>6. IdsInv'
    BY <1>0, <1>1, <1>3 DEF IdsInv
  <1>7. EvictInv'
    BY <1>0, <1>1 DEF EvictInv, Talks!At
  <1>8. \A i \in Talks!Has : Covers(Timer, i)' /\ RowsHold(Timer, i)'
    BY <1>0, <1>3 DEF Covers, RowsHold, Talks!On
  <1>9. RowInv'
    BY <1>1, <1>2, <1>8 DEF RowInv
  <1>10. SaveInv'
    BY <1>0, <1>1, <1>2, <1>3, <1>8 DEF SaveInv, Talks!On
  <1>. QED
    BY <1>4, <1>5, <1>6, <1>7, <1>9, <1>10 DEF SessInv

LEMMA SaveTakesKeeps ==
    ASSUME Talks!SessionsConstants, SessInv, NEW p \in Talks!Savers, Talks!SaveTakes(p)
    PROVE  SessInv'
  <1>0. SessTypes /\ SaverInv /\ IdsInv /\ EvictInv /\ RowInv /\ SaveInv /\ Talks!Has \subseteq Talks!Ids /\ DOMAIN chat.has = Talks!Has
    BY MapsHave DEF SessInv, SessTypes, Talks!Has
  <1>1. PICK k \in Talks!Has : saver' = [saver EXCEPT ![p].took = Talks!With(<<>>, k, chat.has[k])]
    BY DEF Talks!SaveTakes
  <1>2. UNCHANGED <<chat, mu, timer, rows, state, spoke, worker, quiet, faults>> /\ Talks!Has' = Talks!Has /\ saver[p].at = "on"
    BY DEF Talks!SaveTakes, Talks!Store, Talks!Has, Talks!On
  <1>3. /\ Talks!With(<<>>, k, chat.has[k]) \in Maps /\ DOMAIN Talks!With(<<>>, k, chat.has[k]) = {k}
        /\ Talks!With(<<>>, k, chat.has[k])[k] = chat.has[k]
    <2>. DEFINE f == <<>>
                v == chat.has[k]
    <2>1. k \in Talks!Ids /\ v \in 0 .. MaxChanges /\ f \in Maps /\ DOMAIN f = {}
      BY <1>0, MapsHave, NoMap DEF SessTypes
    <2>. HIDE DEF f, v
    <2>2. Talks!With(f, k, v) \in Maps /\ DOMAIN Talks!With(f, k, v) = DOMAIN f \cup {k} /\ Talks!With(f, k, v)[k] = v
      BY <2>1, WithIs
    <2>3. DOMAIN f \cup {k} = {k}
      BY <2>1
    <2>. QED
      BY <2>2, <2>3 DEF f, v
  <1>4. /\ saver' \in [Talks!Savers -> [at : {"off", "on"}, due : SUBSET Talks!Ids, took : Maps]]
        /\ saver'[p].at = "on" /\ saver'[p].due = saver[p].due /\ saver'[p].took = Talks!With(<<>>, k, chat.has[k])
        /\ \A q \in Talks!Savers : q # p => saver'[q] = saver[q]
    BY <1>0, <1>1, <1>2, <1>3 DEF SessTypes
  <1>5. \A q \in Talks!Savers : saver'[q].at = saver[q].at /\ saver'[q].due = saver[q].due
    BY <1>2, <1>4
  <1>6. SessTypes'
    BY <1>0, <1>2, <1>4 DEF SessTypes
  <1>7. SaverInv'
    BY <1>0, <1>2, <1>4, <1>5 DEF SaverInv, Talks!Savers
  <1>8. IdsInv'
    BY <1>0, <1>2, <1>3, <1>4 DEF IdsInv
  <1>9. EvictInv'
    BY <1>0, <1>2, <1>5 DEF EvictInv, Talks!At, Talks!On
  <1>10. \A q \in Talks!Savers, i \in Talks!Has : (Covers(q, i) => Covers(q, i)') /\ (RowsHold(q, i) => RowsHold(q, i)')
    BY <1>2, <1>3, <1>4, <1>5 DEF Covers, RowsHold, Talks!On
  <1>11. RowInv'
    BY <1>0, <1>2, <1>10 DEF RowInv
  <1>12. SaveInv'
    <2>1. ASSUME NEW q \in Talks!Savers, NEW i \in DOMAIN saver'[q].took, i \in Talks!Has'
          PROVE  saver'[q].took[i] <= chat'.has[i]
      <3>1. CASE q = p
        <4>1. i = k /\ saver'[q].took[i] = chat.has[i] /\ chat.has[i] \in 0 .. MaxChanges
          BY <1>0, <1>3, <1>4, <3>1, <2>1, MapsHave DEF SessTypes
        <4>. QED
          BY <1>2, <4>1
      <3>2. CASE q # p
        BY <1>0, <1>2, <1>4, <2>1, <3>2 DEF SaveInv
      <3>. QED
        BY <3>1, <3>2
    <2>2. Talks!Saved' = Talks!Saved /\ \A q \in Talks!Savers : Talks!On(q)' <=> Talks!On(q)
      BY <1>2, <1>5 DEF Talks!Saved, Talks!On
    <2>3. ~quiet' /\ ~timer' => \A i \in Talks!Has' :
            (i \in DOMAIN rows' /\ rows'[i] = chat'.has[i]) \/ \E q \in Talks!Savers : Covers(q, i)' /\ RowsHold(q, i)'
      BY <1>0, <1>2, <1>10 DEF SaveInv
    <2>4. ~quiet' /\ ~timer' /\ Talks!Has' # {} => state' = Talks!Saved' \/ \E q \in Talks!Savers : Talks!On(q)'
      BY <1>0, <1>2, <2>2 DEF SaveInv
    <2>. QED
      BY <2>1, <2>3, <2>4 DEF SaveInv
  <1>. QED
    BY <1>6, <1>7, <1>8, <1>9, <1>11, <1>12 DEF SessInv

(* A save that ends, whichever way: its goroutine goes on with what it was doing. *)
LEMMA ReturnsIs ==
    ASSUME Talks!SessionsConstants, SessInv, NEW p \in Talks!Savers, Talks!On(p), Talks!Returns(p)
    PROVE  /\ saver' \in [Talks!Savers -> [at : {"off", "on"}, due : SUBSET Talks!Ids, took : Maps]]
           /\ saver'[p] = [at |-> "off", due |-> {}, took |-> <<>>]
           /\ \A q \in Talks!Savers : q # p => saver'[q] = saver[q]
           /\ worker' \in [Talks!Workers -> [at : {"idle", "turn", "run", "evict", "saving"}, id : Talks!Ids \cup {Talks!NoId}]]
           /\ \A w \in Talks!Workers : (w = p => worker[w].at = "saving" /\ worker'[w].at \in {"turn", "idle"})
                                 /\ (w # p => worker'[w] = worker[w])
           /\ SaverInv' /\ (~ (Talks!Has = {} /\ mu = Talks!Nobody))
  <1>1. SessTypes /\ SaverInv /\ saver[p].at = "on"
    BY DEF SessInv, Talks!On
  <1>2. /\ saver' \in [Talks!Savers -> [at : {"off", "on"}, due : SUBSET Talks!Ids, took : Maps]]
        /\ saver'[p] = [at |-> "off", due |-> {}, took |-> <<>>]
        /\ \A q \in Talks!Savers : q # p => saver'[q] = saver[q]
    BY <1>1, NoMap DEF Talks!Returns, Talks!Resting, SessTypes
  <1>3. /\ worker' \in [Talks!Workers -> [at : {"idle", "turn", "run", "evict", "saving"}, id : Talks!Ids \cup {Talks!NoId}]]
        /\ \A w \in Talks!Workers : (w = p => worker[w].at = "saving" /\ worker'[w].at \in {"turn", "idle"})
                                 /\ (w # p => worker'[w] = worker[w])
    <2>1. CASE p \in Talks!Workers
      <3>1. worker[p].at = "saving" /\ worker[p].id \in Talks!Ids \cup {Talks!NoId}
        BY <1>1, <2>1 DEF SaverInv, SessTypes
      <3>2. PICK to \in {"turn", "idle"} : Talks!Goes(p, to, worker[p].id)
        BY <2>1 DEF Talks!Returns
      <3>3. to \in {"idle", "turn", "run", "evict", "saving"}
        BY <3>2
      <3>4. /\ worker' \in [Talks!Workers -> [at : {"idle", "turn", "run", "evict", "saving"}, id : Talks!Ids \cup {Talks!NoId}]]
            /\ worker'[p] = [at |-> to, id |-> worker[p].id]
            /\ \A v \in Talks!Workers : v # p => worker'[v] = worker[v]
        BY <1>1, <2>1, <3>1, <3>2, <3>3, GoesIs
      <3>. QED
        BY <3>1, <3>2, <3>4
    <2>2. CASE p \notin Talks!Workers
      BY <1>1, <2>2 DEF Talks!Returns, SessTypes
    <2>. QED
      BY <2>1, <2>2
  <1>4. SaverInv'
    BY <1>1, <1>2, <1>3 DEF SaverInv, Talks!Savers
  <1>. QED
    BY <1>2, <1>3, <1>4 DEF SessInv, EvictInv

LEMMA SaveFailsKeeps ==
    ASSUME Talks!SessionsConstants, SessInv, NEW p \in Talks!Savers, Talks!SaveFails(p)
    PROVE  SessInv'
  <1>0. SessTypes /\ SaverInv /\ IdsInv /\ EvictInv /\ SaveInv /\ DOMAIN <<>> = {}
    BY NoMap DEF SessInv
  <1>1. Talks!On(p) /\ Talks!Returns(p) /\ quiet' /\ quiet' \in BOOLEAN /\ faults' \in 0 .. MaxFaults
        /\ UNCHANGED <<chat, mu, timer, rows, state, spoke>> /\ Talks!Has' = Talks!Has
    BY <1>0 DEF Talks!SaveFails, SessTypes, Talks!SessionsConstants, Talks!Has
  <1>2. /\ saver' \in [Talks!Savers -> [at : {"off", "on"}, due : SUBSET Talks!Ids, took : Maps]]
        /\ saver'[p] = [at |-> "off", due |-> {}, took |-> <<>>]
        /\ \A q \in Talks!Savers : q # p => saver'[q] = saver[q]
        /\ worker' \in [Talks!Workers -> [at : {"idle", "turn", "run", "evict", "saving"}, id : Talks!Ids \cup {Talks!NoId}]]
        /\ \A w \in Talks!Workers : (w = p => worker[w].at = "saving" /\ worker'[w].at \in {"turn", "idle"})
                                 /\ (w # p => worker'[w] = worker[w])
        /\ SaverInv' /\ (~ (Talks!Has = {} /\ mu = Talks!Nobody))
    BY <1>1, ReturnsIs
  <1>3. SessTypes'
    BY <1>0, <1>1, <1>2 DEF SessTypes
  <1>4. IdsInv'
    BY <1>0, <1>1, <1>2 DEF IdsInv
  <1>5. EvictInv'
    BY <1>0, <1>1, <1>2 DEF EvictInv, Talks!At
  <1>6. SaveInv'
    BY <1>0, <1>1, <1>2 DEF SaveInv
  <1>. QED
    BY <1>1, <1>2, <1>3, <1>4, <1>5, <1>6 DEF SessInv, RowInv

(* What a save writes: every session that was due and is still there, and none    *)
(* older than it took it.                                                         *)
LEMMA DraftIs ==
    ASSUME Talks!SessionsConstants, SessInv, NEW p \in Talks!Savers, NEW late \in SUBSET (Talks!Has \ saver[p].due)
    PROVE  /\ Talks!Draft(p, late) \in Maps
           /\ Talks!Has \cap saver[p].due \subseteq DOMAIN Talks!Draft(p, late)
           /\ \A i \in DOMAIN Talks!Draft(p, late) : i \in Talks!Ids /\ i < chat.next
           /\ \A i \in DOMAIN Talks!Draft(p, late) \cap Talks!Has :
                 /\ Talks!Draft(p, late)[i] <= chat.has[i]
                 /\ RowsHold(p, i) => Talks!Draft(p, late)[i] = chat.has[i]
  <1>. DEFINE D == DOMAIN saver[p].took \cup (Talks!Has \cap saver[p].due) \cup late
  <1>0. SessTypes /\ IdsInv /\ SaveInv /\ saver[p].took \in Maps /\ chat.has \in Maps /\ DOMAIN chat.has = Talks!Has
    BY DEF SessInv, SessTypes, Talks!Has
  <1>1. D \in SUBSET Talks!Ids
    BY <1>0, MapsHave
  <1>2. \A i \in D : i \in DOMAIN saver[p].took \/ i \in Talks!Has
    OBVIOUS
  <1>3. DOMAIN Talks!Draft(p, late) = D
    BY DEF Talks!Draft
  <1>4. \A i \in D : Talks!Draft(p, late)[i] = IF i \in DOMAIN saver[p].took THEN saver[p].took[i] ELSE chat.has[i]
    BY DEF Talks!Draft
  <1>5. \A i \in D : Talks!Draft(p, late)[i] \in 0 .. MaxChanges
    <2>1. \A i \in DOMAIN saver[p].took : saver[p].took[i] \in 0 .. MaxChanges
      BY <1>0, MapsHave
    <2>2. \A i \in Talks!Has : chat.has[i] \in 0 .. MaxChanges
      BY <1>0, MapsHave
    <2>. QED
      BY <1>2, <1>4, <2>1, <2>2
  <1>6. Talks!Draft(p, late) \in [D -> 0 .. MaxChanges]
    <2>1. Talks!Draft(p, late) = [i \in D |-> IF i \in DOMAIN saver[p].took THEN saver[p].took[i] ELSE chat.has[i]]
      BY DEF Talks!Draft
    <2>. QED
      BY <1>4, <1>5, <2>1
  <1>7. Talks!Draft(p, late) \in Maps
    BY <1>1, <1>6, MapsTake
  <1>8. \A i \in D : i \in Talks!Ids /\ i < chat.next
    BY <1>0, <1>1, <1>2 DEF IdsInv
  <1>9. ASSUME NEW i \in D, i \in Talks!Has
        PROVE  /\ Talks!Draft(p, late)[i] <= chat.has[i]
               /\ RowsHold(p, i) => Talks!Draft(p, late)[i] = chat.has[i]
    <2>1. CASE i \in DOMAIN saver[p].took
      BY <1>0, <1>4, <1>9, <2>1 DEF SaveInv, RowsHold
    <2>2. CASE i \notin DOMAIN saver[p].took
      <3>1. Talks!Draft(p, late)[i] = chat.has[i] /\ chat.has[i] \in 0 .. MaxChanges
        BY <1>0, <1>4, <1>9, <2>2, MapsHave
      <3>. QED
        BY <3>1
    <2>. QED
      BY <2>1, <2>2
  <1>. QED
    BY <1>3, <1>7, <1>8, <1>9

LEMMA SaveCommitsKeeps ==
    ASSUME Talks!SessionsConstants, SessInv, NEW p \in Talks!Savers, Talks!SaveCommits(p)
    PROVE  SessInv'
  <1>0. SessTypes /\ SaverInv /\ IdsInv /\ EvictInv /\ RowInv /\ SaveInv /\ DOMAIN <<>> = {}
        /\ Talks!Has \subseteq Talks!Ids /\ DOMAIN chat.has = Talks!Has /\ DOMAIN rows \subseteq Talks!Ids
    BY MapsHave, NoMap DEF SessInv, SessTypes, Talks!Has
  <1>1. PICK late \in SUBSET (Talks!Has \ saver[p].due) :
          /\ rows' = [i \in DOMAIN rows \cup DOMAIN Talks!Draft(p, late) |->
                        IF i \in DOMAIN Talks!Draft(p, late) THEN Talks!Draft(p, late)[i] ELSE rows[i]]
          /\ quiet' = (quiet \/ \E i \in DOMAIN rows \cap DOMAIN Talks!Draft(p, late) : Talks!Draft(p, late)[i] < rows[i])
    BY DEF Talks!SaveCommits
  <1>2. /\ Talks!On(p) /\ Talks!Returns(p) /\ state' = Talks!Saved
        /\ UNCHANGED <<chat, mu, timer, spoke, faults>> /\ Talks!Has' = Talks!Has /\ Talks!Saved' = Talks!Saved
    BY DEF Talks!SaveCommits, Talks!Has, Talks!Saved
  <1>3. /\ saver' \in [Talks!Savers -> [at : {"off", "on"}, due : SUBSET Talks!Ids, took : Maps]]
        /\ saver'[p] = [at |-> "off", due |-> {}, took |-> <<>>]
        /\ \A q \in Talks!Savers : q # p => saver'[q] = saver[q]
        /\ worker' \in [Talks!Workers -> [at : {"idle", "turn", "run", "evict", "saving"}, id : Talks!Ids \cup {Talks!NoId}]]
        /\ \A w \in Talks!Workers : (w = p => worker[w].at = "saving" /\ worker'[w].at \in {"turn", "idle"})
                                 /\ (w # p => worker'[w] = worker[w])
        /\ SaverInv' /\ (~ (Talks!Has = {} /\ mu = Talks!Nobody))
    BY <1>2, ReturnsIs
  <1>4. PICK d : d = Talks!Draft(p, late)
    OBVIOUS
  <1>5. /\ d \in Maps /\ Talks!Has \cap saver[p].due \subseteq DOMAIN d
        /\ \A i \in DOMAIN d : i \in Talks!Ids /\ i < chat.next
        /\ \A i \in DOMAIN d \cap Talks!Has : d[i] <= chat.has[i] /\ (RowsHold(p, i) => d[i] = chat.has[i])
    BY <1>4, DraftIs
  <1>6. /\ DOMAIN rows' = DOMAIN rows \cup DOMAIN d
        /\ \A i \in DOMAIN d : rows'[i] = d[i]
        /\ \A i \in DOMAIN rows \ DOMAIN d : rows'[i] = rows[i]
    BY <1>1, <1>4
  <1>7. (quiet => quiet') /\ quiet' \in BOOLEAN
        /\ (~quiet' => \A i \in DOMAIN rows \cap DOMAIN d : ~ (d[i] < rows[i]))
    BY <1>0, <1>1, <1>4 DEF SessTypes
  <1>8. rows' \in Maps
    <2>1. \A i \in DOMAIN d : d[i] \in 0 .. MaxChanges
      BY <1>5, MapsHave
    <2>2. \A i \in DOMAIN rows : rows[i] \in 0 .. MaxChanges
      BY <1>0, MapsHave DEF SessTypes
    <2>3. \A i \in DOMAIN rows \cup DOMAIN d : (IF i \in DOMAIN d THEN d[i] ELSE rows[i]) \in 0 .. MaxChanges
      BY <2>1, <2>2
    <2>4. rows' = [i \in DOMAIN rows \cup DOMAIN d |-> IF i \in DOMAIN d THEN d[i] ELSE rows[i]]
      BY <1>1, <1>4
    <2>5. rows' \in [DOMAIN rows \cup DOMAIN d -> 0 .. MaxChanges]
      BY <2>3, <2>4
    <2>6. DOMAIN rows \cup DOMAIN d \in SUBSET Talks!Ids
      BY <1>0, <1>5
    <2>. QED
      BY <2>5, <2>6, MapsTake
  <1>9. state' = [active |-> chat.active, next |-> chat.next]
        /\ state' \in [active : Talks!Ids \cup {Talks!NoId}, next : 0 .. MaxSeq + 1]
    BY <1>0, <1>2 DEF Talks!Saved, SessTypes
  <1>10. SessTypes'
    BY <1>0, <1>2, <1>3, <1>7, <1>8, <1>9 DEF SessTypes
  <1>11. IdsInv'
    BY <1>0, <1>2, <1>3, <1>5, <1>6, <1>9 DEF IdsInv
  <1>12. EvictInv'
    BY <1>0, <1>2, <1>3, <1>9 DEF EvictInv, Talks!At
  <1>13. \A q \in Talks!Savers, i \in Talks!Has : q # p => (Covers(q, i) => Covers(q, i)') /\ (RowsHold(q, i) => RowsHold(q, i)')
    BY <1>2, <1>3 DEF Covers, RowsHold, Talks!On
  <1>14. RowInv'
    <2>1. SUFFICES ASSUME ~quiet', NEW i \in Talks!Has
                   PROVE  i \in DOMAIN rows' \/ \E q \in Talks!Savers : Covers(q, i)'
      BY <1>2 DEF RowInv
    <2>2. CASE i \in DOMAIN rows
      BY <1>6, <2>2
    <2>3. CASE \E q \in Talks!Savers : Covers(q, i)
      <3>1. PICK q \in Talks!Savers : Covers(q, i)
        BY <2>3
      <3>2. CASE q = p
        BY <1>5, <1>6, <3>1, <3>2 DEF Covers
      <3>. QED
        BY <1>13, <3>1, <3>2
    <2>. QED
      BY <1>0, <1>7, <2>1, <2>2, <2>3 DEF RowInv
  <1>15. SaveInv'
    <2>1. ASSUME NEW q \in Talks!Savers, NEW i \in DOMAIN saver'[q].took, i \in Talks!Has'
          PROVE  saver'[q].took[i] <= chat'.has[i]
      <3>1. q # p
        BY <1>0, <1>3
      <3>. QED
        BY <1>0, <1>2, <1>3, <2>1, <3>1 DEF SaveInv
    <2>2. ASSUME ~quiet', ~timer', NEW i \in Talks!Has
          PROVE  (i \in DOMAIN rows' /\ rows'[i] = chat.has[i]) \/ \E q \in Talks!Savers : Covers(q, i)' /\ RowsHold(q, i)'
      <3>1. ~quiet /\ ~timer
        BY <1>2, <1>7, <2>2
      <3>2. (i \in DOMAIN rows /\ rows[i] = chat.has[i]) \/ \E q \in Talks!Savers : Covers(q, i) /\ RowsHold(q, i)
        BY <1>0, <3>1 DEF SaveInv
      <3>3. CASE i \in DOMAIN rows /\ rows[i] = chat.has[i]
        <4>1. CASE i \in DOMAIN d
          <5>1. d[i] \in 0 .. MaxChanges /\ rows[i] \in 0 .. MaxChanges /\ ~ (d[i] < rows[i]) /\ d[i] <= chat.has[i]
            BY <1>0, <1>5, <1>7, <2>2, <3>3, <4>1, MapsHave DEF SessTypes
          <5>2. d[i] = chat.has[i]
            BY <3>3, <5>1
          <5>. QED
            BY <1>6, <4>1, <5>2
        <4>2. CASE i \notin DOMAIN d
          BY <1>6, <3>3, <4>2
        <4>. QED
          BY <4>1, <4>2
      <3>4. CASE \E q \in Talks!Savers : Covers(q, i) /\ RowsHold(q, i)
        <4>1. PICK q \in Talks!Savers : Covers(q, i) /\ RowsHold(q, i)
          BY <3>4
        <4>2. CASE q = p
          <5>1. i \in DOMAIN d /\ d[i] = chat.has[i]
            BY <1>5, <4>1, <4>2 DEF Covers
          <5>. QED
            BY <1>6, <5>1
        <4>. QED
          BY <1>13, <4>1, <4>2
      <3>. QED
        BY <3>2, <3>3, <3>4
    <2>3. state' = Talks!Saved'
      BY <1>2
    <2>. QED
      BY <1>2, <2>1, <2>2, <2>3 DEF SaveInv
  <1>. QED
    BY <1>3, <1>10, <1>11, <1>12, <1>14, <1>15 DEF SessInv

(* What Init and a restart have in common: nobody is at work. *)
AtRest ==
    /\ saver = [p \in Talks!Savers |-> Talks!Resting] /\ worker = [w \in Talks!Workers |-> [at |-> "idle", id |-> Talks!NoId]]
    /\ mu = Talks!Nobody /\ timer = FALSE /\ quiet = FALSE /\ rows \in Maps /\ chat = Talks!Loaded
    /\ state \in [active : Talks!Ids \cup {Talks!NoId}, next : 0 .. MaxSeq + 1]
    /\ (\A i \in DOMAIN rows : i < state.next) /\ spoke \subseteq DOMAIN rows /\ faults \in 0 .. MaxFaults

LEMMA RestHolds == Talks!SessionsConstants /\ AtRest => SessInv
  <1>. SUFFICES ASSUME Talks!SessionsConstants, AtRest
                PROVE  SessInv
    OBVIOUS
  <1>. USE DEF AtRest
  <1>0. \A p \in Talks!Savers : saver[p] = [at |-> "off", due |-> {}, took |-> <<>>]
    BY DEF Talks!Resting
  <1>1. DOMAIN <<>> = {} /\ <<>> \in Maps /\ DOMAIN rows \subseteq Talks!Ids /\ (DOMAIN rows = {} => rows = <<>>)
    BY NoMap, MapsHave
  <1>2. saver \in [Talks!Savers -> [at : {"off", "on"}, due : SUBSET Talks!Ids, took : Maps]]
    BY <1>1 DEF Talks!Resting
  <1>3. chat \in [active : Talks!Ids \cup {Talks!NoId}, next : 0 .. MaxSeq + 1, has : Maps]
        /\ Talks!Has = DOMAIN rows /\ chat.has = rows
        /\ (rows = <<>> => chat = Talks!NoChat) /\ (rows # <<>> => chat.next = state.next /\ chat.active = state.active)
    <2>1. CASE rows = <<>>
      BY <1>1, <2>1 DEF Talks!Loaded, Talks!NoChat, Talks!Has, Talks!SessionsConstants
    <2>2. CASE rows # <<>>
      BY <2>2 DEF Talks!Loaded, Talks!Has
    <2>. QED
      BY <2>1, <2>2
  <1>4. SessTypes
    <2>1. worker \in [Talks!Workers -> [at : {"idle", "turn", "run", "evict", "saving"}, id : Talks!Ids \cup {Talks!NoId}]]
      OBVIOUS
    <2>2. timer \in BOOLEAN /\ quiet \in BOOLEAN /\ mu \in Talks!Workers \cup {Talks!Nobody} /\ spoke \subseteq Talks!Ids
      BY <1>1
    <2>. QED
      BY <1>2, <1>3, <2>1, <2>2 DEF SessTypes
  <1>5. SaverInv
    BY <1>0 DEF SaverInv, Talks!Savers
  <1>6. IdsInv
    BY <1>0, <1>1, <1>3 DEF IdsInv
  <1>7. EvictInv
    BY <1>0, <1>1, <1>3 DEF EvictInv, Talks!At, Talks!On
  <1>8. RowInv
    BY <1>3 DEF RowInv
  <1>9. SaveInv
    <2>1. Talks!Has # {} => state = Talks!Saved
      BY <1>1, <1>3 DEF Talks!Saved
    <2>. QED
      BY <1>0, <1>1, <1>3, <2>1 DEF SaveInv
  <1>. QED
    BY <1>4, <1>5, <1>6, <1>7, <1>8, <1>9 DEF SessInv

LEMMA SessStarts ==
    ASSUME Talks!SessionsConstants, Talks!Init
    PROVE  SessInv
  <1>1. rows = <<>> /\ rows \in Maps /\ DOMAIN rows = {} /\ chat = Talks!Loaded /\ spoke \subseteq DOMAIN rows
    BY NoMap DEF Talks!Init, Talks!Loaded
  <1>2. state \in [active : Talks!Ids \cup {Talks!NoId}, next : 0 .. MaxSeq + 1] /\ faults \in 0 .. MaxFaults
    BY DEF Talks!Init, Talks!NoState, Talks!SessionsConstants
  <1>. QED
    BY <1>1, <1>2, RestHolds DEF Talks!Init, AtRest

LEMMA RestartKeeps ==
    ASSUME Talks!SessionsConstants, SessInv, Talks!Restart
    PROVE  SessInv'
  <1>1. rows' = rows /\ state' = state /\ spoke' = spoke
    BY DEF Talks!Restart
  <1>2. /\ saver' = [p \in Talks!Savers |-> Talks!Resting] /\ worker' = [w \in Talks!Workers |-> [at |-> "idle", id |-> Talks!NoId]]
        /\ mu' = Talks!Nobody /\ timer' = FALSE /\ quiet' = FALSE /\ chat' = Talks!Loaded'
    BY <1>1 DEF Talks!Restart, Talks!Loaded
  <1>3. /\ rows' \in Maps /\ state' \in [active : Talks!Ids \cup {Talks!NoId}, next : 0 .. MaxSeq + 1]
        /\ faults' \in 0 .. MaxFaults
    BY <1>1 DEF SessInv, SessTypes, Talks!Restart, Talks!SessionsConstants
  <1>4. (\A i \in DOMAIN rows' : i < state'.next) /\ spoke' \subseteq DOMAIN rows'
    BY <1>1 DEF SessInv, IdsInv
  <1>5. Talks!SessionsConstants' /\ AtRest'
    BY <1>2, <1>3, <1>4 DEF AtRest, Talks!SessionsConstants
  <1>6. Talks!SessionsConstants' /\ AtRest' => SessInv'
    BY RestHolds, PTL
  <1>. QED
    BY <1>5, <1>6

LEMMA SessStep ==
    ASSUME Talks!SessionsConstants, SessInv, [Talks!Next]_(Talks!vars)
    PROVE  SessInv'
  <1>1. ASSUME NEW w \in Talks!Workers, Talks!Get(w)
        PROVE  SessInv'
    BY <1>1, GetKeeps
  <1>2. ASSUME NEW w \in Talks!Workers, Talks!Ask(w) \/ Talks!Reply(w) \/ Talks!Cancelled(w) \/ Talks!SwitchActive(w) \/ Talks!Reset(w)
        PROVE  SessInv'
    BY <1>2, TurnStepsKeep
  <1>3. ASSUME NEW w \in Talks!Workers, Talks!NewSession(w) \/ Talks!DeleteRow(w)
        PROVE  SessInv'
    BY <1>3, NewSessionKeeps, DeleteRowKeeps
  <1>4. ASSUME NEW p \in Talks!Savers, Talks!SaveTakes(p) \/ Talks!SaveCommits(p) \/ Talks!SaveFails(p)
        PROVE  SessInv'
    BY <1>4, SaveTakesKeeps, SaveCommitsKeeps, SaveFailsKeeps
  <1>5. CASE UNCHANGED Talks!vars
    BY <1>5 DEF Talks!vars, SessInv, SessTypes, SaverInv, IdsInv, EvictInv, RowInv, SaveInv, Talks!At, Talks!On, Covers, RowsHold, Talks!Has, Talks!Saved
  <1>6. TalkLanes \subseteq Talks!Workers /\ TalkCommands \subseteq Talks!Workers
    BY DEF Talks!Workers
  <1>. QED
    BY <1>1, <1>2, <1>3, <1>4, <1>5, <1>6, TimerFiresKeeps, RestartKeeps DEF Talks!Next

LEMMA SessInvIsEnough ==
    ASSUME Talks!SessionsConstants, SessInv
    PROVE  Talks!TypeOK /\ Talks!NothingUnsaved
  <1>0. SessTypes /\ SaverInv /\ SaveInv
    BY DEF SessInv
  <1>1. Talks!Has \subseteq Talks!Ids /\ (\A i \in Talks!Has : chat.has[i] \in 0 .. MaxChanges) /\ DOMAIN rows \subseteq Talks!Ids
    BY <1>0, MapsHave DEF SessTypes, Talks!Has
  <1>2. \A w \in Talks!Workers : Talks!At(w, "saving") <=> Talks!On(w)
    BY <1>0 DEF SaverInv, Talks!At, Talks!On
  <1>3. Talks!TypeOK
    BY <1>0, <1>1, <1>2 DEF Talks!TypeOK, SessTypes
  <1>4. Talks!NothingUnsaved
    BY <1>0 DEF Talks!NothingUnsaved, SaveInv, Covers
  <1>. QED
    BY <1>3, <1>4

(* Only newSession, and the first Get of a chat, begin a save in a worker. *)
LEMMA FreshStep ==
    ASSUME Talks!SessionsConstants, SessInv, [Talks!Next]_(Talks!vars)
    PROVE  Talks!IdsAreFresh
  <1>. SUFFICES ASSUME NEW w \in Talks!Workers, worker'[w].at = "saving", worker[w].at # "saving"
                PROVE  worker'[w].id \notin spoke \cup DOMAIN rows
    BY DEF Talks!IdsAreFresh, Talks!At
  <1>0. SessTypes /\ IdsInv /\ EvictInv /\ DOMAIN rows \subseteq Talks!Ids
    BY MapsHave DEF SessInv, SessTypes
  <1>1. ASSUME NEW v \in Talks!Workers, Talks!Creates(v, chat)
        PROVE  worker'[w].id = chat.next
    BY <1>0, <1>1 DEF Talks!Creates, Talks!Goes, SessTypes
  <1>2. ASSUME worker'[w].id = chat.next
        PROVE  worker'[w].id \notin spoke \cup DOMAIN rows
    <2>1. \A i \in DOMAIN rows : i < chat.next /\ i \in Nat /\ chat.next \in Nat
      BY <1>0 DEF IdsInv, Talks!Ids, SessTypes, Talks!SessionsConstants
    <2>2. chat.next \notin DOMAIN rows
      BY <2>1
    <2>. QED
      BY <1>0, <1>2, <2>2 DEF IdsInv
  <1>3. ASSUME NEW v \in Talks!Workers, Talks!Get(v)
        PROVE  \E u \in Talks!Workers : Talks!Creates(u, chat)
    <2>1. Talks!At(v, "idle") /\ mu = Talks!Nobody
      BY <1>3 DEF Talks!Get
    <2>2. ~ \E i : Talks!Goes(v, "turn", i)
      BY <1>0 DEF Talks!Goes, SessTypes
    <2>3. Talks!Has = {} /\ Talks!First(v)
      BY <1>3, <2>2 DEF Talks!Get
    <2>4. chat = Talks!NoChat
      BY <1>0, <2>1, <2>3 DEF EvictInv
    <2>5. Talks!Creates(v, chat)
      BY <2>3, <2>4, NoMap DEF Talks!First, Talks!Creates, Talks!NoChat
    <2>. QED
      BY <2>5
  <1>4. ASSUME NEW v \in Talks!Workers, Talks!NewSession(v) \/ Talks!DeleteRow(v)
        PROVE  \E u \in Talks!Workers : Talks!Creates(u, chat)
    <2>1. ~ Talks!Evicts(v) /\ ~ Talks!Goes(v, "idle", Talks!NoId)
      BY <1>0 DEF Talks!Evicts, Talks!Goes, SessTypes
    <2>. QED
      BY <1>4, <2>1 DEF Talks!NewSession, Talks!DeleteRow
  <1>5. ASSUME NEW v \in Talks!Workers, Talks!Ask(v) \/ Talks!Reply(v) \/ Talks!Cancelled(v) \/ Talks!SwitchActive(v) \/ Talks!Reset(v)
        PROVE  FALSE
    BY <1>0, <1>5 DEF Talks!Ask, Talks!Reply, Talks!Cancelled, Talks!SwitchActive, Talks!Reset, Talks!Goes, SessTypes
  <1>6. ASSUME NEW p \in Talks!Savers, Talks!SaveTakes(p) \/ Talks!SaveCommits(p) \/ Talks!SaveFails(p)
        PROVE  FALSE
    <2>1. CASE Talks!SaveTakes(p)
      BY <2>1 DEF Talks!SaveTakes
    <2>2. CASE Talks!On(p) /\ Talks!Returns(p)
      BY <2>2, ReturnsIs
    <2>. QED
      BY <1>6, <2>1, <2>2 DEF Talks!SaveCommits, Talks!SaveFails
  <1>7. ASSUME Talks!TimerFires \/ UNCHANGED Talks!vars
        PROVE  FALSE
    BY <1>7 DEF Talks!TimerFires, Talks!vars
  <1>8. ~ Talks!Restart
    BY DEF Talks!Restart
  <1>9. TalkLanes \subseteq Talks!Workers /\ TalkCommands \subseteq Talks!Workers
    BY DEF Talks!Workers
  <1>. QED
    BY <1>1, <1>2, <1>3, <1>4, <1>5, <1>6, <1>7, <1>8, <1>9 DEF Talks!Next

(* A turn whose session has a row stores what it was asked; without a row some     *)
(* save under way covers the session, or the history says which save failed.       *)
LEMMA LandStep ==
    ASSUME Talks!SessionsConstants, SessInv, [Talks!Next]_(Talks!vars)
    PROVE  Talks!QuestionsLand
  <1>. SUFFICES ASSUME NEW w \in TalkLanes, worker[w].at = "turn", worker'[w].at = "run", worker[w].id \in Talks!Has, ~quiet,
                       ~ \E p \in Talks!Savers : Talks!On(p) /\ worker[w].id \in saver[p].due
                PROVE  worker[w].id \in spoke'
    BY DEF Talks!QuestionsLand, Talks!At
  <1>0. SessTypes /\ RowInv /\ w \in Talks!Workers
    BY DEF SessInv, Talks!Workers
  <1>1. ASSUME NEW v \in Talks!Workers, Talks!Get(v) \/ Talks!NewSession(v) \/ Talks!DeleteRow(v) \/ Talks!Reply(v) \/ Talks!Cancelled(v)
                                   \/ Talks!SwitchActive(v) \/ Talks!Reset(v)
        PROVE  FALSE
    BY <1>0, <1>1 DEF Talks!Get, Talks!First, Talks!NewSession, Talks!DeleteRow, Talks!Creates, Talks!Evicts, Talks!Reply, Talks!Cancelled, Talks!SwitchActive, Talks!Reset, Talks!Goes,
         SessTypes
  <1>2. ASSUME NEW p \in Talks!Savers, Talks!SaveTakes(p) \/ Talks!SaveCommits(p) \/ Talks!SaveFails(p)
        PROVE  FALSE
    <2>1. CASE Talks!SaveTakes(p)
      BY <2>1 DEF Talks!SaveTakes
    <2>2. CASE Talks!On(p) /\ Talks!Returns(p)
      BY <1>0, <2>2, ReturnsIs
    <2>. QED
      BY <1>2, <2>1, <2>2 DEF Talks!SaveCommits, Talks!SaveFails
  <1>3. ~ Talks!TimerFires /\ ~ (UNCHANGED Talks!vars)
    BY DEF Talks!TimerFires, Talks!vars
  <1>4. ~ Talks!Restart
    BY <1>0 DEF Talks!Restart
  <1>5. ASSUME NEW v \in Talks!Workers, Talks!Ask(v)
        PROVE  worker[w].id \in spoke'
    <2>1. v = w
      BY <1>0, <1>5 DEF Talks!Ask, Talks!Goes, SessTypes
    <2>2. worker[w].id \in DOMAIN rows
      BY <1>0 DEF RowInv, Covers
    <2>. QED
      BY <1>5, <2>1, <2>2 DEF Talks!Ask, Talks!Append
  <1>6. TalkLanes \subseteq Talks!Workers /\ TalkCommands \subseteq Talks!Workers
    BY DEF Talks!Workers
  <1>. QED
    BY <1>1, <1>2, <1>3, <1>4, <1>5, <1>6 DEF Talks!Next

(* Nothing is left unsaved: with no save due, under way or failed, the file holds   *)
(* what the manager holds, for every number of turns, commands and sessions.       *)
THEOREM SavesAreSafe == Talks!SessionsConstants /\ Talks!Spec => [](Talks!TypeOK /\ Talks!NothingUnsaved)
  <1>1. Talks!SessionsConstants /\ Talks!Init => SessInv
    BY SessStarts
  <1>2. Talks!SessionsConstants /\ SessInv /\ [Talks!Next]_(Talks!vars) => SessInv'
    BY SessStep
  <1>3. Talks!SessionsConstants /\ SessInv => Talks!TypeOK /\ Talks!NothingUnsaved
    BY SessInvIsEnough
  <1>4. CASE Talks!SessionsConstants
    BY <1>1, <1>2, <1>3, <1>4, PTL DEF Talks!Spec
  <1>. QED
    BY <1>4

(* A session created now finds neither messages nor a row of an earlier one.        *)
THEOREM NewSessionsAreFresh == Talks!SessionsConstants /\ Talks!Spec => [][Talks!IdsAreFresh]_(Talks!vars)
  <1>1. Talks!SessionsConstants /\ Talks!Init => SessInv
    BY SessStarts
  <1>2. Talks!SessionsConstants /\ SessInv /\ [Talks!Next]_(Talks!vars) => SessInv'
    BY SessStep
  <1>3. Talks!SessionsConstants /\ SessInv /\ [Talks!Next]_(Talks!vars) => Talks!IdsAreFresh
    BY FreshStep
  <1>4. CASE Talks!SessionsConstants
    BY <1>1, <1>2, <1>3, <1>4, PTL DEF Talks!Spec
  <1>. QED
    BY <1>4

(* What a turn was asked is stored, unless a save failed or is still under way.      *)
THEOREM QuestionsAreStored == Talks!SessionsConstants /\ Talks!Spec => [][Talks!QuestionsLand]_(Talks!vars)
  <1>1. Talks!SessionsConstants /\ Talks!Init => SessInv
    BY SessStarts
  <1>2. Talks!SessionsConstants /\ SessInv /\ [Talks!Next]_(Talks!vars) => SessInv'
    BY SessStep
  <1>3. Talks!SessionsConstants /\ SessInv /\ [Talks!Next]_(Talks!vars) => Talks!QuestionsLand
    BY LandStep
  <1>4. CASE Talks!SessionsConstants
    BY <1>1, <1>2, <1>3, <1>4, PTL DEF Talks!Spec
  <1>. QED
    BY <1>4
=============================================================================
