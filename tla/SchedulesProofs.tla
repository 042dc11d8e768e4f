--------------------------- MODULE SchedulesProofs ---------------------------
(***************************************************************************)
(* Proofs about Schedules, for any gateways, clocks, firings and bounds.    *)
(***************************************************************************)
EXTENDS Schedules, TLAPS, FiniteSetTheorems, SequenceTheorems

(* A row a tick has seen due is due still, and leaves room for its firing:    *)
(* every write of next_run_at makes the ticks that saw it lose their claim.  *)
Claimable ==
    /\ row.seen # {} => row.next = "due"
    /\ row.next = "due" => Fired # Firings

Numbered == \E n \in 0..MaxFirings : Fired = 1..n

(* What a firing's stage says of its goroutine, its run and its outcome: while *)
(* the goroutine lives nothing was applied, a pending run is one it has left.  *)
Sound(r, n) ==
    /\ r.stage \in {"unfired", "over", "lost"} <=> r.by = Anyone
    /\ r.stage # "over" => n = 0
    /\ r.status = "pending" => r.stage = "over" /\ n = 0
    /\ n <= 1

Stages == \A f \in Firings : Sound(firing[f], applied[f])

(* A run that a loop has closed, and is about to count, is no other loop's.   *)
Settling ==
    /\ \A g \in Gateways :
         loop[g].at \in {"close", "apply"} =>
            loop[g].run \in Firings /\ loop[g].status \in {"ok", "failed"}
    /\ \A g \in Gateways :
         loop[g].at = "apply" => /\ firing[loop[g].run].stage = "over"
                                /\ firing[loop[g].run].status # "pending"
                                /\ applied[loop[g].run] = 0
    /\ \A g, h \in Gateways :
         g # h /\ loop[g].at = "apply" /\ loop[h].at = "apply" => loop[g].run # loop[h].run

DoneIsOff == done => ~row.enabled /\ clock.kind = "at"

Inv == TypeOK /\ Claimable /\ Numbered /\ Stages /\ Settling /\ DoneIsOff

----------------------------------------------------------------------------
(* The row and its firings                                                  *)

LEMMA InitInv == Init => Inv
  <1>. SUFFICES ASSUME Init PROVE Inv
    OBVIOUS
  <1>. USE ScheduleConstants
  <1>1. row \in Rows /\ row.seen = {} /\ row.next = "spec"
    BY DEF Init, Rows, Times
  <1>2. Unfired \in FiringRows /\ Unfired.stage = "unfired" /\ Sound(Unfired, 0)
    BY DEF Unfired, FiringRows, Outcomes, Sound
  <1>3. Idle \in Loops /\ Idle.at = "settle"
    BY DEF Idle, Among, Loops
  <1>4. \A f \in Firings : firing[f] = Unfired /\ applied[f] = 0
    BY DEF Init
  <1>5. Fired = {}
    BY <1>2, <1>4 DEF Fired
  <1>6. TypeOK
    <2>1. clock \in Clocks /\ passed \in BOOLEAN /\ done \in BOOLEAN
      BY DEF Init
    <2>2. firing \in [Firings -> FiringRows] /\ loop \in [Gateways -> Loops]
      BY <1>2, <1>3 DEF Init
    <2>3. \A g \in Gateways : loop[g].at = "settle"
      BY <1>3 DEF Init
    <2>4. applied \in [Firings -> Nat]
      BY DEF Init
    <2>5. crashes \in 0..MaxCrashes /\ upsets \in 0..MaxUpsets
      BY DEF Init
    <2>. QED
      BY <1>1, <2>1, <2>2, <2>3, <2>4, <2>5 DEF TypeOK
  <1>7. Claimable
    BY <1>1 DEF Claimable
  <1>8. Numbered
    <2>1. 0 \in 0..MaxFirings /\ 1..0 = {}
      OBVIOUS
    <2>. QED
      BY <1>5, <2>1 DEF Numbered
  <1>9. Stages /\ Settling /\ DoneIsOff
    BY <1>2, <1>3, <1>4 DEF Init, Stages, Settling, DoneIsOff
  <1>. QED
    BY <1>6, <1>7, <1>8, <1>9 DEF Inv

LEMMA RowWrites ==
    ASSUME row \in Rows, NEW next \in Times, NEW g
    PROVE  /\ Armed(next) \in Rows /\ Armed(next).next = next /\ Armed(next).seen = {}
           /\ Armed(next).enabled = row.enabled
           /\ Unseen(g) \in Rows /\ Unseen(g).next = row.next /\ Unseen(g).seen \subseteq row.seen
           /\ Unseen(g).enabled = row.enabled
  BY DEF Rows, Armed, Unseen

LEMMA RowOutcomes ==
    ASSUME row \in Rows
    PROVE  /\ SetScheduleEnabled \in Rows /\ SetScheduleEnabled.next = "spec"
           /\ SetScheduleEnabled.seen = {}
           /\ ScheduleSucceeded \in Rows /\ ScheduleSucceeded.next = row.next
           /\ ScheduleSucceeded.seen = row.seen
           /\ ScheduleSucceeded.enabled => row.enabled /\ clock.kind # "at"
           /\ ScheduleFailed \in Rows /\ ScheduleFailed.next = "soon"
           /\ ScheduleFailed.seen = {} /\ (ScheduleFailed.enabled => row.enabled)
  <1>1. {"spec", "soon"} \subseteq Times
    BY DEF Times
  <1>2. Armed("spec") \in Rows /\ Armed("spec").next = "spec" /\ Armed("spec").seen = {}
    BY <1>1, RowWrites
  <1>3. /\ Armed("soon") \in Rows /\ Armed("soon").next = "soon" /\ Armed("soon").seen = {}
        /\ Armed("soon").enabled = row.enabled /\ Armed("soon").failures = row.failures
    <2>1. Armed("soon").failures = row.failures
      BY DEF Armed, Rows
    <2>. QED
      BY <1>1, <2>1, RowWrites
  <1>4. /\ SetScheduleEnabled \in Rows /\ SetScheduleEnabled.next = "spec"
        /\ SetScheduleEnabled.seen = {}
    BY <1>2 DEF SetScheduleEnabled, Rows
  <1>5. /\ ScheduleSucceeded \in Rows /\ ScheduleSucceeded.next = row.next
        /\ ScheduleSucceeded.seen = row.seen
        /\ ScheduleSucceeded.enabled => row.enabled /\ clock.kind # "at"
    BY DEF ScheduleSucceeded, Rows
  <1>6. /\ ScheduleFailed \in Rows /\ ScheduleFailed.next = "soon"
        /\ ScheduleFailed.seen = {} /\ (ScheduleFailed.enabled => row.enabled)
    <2>1. row.failures \in Nat /\ row.enabled \in BOOLEAN
      BY DEF Rows
    <2>. DEFINE on == row.enabled /\ row.failures + 1 < DisableAfterFailures
    <2>2. ScheduleFailed = [Armed("soon") EXCEPT !.failures = row.failures + 1, !.enabled = on]
      BY <1>3 DEF ScheduleFailed, Rows
    <2>3. on \in BOOLEAN /\ (on => row.enabled)
      OBVIOUS
    <2>. HIDE DEF on
    <2>4. [Armed("soon") EXCEPT !.failures = row.failures + 1, !.enabled = on] \in Rows
      <3>1. row.failures + 1 \in Nat
        BY <2>1
      <3>2. ASSUME NEW r \in Rows, NEW n \in Nat, NEW b \in BOOLEAN
            PROVE  [r EXCEPT !.failures = n, !.enabled = b] \in Rows
        BY DEF Rows
      <3>. QED
        BY <1>3, <2>3, <3>1, <3>2
    <2>5. ScheduleFailed.enabled = on
      BY <1>3, <2>2 DEF Rows
    <2>6. ScheduleFailed.next = "soon" /\ ScheduleFailed.seen = {}
      BY <1>3, <2>2 DEF Rows
    <2>. QED
      BY <2>2, <2>3, <2>4, <2>5, <2>6
  <1>. QED
    BY <1>4, <1>5, <1>6

(* An outcome reaches the row. *)
LEMMA Applied ==
    ASSUME Inv, NEW f \in Firings, NEW outcome, ApplyOutcome(f, outcome)
    PROVE  /\ row' \in Rows /\ row'.next \in {row.next, "soon"}
           /\ row'.seen # {} => row'.seen = row.seen /\ row'.next = row.next
           /\ applied' \in [Firings -> Nat] /\ applied'[f] = applied[f] + 1
           /\ \A e \in Firings \ {f} : applied'[e] = applied[e]
           /\ done' \in BOOLEAN
           /\ done' => ~row'.enabled /\ clock.kind = "at"
  <1>1. row \in Rows /\ applied \in [Firings -> Nat] /\ done \in BOOLEAN
    BY DEF Inv, TypeOK
  <1>2. row' = ScheduleFailed \/ row' = ScheduleSucceeded
    BY DEF ApplyOutcome
  <1>3. /\ row' \in Rows /\ row'.next \in {row.next, "soon"}
        /\ row'.seen # {} => row'.seen = row.seen /\ row'.next = row.next
        /\ row'.enabled => row.enabled
    BY <1>1, <1>2, RowOutcomes
  <1>4. /\ applied' \in [Firings -> Nat] /\ applied'[f] = applied[f] + 1
        /\ \A e \in Firings \ {f} : applied'[e] = applied[e]
    BY <1>1 DEF ApplyOutcome
  <1>5. done' \in BOOLEAN
    BY <1>1 DEF ApplyOutcome
  <1>6. ASSUME done' PROVE ~row'.enabled /\ clock.kind = "at"
    <2>1. CASE done
      BY <1>3, <2>1 DEF Inv, DoneIsOff
    <2>2. CASE outcome # "failed" /\ clock.kind = "at"
      <3>1. row' = ScheduleSucceeded
        BY <2>2 DEF ApplyOutcome
      <3>. QED
        BY <1>1, <2>2, <3>1, RowOutcomes
    <2>. QED
      BY <1>6, <2>1, <2>2 DEF ApplyOutcome
  <1>. QED
    BY <1>3, <1>4, <1>5, <1>6

(* The next firing has the next number. *)
LEMMA NextIsFree ==
    ASSUME Inv, Fired # Firings
    PROVE  /\ NextFiring \in Firings \ Fired
           /\ firing[NextFiring].stage = "unfired"
           /\ \E n \in 0..MaxFirings : Fired \cup {NextFiring} = 1..n
  <1>. USE ScheduleConstants
  <1>1. PICK n \in 0..MaxFirings : Fired = 1..n
    BY DEF Inv, Numbered
  <1>2. n # MaxFirings
    BY <1>1 DEF Firings
  <1>3. Cardinality(1..n) = n
    BY <1>1, FS_Interval
  <1>4. NextFiring = n + 1
    BY <1>1, <1>3 DEF NextFiring
  <1>5. n + 1 \in Firings \ Fired /\ n + 1 \in 0..MaxFirings
    BY <1>1, <1>2 DEF Firings
  <1>6. Fired \cup {n + 1} = 1..(n + 1)
    BY <1>1
  <1>. QED
    BY <1>4, <1>5, <1>6 DEF Fired

(* A step that starts nothing new. *)
LEMMA FiredKept ==
    ASSUME \A f \in Firings : firing'[f].stage = "unfired" <=> firing[f].stage = "unfired"
    PROVE  Fired' = Fired
  BY DEF Fired, Firings

(* One firing goes on: its goroutine takes a step, or its task ends. *)
GoesOn(old, new) ==
    /\ old.stage = "unfired" <=> new.stage = "unfired"
    /\ old.stage = "over" => new.stage = "over" /\ new.status = old.status
    /\ \A n : Sound(old, n) => Sound(new, n)

LEMMA OneFiring ==
    ASSUME Inv, NEW f \in Firings, NEW new \in FiringRows, GoesOn(firing[f], new),
           firing' = [firing EXCEPT ![f] = new],
           UNCHANGED <<clock, row, passed, loop, applied, done, crashes>>,
           upsets' \in 0..MaxUpsets
    PROVE  Inv' /\ Fired' = Fired
  <1>1. firing \in [Firings -> FiringRows]
    BY DEF Inv, TypeOK
  <1>2. firing'[f] = new /\ \A e \in Firings \ {f} : firing'[e] = firing[e]
    BY <1>1
  <1>3. firing' \in [Firings -> FiringRows]
    BY <1>1
  <1>4. Fired' = Fired
    BY <1>2, FiredKept DEF GoesOn
  <1>5. TypeOK'
    BY <1>3 DEF Inv, TypeOK
  <1>6. Claimable' /\ Numbered' /\ DoneIsOff'
    BY <1>4 DEF Inv, Claimable, Numbered, DoneIsOff, Firings
  <1>7. Stages'
    BY <1>2 DEF Inv, Stages, GoesOn
  <1>8. Settling'
    BY <1>2 DEF Inv, Settling, GoesOn
  <1>. QED
    BY <1>4, <1>5, <1>6, <1>7, <1>8 DEF Inv

(* The steps that touch neither a firing nor what was applied. *)
LEMMA RowOnly ==
    ASSUME Inv, UNCHANGED <<clock, firing, applied>>, row' \in Rows,
           passed' \in BOOLEAN, done' \in BOOLEAN,
           row'.seen # {} => row'.next = "due",
           row'.next = "due" => row.next = "due" \/ Fired # Firings,
           done' => ~row'.enabled /\ clock.kind = "at",
           loop' \in [Gateways -> Loops],
           \A g \in Gateways :
             /\ loop'[g].at = "apply" => loop'[g] = loop[g]
             /\ loop'[g].at = "close" =>
                  loop'[g].run \in Firings /\ loop'[g].status \in {"ok", "failed"},
           crashes' \in 0..MaxCrashes, upsets' \in 0..MaxUpsets
    PROVE  Inv' /\ Fired' = Fired
  <1>1. Fired' = Fired /\ Firings' = Firings
    BY DEF Fired, Firings
  <1>2. \A g \in Gateways : loop'[g].at \in {"close", "apply"} =>
          loop'[g].run \in Firings /\ loop'[g].status \in {"ok", "failed"}
    BY DEF Inv, Settling
  <1>3. TypeOK'
    BY <1>2 DEF Inv, TypeOK
  <1>4. Claimable' /\ Numbered' /\ DoneIsOff' /\ Stages'
    BY <1>1 DEF Inv, Claimable, Numbered, DoneIsOff, Stages
  <1>5. Settling'
    BY <1>2 DEF Inv, Settling
  <1>. QED
    BY <1>1, <1>3, <1>4, <1>5 DEF Inv

----------------------------------------------------------------------------
(* Time, tasks and people                                                   *)

LEMMA UpsetBound ==
    ASSUME TypeOK
    PROVE  /\ Upset => upsets' \in 0..MaxUpsets
           /\ crashes < MaxCrashes => crashes + 1 \in 0..MaxCrashes
  BY ScheduleConstants DEF Upset, TypeOK

LEMMA TimeStep ==
    ASSUME Inv, ComesDue \/ InstantPasses
    PROVE  Inv' /\ Fired' = Fired
  <1>1. UNCHANGED <<clock, firing, loop, applied, done, crashes, upsets>>
    BY DEF ComesDue, InstantPasses, TimeUnchanged
  <1>2. \/ row' = row
        \/ Fired # Firings /\ row' = [row EXCEPT !.next = "due"]
    BY DEF ComesDue, InstantPasses
  <1>3. /\ row' \in Rows /\ row'.enabled = row.enabled
        /\ row'.seen # {} => row'.next = "due"
        /\ row'.next = "due" => row.next = "due" \/ Fired # Firings
    BY <1>2 DEF Inv, TypeOK, Claimable, Rows, Times
  <1>4. passed' \in BOOLEAN
    BY DEF ComesDue, InstantPasses, Inv, TypeOK
  <1>5. \A g \in Gateways : loop'[g].at = "close" =>
          loop'[g].run \in Firings /\ loop'[g].status \in {"ok", "failed"}
    BY <1>1 DEF Inv, Settling
  <1>6. /\ done' \in BOOLEAN /\ loop' \in [Gateways -> Loops]
        /\ crashes' \in 0..MaxCrashes /\ upsets' \in 0..MaxUpsets
        /\ done' => ~row'.enabled /\ clock.kind = "at"
    BY <1>1, <1>3 DEF Inv, TypeOK, DoneIsOff
  <1>. QED
    BY <1>1, <1>3, <1>4, <1>5, <1>6, RowOnly

LEMMA PersonStep ==
    ASSUME Inv, Enable \/ Disable \/ FireSchedule
    PROVE  Inv' /\ Fired' = Fired
  <1>1. UNCHANGED <<clock, passed, firing, loop, applied, crashes>> /\ Upset
    BY DEF Enable, Disable, FireSchedule, PersonUnchanged
  <1>2. row \in Rows /\ done \in BOOLEAN
    BY DEF Inv, TypeOK
  <1>3. /\ row' \in Rows /\ done' \in BOOLEAN
        /\ row'.seen # {} => row'.next = "due"
        /\ row'.next = "due" => row.next = "due" \/ Fired # Firings
        /\ done' => ~row'.enabled /\ clock.kind = "at"
    <2>1. CASE Enable
      BY <1>2, <2>1, RowOutcomes DEF Enable
    <2>2. CASE Disable
      <3>1. row' = [row EXCEPT !.enabled = FALSE] /\ done' = done
        BY <2>2 DEF Disable
      <3>. QED
        BY <1>2, <3>1 DEF Rows, Inv, Claimable, DoneIsOff
    <2>3. CASE FireSchedule
      <3>1. "due" \in Times
        BY DEF Times
      <3>2. row' = Armed("due") /\ row.enabled /\ Fired # Firings /\ done' = done
        BY <2>3 DEF FireSchedule
      <3>. QED
        BY <1>2, <3>1, <3>2, RowWrites DEF Inv, DoneIsOff
    <2>. QED
      BY <2>1, <2>2, <2>3
  <1>4. \A g \in Gateways : loop'[g].at = "close" =>
          loop'[g].run \in Firings /\ loop'[g].status \in {"ok", "failed"}
    BY <1>1 DEF Inv, Settling
  <1>5. /\ passed' \in BOOLEAN /\ loop' \in [Gateways -> Loops]
        /\ crashes' \in 0..MaxCrashes /\ upsets' \in 0..MaxUpsets
    BY <1>1, UpsetBound DEF Inv, TypeOK
  <1>. QED
    BY <1>1, <1>3, <1>4, <1>5, RowOnly

----------------------------------------------------------------------------
(* The tick                                                                 *)

(* What the tick's steps leave a loop with. *)
LEMMA LoopStates ==
    ASSUME TypeOK, NEW g \in Gateways
    PROVE  /\ \A place \in {"claim", "list", "settle"} :
                At(g, place) \in Loops /\ At(g, place).at = place
           /\ \A listed \in SUBSET Firings :
                Among(listed) \in Loops /\ Among(listed).at = "settle"
           /\ loop[g].listed \in SUBSET Firings
           /\ \A f \in Firings, status \in {"ok", "failed"} :
                /\ Closing(g, f, status) \in Loops /\ Closing(g, f, status).at = "close"
                /\ Closing(g, f, status).run = f /\ Closing(g, f, status).status = status
  <1>. USE ScheduleConstants
  <1>1. loop[g] \in Loops
    BY DEF TypeOK
  <1>2. \A place \in {"claim", "list", "settle"} :
          At(g, place) \in Loops /\ At(g, place).at = place
    BY <1>1 DEF At, Loops
  <1>3. \A listed \in SUBSET Firings :
          Among(listed) \in Loops /\ Among(listed).at = "settle"
    BY DEF Among, Loops
  <1>4. loop[g].listed \in SUBSET Firings
    BY <1>1 DEF Loops
  <1>5. ASSUME NEW f \in Firings, NEW status \in {"ok", "failed"}
        PROVE  /\ Closing(g, f, status) \in Loops /\ Closing(g, f, status).at = "close"
               /\ Closing(g, f, status).run = f /\ Closing(g, f, status).status = status
    <2>1. f \in 0..MaxFirings /\ loop[g].listed \ {f} \in SUBSET Firings
      BY <1>4 DEF Firings
    <2>. QED
      BY <2>1 DEF Closing, Among, Loops
  <1>. QED
    BY <1>2, <1>3, <1>4, <1>5

(* A step of the tick that writes the row at most. *)
LEMMA TickRowOnly ==
    ASSUME Inv, NEW g \in Gateways, NEW l \in Loops, Becomes(g, l),
           l.at # "apply", l.at = "close" => l.run \in Firings /\ l.status \in {"ok", "failed"},
           UNCHANGED <<clock, passed, firing, applied, done>>,
           row' \in Rows, row'.seen # {} => row'.next = "due",
           row'.next = "due" => row.next = "due",
           row'.enabled => row.enabled,
           crashes' \in 0..MaxCrashes, upsets' \in 0..MaxUpsets
    PROVE  Inv' /\ Fired' = Fired
  <1>1. loop \in [Gateways -> Loops] /\ loop' = [loop EXCEPT ![g] = l]
    BY DEF Becomes, Inv, TypeOK
  <1>2. loop' \in [Gateways -> Loops] /\ loop'[g] = l /\ \A h \in Gateways \ {g} : loop'[h] = loop[h]
    BY <1>1
  <1>3. \A h \in Gateways :
          /\ loop'[h].at = "apply" => loop'[h] = loop[h]
          /\ loop'[h].at = "close" =>
               loop'[h].run \in Firings /\ loop'[h].status \in {"ok", "failed"}
    BY <1>2 DEF Inv, Settling
  <1>4. passed' \in BOOLEAN /\ done' \in BOOLEAN /\ (done' => ~row'.enabled /\ clock.kind = "at")
    BY DEF Inv, TypeOK, DoneIsOff
  <1>. QED
    BY <1>2, <1>3, <1>4, RowOnly

LEMMA UnseenRow ==
    ASSUME Inv, NEW g, row' = row \/ row' = Unseen(g)
    PROVE  /\ row' \in Rows /\ (row'.seen # {} => row'.next = "due")
           /\ row'.next = "due" => row.next = "due"
           /\ row'.enabled => row.enabled
  <1>1. row \in Rows /\ "due" \in Times
    BY DEF Inv, TypeOK, Times
  <1>. QED
    BY <1>1, RowWrites DEF Inv, Claimable

LEMMA ReadStep ==
    ASSUME Inv, NEW g \in Gateways,
           \/ DueSchedules(g) \/ PendingScheduleRuns(g) \/ SpecFails(g) \/ TickFails(g)
           \/ \E f \in Firings : GetTask(g, f) \/ TaskMissing(g, f)
    PROVE  Inv' /\ Fired' = Fired
  <1>. USE DEF TickUnchanged
  <1>0. TypeOK /\ row \in Rows
    BY DEF Inv, TypeOK
  <1>1. CASE DueSchedules(g)
    <2>1. PICK place \in {"claim", "list"} : Becomes(g, At(g, place))
      BY <1>1 DEF DueSchedules
    <2>2. At(g, place) \in Loops /\ At(g, place).at = place
      BY <1>0, LoopStates
    <2>3. row' = row \/ (row.next = "due" /\ row' = [row EXCEPT !.seen = @ \cup {g}])
      BY <1>1 DEF DueSchedules, Due
    <2>4. /\ row' \in Rows /\ (row'.seen # {} => row'.next = "due")
          /\ row'.next = "due" => row.next = "due"
          /\ row'.enabled => row.enabled
      BY <1>0, <2>3 DEF Rows, Inv, Claimable
    <2>5. /\ UNCHANGED <<clock, passed, firing, applied, done>>
          /\ crashes' \in 0..MaxCrashes /\ upsets' \in 0..MaxUpsets
      BY <1>1 DEF DueSchedules, Inv, TypeOK
    <2>. QED
      BY <2>1, <2>2, <2>4, <2>5, TickRowOnly
  <1>2. CASE PendingScheduleRuns(g)
    <2>. DEFINE listed == {f \in Firings : firing[f].status = "pending"}
    <2>1. Becomes(g, Among(listed)) /\ Among(listed) \in Loops /\ Among(listed).at = "settle"
      BY <1>0, <1>2, LoopStates DEF PendingScheduleRuns
    <2>2. /\ UNCHANGED <<clock, row, passed, firing, applied, done>>
          /\ crashes' \in 0..MaxCrashes /\ upsets' \in 0..MaxUpsets
      BY <1>2 DEF PendingScheduleRuns, Inv, TypeOK
    <2>. HIDE DEF listed
    <2>. QED
      BY <2>1, <2>2, UnseenRow, TickRowOnly
  <1>3. CASE SpecFails(g)
    <2>1. Becomes(g, At(g, "list")) /\ At(g, "list") \in Loops /\ At(g, "list").at = "list"
      BY <1>0, <1>3, LoopStates DEF SpecFails
    <2>2. /\ UNCHANGED <<clock, passed, firing, applied, done>>
          /\ crashes' \in 0..MaxCrashes /\ upsets' \in 0..MaxUpsets
      BY <1>0, <1>3, UpsetBound DEF SpecFails, Inv, TypeOK
    <2>3. /\ Unseen(g) \in Rows /\ Unseen(g).next = row.next /\ Unseen(g).seen \subseteq row.seen
      BY <1>0, RowWrites DEF Rows
    <2>4. row' = [Unseen(g) EXCEPT !.enabled = FALSE]
      BY <1>3 DEF SpecFails
    <2>5. /\ row' \in Rows /\ (row'.seen # {} => row'.next = "due")
          /\ row'.next = "due" => row.next = "due"
          /\ row'.enabled => row.enabled
      BY <2>3, <2>4 DEF Rows, Inv, Claimable
    <2>. QED
      BY <2>1, <2>2, <2>5, TickRowOnly
  <1>4. CASE TickFails(g)
    <2>1. PICK l \in {At(g, "list"), Among(loop[g].listed)} : Becomes(g, l)
      BY <1>4 DEF TickFails
    <2>2. l \in Loops /\ l.at \in {"list", "settle"}
      BY <1>0, <2>1, LoopStates
    <2>3. /\ UNCHANGED <<clock, passed, firing, applied, done>> /\ row' = Unseen(g)
          /\ crashes' \in 0..MaxCrashes /\ upsets' \in 0..MaxUpsets
      BY <1>0, <1>4, UpsetBound DEF TickFails, Inv, TypeOK
    <2>4. /\ row' \in Rows /\ (row'.seen # {} => row'.next = "due")
          /\ row'.next = "due" => row.next = "due"
          /\ row'.enabled => row.enabled
      BY <2>3, UnseenRow
    <2>5. l.at # "apply" /\ l.at # "close"
      BY <2>2
    <2>6. /\ UNCHANGED <<clock, passed, firing, applied, done>>
          /\ crashes' \in 0..MaxCrashes /\ upsets' \in 0..MaxUpsets
      BY <2>3
    <2>. QED
      BY <2>1, <2>2, <2>4, <2>5, <2>6, TickRowOnly
  <1>5. ASSUME NEW f \in Firings, GetTask(g, f) \/ TaskMissing(g, f)
        PROVE  Inv' /\ Fired' = Fired
    <2>1. OutcomeOf(firing[f].task) \in {"", "ok", "failed"}
      BY DEF OutcomeOf
    <2>2. PICK l : /\ Becomes(g, l)
                  /\ \/ l = Among(loop[g].listed \ {f})
                     \/ \E status \in {"ok", "failed"} : l = Closing(g, f, status)
      BY <1>5, <2>1 DEF GetTask, TaskMissing
    <2>3. loop[g].listed \ {f} \in SUBSET Firings
      BY <1>0, LoopStates
    <2>4. /\ l \in Loops /\ l.at \in {"settle", "close"}
          /\ l.at = "close" => l.run \in Firings /\ l.status \in {"ok", "failed"}
      BY <1>0, <2>2, <2>3, LoopStates
    <2>5. /\ UNCHANGED <<clock, row, passed, firing, applied, done>>
          /\ crashes' \in 0..MaxCrashes /\ upsets' \in 0..MaxUpsets
      BY <1>0, <1>5, UpsetBound DEF GetTask, TaskMissing, Inv, TypeOK
    <2>. QED
      BY <2>2, <2>4, <2>5, UnseenRow, TickRowOnly
  <1>. QED
    BY <1>1, <1>2, <1>3, <1>4, <1>5

(* A claim that is won fires the schedule: its time had come, and is put off. *)
LEMMA ClaimStep ==
    ASSUME Inv, NEW g \in Gateways, ClaimSchedule(g)
    PROVE  Inv' /\ (Fired' # Fired => Due /\ row'.next # "due")
  <1>. USE DEF TickUnchanged
  <1>0. TypeOK /\ row \in Rows
    BY DEF Inv, TypeOK
  <1>1. Becomes(g, At(g, "list")) /\ At(g, "list") \in Loops /\ At(g, "list").at = "list"
    BY <1>0, LoopStates DEF ClaimSchedule
  <1>2. UNCHANGED <<clock, passed, applied, done, crashes, upsets>>
    BY DEF ClaimSchedule
  <1>3. CASE ~Won(g)
    <2>1. UNCHANGED firing /\ row' = Unseen(g)
      BY <1>3 DEF ClaimSchedule
    <2>2. /\ row' \in Rows /\ (row'.seen # {} => row'.next = "due")
          /\ row'.next = "due" => row.next = "due"
          /\ row'.enabled => row.enabled
      BY <2>1, UnseenRow
    <2>3. crashes' \in 0..MaxCrashes /\ upsets' \in 0..MaxUpsets
      BY <1>2 DEF Inv, TypeOK
    <2>. QED
      BY <1>1, <1>2, <2>1, <2>2, <2>3, TickRowOnly
  <1>4. CASE Won(g)
    <2>. DEFINE n == NextFiring
    <2>1. PICK late \in {clock.skip, FALSE} :
            /\ row' = Armed(NextRun)
            /\ firing' = [firing EXCEPT ![n] =
                 [Unfired EXCEPT !.stage = "fired", !.by = g, !.late = late]]
      BY <1>4 DEF ClaimSchedule
    <2>. DEFINE new == [Unfired EXCEPT !.stage = "fired", !.by = g, !.late = late]
    <2>2. row.enabled /\ row.next = "due" /\ Fired # Firings
      BY <1>4 DEF Won, Inv, Claimable
    <2>3. NextRun \in {"spec", "never"} /\ NextRun \in Times
      BY DEF NextRun, Times
    <2>4. /\ row' \in Rows /\ row'.next # "due" /\ row'.seen = {} /\ row'.enabled = row.enabled
      BY <1>0, <2>1, <2>3, RowWrites
    <2>5. /\ n \in Firings \ Fired /\ firing[n].stage = "unfired"
          /\ \E k \in 0..MaxFirings : Fired \cup {n} = 1..k
      BY <2>2, NextIsFree
    <2>6. clock.skip \in BOOLEAN
      BY ScheduleConstants DEF Inv, TypeOK
    <2>7. new \in FiringRows /\ new.stage = "fired" /\ new.by = g /\ new.status = "none"
      BY <2>6 DEF Unfired, FiringRows, Outcomes
    <2>. HIDE DEF n, new
    <2>8. firing' = [firing EXCEPT ![n] = new]
      BY <2>1 DEF new
    <2>9. firing \in [Firings -> FiringRows]
      BY <1>0 DEF TypeOK
    <2>10. /\ firing' \in [Firings -> FiringRows] /\ firing'[n] = new
           /\ \A f \in Firings \ {n} : firing'[f] = firing[f]
      BY <2>5, <2>7, <2>8, <2>9
    <2>11. Fired' = Fired \cup {n}
      BY <2>5, <2>7, <2>10 DEF Fired, Firings
    <2>12. loop \in [Gateways -> Loops] /\ loop' = [loop EXCEPT ![g] = At(g, "list")]
      BY <1>0, <1>1 DEF Becomes, TypeOK
    <2>13. /\ loop' \in [Gateways -> Loops] /\ loop'[g].at = "list"
           /\ \A h \in Gateways \ {g} : loop'[h] = loop[h]
      BY <1>1, <2>12
    <2>14. \A h \in Gateways : loop'[h].at \in {"close", "apply"} => loop'[h] = loop[h] /\ h # g
      BY <2>13
    <2>15. applied[n] = 0
      BY <2>5 DEF Inv, Stages, Sound
    <2>16. TypeOK'
      <3>1. /\ clock' \in Clocks /\ passed' \in BOOLEAN /\ applied' \in [Firings -> Nat]
            /\ done' \in BOOLEAN /\ crashes' \in 0..MaxCrashes /\ upsets' \in 0..MaxUpsets
        BY <1>0, <1>2 DEF TypeOK
      <3>2. \A h \in Gateways : loop'[h].at \in {"close", "apply"} => loop'[h].run \in Firings
        BY <1>0, <2>14 DEF TypeOK
      <3>. QED
        BY <2>4, <2>10, <2>13, <3>1, <3>2 DEF TypeOK
    <2>17. Claimable'
      BY <2>4 DEF Claimable
    <2>18. Numbered'
      BY <2>5, <2>11 DEF Numbered
    <2>19. Stages'
      <3>1. Sound(new, 0)
        BY <2>7, ScheduleConstants DEF Sound
      <3>. QED
        BY <1>2, <2>10, <2>15, <3>1 DEF Inv, Stages
    <2>20. Settling'
      <3>1. \A h \in Gateways : loop[h].at = "apply" => loop[h].run # n
        BY <2>5 DEF Inv, Settling
      <3>2. \A h \in Gateways : loop[h].at = "apply" => loop[h].run \in Firings
        BY DEF Inv, Settling
      <3>. QED
        BY <1>2, <2>10, <2>14, <3>1, <3>2 DEF Inv, Settling
    <2>21. DoneIsOff'
      BY <1>2, <2>4 DEF Inv, DoneIsOff
    <2>. QED
      BY <2>2, <2>4, <2>16, <2>17, <2>18, <2>19, <2>20, <2>21 DEF Inv, Due
  <1>. QED
    BY <1>3, <1>4

(* Of the loops that listed a run one closes it, and only that one counts it. *)
LEMMA SettleStep ==
    ASSUME Inv, NEW g \in Gateways, SettleScheduleRun(g)
    PROVE  Inv' /\ Fired' = Fired
  <1>. DEFINE f == loop[g].run
  <1>. USE DEF TickUnchanged
  <1>0. TypeOK /\ row \in Rows /\ f \in Firings /\ loop[g].status \in {"ok", "failed"}
    BY DEF Inv, TypeOK, Settling, SettleScheduleRun
  <1>1. UNCHANGED <<clock, row, passed, applied, done, crashes, upsets>>
    BY DEF SettleScheduleRun
  <1>2. CASE ~StillPending(f)
    <2>1. /\ Becomes(g, Among(loop[g].listed)) /\ UNCHANGED firing
          /\ Among(loop[g].listed) \in Loops /\ Among(loop[g].listed).at = "settle"
      BY <1>0, <1>2, LoopStates DEF SettleScheduleRun
    <2>2. crashes' \in 0..MaxCrashes /\ upsets' \in 0..MaxUpsets
      BY <1>1 DEF Inv, TypeOK
    <2>. QED
      BY <1>1, <2>1, <2>2, UnseenRow, TickRowOnly
  <1>3. CASE StillPending(f)
    <2>. DEFINE new == [firing[f] EXCEPT !.status = loop[g].status]
                l == At(g, "apply")
    <2>1. /\ firing' = [firing EXCEPT ![f] = new] /\ loop' = [loop EXCEPT ![g] = l]
      BY <1>0, <1>3 DEF SettleScheduleRun, Becomes, TypeOK
    <2>2. firing[f] \in FiringRows /\ loop[g] \in Loops /\ firing[f].status = "pending"
      BY <1>0, <1>3 DEF TypeOK, StillPending
    <2>3. firing[f].stage = "over" /\ firing[f].by = Anyone /\ applied[f] = 0
      BY <1>0, <2>2 DEF Inv, Stages, Sound
    <2>4. /\ new \in FiringRows /\ new.stage = "over" /\ new.by = Anyone
          /\ new.status = loop[g].status
      BY <1>0, <2>2, <2>3 DEF FiringRows, Outcomes
    <2>5. l \in Loops /\ l.at = "apply" /\ l.run = f /\ l.status = loop[g].status
      BY <2>2 DEF At, Loops
    <2>. HIDE DEF new, l
    <2>6. firing \in [Firings -> FiringRows] /\ loop \in [Gateways -> Loops]
      BY <1>0 DEF TypeOK
    <2>. HIDE DEF f
    <2>7. /\ firing' \in [Firings -> FiringRows] /\ firing'[f] = new
          /\ \A e \in Firings \ {f} : firing'[e] = firing[e]
      BY <1>0, <2>1, <2>4, <2>6
    <2>8. /\ loop' \in [Gateways -> Loops] /\ loop'[g] = l
          /\ \A h \in Gateways \ {g} : loop'[h] = loop[h]
      BY <2>1, <2>5, <2>6
    <2>9. Fired' = Fired
      BY <1>0, <2>3, <2>4, <2>7, FiredKept
    <2>10. \A h \in Gateways : loop'[h].at \in {"close", "apply"} =>
             loop'[h].run \in Firings /\ loop'[h].status \in {"ok", "failed"}
      BY <1>0, <2>5, <2>8 DEF Inv, Settling
    <2>11. TypeOK'
      <3>1. /\ clock' \in Clocks /\ passed' \in BOOLEAN /\ applied' \in [Firings -> Nat]
            /\ row' \in Rows
            /\ done' \in BOOLEAN /\ crashes' \in 0..MaxCrashes /\ upsets' \in 0..MaxUpsets
        BY <1>0, <1>1 DEF TypeOK
      <3>. QED
        BY <2>7, <2>8, <2>10, <3>1 DEF TypeOK
    <2>12. Claimable' /\ Numbered' /\ DoneIsOff'
      BY <1>1, <2>9 DEF Inv, Claimable, Numbered, DoneIsOff, Firings
    <2>13. Stages'
      <3>1. Sound(new, 0)
        BY <1>0, <2>4 DEF Sound
      <3>. QED
        BY <1>1, <2>3, <2>7, <3>1 DEF Inv, Stages
    <2>14. Settling'
      <3>1. \A h \in Gateways : loop[h].at = "apply" => loop[h].run \in Firings \ {f}
        BY <2>2 DEF Inv, Settling
      <3>2. \A h \in Gateways : loop'[h].at = "apply" =>
              /\ firing'[loop'[h].run].stage = "over"
              /\ firing'[loop'[h].run].status # "pending"
              /\ applied'[loop'[h].run] = 0
        BY <1>0, <1>1, <2>3, <2>4, <2>5, <2>7, <2>8, <3>1 DEF Inv, Settling
      <3>3. \A h, i \in Gateways :
              h # i /\ loop'[h].at = "apply" /\ loop'[i].at = "apply" => loop'[h].run # loop'[i].run
        BY <2>5, <2>8, <3>1 DEF Inv, Settling
      <3>. QED
        BY <2>10, <3>2, <3>3 DEF Settling
    <2>. QED
      BY <2>9, <2>11, <2>12, <2>13, <2>14 DEF Inv
  <1>. QED
    BY <1>2, <1>3

LEMMA ApplyStep ==
    ASSUME Inv, NEW g \in Gateways, ApplySettled(g)
    PROVE  Inv' /\ Fired' = Fired
  <1>. DEFINE f == loop[g].run
              l == Among(loop[g].listed)
  <1>. USE DEF TickUnchanged
  <1>1. TypeOK /\ f \in Firings /\ loop[g].at = "apply"
    BY DEF Inv, Settling, ApplySettled
  <1>2. UNCHANGED <<clock, passed, firing, crashes, upsets>>
    BY DEF ApplySettled
  <1>3. ApplyOutcome(f, loop[g].status)
    BY DEF ApplySettled
  <1>4. /\ row' \in Rows /\ row'.next \in {row.next, "soon"}
        /\ row'.seen # {} => row'.seen = row.seen /\ row'.next = row.next
        /\ applied' \in [Firings -> Nat] /\ applied'[f] = applied[f] + 1
        /\ \A e \in Firings \ {f} : applied'[e] = applied[e]
        /\ done' \in BOOLEAN
        /\ done' => ~row'.enabled /\ clock.kind = "at"
    BY <1>1, <1>3, Applied
  <1>5. l \in Loops /\ l.at = "settle"
    BY <1>1, LoopStates
  <1>6. loop \in [Gateways -> Loops] /\ loop' = [loop EXCEPT ![g] = l]
    BY <1>1 DEF ApplySettled, Becomes, TypeOK
  <1>7. applied[f] = 0 /\ firing[f].stage = "over" /\ firing[f].status # "pending"
    BY <1>1 DEF Inv, Settling
  <1>8. \A h \in Gateways \ {g} : loop[h].at = "apply" => loop[h].run \in Firings \ {f}
    BY <1>1 DEF Inv, Settling
  <1>. HIDE DEF f, l
  <1>9. /\ loop' \in [Gateways -> Loops] /\ loop'[g].at = "settle"
        /\ \A h \in Gateways \ {g} : loop'[h] = loop[h]
    BY <1>5, <1>6
  <1>10. Fired' = Fired
    BY <1>2 DEF Fired, Firings
  <1>11. \A h \in Gateways : loop'[h].at \in {"close", "apply"} =>
           h # g /\ loop'[h].run \in Firings /\ loop'[h].status \in {"ok", "failed"}
    BY <1>9 DEF Inv, Settling
  <1>12. TypeOK'
    <2>1. /\ clock' \in Clocks /\ passed' \in BOOLEAN /\ firing' \in [Firings -> FiringRows]
          /\ crashes' \in 0..MaxCrashes /\ upsets' \in 0..MaxUpsets
      BY <1>1, <1>2 DEF TypeOK
    <2>. QED
      BY <1>4, <1>9, <1>11, <2>1 DEF TypeOK
  <1>13. Claimable' /\ Numbered' /\ DoneIsOff'
    BY <1>2, <1>4, <1>10 DEF Inv, Claimable, Numbered, DoneIsOff, Firings
  <1>14. Stages'
    <2>1. Sound(firing[f], applied'[f])
      BY <1>1, <1>4, <1>7 DEF Inv, Stages, Sound
    <2>. QED
      BY <1>2, <1>4, <2>1 DEF Inv, Stages
  <1>15. Settling'
    BY <1>2, <1>4, <1>8, <1>9, <1>11 DEF Inv, Settling
  <1>. QED
    BY <1>10, <1>12, <1>13, <1>14, <1>15 DEF Inv

----------------------------------------------------------------------------
(* The goroutine of a firing, and the end of its task                       *)

LEMMA FireStep ==
    ASSUME Inv, NEW f \in Firings,
           \/ SkipMissed(f) \/ Heartbeat(f) \/ CreateTask(f) \/ FiringFails(f)
           \/ RecordScheduleRun(f) \/ RecordFails(f) \/ Ending(f)
           \/ \E outcome \in {"ok", "failed"} : RunCommand(f, outcome)
    PROVE  Inv' /\ Fired' = Fired
  <1>. DEFINE old == firing[f]
  <1>. USE DEF FireUnchanged
  <1>0. /\ TypeOK /\ old \in FiringRows /\ firing \in [Firings -> FiringRows]
        /\ Anyone \in Gateways \cup {Anyone}
    BY DEF Inv, TypeOK
  <1>1. /\ UNCHANGED <<clock, row, passed, loop, applied, done, crashes>>
        /\ upsets' \in 0..MaxUpsets
    <2>1. UNCHANGED upsets \/ Upset
      BY DEF SkipMissed, Heartbeat, CreateTask, FiringFails, RecordScheduleRun, RecordFails,
             Ending, TaskEnds, RunCommand
    <2>2. upsets' \in 0..MaxUpsets
      BY <1>0, <2>1, UpsetBound DEF TypeOK
    <2>. QED
      BY <2>2 DEF SkipMissed, Heartbeat, CreateTask, FiringFails, RecordScheduleRun, RecordFails,
                  Ending, TaskEnds, RunCommand
  <1>2. ASSUME NEW outcome \in Outcomes, NEW status \in Outcomes \cup {"none"},
               Ends(f, outcome, status), old.stage \in {"fired", "looked"}
        PROVE  Inv' /\ Fired' = Fired
    <2>. DEFINE new == [old EXCEPT !.stage = "ended", !.outcome = outcome, !.status = status]
    <2>1. firing' = [firing EXCEPT ![f] = new]
      BY <1>0, <1>2 DEF Ends
    <2>2. new \in FiringRows
      BY <1>0 DEF FiringRows
    <2>3. /\ new.stage = "ended" /\ new.by = old.by /\ new.status = status /\ status # "pending"
      BY <1>0 DEF FiringRows, Outcomes
    <2>4. GoesOn(old, new)
      BY <1>2, <2>3 DEF GoesOn, Sound
    <2>. HIDE DEF new
    <2>. QED
      BY <1>1, <2>1, <2>2, <2>4, OneFiring
  <1>3. ASSUME NEW stage \in {"looked", "created"}, NEW task \in {old.task, "open"},
               firing' = [firing EXCEPT ![f].stage = stage, ![f].task = task],
               old.stage \in {"fired", "looked"}
        PROVE  Inv' /\ Fired' = Fired
    <2>. DEFINE new == [old EXCEPT !.stage = stage, !.task = task]
    <2>1. firing' = [firing EXCEPT ![f] = new]
      BY <1>0, <1>3
    <2>2. new \in FiringRows
      BY <1>0 DEF FiringRows
    <2>3. new.stage = stage /\ new.by = old.by /\ new.status = old.status
      BY <1>0 DEF FiringRows
    <2>4. GoesOn(old, new)
      BY <1>3, <2>3 DEF GoesOn, Sound
    <2>. HIDE DEF new
    <2>. QED
      BY <1>1, <2>1, <2>2, <2>4, OneFiring
  <1>4. ASSUME NEW status \in {"pending", old.status}, old.stage = "created",
               firing' = [firing EXCEPT ![f] = [Gone(f, "over") EXCEPT !.status = status]]
        PROVE  Inv' /\ Fired' = Fired
    <2>. DEFINE new == [Gone(f, "over") EXCEPT !.status = status]
    <2>1. new \in FiringRows
      BY <1>0 DEF FiringRows, Gone
    <2>2. new.stage = "over" /\ new.by = Anyone /\ new.status = status
      BY <1>0 DEF FiringRows, Gone
    <2>3. GoesOn(old, new)
      BY <1>4, <2>2 DEF GoesOn, Sound
    <2>. HIDE DEF new
    <2>. QED
      BY <1>1, <1>4, <2>1, <2>3, OneFiring DEF new
  <1>5. CASE SkipMissed(f)
    <2>1. Ends(f, "skipped", "skipped") /\ old.stage = "fired" /\ "skipped" \in Outcomes
      BY <1>5 DEF SkipMissed, Outcomes
    <2>. QED
      BY <1>2, <2>1
  <1>6. CASE Heartbeat(f)
    <2>1. CASE Ends(f, "skipped", "none")
      <3>1. old.stage = "fired" /\ "skipped" \in Outcomes
        BY <1>6 DEF Heartbeat, Outcomes
      <3>. QED
        BY <1>2, <2>1, <3>1
    <2>2. CASE Goes(f, "looked")
      <3>1. firing' = [firing EXCEPT ![f].stage = "looked", ![f].task = old.task]
        BY <1>0, <2>2 DEF Goes, FiringRows
      <3>2. old.stage = "fired"
        BY <1>6 DEF Heartbeat
      <3>. QED
        BY <1>3, <3>1, <3>2
    <2>. QED
      BY <1>6, <2>1, <2>2 DEF Heartbeat
  <1>7. CASE CreateTask(f)
    <2>1. /\ firing' = [firing EXCEPT ![f].stage = "created", ![f].task = "open"]
          /\ old.stage \in {"fired", "looked"}
      BY <1>7 DEF CreateTask
    <2>. QED
      BY <1>3, <2>1
  <1>8. CASE FiringFails(f)
    <2>1. Ends(f, "failed", "failed") /\ old.stage \in {"fired", "looked"} /\ "failed" \in Outcomes
      BY <1>8 DEF FiringFails, Outcomes
    <2>. QED
      BY <1>2, <2>1
  <1>9. CASE RecordScheduleRun(f)
    <2>1. /\ firing' = [firing EXCEPT ![f] = [Gone(f, "over") EXCEPT !.status = "pending"]]
          /\ old.stage = "created"
      BY <1>9 DEF RecordScheduleRun
    <2>. QED
      BY <1>4, <2>1
  <1>10. CASE RecordFails(f)
    <2>1. firing' = [firing EXCEPT ![f] = Gone(f, "over")] /\ old.stage = "created"
      BY <1>10 DEF RecordFails
    <2>2. Gone(f, "over") = [Gone(f, "over") EXCEPT !.status = old.status]
      BY <1>0 DEF Gone, FiringRows
    <2>. QED
      BY <1>4, <2>1, <2>2
  <1>11. CASE Ending(f)
    <2>1. PICK state \in {"completed", "failed", "canceled"} : TaskEnds(f, state)
      BY <1>11 DEF Ending
    <2>. DEFINE new == [old EXCEPT !.task = state]
    <2>2. firing' = [firing EXCEPT ![f] = new]
      BY <1>0, <2>1 DEF TaskEnds
    <2>3. new \in FiringRows /\ new.stage = old.stage /\ new.by = old.by /\ new.status = old.status
      BY <1>0 DEF FiringRows
    <2>4. GoesOn(old, new)
      BY <2>3 DEF GoesOn, Sound
    <2>. HIDE DEF new
    <2>. QED
      BY <1>1, <2>2, <2>3, <2>4, OneFiring
  <1>12. ASSUME NEW outcome \in {"ok", "failed"}, RunCommand(f, outcome)
         PROVE  Inv' /\ Fired' = Fired
    <2>1. Ends(f, outcome, outcome) /\ old.stage = "fired" /\ outcome \in Outcomes
      BY <1>12 DEF RunCommand, Outcomes
    <2>. QED
      BY <1>2, <2>1
  <1>. QED
    BY <1>5, <1>6, <1>7, <1>8, <1>9, <1>10, <1>11, <1>12

LEMMA FiredApplied ==
    ASSUME Inv, NEW f \in Firings, ApplyFired(f)
    PROVE  Inv' /\ Fired' = Fired
  <1>. DEFINE new == Gone(f, "over")
  <1>. USE DEF FireUnchanged
  <1>1. TypeOK /\ firing \in [Firings -> FiringRows] /\ firing[f].stage = "ended"
    BY DEF Inv, TypeOK, ApplyFired
  <1>2. UNCHANGED <<clock, passed, loop, crashes, upsets>>
    BY DEF ApplyFired
  <1>3. ApplyOutcome(f, firing[f].outcome)
    BY DEF ApplyFired
  <1>4. /\ row' \in Rows /\ row'.next \in {row.next, "soon"}
        /\ row'.seen # {} => row'.seen = row.seen /\ row'.next = row.next
        /\ applied' \in [Firings -> Nat] /\ applied'[f] = applied[f] + 1
        /\ \A e \in Firings \ {f} : applied'[e] = applied[e]
        /\ done' \in BOOLEAN
        /\ done' => ~row'.enabled /\ clock.kind = "at"
    BY <1>3, Applied
  <1>5. /\ new \in FiringRows /\ new.stage = "over" /\ new.by = Anyone
        /\ new.status = firing[f].status
    BY <1>1 DEF Gone, FiringRows
  <1>6. firing' = [firing EXCEPT ![f] = new]
    BY DEF ApplyFired
  <1>7. applied[f] = 0 /\ firing[f].status # "pending"
    BY <1>1 DEF Inv, Stages, Sound
  <1>. HIDE DEF new
  <1>8. /\ firing' \in [Firings -> FiringRows] /\ firing'[f] = new
        /\ \A e \in Firings \ {f} : firing'[e] = firing[e]
    BY <1>1, <1>5, <1>6
  <1>9. Fired' = Fired
    BY <1>1, <1>5, <1>8, FiredKept
  <1>10. TypeOK'
    <2>1. /\ clock' \in Clocks /\ passed' \in BOOLEAN /\ loop' \in [Gateways -> Loops]
          /\ crashes' \in 0..MaxCrashes /\ upsets' \in 0..MaxUpsets
          /\ \A g \in Gateways : loop'[g].at \in {"close", "apply"} => loop'[g].run \in Firings
      BY <1>1, <1>2 DEF TypeOK
    <2>. QED
      BY <1>4, <1>8, <2>1 DEF TypeOK
  <1>11. Claimable' /\ Numbered' /\ DoneIsOff'
    BY <1>2, <1>4, <1>9 DEF Inv, Claimable, Numbered, DoneIsOff, Firings
  <1>12. Stages'
    <2>1. Sound(new, applied'[f])
      BY <1>4, <1>5, <1>7 DEF Sound
    <2>. QED
      BY <1>4, <1>8, <2>1 DEF Inv, Stages
  <1>13. Settling'
    <2>1. \A g \in Gateways : loop[g].at = "apply" => loop[g].run \in Firings \ {f}
      BY <1>1 DEF Inv, Settling
    <2>. QED
      BY <1>2, <1>4, <1>8, <2>1 DEF Inv, Settling
  <1>. QED
    BY <1>9, <1>10, <1>11, <1>12, <1>13 DEF Inv

----------------------------------------------------------------------------
(* Gateways that die and come back                                          *)

LEMMA CrashStep ==
    ASSUME Inv, NEW g \in Gateways, Crash(g)
    PROVE  Inv' /\ Fired' = Fired
  <1>. DEFINE l == [Idle EXCEPT !.at = "down"]
  <1>1. TypeOK /\ firing \in [Firings -> FiringRows] /\ row \in Rows /\ Anyone # g
    BY ScheduleConstants DEF Inv, TypeOK
  <1>2. UNCHANGED <<clock, passed, applied, done, upsets>> /\ crashes' \in 0..MaxCrashes
    BY <1>1, UpsetBound DEF Crash
  <1>3. l \in Loops /\ l.at = "down"
    <2>1. Idle \in Loops
      BY ScheduleConstants DEF Idle, Among, Loops
    <2>. QED
      BY <2>1 DEF Loops
  <1>4. loop \in [Gateways -> Loops] /\ loop' = [loop EXCEPT ![g] = l]
    BY <1>1 DEF Crash, Becomes, TypeOK
  <1>. HIDE DEF l
  <1>5. /\ loop' \in [Gateways -> Loops] /\ loop'[g].at = "down"
        /\ \A h \in Gateways \ {g} : loop'[h] = loop[h]
    BY <1>3, <1>4
  <1>6. row' = Unseen(g)
    BY DEF Crash
  <1>7. row' \in Rows /\ (row'.seen # {} => row'.next = "due")
        /\ (row'.next = "due" => row.next = "due") /\ (row'.enabled => row.enabled)
    BY <1>6, UnseenRow
  <1>8. \A f \in Firings :
          firing'[f] = IF firing[f].by = g THEN Gone(f, "lost") ELSE firing[f]
    BY DEF Crash
  <1>9. \A f \in Firings : /\ Gone(f, "lost") \in FiringRows
                            /\ Gone(f, "lost").stage = "lost" /\ Gone(f, "lost").by = Anyone
                            /\ Gone(f, "lost").status = firing[f].status
    <2>. SUFFICES ASSUME NEW f \in Firings
                  PROVE  /\ Gone(f, "lost") \in FiringRows
                         /\ Gone(f, "lost").stage = "lost" /\ Gone(f, "lost").by = Anyone
                         /\ Gone(f, "lost").status = firing[f].status
      OBVIOUS
    <2>1. firing[f] \in FiringRows
      BY <1>1
    <2>. QED
      BY <2>1 DEF Gone, FiringRows
  <1>10. firing' \in [Firings -> FiringRows]
    BY <1>1, <1>8, <1>9 DEF Crash
  <1>11. \A f \in Firings : firing[f].by = g => firing[f].stage \notin {"unfired", "over", "lost"}
    BY <1>1 DEF Inv, Stages, Sound
  <1>12. Fired' = Fired
    BY <1>8, <1>9, <1>11, FiredKept
  <1>13. TypeOK'
    <2>1. /\ clock' \in Clocks /\ passed' \in BOOLEAN /\ applied' \in [Firings -> Nat]
          /\ done' \in BOOLEAN /\ upsets' \in 0..MaxUpsets
      BY <1>1, <1>2 DEF TypeOK
    <2>2. \A h \in Gateways : loop'[h].at \in {"close", "apply"} => loop'[h].run \in Firings
      BY <1>1, <1>5 DEF TypeOK
    <2>. QED
      BY <1>2, <1>5, <1>7, <1>10, <2>1, <2>2 DEF TypeOK
  <1>14. Claimable' /\ Numbered' /\ DoneIsOff'
    BY <1>2, <1>7, <1>12 DEF Inv, Claimable, Numbered, DoneIsOff, Firings
  <1>15. Stages'
    <2>1. \A f \in Firings : firing[f].by = g => Sound(Gone(f, "lost"), applied[f])
      BY <1>9, <1>11 DEF Inv, Stages, Sound
    <2>. QED
      BY <1>2, <1>8, <2>1 DEF Inv, Stages
  <1>16. Settling'
    <2>1. \A h \in Gateways : loop'[h].at \in {"close", "apply"} =>
            h # g /\ loop'[h] = loop[h] /\ loop[h].run \in Firings
      BY <1>5 DEF Inv, Settling
    <2>2. \A h \in Gateways : loop'[h].at = "apply" => firing'[loop[h].run] = firing[loop[h].run]
      BY <1>8, <1>11, <2>1 DEF Inv, Settling
    <2>. QED
      BY <1>2, <2>1, <2>2 DEF Inv, Settling
  <1>. QED
    BY <1>12, <1>13, <1>14, <1>15, <1>16 DEF Inv

(* A heartbeat is never a one-shot: switching it on again revives nothing done. *)
LEMMA StartStep ==
    ASSUME Inv, NEW g \in Gateways, Start(g)
    PROVE  Inv' /\ Fired' = Fired
  <1>1. TypeOK /\ row \in Rows /\ done \in BOOLEAN
    BY DEF Inv, TypeOK
  <1>2. UNCHANGED <<clock, passed, firing, applied, done, crashes, upsets>>
    BY DEF Start
  <1>3. Idle \in Loops /\ Idle.at = "settle"
    BY ScheduleConstants DEF Idle, Among, Loops
  <1>4. loop \in [Gateways -> Loops] /\ loop' = [loop EXCEPT ![g] = Idle]
    BY <1>1 DEF Start, Becomes, TypeOK
  <1>5. /\ loop' \in [Gateways -> Loops]
        /\ \A h \in Gateways :
             /\ loop'[h].at = "apply" => loop'[h] = loop[h]
             /\ loop'[h].at = "close" =>
                  loop'[h].run \in Firings /\ loop'[h].status \in {"ok", "failed"}
    BY <1>3, <1>4 DEF Inv, Settling
  <1>6. /\ row' \in Rows /\ (row'.seen # {} => row'.next = "due")
        /\ (row'.next = "due" => row.next = "due")
        /\ (done => ~row'.enabled /\ clock.kind = "at")
    <2>1. CASE row' = row
      BY <1>1, <2>1 DEF Inv, Claimable, DoneIsOff
    <2>2. CASE row' = SetScheduleEnabled /\ clock.payload = "heartbeat"
      <3>1. clock.kind = "every"
        BY <1>1, <2>2, ScheduleConstants DEF TypeOK
      <3>2. ~done
        BY <3>1 DEF Inv, DoneIsOff
      <3>. QED
        BY <1>1, <2>2, <3>2, RowOutcomes
    <2>. QED
      BY <2>1, <2>2 DEF Start
  <1>7. passed' \in BOOLEAN /\ done' \in BOOLEAN /\ crashes' \in 0..MaxCrashes /\ upsets' \in 0..MaxUpsets
    BY <1>1, <1>2 DEF TypeOK
  <1>. QED
    BY <1>2, <1>5, <1>6, <1>7, RowOnly

----------------------------------------------------------------------------
(* The theorems                                                             *)

LEMMA InvStep ==
    ASSUME Inv, [Next]_vars
    PROVE  Inv' /\ (Fired' # Fired => Due /\ row'.next # "due")
  <1>1. CASE UNCHANGED vars
    BY <1>1 DEF vars, Inv, TypeOK, Claimable, Numbered, Stages, Settling, DoneIsOff, Fired, Firings
  <1>2. CASE ComesDue \/ InstantPasses
    BY <1>2, TimeStep
  <1>3. CASE Enable \/ Disable \/ FireSchedule
    BY <1>3, PersonStep
  <1>4. ASSUME NEW g \in Gateways,
               Tick(g) \/ SpecFails(g) \/ TickFails(g) \/ Crash(g) \/ Start(g)
        PROVE  Inv' /\ (Fired' # Fired => Due /\ row'.next # "due")
    BY <1>4, ReadStep, ClaimStep, SettleStep, ApplyStep, CrashStep, StartStep DEF Tick
  <1>5. ASSUME NEW f \in Firings, Fire(f) \/ FiringFails(f) \/ RecordFails(f) \/ Ending(f)
        PROVE  Inv' /\ (Fired' # Fired => Due /\ row'.next # "due")
    BY <1>5, FireStep, FiredApplied DEF Fire
  <1>6. ASSUME NEW g \in Gateways, NEW f \in Firings, TaskMissing(g, f)
        PROVE  Inv' /\ (Fired' # Fired => Due /\ row'.next # "due")
    BY <1>6, ReadStep
  <1>. QED
    BY <1>1, <1>2, <1>3, <1>4, <1>5, <1>6 DEF Next

LEMMA InvHolds == Spec => []Inv
  <1>1. Inv /\ [Next]_vars => Inv'
    BY InvStep
  <1>. QED
    BY <1>1, InitInv, PTL DEF Spec

(* Every variable keeps its type and its bounds; a loop that closes or counts a *)
(* run has one in hand, and no firing is started beyond the bound.            *)
THEOREM TypeCorrect == Spec => []TypeOK
  <1>1. Inv => TypeOK
    BY DEF Inv
  <1>. QED
    BY <1>1, InvHolds, PTL

(* However many loops list a run and whoever dies, its outcome reaches the row  *)
(* of the schedule at most once.                                            *)
THEOREM OutcomesAreCountedOnce == Spec => []CountedOnce
  <1>1. Inv => CountedOnce
    BY DEF Inv, Stages, Sound, CountedOnce
  <1>. QED
    BY <1>1, InvHolds, PTL

(* A one-shot that has succeeded stays off until a person enables it.          *)
THEOREM OneShotsStayDone == Spec => []DoneStaysDone
  <1>1. Inv => DoneStaysDone
    BY DEF Inv, DoneIsOff, DoneStaysDone
  <1>. QED
    BY <1>1, InvHolds, PTL

(* No two gateways fire one due time: each firing finds the schedule on and due *)
(* and leaves it put off.                                                    *)
THEOREM EveryDueTimeFiresOnce == Spec => FiredOnce
  <1>1. Inv /\ [Next]_vars => [Fired' # Fired => Due /\ row'.next # "due"]_vars
    BY InvStep
  <1>. QED
    BY <1>1, InvHolds, PTL DEF Spec, FiredOnce

-----------------------------------------------------------------------------
(* The browser bridge, BrowserBridge.tla. *)

CONSTANTS Browsers, Callers, Sockets, NoSocket, MaxCalls, BridgeUpsets

VARIABLES sock, slot, seq, caller, ext, jobs, calls, restarts, upsetsSeen

Bridge == INSTANCE BrowserBridge WITH MaxUpsets <- BridgeUpsets, upsets <- upsetsSeen

Answers == [id : Nat, tag : Nat, run : Nat]

Frames == [kind : {"call"}, id : Nat, tag : Nat, run : Nat]
          \cup [kind : {"close"}, code : {"replaced", "normal", "timeout", "lost"}]

SocketRows ==
    [server : {"none", "hello", "replacing", "live", "ending"}, by : Browsers \cup {NoSocket},
     open : BOOLEAN, closed : BOOLEAN, displaced : Sockets \cup {NoSocket},
     up : Seq(Answers), down : Seq(Frames), pending : SUBSET Nat]

CallerRows ==
    [at : {"idle", "sending", "waiting"}, sock : Sockets \cup {NoSocket}, id : Nat, tag : Nat,
     got : [tag : Nat, run : Nat]]

BridgeTypes ==
    /\ sock \in [Sockets -> SocketRows] /\ slot \in Sockets \cup {NoSocket}
    /\ caller \in [Callers -> CallerRows]
    /\ ext \in [Browsers -> [ws : Sockets \cup {NoSocket}, want : BOOLEAN]]
    /\ jobs \subseteq [by : Browsers, id : Nat, tag : Nat, run : Nat]
    /\ seq \in Nat /\ calls \in 0 .. MaxCalls /\ restarts \in Nat

(* Only a socket that is taking the slot remembers whose it was, and a socket its *)
(* server left holds nothing.                                                  *)
SlotInv ==
    /\ slot # NoSocket => sock[slot].server \in {"replacing", "live", "ending"}
    /\ \A s \in Sockets : /\ sock[s].displaced # NoSocket <=> sock[s].server = "replacing"
                          /\ sock[s].server = "none" => sock[s].up = <<>>

HoldInv ==
    \A b \in Browsers : \A s \in Sockets : (sock[s].open /\ sock[s].by = b) <=> s = ext[b].ws

(* A call under way has a socket, and an id no other call of this run has. *)
CallInv ==
    \A c \in Callers :
        /\ caller[c].at = "idle" <=> caller[c].sock = NoSocket
        /\ caller[c].at = "idle" => caller[c].id = 0
        /\ caller[c].at # "idle" => caller[c].id \in 1 .. seq
        /\ \A d \in Callers : caller[c].at # "idle" /\ caller[d].id = caller[c].id => d = c

(* What is on its way names the call it belongs to by its id and by its tag. *)
Own(x) ==
    /\ x.run <= restarts
    /\ x.run = restarts => /\ x.id <= seq
                           /\ \A c \in Callers : caller[c].at # "idle" /\ caller[c].id = x.id => caller[c].tag = x.tag

OwnInv ==
    /\ \A s \in Sockets : \A n \in 1 .. Len(sock[s].up) : Own(sock[s].up[n])
    /\ \A s \in Sockets : \A n \in 1 .. Len(sock[s].down) : sock[s].down[n].kind = "call" => Own(sock[s].down[n])
    /\ \A j \in jobs : Own(j)

BridgeInv == BridgeTypes /\ SlotInv /\ HoldInv /\ CallInv /\ Bridge!PendingIsWaitedFor /\ OwnInv /\ Bridge!AnswersAreTheirOwn

LEMMA FreeIsRow == Bridge!Free \in SocketRows /\ Bridge!Quiet \in CallerRows /\ Bridge!NoAnswer \in [tag : Nat, run : Nat]
  <1>1. <<>> \in Seq(Answers) /\ <<>> \in Seq(Frames)
    OBVIOUS
  <1>. QED
    BY <1>1 DEF Bridge!Free, Bridge!Quiet, Bridge!NoAnswer, SocketRows, CallerRows

LEMMA BridgeInit == Bridge!BrowserBridgeConstants /\ Bridge!Init => BridgeInv
  <1>. SUFFICES ASSUME Bridge!BrowserBridgeConstants, Bridge!Init
                PROVE  BridgeInv
    OBVIOUS
  <1>1. BridgeTypes
    BY FreeIsRow DEF Bridge!Init, BridgeTypes, Bridge!BrowserBridgeConstants
  <1>2. SlotInv
    BY DEF Bridge!Init, SlotInv, Bridge!Free
  <1>3. HoldInv
    BY DEF Bridge!Init, HoldInv, Bridge!Free, Bridge!BrowserBridgeConstants
  <1>4. CallInv
    BY DEF Bridge!Init, CallInv, Bridge!Quiet
  <1>5. Bridge!PendingIsWaitedFor
    BY DEF Bridge!Init, Bridge!PendingIsWaitedFor, Bridge!Free
  <1>6. OwnInv
    BY DEF Bridge!Init, OwnInv, Bridge!Free
  <1>7. Bridge!AnswersAreTheirOwn
    BY DEF Bridge!Init, Bridge!AnswersAreTheirOwn, Bridge!Quiet
  <1>. QED
    BY <1>1, <1>2, <1>3, <1>4, <1>5, <1>6, <1>7 DEF BridgeInv

LEMMA OwnKeeps ==
    ASSUME NEW x, Own(x), x.id \in Nat, restarts' = restarts, seq \in Nat, seq' \in Nat, seq' >= seq,
           \A c \in Callers : caller'[c].at # "idle" =>
               \/ caller'[c].id > seq /\ caller'[c].id \in Nat
               \/ caller[c].at # "idle" /\ caller'[c].id = caller[c].id /\ caller'[c].tag = caller[c].tag
    PROVE  Own(x)'
  <1>1. x.run <= restarts'
    BY DEF Own
  <1>2. ASSUME x.run = restarts'
        PROVE  /\ x.id <= seq'
               /\ \A c \in Callers : caller'[c].at # "idle" /\ caller'[c].id = x.id => caller'[c].tag = x.tag
    <2>1. x.id <= seq /\ x.id <= seq'
      BY <1>2 DEF Own
    <2>2. ASSUME NEW c \in Callers, caller'[c].at # "idle", caller'[c].id = x.id
          PROVE  caller'[c].tag = x.tag
      <3>1. ~ (caller'[c].id > seq)
        BY <2>1, <2>2
      <3>. QED
        BY <1>2, <2>2, <3>1 DEF Own
    <2>. QED
      BY <2>1, <2>2
  <1>. QED
    BY <1>1, <1>2 DEF Own

(* The ids of what is on its way are numbers. *)
LEMMA OnItsWay ==
    ASSUME BridgeTypes
    PROVE  /\ \A s \in Sockets : \A n \in 1 .. Len(sock[s].up) : sock[s].up[n] \in Answers
           /\ \A s \in Sockets : \A n \in 1 .. Len(sock[s].down) :
                sock[s].down[n] \in Frames /\ (sock[s].down[n].kind = "call" => sock[s].down[n].id \in Nat)
           /\ \A j \in jobs : j.id \in Nat /\ j.by \in Browsers
  <1>1. \A s \in Sockets : sock[s].up \in Seq(Answers) /\ sock[s].down \in Seq(Frames)
    BY DEF BridgeTypes, SocketRows
  <1>2. \A f \in Frames : f.kind = "call" => f.id \in Nat
    BY DEF Frames
  <1>. QED
    BY <1>1, <1>2 DEF BridgeTypes

(* Whatever is on its way stays as it is when nothing of it is new, or in other queues. *)
LEMMA OwnInvKeeps ==
    ASSUME BridgeTypes, CallInv, OwnInv, restarts' = restarts, seq' \in Nat, seq' >= seq,
           \A c \in Callers : caller'[c].at # "idle" =>
               \/ caller'[c].id > seq /\ caller'[c].id \in Nat
               \/ caller[c].at # "idle" /\ caller'[c].id = caller[c].id /\ caller'[c].tag = caller[c].tag,
           \A s \in Sockets : \A n \in 1 .. Len(sock'[s].up) :
               \/ \E m \in 1 .. Len(sock[s].up) : sock'[s].up[n] = sock[s].up[m]
               \/ \E j \in jobs : sock'[s].up[n] = [id |-> j.id, tag |-> j.tag, run |-> j.run],
           \A s \in Sockets : \A n \in 1 .. Len(sock'[s].down) :
               \/ sock'[s].down[n].kind # "call"
               \/ \E m \in 1 .. Len(sock[s].down) : sock'[s].down[n] = sock[s].down[m]
               \/ \E c \in Callers : caller[c].at # "idle" /\ sock'[s].down[n] = Bridge!Call(caller[c].id, caller[c].tag),
           \A j \in jobs' : \/ j \in jobs
                            \/ \E s \in Sockets : \E n \in 1 .. Len(sock[s].down) :
                                  /\ sock[s].down[n].kind = "call" /\ j.id = sock[s].down[n].id
                                  /\ j.tag = sock[s].down[n].tag /\ j.run = sock[s].down[n].run
    PROVE  OwnInv'
  <1>1. \A x : Own(x) /\ x.id \in Nat => Own(x)'
    BY OwnKeeps DEF BridgeTypes
  <1>2. \A j \in jobs : Own([id |-> j.id, tag |-> j.tag, run |-> j.run]) /\ [id |-> j.id, tag |-> j.tag, run |-> j.run].id \in Nat
    BY OnItsWay DEF OwnInv, Own
  <1>3. ASSUME NEW s \in Sockets, NEW n \in 1 .. Len(sock'[s].up)
        PROVE  Own(sock[s].up[n])'
    <2>1. \E y : y = sock'[s].up[n] /\ Own(y) /\ y.id \in Nat
      <3>1. CASE \E m \in 1 .. Len(sock[s].up) : sock'[s].up[n] = sock[s].up[m]
        BY <3>1, OnItsWay DEF OwnInv, Answers
      <3>2. CASE \E j \in jobs : sock'[s].up[n] = [id |-> j.id, tag |-> j.tag, run |-> j.run]
        BY <1>2, <3>2
      <3>. QED
        BY <3>1, <3>2
    <2>2. PICK y : y = sock'[s].up[n] /\ Own(y) /\ y.id \in Nat
      BY <2>1
    <2>3. Own(y)'
      BY <1>1, <2>2
    <2>. QED
      BY <2>2, <2>3 DEF Own
  <1>4. ASSUME NEW s \in Sockets, NEW n \in 1 .. Len(sock'[s].down), sock'[s].down[n].kind = "call"
        PROVE  Own(sock[s].down[n])'
    <2>3. ASSUME NEW m \in 1 .. Len(sock[s].down), sock'[s].down[n] = sock[s].down[m]
          PROVE  \E y : y = sock'[s].down[n] /\ Own(y) /\ y.id \in Nat
      BY <1>4, <2>3, OnItsWay DEF OwnInv
    <2>4. ASSUME NEW c \in Callers, caller[c].at # "idle", sock'[s].down[n] = Bridge!Call(caller[c].id, caller[c].tag)
          PROVE  \E y : y = sock'[s].down[n] /\ Own(y) /\ y.id \in Nat
      <3>. DEFINE y == Bridge!Call(caller[c].id, caller[c].tag)
      <3>1. y.run = restarts /\ y.id = caller[c].id /\ y.tag = caller[c].tag
        BY DEF Bridge!Call
      <3>. HIDE DEF y
      <3>2. caller[c].id \in 1 .. seq /\ seq \in Nat /\ restarts \in Nat
        BY <2>4 DEF CallInv, BridgeTypes
      <3>3. \A d \in Callers : caller[d].at # "idle" /\ caller[d].id = y.id => caller[d].tag = y.tag
        BY <2>4, <3>1 DEF CallInv
      <3>4. Own(y)
        BY <3>1, <3>2, <3>3 DEF Own
      <3>. QED
        BY <2>4, <3>1, <3>2, <3>4 DEF y
    <2>1. PICK y : y = sock'[s].down[n] /\ Own(y) /\ y.id \in Nat
      <3>1. \E y : y = sock'[s].down[n] /\ Own(y) /\ y.id \in Nat
        BY <1>4, <2>3, <2>4
      <3>. QED
        BY <3>1
    <2>2. Own(y)'
      BY <1>1, <2>1
    <2>. QED
      BY <2>1, <2>2 DEF Own
  <1>5. ASSUME NEW j \in jobs'
        PROVE  Own(j)'
    <2>1. Own(j) /\ j.id \in Nat
      BY OnItsWay DEF OwnInv, Own
    <2>. QED
      BY <1>1, <2>1
  <1>. QED
    BY <1>3, <1>4, <1>5 DEF OwnInv

(* Steps that leave the calls alone. *)
LEMMA CallsKeep ==
    ASSUME BridgeInv, UNCHANGED <<seq, caller, calls, restarts>>,
           sock' \in [Sockets -> SocketRows], slot' \in Sockets \cup {NoSocket},
           ext' \in [Browsers -> [ws : Sockets \cup {NoSocket}, want : BOOLEAN]],
           jobs' \subseteq [by : Browsers, id : Nat, tag : Nat, run : Nat],
           \A s \in Sockets : sock'[s].pending \subseteq sock[s].pending,
           SlotInv', HoldInv',
           \A s \in Sockets : \A n \in 1 .. Len(sock'[s].up) :
               \/ \E m \in 1 .. Len(sock[s].up) : sock'[s].up[n] = sock[s].up[m]
               \/ \E j \in jobs : sock'[s].up[n] = [id |-> j.id, tag |-> j.tag, run |-> j.run],
           \A s \in Sockets : \A n \in 1 .. Len(sock'[s].down) :
               \/ sock'[s].down[n].kind # "call"
               \/ \E m \in 1 .. Len(sock[s].down) : sock'[s].down[n] = sock[s].down[m],
           \A j \in jobs' : \/ j \in jobs
                            \/ \E s \in Sockets : \E n \in 1 .. Len(sock[s].down) :
                                  /\ sock[s].down[n].kind = "call" /\ j.id = sock[s].down[n].id
                                  /\ j.tag = sock[s].down[n].tag /\ j.run = sock[s].down[n].run
    PROVE  BridgeInv'
  <1>1. BridgeTypes /\ OwnInv /\ CallInv /\ Bridge!PendingIsWaitedFor /\ Bridge!AnswersAreTheirOwn
    BY DEF BridgeInv
  <1>2. BridgeTypes'
    BY <1>1 DEF BridgeTypes
  <1>3. CallInv'
    BY <1>1 DEF CallInv
  <1>4. Bridge!PendingIsWaitedFor' /\ Bridge!AnswersAreTheirOwn'
    BY <1>1 DEF Bridge!PendingIsWaitedFor, Bridge!AnswersAreTheirOwn
  <1>5. OwnInv'
    <2>1. seq' \in Nat /\ seq' >= seq
      BY <1>1 DEF BridgeTypes
    <2>2. \A c \in Callers : caller'[c].at # "idle" =>
               \/ caller'[c].id > seq /\ caller'[c].id \in Nat
               \/ caller[c].at # "idle" /\ caller'[c].id = caller[c].id /\ caller'[c].tag = caller[c].tag
      OBVIOUS
    <2>. QED
      BY <1>1, <2>1, <2>2, OwnInvKeeps
  <1>. QED
    BY <1>2, <1>3, <1>4, <1>5 DEF BridgeInv

LEMMA SocketFields ==
    ASSUME BridgeTypes, NEW s \in Sockets
    PROVE  /\ sock[s].server \in {"none", "hello", "replacing", "live", "ending"}
           /\ sock[s].open \in BOOLEAN /\ sock[s].closed \in BOOLEAN
           /\ sock[s].displaced \in Sockets \cup {NoSocket}
           /\ sock[s].up \in Seq(Answers) /\ sock[s].down \in Seq(Frames)
           /\ sock[s].pending \subseteq Nat /\ sock[s] \in SocketRows
  BY DEF BridgeTypes, SocketRows

LEMMA LetGo ==
    ASSUME BridgeTypes, NEW s \in Sockets
    PROVE  LET r == [sock[s] EXCEPT !.open = FALSE, !.down = <<>>]
           IN  /\ r \in SocketRows /\ r.open = FALSE /\ r.down = <<>> /\ r.server = sock[s].server
               /\ r.displaced = sock[s].displaced /\ r.up = sock[s].up /\ r.pending = sock[s].pending
               /\ r.by = sock[s].by
  <1>1. <<>> \in Seq(Frames)
    OBVIOUS
  <1>. QED
    BY <1>1, SocketFields DEF SocketRows

LEMMA OpensKeeps ==
    ASSUME Bridge!BrowserBridgeConstants, BridgeInv, NEW b \in Browsers, Bridge!Opens(b),
           UNCHANGED <<slot, seq, caller, jobs, calls, restarts>>
    PROVE  BridgeInv'
  <1>. DEFINE s == CHOOSE t \in Sockets : Bridge!Unused(t)
              r == [Bridge!Free EXCEPT !.server = "hello", !.by = b, !.open = TRUE]
  <1>1. s \in Sockets /\ sock[s].server = "none" /\ ~sock[s].open
    BY DEF Bridge!Opens, Bridge!Unused
  <1>2. /\ sock' = [t \in Sockets |->
                    IF t = s THEN r
                    ELSE IF t = ext[b].ws THEN [sock[t] EXCEPT !.open = FALSE, !.down = <<>>]
                    ELSE sock[t]]
        /\ ext' = [ext EXCEPT ![b] = [ws |-> s, want |-> TRUE]]
    BY DEF Bridge!Opens
  <1>. HIDE DEF s
  <1>3. r \in SocketRows /\ r.server = "hello" /\ r.by = b /\ r.open /\ r.displaced = NoSocket
        /\ r.pending = {} /\ r.up = <<>> /\ r.down = <<>>
    BY FreeIsRow DEF Bridge!Free, SocketRows
  <1>. HIDE DEF r
  <1>4. BridgeTypes /\ SlotInv /\ HoldInv
    BY DEF BridgeInv
  <1>5. ASSUME NEW t \in Sockets, t # s
        PROVE  /\ sock'[t] \in SocketRows /\ sock'[t].server = sock[t].server /\ sock'[t].by = sock[t].by
               /\ sock'[t].displaced = sock[t].displaced /\ sock'[t].up = sock[t].up
               /\ sock'[t].pending = sock[t].pending
               /\ sock'[t].down \in {sock[t].down, <<>>}
               /\ sock'[t].open <=> sock[t].open /\ t # ext[b].ws
    <2>1. CASE t = ext[b].ws
      BY <1>2, <1>4, <1>5, <2>1, LetGo
    <2>2. CASE t # ext[b].ws
      BY <1>2, <1>4, <1>5, <2>2, SocketFields
    <2>. QED
      BY <2>1, <2>2
  <1>6. sock'[s] = r
    BY <1>1, <1>2
  <1>7. sock' \in [Sockets -> SocketRows]
    BY <1>2, <1>3, <1>5, <1>6
  <1>8. ext' \in [Browsers -> [ws : Sockets \cup {NoSocket}, want : BOOLEAN]]
    BY <1>1, <1>2, <1>4 DEF BridgeTypes
  <1>9. SlotInv'
    <2>1. slot # NoSocket => slot # s /\ slot \in Sockets
      BY <1>1, <1>4 DEF SlotInv, BridgeTypes
    <2>. QED
      BY <1>3, <1>4, <1>5, <1>6, <2>1 DEF SlotInv
  <1>10. HoldInv'
    <2>1. ASSUME NEW a \in Browsers, NEW t \in Sockets
          PROVE  (sock'[t].open /\ sock'[t].by = a) <=> t = ext'[a].ws
      <3>1. ext'[b].ws = s /\ (a # b => ext'[a] = ext[a])
        BY <1>2, <1>4 DEF BridgeTypes
      <3>2. CASE t = s
        BY <1>1, <1>3, <1>4, <1>6, <3>1, <3>2 DEF HoldInv
      <3>3. CASE t # s
        BY <1>4, <1>5, <3>1, <3>3 DEF HoldInv
      <3>. QED
        BY <3>2, <3>3
    <2>. QED
      BY <2>1 DEF HoldInv
  <1>11. /\ \A t \in Sockets : sock'[t].pending \subseteq sock[t].pending
         /\ \A t \in Sockets : sock'[t].up \in {sock[t].up, <<>>} /\ sock'[t].down \in {sock[t].down, <<>>}
    BY <1>3, <1>5, <1>6
  <1>12. /\ \A t \in Sockets : \A n \in 1 .. Len(sock'[t].up) : \E m \in 1 .. Len(sock[t].up) : sock'[t].up[n] = sock[t].up[m]
         /\ \A t \in Sockets : \A n \in 1 .. Len(sock'[t].down) : \E m \in 1 .. Len(sock[t].down) : sock'[t].down[n] = sock[t].down[m]
    BY <1>11
  <1>13. slot' \in Sockets \cup {NoSocket} /\ jobs' \subseteq [by : Browsers, id : Nat, tag : Nat, run : Nat]
    BY <1>4 DEF BridgeTypes
  <1>. QED
    BY <1>7, <1>8, <1>9, <1>10, <1>11, <1>12, <1>13, CallsKeep

(* An extension lets go of its socket, and maybe performs less or more. *)
LEMMA DropsKeeps ==
    ASSUME Bridge!BrowserBridgeConstants, BridgeInv, NEW b \in Browsers, NEW want \in BOOLEAN, Bridge!Drops(b, want),
           jobs' \subseteq jobs, UNCHANGED <<slot, seq, caller, calls, restarts>>
    PROVE  BridgeInv'
  <1>1. BridgeTypes /\ SlotInv /\ HoldInv
    BY DEF BridgeInv
  <1>2. ASSUME NEW t \in Sockets
        PROVE  /\ sock'[t] \in SocketRows /\ sock'[t].server = sock[t].server /\ sock'[t].by = sock[t].by
               /\ sock'[t].displaced = sock[t].displaced /\ sock'[t].up = sock[t].up
               /\ sock'[t].pending = sock[t].pending
               /\ sock'[t].down \in {sock[t].down, <<>>}
               /\ sock'[t].open <=> sock[t].open /\ t # ext[b].ws
    <2>1. CASE t = ext[b].ws
      BY <1>1, <2>1, LetGo DEF Bridge!Drops
    <2>2. CASE t # ext[b].ws
      BY <1>1, <2>2, SocketFields DEF Bridge!Drops
    <2>. QED
      BY <2>1, <2>2
  <1>3. sock' \in [Sockets -> SocketRows]
    BY <1>2 DEF Bridge!Drops
  <1>4. /\ ext' \in [Browsers -> [ws : Sockets \cup {NoSocket}, want : BOOLEAN]]
        /\ ext'[b].ws = NoSocket /\ \A a \in Browsers : a # b => ext'[a] = ext[a]
    BY <1>1 DEF BridgeTypes, Bridge!Drops
  <1>5. SlotInv'
    BY <1>1, <1>2 DEF SlotInv, BridgeTypes
  <1>6. HoldInv'
    <2>1. ASSUME NEW a \in Browsers, NEW t \in Sockets
          PROVE  (sock'[t].open /\ sock'[t].by = a) <=> t = ext'[a].ws
      <3>1. CASE a = b
        BY <1>1, <1>2, <1>4, <3>1 DEF HoldInv, Bridge!BrowserBridgeConstants
      <3>2. CASE a # b
        BY <1>1, <1>2, <1>4, <3>2 DEF HoldInv, Bridge!BrowserBridgeConstants
      <3>. QED
        BY <3>1, <3>2
    <2>. QED
      BY <2>1 DEF HoldInv
  <1>7. /\ \A t \in Sockets : \A n \in 1 .. Len(sock'[t].up) : \E m \in 1 .. Len(sock[t].up) : sock'[t].up[n] = sock[t].up[m]
        /\ \A t \in Sockets : \A n \in 1 .. Len(sock'[t].down) : \E m \in 1 .. Len(sock[t].down) : sock'[t].down[n] = sock[t].down[m]
        /\ \A t \in Sockets : sock'[t].pending \subseteq sock[t].pending
    BY <1>2
  <1>8. slot' \in Sockets \cup {NoSocket} /\ jobs' \subseteq [by : Browsers, id : Nat, tag : Nat, run : Nat]
    BY <1>1 DEF BridgeTypes
  <1>. QED
    BY <1>3, <1>4, <1>5, <1>6, <1>7, <1>8, CallsKeep

LEMMA TailIs ==
    ASSUME NEW S, NEW q \in Seq(S), q # <<>>
    PROVE  /\ Head(q) \in S /\ Tail(q) \in Seq(S) /\ Head(q) = q[1] /\ 1 \in 1 .. Len(q)
           /\ \A n \in 1 .. Len(Tail(q)) : n + 1 \in 1 .. Len(q) /\ Tail(q)[n] = q[n + 1]
  OBVIOUS

LEMMA UpIs ==
    ASSUME BridgeTypes, NEW s \in Sockets, NEW q \in Seq(Answers), sock' = [sock EXCEPT ![s].up = q]
    PROVE  /\ sock' \in [Sockets -> SocketRows] /\ sock'[s].up = q
           /\ \A t \in Sockets : /\ t # s => sock'[t] = sock[t]
                                 /\ sock'[t].server = sock[t].server /\ sock'[t].by = sock[t].by
                                 /\ sock'[t].displaced = sock[t].displaced /\ sock'[t].down = sock[t].down
                                 /\ sock'[t].pending = sock[t].pending /\ sock'[t].open = sock[t].open
                                 /\ sock'[t].closed = sock[t].closed
  <1>. DEFINE r == [sock[s] EXCEPT !.up = q]
  <1>1. sock[s] \in SocketRows /\ sock \in [Sockets -> SocketRows]
    BY DEF BridgeTypes
  <1>2. /\ r.up = q /\ r.server = sock[s].server /\ r.by = sock[s].by /\ r.displaced = sock[s].displaced
        /\ r.down = sock[s].down /\ r.pending = sock[s].pending /\ r.open = sock[s].open
        /\ r.closed = sock[s].closed /\ r \in SocketRows
    BY <1>1 DEF SocketRows
  <1>3. sock' = [sock EXCEPT ![s] = r]
    OBVIOUS
  <1>. HIDE DEF r
  <1>4. sock'[s] = r /\ \A t \in Sockets : t # s => sock'[t] = sock[t]
    BY <1>1, <1>3
  <1>5. sock' \in [Sockets -> SocketRows]
    BY <1>1, <1>2, <1>3
  <1>. QED
    BY <1>2, <1>4, <1>5

LEMMA DownIs ==
    ASSUME BridgeTypes, NEW s \in Sockets, NEW q \in Seq(Frames), sock' = [sock EXCEPT ![s].down = q]
    PROVE  /\ sock' \in [Sockets -> SocketRows] /\ sock'[s].down = q
           /\ \A t \in Sockets : /\ t # s => sock'[t] = sock[t]
                                 /\ sock'[t].server = sock[t].server /\ sock'[t].by = sock[t].by
                                 /\ sock'[t].displaced = sock[t].displaced /\ sock'[t].up = sock[t].up
                                 /\ sock'[t].pending = sock[t].pending /\ sock'[t].open = sock[t].open
                                 /\ sock'[t].closed = sock[t].closed
  <1>. DEFINE r == [sock[s] EXCEPT !.down = q]
  <1>1. sock[s] \in SocketRows /\ sock \in [Sockets -> SocketRows]
    BY DEF BridgeTypes
  <1>2. /\ r.down = q /\ r.server = sock[s].server /\ r.by = sock[s].by /\ r.displaced = sock[s].displaced
        /\ r.up = sock[s].up /\ r.pending = sock[s].pending /\ r.open = sock[s].open
        /\ r.closed = sock[s].closed /\ r \in SocketRows
    BY <1>1 DEF SocketRows
  <1>3. sock' = [sock EXCEPT ![s] = r]
    OBVIOUS
  <1>. HIDE DEF r
  <1>4. sock'[s] = r /\ \A t \in Sockets : t # s => sock'[t] = sock[t]
    BY <1>1, <1>3
  <1>5. sock' \in [Sockets -> SocketRows]
    BY <1>1, <1>2, <1>3
  <1>. QED
    BY <1>2, <1>4, <1>5

LEMMA ReceivesKeeps ==
    ASSUME Bridge!BrowserBridgeConstants, BridgeInv, NEW b \in Browsers, Bridge!Receives(b)
    PROVE  BridgeInv'
  <1>. DEFINE s == ext[b].ws
              f == Head(sock[s].down)
  <1>1. BridgeTypes /\ SlotInv /\ HoldInv
    BY DEF BridgeInv
  <1>2. s \in Sockets /\ sock[s].down # <<>> /\ UNCHANGED <<slot, seq, caller, calls, restarts>>
    BY <1>1 DEF Bridge!Receives, BridgeTypes
  <1>3. /\ sock[s].down \in Seq(Frames) /\ f \in Frames /\ Tail(sock[s].down) \in Seq(Frames)
        /\ f = sock[s].down[1] /\ 1 \in 1 .. Len(sock[s].down)
        /\ \A n \in 1 .. Len(Tail(sock[s].down)) : n + 1 \in 1 .. Len(sock[s].down) /\ Tail(sock[s].down)[n] = sock[s].down[n + 1]
    BY <1>1, <1>2, SocketFields, TailIs
  <1>0. \/ f.kind = "close" /\ Bridge!Drops(b, Bridge!Wanted(b, f.code)) /\ UNCHANGED jobs
        \/ /\ f.kind = "call"
              /\ jobs' = jobs \cup {[by |-> b, id |-> f.id, tag |-> f.tag, run |-> f.run]}
           /\ sock' = [sock EXCEPT ![s].down = Tail(@)]
           /\ UNCHANGED ext
    BY DEF Bridge!Receives
  <1>. HIDE DEF s, f
  <1>4. CASE f.kind = "close" /\ Bridge!Drops(b, Bridge!Wanted(b, f.code)) /\ UNCHANGED jobs
    <2>1. Bridge!Wanted(b, f.code) \in BOOLEAN
      BY <1>1 DEF Bridge!Wanted, BridgeTypes
    <2>. QED
      BY <1>2, <1>4, <2>1, DropsKeeps
  <1>5. CASE /\ f.kind = "call"
             /\ jobs' = jobs \cup {[by |-> b, id |-> f.id, tag |-> f.tag, run |-> f.run]}
             /\ sock' = [sock EXCEPT ![s].down = Tail(@)]
             /\ UNCHANGED ext
    <2>1. f.id \in Nat /\ f.tag \in Nat /\ f.run \in Nat
      BY <1>3, <1>5 DEF Frames
    <2>2. jobs' \subseteq [by : Browsers, id : Nat, tag : Nat, run : Nat]
      BY <1>1, <1>5, <2>1 DEF BridgeTypes
    <2>3. /\ sock' \in [Sockets -> SocketRows] /\ sock'[s].down = Tail(sock[s].down)
          /\ \A t \in Sockets : /\ t # s => sock'[t] = sock[t]
                                /\ sock'[t].server = sock[t].server /\ sock'[t].by = sock[t].by
                                /\ sock'[t].displaced = sock[t].displaced /\ sock'[t].up = sock[t].up
                                /\ sock'[t].pending = sock[t].pending /\ sock'[t].open = sock[t].open
      <3>1. sock' = [sock EXCEPT ![s].down = Tail(sock[s].down)]
        BY <1>5
      <3>. QED
        BY <1>1, <1>2, <1>3, <3>1, DownIs
    <2>4. SlotInv' /\ HoldInv'
      BY <1>1, <1>2, <1>5, <2>3 DEF SlotInv, HoldInv, BridgeTypes
    <2>5. /\ \A t \in Sockets : \A n \in 1 .. Len(sock'[t].up) : \E m \in 1 .. Len(sock[t].up) : sock'[t].up[n] = sock[t].up[m]
          /\ \A t \in Sockets : \A n \in 1 .. Len(sock'[t].down) : \E m \in 1 .. Len(sock[t].down) : sock'[t].down[n] = sock[t].down[m]
          /\ \A t \in Sockets : sock'[t].pending \subseteq sock[t].pending
      <3>1. \A n \in 1 .. Len(sock'[s].down) : \E m \in 1 .. Len(sock[s].down) : sock'[s].down[n] = sock[s].down[m]
        BY <1>3, <2>3
      <3>2. ASSUME NEW t \in Sockets
            PROVE  \A n \in 1 .. Len(sock'[t].down) : \E m \in 1 .. Len(sock[t].down) : sock'[t].down[n] = sock[t].down[m]
        <4>1. CASE t = s
          BY <3>1, <4>1
        <4>2. CASE t # s
          BY <2>3, <4>2
        <4>. QED
          BY <4>1, <4>2
      <3>3. \A t \in Sockets : sock'[t].up = sock[t].up /\ sock'[t].pending = sock[t].pending
        BY <2>3
      <3>. QED
        BY <3>2, <3>3
    <2>6. \A j \in jobs' : \/ j \in jobs
                           \/ \E t \in Sockets : \E n \in 1 .. Len(sock[t].down) :
                                 /\ sock[t].down[n].kind = "call" /\ j.id = sock[t].down[n].id
                                 /\ j.tag = sock[t].down[n].tag /\ j.run = sock[t].down[n].run
      BY <1>2, <1>3, <1>5
    <2>7. slot' \in Sockets \cup {NoSocket} /\ ext' \in [Browsers -> [ws : Sockets \cup {NoSocket}, want : BOOLEAN]]
      BY <1>1, <1>2, <1>5 DEF BridgeTypes
    <2>. QED
      BY <1>2, <2>2, <2>3, <2>4, <2>5, <2>6, <2>7, CallsKeep
  <1>. QED
    BY <1>0, <1>4, <1>5

LEMMA AppendIs ==
    ASSUME NEW S, NEW q \in Seq(S), NEW e \in S
    PROVE  /\ Append(q, e) \in Seq(S) /\ Append(q, e) # <<>>
           /\ \A n \in 1 .. Len(Append(q, e)) : (n \in 1 .. Len(q) /\ Append(q, e)[n] = q[n]) \/ Append(q, e)[n] = e
  OBVIOUS

LEMMA PerformsKeeps ==
    ASSUME Bridge!BrowserBridgeConstants, BridgeInv, NEW j \in jobs, Bridge!Performs(j)
    PROVE  BridgeInv'
  <1>. DEFINE s == ext[j.by].ws
              a == [id |-> j.id, tag |-> j.tag, run |-> j.run]
  <1>1. BridgeTypes /\ SlotInv /\ HoldInv
    BY DEF BridgeInv
  <1>2. /\ jobs' \subseteq jobs /\ jobs' \subseteq [by : Browsers, id : Nat, tag : Nat, run : Nat]
        /\ UNCHANGED <<slot, seq, caller, ext, calls, restarts>> /\ a \in Answers
    BY <1>1 DEF Bridge!Performs, BridgeTypes, Answers
  <1>0. sock' = sock \/ (s \in Sockets /\ sock[s].server # "none" /\ sock' = [sock EXCEPT ![s].up = Append(@, a)])
    BY DEF Bridge!Performs
  <1>5. a = [id |-> j.id, tag |-> j.tag, run |-> j.run]
    OBVIOUS
  <1>. HIDE DEF s, a
  <1>3. CASE sock' = sock
    <2>1. SlotInv' /\ HoldInv' /\ sock' \in [Sockets -> SocketRows] /\ slot' \in Sockets \cup {NoSocket}
          /\ ext' \in [Browsers -> [ws : Sockets \cup {NoSocket}, want : BOOLEAN]]
      BY <1>1, <1>2, <1>3 DEF SlotInv, HoldInv, BridgeTypes
    <2>. QED
      BY <1>2, <1>3, <2>1, CallsKeep
  <1>4. CASE s \in Sockets /\ sock[s].server # "none" /\ sock' = [sock EXCEPT ![s].up = Append(@, a)]
    <2>1. /\ Append(sock[s].up, a) \in Seq(Answers)
          /\ \A n \in 1 .. Len(Append(sock[s].up, a)) :
                (n \in 1 .. Len(sock[s].up) /\ Append(sock[s].up, a)[n] = sock[s].up[n]) \/ Append(sock[s].up, a)[n] = a
      BY <1>1, <1>2, <1>4, SocketFields, AppendIs
    <2>2. /\ sock' \in [Sockets -> SocketRows] /\ sock'[s].up = Append(sock[s].up, a)
          /\ \A t \in Sockets : /\ t # s => sock'[t] = sock[t]
                                /\ sock'[t].server = sock[t].server /\ sock'[t].by = sock[t].by
                                /\ sock'[t].displaced = sock[t].displaced /\ sock'[t].down = sock[t].down
                                /\ sock'[t].pending = sock[t].pending /\ sock'[t].open = sock[t].open
      <3>1. sock' = [sock EXCEPT ![s].up = Append(sock[s].up, a)]
        BY <1>4
      <3>. QED
        BY <1>1, <1>4, <2>1, <3>1, UpIs
    <2>3. SlotInv' /\ HoldInv' /\ slot' \in Sockets \cup {NoSocket}
          /\ ext' \in [Browsers -> [ws : Sockets \cup {NoSocket}, want : BOOLEAN]]
      BY <1>1, <1>2, <1>4, <2>2 DEF SlotInv, HoldInv, BridgeTypes
    <2>4. \A t \in Sockets : \A n \in 1 .. Len(sock'[t].up) :
               \/ \E m \in 1 .. Len(sock[t].up) : sock'[t].up[n] = sock[t].up[m]
               \/ \E k \in jobs : sock'[t].up[n] = [id |-> k.id, tag |-> k.tag, run |-> k.run]
      <3>1. ASSUME NEW n \in 1 .. Len(sock'[s].up)
            PROVE  \/ \E m \in 1 .. Len(sock[s].up) : sock'[s].up[n] = sock[s].up[m]
                   \/ \E k \in jobs : sock'[s].up[n] = [id |-> k.id, tag |-> k.tag, run |-> k.run]
        BY <1>5, <2>1, <2>2
      <3>2. ASSUME NEW t \in Sockets, NEW n \in 1 .. Len(sock'[t].up)
            PROVE  \/ \E m \in 1 .. Len(sock[t].up) : sock'[t].up[n] = sock[t].up[m]
                   \/ \E k \in jobs : sock'[t].up[n] = [id |-> k.id, tag |-> k.tag, run |-> k.run]
        <4>1. CASE t = s
          BY <3>1, <3>2, <4>1
        <4>2. CASE t # s
          BY <2>2, <3>2, <4>2
        <4>. QED
          BY <4>1, <4>2
      <3>. QED
        BY <3>2
    <2>5. /\ \A t \in Sockets : \A n \in 1 .. Len(sock'[t].down) : \E m \in 1 .. Len(sock[t].down) : sock'[t].down[n] = sock[t].down[m]
          /\ \A t \in Sockets : sock'[t].pending \subseteq sock[t].pending
      BY <2>2
    <2>. QED
      BY <1>2, <2>2, <2>3, <2>4, <2>5, CallsKeep
  <1>. QED
    BY <1>0, <1>3, <1>4

Codes == {"replaced", "normal", "timeout", "lost"}

LEMMA ClosedIs ==
    ASSUME BridgeTypes, NEW s \in Sockets, NEW code \in Codes
    PROVE  /\ Bridge!Closed(s, code) \in [Sockets -> SocketRows]
           /\ \A t \in Sockets :
                /\ t # s => Bridge!Closed(s, code)[t] = sock[t]
                /\ Bridge!Closed(s, code)[t].server = sock[t].server /\ Bridge!Closed(s, code)[t].by = sock[t].by
                /\ Bridge!Closed(s, code)[t].displaced = sock[t].displaced /\ Bridge!Closed(s, code)[t].up = sock[t].up
                /\ Bridge!Closed(s, code)[t].pending = sock[t].pending /\ Bridge!Closed(s, code)[t].open = sock[t].open
                /\ \A n \in 1 .. Len(Bridge!Closed(s, code)[t].down) :
                     \/ Bridge!Closed(s, code)[t].down[n].kind # "call"
                     \/ \E m \in 1 .. Len(sock[t].down) : Bridge!Closed(s, code)[t].down[n] = sock[t].down[m]
  <1>. DEFINE q == IF sock[s].closed \/ ~sock[s].open THEN sock[s].down ELSE Append(sock[s].down, Bridge!Close(code))
              r == [sock[s] EXCEPT !.closed = TRUE, !.down = q]
  <1>1. Bridge!Close(code) \in Frames /\ Bridge!Close(code).kind # "call"
    BY DEF Bridge!Close, Frames, Codes
  <1>2. sock[s] \in SocketRows /\ sock \in [Sockets -> SocketRows] /\ sock[s].down \in Seq(Frames)
    BY SocketFields DEF BridgeTypes
  <1>3. q \in Seq(Frames) /\ \A n \in 1 .. Len(q) : q[n].kind # "call" \/ \E m \in 1 .. Len(sock[s].down) : q[n] = sock[s].down[m]
    BY <1>1, <1>2, AppendIs
  <1>4. Bridge!Closed(s, code) = [sock EXCEPT ![s] = r]
    BY DEF Bridge!Closed
  <1>. HIDE DEF q
  <1>5. /\ r.down = q /\ r.server = sock[s].server /\ r.by = sock[s].by /\ r.displaced = sock[s].displaced
        /\ r.up = sock[s].up /\ r.pending = sock[s].pending /\ r.open = sock[s].open /\ r \in SocketRows
    BY <1>2, <1>3 DEF SocketRows
  <1>. HIDE DEF r
  <1>6. Bridge!Closed(s, code)[s] = r /\ \A t \in Sockets : t # s => Bridge!Closed(s, code)[t] = sock[t]
    BY <1>2, <1>4
  <1>7. Bridge!Closed(s, code) \in [Sockets -> SocketRows]
    BY <1>2, <1>4, <1>5
  <1>. QED
    <2>1. ASSUME NEW t \in Sockets
          PROVE  /\ t # s => Bridge!Closed(s, code)[t] = sock[t]
                 /\ Bridge!Closed(s, code)[t].server = sock[t].server /\ Bridge!Closed(s, code)[t].by = sock[t].by
                 /\ Bridge!Closed(s, code)[t].displaced = sock[t].displaced /\ Bridge!Closed(s, code)[t].up = sock[t].up
                 /\ Bridge!Closed(s, code)[t].pending = sock[t].pending /\ Bridge!Closed(s, code)[t].open = sock[t].open
      BY <1>5, <1>6
    <2>2. ASSUME NEW t \in Sockets, NEW n \in 1 .. Len(Bridge!Closed(s, code)[t].down)
          PROVE  \/ Bridge!Closed(s, code)[t].down[n].kind # "call"
                 \/ \E m \in 1 .. Len(sock[t].down) : Bridge!Closed(s, code)[t].down[n] = sock[t].down[m]
      <3>1. CASE t = s
        BY <1>3, <1>5, <1>6, <2>2, <3>1
      <3>2. CASE t # s
        BY <1>6, <2>2, <3>2
      <3>. QED
        BY <3>1, <3>2
    <2>. QED
      BY <1>7, <2>1, <2>2

(* The steps of the Hub that answer nobody. *)
LEMMA HubKeeps ==
    ASSUME BridgeInv, UNCHANGED <<seq, caller, ext, jobs, calls, restarts>>,
           sock' \in [Sockets -> SocketRows], slot' \in Sockets \cup {NoSocket}, SlotInv',
           \A t \in Sockets : /\ sock'[t].open = sock[t].open /\ sock'[t].by = sock[t].by
                              /\ sock'[t].pending \subseteq sock[t].pending
                              /\ sock'[t].up \in {sock[t].up, <<>>}
                              /\ \A n \in 1 .. Len(sock'[t].down) :
                                   \/ sock'[t].down[n].kind # "call"
                                   \/ \E m \in 1 .. Len(sock[t].down) : sock'[t].down[n] = sock[t].down[m]
    PROVE  BridgeInv'
  <1>1. BridgeTypes /\ HoldInv
    BY DEF BridgeInv
  <1>2. HoldInv'
    BY <1>1 DEF HoldInv
  <1>3. /\ jobs' \subseteq [by : Browsers, id : Nat, tag : Nat, run : Nat] /\ \A j \in jobs' : j \in jobs
        /\ ext' \in [Browsers -> [ws : Sockets \cup {NoSocket}, want : BOOLEAN]]
    BY <1>1 DEF BridgeTypes
  <1>4. \A t \in Sockets : \A n \in 1 .. Len(sock'[t].up) : \E m \in 1 .. Len(sock[t].up) : sock'[t].up[n] = sock[t].up[m]
    OBVIOUS
  <1>. QED
    BY <1>2, <1>3, <1>4, CallsKeep

LEMMA HubSteps ==
    ASSUME Bridge!BrowserBridgeConstants, BridgeInv, NEW s \in Sockets,
           Bridge!TakesSlot(s) \/ Bridge!ClosesOld(s) \/ Bridge!ReadLoopEnds(s) \/ Bridge!FailsPending(s) \/ Bridge!KeepAliveGivesUp(s)
    PROVE  BridgeInv'
  <1>1. BridgeTypes /\ SlotInv
    BY DEF BridgeInv
  <1>2. UNCHANGED <<seq, caller, ext, jobs, calls, restarts>>
    BY DEF Bridge!TakesSlot, Bridge!ClosesOld, Bridge!ReadLoopEnds, Bridge!FailsPending, Bridge!KeepAliveGivesUp
  <1>3. /\ sock \in [Sockets -> SocketRows] /\ slot \in Sockets \cup {NoSocket} /\ sock[s] \in SocketRows
        /\ \A t \in Sockets : \A n \in 1 .. Len(sock[t].down) : \E m \in 1 .. Len(sock[t].down) : sock[t].down[n] = sock[t].down[m]
    BY <1>1, SocketFields DEF BridgeTypes
  <1>4. CASE Bridge!TakesSlot(s)
    <2>. DEFINE r == [sock[s] EXCEPT !.server = IF slot = NoSocket THEN "live" ELSE "replacing", !.displaced = slot]
    <2>1. sock' = [sock EXCEPT ![s] = r] /\ slot' = s /\ sock[s].server = "hello"
      BY <1>4 DEF Bridge!TakesSlot
    <2>2. /\ r \in SocketRows /\ r.open = sock[s].open /\ r.by = sock[s].by /\ r.pending = sock[s].pending
          /\ r.up = sock[s].up /\ r.down = sock[s].down /\ r.displaced = slot
          /\ r.server = IF slot = NoSocket THEN "live" ELSE "replacing"
      BY <1>3 DEF SocketRows
    <2>. HIDE DEF r
    <2>3. sock'[s] = r /\ sock' \in [Sockets -> SocketRows] /\ \A t \in Sockets : t # s => sock'[t] = sock[t]
      BY <1>3, <2>1, <2>2
    <2>4. SlotInv'
      BY <1>1, <2>1, <2>2, <2>3 DEF SlotInv, Bridge!BrowserBridgeConstants
    <2>. QED
      BY <1>2, <1>3, <2>1, <2>2, <2>3, <2>4, HubKeeps
  <1>5. CASE Bridge!ClosesOld(s)
    <2>. DEFINE old == sock[s].displaced
                cl == Bridge!Closed(old, "replaced")
                r == [cl[s] EXCEPT !.server = "live", !.displaced = NoSocket]
    <2>1. old \in Sockets /\ sock[s].server = "replacing"
      BY <1>1, <1>3, <1>5 DEF Bridge!ClosesOld, SlotInv, SocketRows
    <2>2. sock' = [cl EXCEPT ![s] = r] /\ slot' = slot
      BY <1>5 DEF Bridge!ClosesOld
    <2>. HIDE DEF old
    <2>3. /\ cl \in [Sockets -> SocketRows]
          /\ \A t \in Sockets :
                /\ t # old => cl[t] = sock[t]
                /\ cl[t].server = sock[t].server /\ cl[t].by = sock[t].by
                /\ cl[t].displaced = sock[t].displaced /\ cl[t].up = sock[t].up
                /\ cl[t].pending = sock[t].pending /\ cl[t].open = sock[t].open
                /\ \A n \in 1 .. Len(cl[t].down) :
                     \/ cl[t].down[n].kind # "call"
                     \/ \E m \in 1 .. Len(sock[t].down) : cl[t].down[n] = sock[t].down[m]
      BY <1>1, <2>1, ClosedIs DEF Codes
    <2>. HIDE DEF cl
    <2>4. /\ r \in SocketRows /\ r.open = cl[s].open /\ r.by = cl[s].by /\ r.pending = cl[s].pending
          /\ r.up = cl[s].up /\ r.down = cl[s].down /\ r.displaced = NoSocket /\ r.server = "live"
      BY <2>3 DEF SocketRows
    <2>. HIDE DEF r
    <2>5. sock'[s] = r /\ sock' \in [Sockets -> SocketRows] /\ \A t \in Sockets : t # s => sock'[t] = cl[t]
      BY <2>2, <2>3, <2>4
    <2>6. SlotInv'
      <3>1. \A t \in Sockets : /\ sock'[t].up = sock[t].up
                               /\ t # s => sock'[t].server = sock[t].server /\ sock'[t].displaced = sock[t].displaced
        BY <2>3, <2>4, <2>5
      <3>2. sock'[s].server = "live" /\ sock'[s].displaced = NoSocket
        BY <2>4, <2>5
      <3>. QED
        BY <1>1, <1>3, <2>1, <2>2, <3>1, <3>2 DEF SlotInv
    <2>7. ASSUME NEW t \in Sockets
          PROVE  /\ sock'[t].open = sock[t].open /\ sock'[t].by = sock[t].by
                 /\ sock'[t].pending \subseteq sock[t].pending
                 /\ sock'[t].up \in {sock[t].up, <<>>} /\ sock'[t].down = cl[t].down
      BY <2>3, <2>4, <2>5
    <2>8. slot' \in Sockets \cup {NoSocket}
      BY <1>3, <2>2
    <2>. QED
      BY <1>2, <2>3, <2>5, <2>6, <2>7, <2>8, HubKeeps
  <1>6. CASE Bridge!ReadLoopEnds(s)
    <2>. DEFINE cl == Bridge!Closed(s, "normal")
                r == [cl[s] EXCEPT !.server = "ending"]
    <2>1. sock' = [cl EXCEPT ![s] = r] /\ slot' = slot /\ sock[s].server = "live"
      BY <1>6 DEF Bridge!ReadLoopEnds
    <2>2. /\ cl \in [Sockets -> SocketRows]
          /\ \A t \in Sockets :
                /\ t # s => cl[t] = sock[t]
                /\ cl[t].server = sock[t].server /\ cl[t].by = sock[t].by
                /\ cl[t].displaced = sock[t].displaced /\ cl[t].up = sock[t].up
                /\ cl[t].pending = sock[t].pending /\ cl[t].open = sock[t].open
                /\ \A n \in 1 .. Len(cl[t].down) :
                     \/ cl[t].down[n].kind # "call"
                     \/ \E m \in 1 .. Len(sock[t].down) : cl[t].down[n] = sock[t].down[m]
      BY <1>1, ClosedIs DEF Codes
    <2>. HIDE DEF cl
    <2>3. /\ r \in SocketRows /\ r.open = cl[s].open /\ r.by = cl[s].by /\ r.pending = cl[s].pending
          /\ r.up = cl[s].up /\ r.down = cl[s].down /\ r.displaced = cl[s].displaced /\ r.server = "ending"
      BY <2>2 DEF SocketRows
    <2>. HIDE DEF r
    <2>4. sock'[s] = r /\ sock' \in [Sockets -> SocketRows] /\ \A t \in Sockets : t # s => sock'[t] = cl[t]
      BY <2>1, <2>2, <2>3
    <2>5. SlotInv'
      <3>1. \A t \in Sockets : /\ sock'[t].up = sock[t].up /\ sock'[t].displaced = sock[t].displaced
                               /\ t # s => sock'[t].server = sock[t].server
        BY <2>2, <2>3, <2>4
      <3>2. sock'[s].server = "ending"
        BY <2>3, <2>4
      <3>. QED
        BY <1>1, <1>3, <2>1, <3>1, <3>2 DEF SlotInv
    <2>6. ASSUME NEW t \in Sockets
          PROVE  /\ sock'[t].open = sock[t].open /\ sock'[t].by = sock[t].by
                 /\ sock'[t].pending \subseteq sock[t].pending
                 /\ sock'[t].up \in {sock[t].up, <<>>} /\ sock'[t].down = cl[t].down
      BY <2>2, <2>3, <2>4
    <2>7. slot' \in Sockets \cup {NoSocket}
      BY <1>3, <2>1
    <2>. QED
      BY <1>2, <2>2, <2>4, <2>5, <2>6, <2>7, HubKeeps
  <1>7. CASE Bridge!FailsPending(s)
    <2>. DEFINE r == [sock[s] EXCEPT !.server = "none", !.up = <<>>, !.pending = {}]
    <2>1. sock' = [sock EXCEPT ![s] = r] /\ slot' = (IF slot = s THEN NoSocket ELSE slot) /\ sock[s].server = "ending"
      BY <1>7 DEF Bridge!FailsPending, Bridge!SlotAfter
    <2>2. /\ r \in SocketRows /\ r.open = sock[s].open /\ r.by = sock[s].by /\ r.pending = {}
          /\ r.up = <<>> /\ r.down = sock[s].down /\ r.displaced = sock[s].displaced /\ r.server = "none"
      <3>1. <<>> \in Seq(Answers)
        OBVIOUS
      <3>. QED
        BY <1>3, <3>1 DEF SocketRows
    <2>. HIDE DEF r
    <2>3. sock'[s] = r /\ sock' \in [Sockets -> SocketRows] /\ \A t \in Sockets : t # s => sock'[t] = sock[t]
      BY <1>3, <2>1, <2>2
    <2>4. SlotInv'
      BY <1>1, <2>1, <2>2, <2>3 DEF SlotInv
    <2>5. slot' \in Sockets \cup {NoSocket}
      BY <1>3, <2>1
    <2>. QED
      BY <1>2, <1>3, <2>2, <2>3, <2>4, <2>5, HubKeeps
  <1>8. CASE Bridge!KeepAliveGivesUp(s)
    <2>1. sock' = Bridge!Closed(s, "timeout") /\ slot' = slot
      BY <1>8 DEF Bridge!KeepAliveGivesUp
    <2>2. "timeout" \in Codes
      BY DEF Codes
    <2>3. SlotInv'
      <3>1. \A t \in Sockets : /\ sock'[t].up = sock[t].up /\ sock'[t].displaced = sock[t].displaced
                               /\ sock'[t].server = sock[t].server
        BY <1>1, <2>1, <2>2, ClosedIs
      <3>. QED
        BY <1>1, <1>3, <2>1, <3>1 DEF SlotInv
    <2>4. slot' \in Sockets \cup {NoSocket}
      BY <1>3, <2>1
    <2>. QED
      BY <1>1, <1>2, <2>1, <2>2, <2>3, <2>4, ClosedIs, HubKeeps
  <1>. QED
    BY <1>4, <1>5, <1>6, <1>7, <1>8

LEMMA ReadsKeeps ==
    ASSUME Bridge!BrowserBridgeConstants, BridgeInv, NEW s \in Sockets, Bridge!Reads(s)
    PROVE  BridgeInv'
  <1>. DEFINE f == Head(sock[s].up)
              a == [tag |-> f.tag, run |-> f.run]
  <1>1. BridgeTypes /\ SlotInv /\ HoldInv /\ CallInv /\ Bridge!PendingIsWaitedFor /\ OwnInv /\ Bridge!AnswersAreTheirOwn
    BY DEF BridgeInv
  <1>2. /\ UNCHANGED <<slot, seq, ext, jobs, calls, restarts>> /\ sock[s].up # <<>> /\ sock[s].up \in Seq(Answers)
        /\ sock[s].server = "live"
    BY <1>1, SocketFields DEF Bridge!Reads
  <1>3. /\ f \in Answers /\ Tail(sock[s].up) \in Seq(Answers) /\ f = sock[s].up[1] /\ 1 \in 1 .. Len(sock[s].up)
        /\ \A n \in 1 .. Len(Tail(sock[s].up)) : n + 1 \in 1 .. Len(sock[s].up) /\ Tail(sock[s].up)[n] = sock[s].up[n + 1]
    BY <1>2, TailIs
  <1>4. Own(f) /\ a \in [tag : Nat, run : Nat] /\ a.tag = f.tag /\ a.run = f.run
    BY <1>1, <1>3 DEF OwnInv, Answers
  <1>5. sock' = [sock EXCEPT ![s].up = Tail(sock[s].up)] /\ caller' = Bridge!Deliver(s, f)
    BY DEF Bridge!Reads
  <1>. HIDE DEF f
  <1>6. /\ sock' \in [Sockets -> SocketRows] /\ sock'[s].up = Tail(sock[s].up)
        /\ \A t \in Sockets : /\ t # s => sock'[t] = sock[t]
                              /\ sock'[t].server = sock[t].server /\ sock'[t].by = sock[t].by
                              /\ sock'[t].displaced = sock[t].displaced /\ sock'[t].down = sock[t].down
                              /\ sock'[t].pending = sock[t].pending /\ sock'[t].open = sock[t].open
    BY <1>1, <1>3, <1>5, UpIs
  <1>7. ASSUME NEW c \in Callers
        PROVE  \/ caller'[c] = caller[c]
               \/ /\ caller'[c] = [caller[c] EXCEPT !.got = a]
                  /\ caller[c].sock = s /\ caller[c].id = f.id
    BY <1>5 DEF Bridge!Deliver
  <1>. HIDE DEF a
  <1>8. ASSUME NEW c \in Callers
        PROVE  /\ caller'[c].at = caller[c].at /\ caller'[c].sock = caller[c].sock /\ caller'[c].id = caller[c].id
               /\ caller'[c].tag = caller[c].tag /\ caller'[c] \in CallerRows
               /\ \/ caller'[c].got = caller[c].got
                  \/ caller'[c].got = a /\ caller[c].sock = s /\ caller[c].id = f.id
    <2>1. caller[c] \in CallerRows
      BY <1>1 DEF BridgeTypes
    <2>. QED
      BY <1>4, <1>7, <2>1 DEF CallerRows
  <1>9. caller' \in [Callers -> CallerRows]
    BY <1>5, <1>8 DEF Bridge!Deliver
  <1>10. BridgeTypes'
    BY <1>1, <1>2, <1>6, <1>9 DEF BridgeTypes
  <1>11. SlotInv' /\ HoldInv'
    BY <1>1, <1>2, <1>6 DEF SlotInv, HoldInv, BridgeTypes
  <1>12. CallInv' /\ Bridge!PendingIsWaitedFor'
    BY <1>1, <1>2, <1>6, <1>8 DEF CallInv, Bridge!PendingIsWaitedFor
  <1>13. OwnInv'
    <2>1. ASSUME NEW t \in Sockets, NEW n \in 1 .. Len(sock'[t].up)
          PROVE  \E m \in 1 .. Len(sock[t].up) : sock'[t].up[n] = sock[t].up[m]
      <3>1. CASE t = s
        <4>1. n \in 1 .. Len(Tail(sock[s].up)) /\ sock'[t].up[n] = Tail(sock[s].up)[n]
          BY <1>6, <2>1, <3>1
        <4>2. n + 1 \in 1 .. Len(sock[s].up) /\ sock'[t].up[n] = sock[s].up[n + 1]
          BY <1>3, <4>1
        <4>. QED
          BY <3>1, <4>2
      <3>2. CASE t # s
        BY <1>6, <2>1, <3>2
      <3>. QED
        BY <3>1, <3>2
    <2>2. \A t \in Sockets : \A n \in 1 .. Len(sock'[t].down) : \E m \in 1 .. Len(sock[t].down) : sock'[t].down[n] = sock[t].down[m]
      BY <1>6
    <2>3. seq' \in Nat /\ seq' >= seq /\ restarts' = restarts /\ jobs' = jobs
      BY <1>1, <1>2 DEF BridgeTypes
    <2>. QED
      BY <1>1, <1>8, <2>1, <2>2, <2>3, OwnInvKeeps
  <1>14. Bridge!AnswersAreTheirOwn'
    <2>1. ASSUME NEW c \in Callers, caller'[c].got # Bridge!NoAnswer, caller'[c].got.run = restarts
          PROVE  caller'[c].got.tag = caller'[c].tag
      <3>1. CASE caller'[c].got = caller[c].got
        BY <1>1, <1>8, <2>1, <3>1 DEF Bridge!AnswersAreTheirOwn
      <3>2. CASE caller'[c].got = a /\ caller[c].sock = s /\ caller[c].id = f.id
        <4>1. caller[c].at # "idle"
          BY <1>1, <3>2 DEF CallInv, Bridge!BrowserBridgeConstants
        <4>2. f.run = restarts
          BY <1>4, <2>1, <3>2
        <4>. QED
          BY <1>4, <1>8, <3>2, <4>1, <4>2 DEF Own
      <3>. QED
        BY <1>8, <3>1, <3>2
    <2>. QED
      BY <1>2, <2>1 DEF Bridge!AnswersAreTheirOwn
  <1>. QED
    BY <1>10, <1>11, <1>12, <1>13, <1>14 DEF BridgeInv

LEMMA PendingIs ==
    ASSUME BridgeTypes, NEW s \in Sockets, NEW S \in SUBSET Nat, sock' = [sock EXCEPT ![s].pending = S]
    PROVE  /\ sock' \in [Sockets -> SocketRows] /\ sock'[s].pending = S
           /\ \A t \in Sockets : /\ t # s => sock'[t] = sock[t]
                                 /\ sock'[t].server = sock[t].server /\ sock'[t].by = sock[t].by
                                 /\ sock'[t].displaced = sock[t].displaced /\ sock'[t].down = sock[t].down
                                 /\ sock'[t].up = sock[t].up /\ sock'[t].open = sock[t].open
  <1>. DEFINE r == [sock[s] EXCEPT !.pending = S]
  <1>1. sock[s] \in SocketRows /\ sock \in [Sockets -> SocketRows]
    BY DEF BridgeTypes
  <1>2. /\ r.up = sock[s].up /\ r.server = sock[s].server /\ r.by = sock[s].by /\ r.displaced = sock[s].displaced
        /\ r.down = sock[s].down /\ r.pending = S /\ r.open = sock[s].open /\ r \in SocketRows
    BY <1>1 DEF SocketRows
  <1>3. sock' = [sock EXCEPT ![s] = r]
    OBVIOUS
  <1>. HIDE DEF r
  <1>4. sock'[s] = r /\ \A t \in Sockets : t # s => sock'[t] = sock[t]
    BY <1>1, <1>3
  <1>5. sock' \in [Sockets -> SocketRows]
    BY <1>1, <1>2, <1>3
  <1>. QED
    BY <1>2, <1>4, <1>5

(* Steps that leave the queues alone. *)
LEMMA QueuesKeep ==
    ASSUME BridgeInv, UNCHANGED <<slot, ext, jobs, restarts>>, seq' \in Nat, seq' >= seq,
           \A c \in Callers : caller'[c].at # "idle" =>
               \/ caller'[c].id > seq /\ caller'[c].id \in Nat
               \/ caller[c].at # "idle" /\ caller'[c].id = caller[c].id /\ caller'[c].tag = caller[c].tag,
           \A t \in Sockets : /\ sock'[t].server = sock[t].server /\ sock'[t].by = sock[t].by
                              /\ sock'[t].displaced = sock[t].displaced /\ sock'[t].down = sock[t].down
                              /\ sock'[t].up = sock[t].up /\ sock'[t].open = sock[t].open
    PROVE  SlotInv' /\ HoldInv' /\ OwnInv'
  <1>1. BridgeTypes /\ SlotInv /\ HoldInv /\ CallInv /\ OwnInv
    BY DEF BridgeInv
  <1>2. SlotInv' /\ HoldInv'
    BY <1>1 DEF SlotInv, HoldInv, BridgeTypes
  <1>3. /\ \A t \in Sockets : \A n \in 1 .. Len(sock'[t].up) : \E m \in 1 .. Len(sock[t].up) : sock'[t].up[n] = sock[t].up[m]
        /\ \A t \in Sockets : \A n \in 1 .. Len(sock'[t].down) : \E m \in 1 .. Len(sock[t].down) : sock'[t].down[n] = sock[t].down[m]
    OBVIOUS
  <1>. QED
    BY <1>1, <1>2, <1>3, OwnInvKeeps

LEMMA ReturnsKeeps ==
    ASSUME Bridge!BrowserBridgeConstants, BridgeInv, NEW c \in Callers, caller[c].at # "idle", Bridge!Returns(c, sock),
           UNCHANGED <<slot, seq, ext, jobs, calls, restarts>>
    PROVE  BridgeInv'
  <1>. DEFINE s == caller[c].sock
              S == sock[s].pending \ {caller[c].id}
  <1>1. BridgeTypes /\ CallInv /\ Bridge!PendingIsWaitedFor /\ Bridge!AnswersAreTheirOwn
    BY DEF BridgeInv
  <1>2. s \in Sockets
    BY <1>1 DEF BridgeTypes, CallerRows, CallInv
  <1>3. S \in SUBSET Nat
    BY <1>1, <1>2, SocketFields
  <1>4. sock' = [sock EXCEPT ![s].pending = S] /\ caller' = [caller EXCEPT ![c] = Bridge!Quiet]
    BY DEF Bridge!Returns
  <1>0. S = sock[s].pending \ {caller[c].id}
    OBVIOUS
  <1>. HIDE DEF S
  <1>5. /\ sock' \in [Sockets -> SocketRows] /\ sock'[s].pending = S
        /\ \A t \in Sockets : /\ t # s => sock'[t] = sock[t]
                              /\ sock'[t].server = sock[t].server /\ sock'[t].by = sock[t].by
                              /\ sock'[t].displaced = sock[t].displaced /\ sock'[t].down = sock[t].down
                              /\ sock'[t].up = sock[t].up /\ sock'[t].open = sock[t].open
    BY <1>1, <1>2, <1>3, <1>4, PendingIs
  <1>6. caller'[c] = Bridge!Quiet /\ \A d \in Callers : d # c => caller'[d] = caller[d]
    BY <1>1, <1>4 DEF BridgeTypes
  <1>7. Bridge!Quiet.at = "idle" /\ Bridge!Quiet.sock = NoSocket /\ Bridge!Quiet.id = 0 /\ Bridge!Quiet.got = Bridge!NoAnswer
    BY DEF Bridge!Quiet
  <1>8. BridgeTypes'
    BY <1>1, <1>4, <1>5, FreeIsRow DEF BridgeTypes
  <1>9. CallInv'
    BY <1>1, <1>6, <1>7 DEF CallInv, BridgeTypes
  <1>10. Bridge!PendingIsWaitedFor'
    <2>1. ASSUME NEW t \in Sockets, NEW id \in sock'[t].pending
          PROVE  \E d \in Callers : caller'[d].sock = t /\ caller'[d].id = id
      <3>1. id \in sock[t].pending /\ (t = s => id # caller[c].id)
        BY <1>0, <1>5, <2>1
      <3>2. PICK d \in Callers : caller[d].sock = t /\ caller[d].id = id
        BY <1>1, <3>1 DEF Bridge!PendingIsWaitedFor
      <3>3. d # c
        BY <3>1, <3>2
      <3>. QED
        BY <1>6, <3>2, <3>3
    <2>. QED
      BY <2>1 DEF Bridge!PendingIsWaitedFor
  <1>11. Bridge!AnswersAreTheirOwn'
    BY <1>1, <1>6, <1>7 DEF Bridge!AnswersAreTheirOwn
  <1>12. seq' \in Nat /\ seq' >= seq
    BY <1>1 DEF BridgeTypes
  <1>13. SlotInv' /\ HoldInv' /\ OwnInv'
    BY <1>5, <1>6, <1>7, <1>12, QueuesKeep
  <1>. QED
    BY <1>8, <1>9, <1>10, <1>11, <1>13 DEF BridgeInv

LEMMA RegistersKeeps ==
    ASSUME Bridge!BrowserBridgeConstants, BridgeInv, NEW c \in Callers, Bridge!Registers(c)
    PROVE  BridgeInv'
  <1>. DEFINE S == sock[slot].pending \cup {seq + 1}
              r == [at |-> "sending", sock |-> slot, id |-> seq + 1, tag |-> calls + 1, got |-> Bridge!NoAnswer]
  <1>1. BridgeTypes /\ CallInv /\ Bridge!PendingIsWaitedFor /\ Bridge!AnswersAreTheirOwn
    BY DEF BridgeInv
  <1>2. /\ slot \in Sockets /\ caller[c].at = "idle" /\ seq \in Nat /\ seq' = seq + 1
        /\ calls \in 0 .. MaxCalls /\ calls < MaxCalls /\ MaxCalls \in Nat /\ calls' = calls + 1
        /\ UNCHANGED <<slot, ext, jobs, restarts>>
    BY <1>1 DEF Bridge!Registers, BridgeTypes, Bridge!BrowserBridgeConstants
  <1>3. S \in SUBSET Nat
    BY <1>1, <1>2, SocketFields
  <1>4. sock' = [sock EXCEPT ![slot].pending = S] /\ caller' = [caller EXCEPT ![c] = r]
    BY DEF Bridge!Registers
  <1>0. S = sock[slot].pending \cup {seq + 1}
    OBVIOUS
  <1>7. r.at = "sending" /\ r.sock = slot /\ r.id = seq + 1 /\ r.got = Bridge!NoAnswer /\ r \in CallerRows
    BY <1>2, FreeIsRow DEF CallerRows
  <1>. HIDE DEF S, r
  <1>5. /\ sock' \in [Sockets -> SocketRows] /\ sock'[slot].pending = S
        /\ \A t \in Sockets : /\ t # slot => sock'[t] = sock[t]
                              /\ sock'[t].server = sock[t].server /\ sock'[t].by = sock[t].by
                              /\ sock'[t].displaced = sock[t].displaced /\ sock'[t].down = sock[t].down
                              /\ sock'[t].up = sock[t].up /\ sock'[t].open = sock[t].open
    BY <1>1, <1>2, <1>3, <1>4, PendingIs
  <1>6. caller'[c] = r /\ \A d \in Callers : d # c => caller'[d] = caller[d]
    BY <1>1, <1>4 DEF BridgeTypes
  <1>8. BridgeTypes'
    BY <1>1, <1>2, <1>4, <1>5, <1>7 DEF BridgeTypes
  <1>9. CallInv'
    <2>1. \A d \in Callers : caller[d].id \in 0 .. seq
      BY <1>1, <1>2 DEF CallInv
    <2>. QED
      BY <1>1, <1>2, <1>6, <1>7, <2>1 DEF CallInv, Bridge!BrowserBridgeConstants
  <1>10. Bridge!PendingIsWaitedFor'
    <2>1. ASSUME NEW t \in Sockets, NEW id \in sock'[t].pending
          PROVE  \E d \in Callers : caller'[d].sock = t /\ caller'[d].id = id
      <3>1. CASE t = slot /\ id = seq + 1
        BY <1>6, <1>7, <3>1
      <3>2. CASE ~ (t = slot /\ id = seq + 1)
        <4>1. id \in sock[t].pending
          BY <1>0, <1>5, <2>1, <3>2
        <4>2. PICK d \in Callers : caller[d].sock = t /\ caller[d].id = id
          BY <1>1, <4>1 DEF Bridge!PendingIsWaitedFor
        <4>3. d # c
          BY <1>1, <1>2, <4>2 DEF CallInv, Bridge!BrowserBridgeConstants
        <4>. QED
          BY <1>6, <4>2, <4>3
      <3>. QED
        BY <3>1, <3>2
    <2>. QED
      BY <2>1 DEF Bridge!PendingIsWaitedFor
  <1>11. Bridge!AnswersAreTheirOwn'
    BY <1>1, <1>2, <1>6, <1>7 DEF Bridge!AnswersAreTheirOwn
  <1>12. seq' \in Nat /\ seq' >= seq /\ seq + 1 > seq /\ seq + 1 \in Nat
    BY <1>2
  <1>13. SlotInv' /\ HoldInv' /\ OwnInv'
    BY <1>2, <1>5, <1>6, <1>7, <1>12, QueuesKeep
  <1>. QED
    BY <1>8, <1>9, <1>10, <1>11, <1>13 DEF BridgeInv

LEMMA SendsKeeps ==
    ASSUME Bridge!BrowserBridgeConstants, BridgeInv, NEW c \in Callers, Bridge!Sends(c)
    PROVE  BridgeInv'
  <1>. DEFINE s == caller[c].sock
              f == Bridge!Call(caller[c].id, caller[c].tag)
  <1>1. BridgeTypes /\ SlotInv /\ HoldInv /\ CallInv /\ Bridge!PendingIsWaitedFor /\ OwnInv /\ Bridge!AnswersAreTheirOwn
    BY DEF BridgeInv
  <1>2. caller[c].at = "sending" /\ UNCHANGED <<slot, seq, ext, jobs, calls, restarts>>
    BY DEF Bridge!Sends
  <1>3. CASE Bridge!Returns(c, sock)
    BY <1>2, <1>3, ReturnsKeeps
  <1>4. CASE /\ caller' = [caller EXCEPT ![c].at = "waiting"]
             /\ sock' = IF sock[s].open THEN [sock EXCEPT ![s].down = Append(@, f)] ELSE sock
    <2>1. s \in Sockets /\ caller[c] \in CallerRows /\ caller \in [Callers -> CallerRows]
      BY <1>1, <1>2 DEF BridgeTypes, CallerRows, CallInv
    <2>2. f \in Frames
      BY <1>1, <2>1 DEF Frames, Bridge!Call, CallerRows, BridgeTypes
    <2>3. /\ caller'[c].at = "waiting" /\ caller'[c].sock = caller[c].sock /\ caller'[c].id = caller[c].id
          /\ caller'[c].tag = caller[c].tag /\ caller'[c].got = caller[c].got
          /\ caller' \in [Callers -> CallerRows] /\ \A d \in Callers : d # c => caller'[d] = caller[d]
      BY <1>4, <2>1 DEF CallerRows
    <2>. HIDE DEF f, s
    <2>4. Append(sock[s].down, f) \in Seq(Frames)
          /\ \A n \in 1 .. Len(Append(sock[s].down, f)) :
               (n \in 1 .. Len(sock[s].down) /\ Append(sock[s].down, f)[n] = sock[s].down[n]) \/ Append(sock[s].down, f)[n] = f
      <3>1. sock[s].down \in Seq(Frames)
        BY <1>1, <2>1, SocketFields
      <3>. QED
        BY <2>2, <3>1, AppendIs
    <2>5. /\ sock' \in [Sockets -> SocketRows]
          /\ \A t \in Sockets : /\ t # s => sock'[t] = sock[t]
                                /\ sock'[t].server = sock[t].server /\ sock'[t].by = sock[t].by
                                /\ sock'[t].displaced = sock[t].displaced /\ sock'[t].up = sock[t].up
                                /\ sock'[t].pending = sock[t].pending /\ sock'[t].open = sock[t].open
          /\ sock'[s].down = sock[s].down \/ sock'[s].down = Append(sock[s].down, f)
      <3>1. CASE sock[s].open
        <4>1. sock' = [sock EXCEPT ![s].down = Append(sock[s].down, f)]
          BY <1>4, <3>1
        <4>. QED
          BY <1>1, <2>1, <2>4, <4>1, DownIs
      <3>2. CASE ~sock[s].open
        BY <1>1, <1>4, <3>2 DEF BridgeTypes
      <3>. QED
        BY <3>1, <3>2
    <2>6. ASSUME NEW t \in Sockets, NEW n \in 1 .. Len(sock'[t].down)
          PROVE  \/ \E m \in 1 .. Len(sock[t].down) : sock'[t].down[n] = sock[t].down[m]
                 \/ \E d \in Callers : caller[d].at # "idle" /\ sock'[t].down[n] = Bridge!Call(caller[d].id, caller[d].tag)
      <3>1. CASE t = s /\ sock'[s].down = Append(sock[s].down, f)
        <4>1. n \in 1 .. Len(Append(sock[s].down, f)) /\ sock'[t].down[n] = Append(sock[s].down, f)[n]
          BY <2>6, <3>1
        <4>2. (n \in 1 .. Len(sock[s].down) /\ sock'[t].down[n] = sock[s].down[n]) \/ sock'[t].down[n] = f
          BY <2>4, <4>1
        <4>. QED
          BY <1>2, <3>1, <4>2 DEF f
      <3>2. CASE ~ (t = s /\ sock'[s].down = Append(sock[s].down, f))
        BY <2>5, <2>6, <3>2
      <3>. QED
        BY <3>1, <3>2
    <2>7. OwnInv'
      <3>1. seq' \in Nat /\ seq' >= seq /\ restarts' = restarts /\ \A j \in jobs' : j \in jobs
        BY <1>1, <1>2 DEF BridgeTypes
      <3>2. \A d \in Callers : caller'[d].at # "idle" =>
                caller[d].at # "idle" /\ caller'[d].id = caller[d].id /\ caller'[d].tag = caller[d].tag
        BY <1>2, <2>3
      <3>3. \A t \in Sockets : \A n \in 1 .. Len(sock'[t].up) : \E m \in 1 .. Len(sock[t].up) : sock'[t].up[n] = sock[t].up[m]
        BY <2>5
      <3>. QED
        BY <1>1, <2>6, <3>1, <3>2, <3>3, OwnInvKeeps
    <2>8. BridgeTypes'
      BY <1>1, <1>2, <2>3, <2>5 DEF BridgeTypes
    <2>9. SlotInv' /\ HoldInv'
      BY <1>1, <1>2, <2>5 DEF SlotInv, HoldInv, BridgeTypes
    <2>10. CallInv'
      <3>1. \A d \in Callers : /\ caller'[d].at = "idle" <=> caller[d].at = "idle"
                               /\ caller'[d].sock = caller[d].sock /\ caller'[d].id = caller[d].id
        BY <1>2, <2>3
      <3>. QED
        BY <1>1, <1>2, <3>1 DEF CallInv
    <2>11. Bridge!PendingIsWaitedFor' /\ Bridge!AnswersAreTheirOwn'
      <3>1. \A d \in Callers : /\ caller'[d].sock = caller[d].sock /\ caller'[d].id = caller[d].id
                               /\ caller'[d].got = caller[d].got /\ caller'[d].tag = caller[d].tag
        BY <2>3
      <3>. QED
        BY <1>1, <1>2, <2>5, <3>1 DEF Bridge!PendingIsWaitedFor, Bridge!AnswersAreTheirOwn
    <2>. QED
      BY <2>7, <2>8, <2>9, <2>10, <2>11 DEF BridgeInv
  <1>. QED
    BY <1>3, <1>4 DEF Bridge!Sends

LEMMA RestartsKeep ==
    ASSUME Bridge!BrowserBridgeConstants, BridgeInv, Bridge!Restarts
    PROVE  BridgeInv'
  <1>1. BridgeTypes /\ HoldInv /\ OwnInv
    BY DEF BridgeInv
  <1>2. /\ restarts' = restarts + 1 /\ restarts \in Nat /\ slot' = NoSocket /\ seq' = 0
        /\ caller' = [c \in Callers |-> Bridge!Quiet] /\ UNCHANGED <<ext, jobs, calls>>
    BY <1>1 DEF Bridge!Restarts, BridgeTypes
  <1>3. ASSUME NEW s \in Sockets
        PROVE  /\ sock'[s] \in SocketRows /\ sock'[s].server = "none" /\ sock'[s].displaced = NoSocket
               /\ sock'[s].up = <<>> /\ sock'[s].pending = {}
               /\ sock'[s].open <=> sock[s].open
               /\ sock[s].open => sock'[s].by = sock[s].by
               /\ sock'[s].down = <<>> \/ sock'[s].down = Append(sock[s].down, Bridge!Close("lost"))
    <2>. DEFINE r == [Bridge!Free EXCEPT !.by = sock[s].by, !.open = TRUE, !.closed = TRUE,
                                         !.down = Append(sock[s].down, Bridge!Close("lost"))]
    <2>0. sock'[s] = IF sock[s].open THEN r ELSE Bridge!Free
      BY DEF Bridge!Restarts
    <2>1. Bridge!Close("lost") \in Frames
      BY DEF Bridge!Close, Frames
    <2>2. sock[s] \in SocketRows /\ sock[s].down \in Seq(Frames) /\ Append(sock[s].down, Bridge!Close("lost")) \in Seq(Frames)
      BY <1>1, <2>1, SocketFields, AppendIs
    <2>3. /\ r \in SocketRows /\ r.server = "none" /\ r.displaced = NoSocket /\ r.up = <<>> /\ r.pending = {}
          /\ r.open = TRUE /\ r.by = sock[s].by /\ r.down = Append(sock[s].down, Bridge!Close("lost"))
      BY <2>2, FreeIsRow DEF Bridge!Free, SocketRows
    <2>. HIDE DEF r
    <2>4. /\ Bridge!Free \in SocketRows /\ Bridge!Free.server = "none" /\ Bridge!Free.displaced = NoSocket /\ Bridge!Free.up = <<>>
          /\ Bridge!Free.pending = {} /\ Bridge!Free.open = FALSE /\ Bridge!Free.down = <<>>
      BY FreeIsRow DEF Bridge!Free
    <2>5. CASE sock[s].open
      BY <2>0, <2>3, <2>5
    <2>6. CASE ~sock[s].open
      BY <2>0, <2>4, <2>6
    <2>. QED
      BY <2>5, <2>6
  <1>4. DOMAIN sock' = Sockets /\ sock' = [s \in Sockets |-> sock'[s]]
    BY DEF Bridge!Restarts
  <1>5. sock' \in [Sockets -> SocketRows]
    BY <1>3, <1>4
  <1>6. BridgeTypes'
    BY <1>1, <1>2, <1>5, FreeIsRow DEF BridgeTypes
  <1>7. SlotInv'
    BY <1>2, <1>3 DEF SlotInv
  <1>8. HoldInv'
    BY <1>1, <1>2, <1>3 DEF HoldInv
  <1>9. CallInv' /\ Bridge!PendingIsWaitedFor' /\ Bridge!AnswersAreTheirOwn'
    BY <1>2, <1>3 DEF CallInv, Bridge!PendingIsWaitedFor, Bridge!AnswersAreTheirOwn, Bridge!Quiet
  <1>10. OwnInv'
    <2>1. \A x : x.run <= restarts /\ x.run \in Nat => Own(x)'
      BY <1>2 DEF Own
    <2>2. ASSUME NEW s \in Sockets, NEW n \in 1 .. Len(sock'[s].down), sock'[s].down[n].kind = "call"
          PROVE  Own(sock[s].down[n])'
      <3>1. sock'[s].down = Append(sock[s].down, Bridge!Close("lost"))
        BY <1>3, <2>2
      <3>2. sock[s].down \in Seq(Frames) /\ Bridge!Close("lost") \in Frames /\ Bridge!Close("lost").kind # "call"
        BY <1>1, SocketFields DEF Bridge!Close, Frames
      <3>3. n \in 1 .. Len(sock[s].down) /\ sock'[s].down[n] = sock[s].down[n]
        <4>1. (n \in 1 .. Len(sock[s].down) /\ sock'[s].down[n] = sock[s].down[n]) \/ sock'[s].down[n] = Bridge!Close("lost")
          BY <2>2, <3>1, <3>2, AppendIs
        <4>. QED
          BY <2>2, <3>2, <4>1
      <3>4. PICK x : x = sock[s].down[n] /\ x \in Frames /\ x.kind = "call" /\ Own(x)
        BY <1>1, <2>2, <3>2, <3>3 DEF OwnInv
      <3>5. x.run <= restarts /\ x.run \in Nat
        BY <3>4 DEF Own, Frames
      <3>6. Own(x)'
        BY <2>1, <3>5
      <3>. QED
        BY <3>3, <3>4, <3>6 DEF Own
    <2>3. ASSUME NEW j \in jobs'
          PROVE  Own(j)'
      <3>1. j.run <= restarts /\ j.run \in Nat
        BY <1>1, <1>2, <2>3 DEF OwnInv, Own, BridgeTypes
      <3>. QED
        BY <2>1, <3>1
    <2>4. \A s \in Sockets : 1 .. Len(sock'[s].up) = {}
      BY <1>3
    <2>. QED
      BY <2>2, <2>3, <2>4 DEF OwnInv
  <1>. QED
    BY <1>6, <1>7, <1>8, <1>9, <1>10 DEF BridgeInv

LEMMA BridgeStep == Bridge!BrowserBridgeConstants /\ BridgeInv /\ [Bridge!Next]_(Bridge!vars) => BridgeInv'
  <1>. SUFFICES ASSUME Bridge!BrowserBridgeConstants, BridgeInv, [Bridge!Next]_(Bridge!vars)
                PROVE  BridgeInv'
    OBVIOUS
  <1>1. CASE UNCHANGED Bridge!vars
    <2>1. UNCHANGED <<sock, slot, seq, caller, ext, jobs, calls, restarts>>
      BY <1>1 DEF Bridge!vars
    <2>. QED
      BY <2>1 DEF BridgeInv, BridgeTypes, SlotInv, HoldInv, CallInv, Bridge!PendingIsWaitedFor, OwnInv, Own, Bridge!AnswersAreTheirOwn
  <1>2. ASSUME NEW b \in Browsers, Bridge!Reconnects(b) \/ Bridge!PressesConnect(b)
        PROVE  BridgeInv'
    BY <1>2, OpensKeeps DEF Bridge!Reconnects, Bridge!PressesConnect
  <1>3. ASSUME NEW b \in Browsers, Bridge!PressesDisconnect(b) \/ Bridge!WorkerEnds(b)
        PROVE  BridgeInv'
    <2>1. ext[b].want \in BOOLEAN
      BY DEF BridgeInv, BridgeTypes
    <2>2. jobs' \subseteq jobs /\ UNCHANGED <<slot, seq, caller, calls, restarts>>
      BY <1>3 DEF Bridge!PressesDisconnect, Bridge!WorkerEnds
    <2>3. Bridge!Drops(b, FALSE) \/ Bridge!Drops(b, ext[b].want)
      BY <1>3 DEF Bridge!PressesDisconnect, Bridge!WorkerEnds
    <2>. QED
      BY <2>1, <2>2, <2>3, DropsKeeps
  <1>4. ASSUME NEW c \in Callers, Bridge!IsAnswered(c) \/ Bridge!GivesUp(c)
        PROVE  BridgeInv'
    BY <1>4, ReturnsKeeps DEF Bridge!IsAnswered, Bridge!GivesUp
  <1>. QED
    BY <1>1, <1>2, <1>3, <1>4, ReceivesKeeps, PerformsKeeps, HubSteps, ReadsKeeps, RegistersKeeps,
       SendsKeeps, RestartsKeep DEF Bridge!Next, Bridge!Serves

(* For any browsers, callers and sockets: the Hub and the extensions agree on who    *)
(* holds what, whatever is pending is waited for, and within one run of the gateway  *)
(* nobody is given another call's answer (hub.go:297-330, background.js:80-220).     *)
THEOREM BridgeIsSafe ==
    Bridge!BrowserBridgeConstants /\ Bridge!Spec => [](Bridge!TypeOK /\ Bridge!PendingIsWaitedFor /\ Bridge!AnswersAreTheirOwn)
  <1>1. BridgeInv /\ Bridge!BrowserBridgeConstants => Bridge!TypeOK /\ Bridge!PendingIsWaitedFor /\ Bridge!AnswersAreTheirOwn
    <2>. SUFFICES ASSUME BridgeInv, Bridge!BrowserBridgeConstants
                  PROVE  Bridge!TypeOK /\ Bridge!PendingIsWaitedFor /\ Bridge!AnswersAreTheirOwn
      OBVIOUS
    <2>1. BridgeTypes /\ SlotInv /\ HoldInv /\ CallInv
      BY DEF BridgeInv
    <2>2. \A b \in Browsers : {s \in Sockets : sock[s].open /\ sock[s].by = b} = {ext[b].ws} \ {NoSocket}
      BY <2>1 DEF HoldInv, BridgeTypes, Bridge!BrowserBridgeConstants
    <2>3. \A s \in Sockets : sock[s].server = "none" => sock[s].up = <<>> /\ sock[s].displaced = NoSocket
      BY <2>1 DEF SlotInv
    <2>4. \A c \in Callers : caller[c].at \in {"idle", "sending", "waiting"} /\ caller[c].id \in 0..seq
      BY <2>1 DEF CallInv, BridgeTypes, CallerRows
    <2>. QED
      BY <2>1, <2>2, <2>3, <2>4 DEF Bridge!TypeOK, SlotInv, BridgeTypes, BridgeInv
  <1>2. CASE Bridge!BrowserBridgeConstants
    BY <1>1, <1>2, BridgeInit, BridgeStep, PTL DEF Bridge!Spec
  <1>. QED
    BY <1>2

-----------------------------------------------------------------------------
(* An agent's turns on its command-line backend, Backends.tla. *)

CONSTANTS MaxTokenFailovers, MaxAutoContinue, MaxTurns, MaxFaults, MaxSwitches,
    MaxResets

VARIABLES llm, sess, kept, convs, lost, call, turns, faults, switches, resets, gone,
    torn

Clients == INSTANCE Backends

Conversations == 0 .. Len(convs)

Refs == [id : Conversations, provider : Clients!Clis \union {""}]

CallRows ==
    [at : {"idle", "spawn", "running", "returned"}, place : Clients!Places, prompt : Clients!Prompts,
     memory : BOOLEAN, autos : 0 .. MaxAutoContinue, isNew : BOOLEAN, resumed : Nat, conv : Nat,
     naming : BOOLEAN, emitted : BOOLEAN, attempt : 0 .. MaxTokenFailovers, retriedCrash : BOOLEAN,
     stopped : BOOLEAN, err : Clients!Ends, said : BOOLEAN, cleared : BOOLEAN, stray : BOOLEAN]

ConvRows == [cli : Clients!Clis, asked : SUBSET (1 .. turns)]

BackTypes ==
    /\ llm \in Clients!Clis /\ sess \in [Clients!Places -> Refs] /\ kept \in [{"thread", "task"} -> Refs]
    /\ convs \in Seq(ConvRows) /\ lost \subseteq 1 .. Len(convs) /\ gone \subseteq 1 .. Len(convs)
    /\ torn \in BOOLEAN /\ call \in CallRows /\ call.resumed \in Conversations /\ call.conv \in Conversations
    /\ turns \in 0 .. MaxTurns /\ faults \in 0 .. MaxFaults /\ switches \in 0 .. MaxSwitches
    /\ resets \in 0 .. MaxResets

ItsOwnPlace == llm = "claude" \/ Clients!GetProvider(Clients!Here) = llm

(* Whose a session's conversation is, and which one a turn goes on with. *)
NamingInv == call.naming => call.at = "running" /\ call.conv # Clients!NoConv /\ llm # "claude"

ConvInv ==
    call.at = "running" =>
        /\ call.isNew <=> call.resumed = Clients!NoConv
        /\ call.conv # Clients!NoConv => \/ call.isNew /\ convs[call.conv].cli = llm
                                         \/ ~call.isNew /\ call.conv = call.resumed

FreshInv ==
    call.at = "running" /\ call.isNew /\ call.conv = Clients!NoConv /\ llm = "claude" => Clients!Here.id = Clients!NoConv

TurnInv == call.at # "idle" => turns # 0

AskedInv ==
    /\ call.at = "spawn" => ~call.emitted
    /\ call.at \in {"spawn", "running"} /\ call.said /\ ~call.emitted => call.prompt = "carry on"
    /\ call.at = "running" /\ call.emitted => call.conv # Clients!NoConv

TaskInv ==
    /\ kept["task"].id # Clients!NoConv => convs[kept["task"].id].cli = kept["task"].provider
    /\ sess["task"].id # Clients!NoConv => /\ call.at # "idle" /\ call.place = "task"
                                           /\ convs[sess["task"].id].cli = llm

ChatInv ==
    ~torn => IF call.naming /\ call.place = "chat"
             THEN sess["chat"].id # Clients!NoConv /\ convs[sess["chat"].id].cli = llm
             ELSE /\ sess["chat"].id # Clients!NoConv => convs[sess["chat"].id].cli = Clients!GetProvider(sess["chat"])
                  /\ sess["chat"].id = Clients!NoConv => sess["chat"].provider = ""

GoneInv == sess["chat"].id \in gone => convs[sess["chat"].id].cli = "opencode"

MemoryInv ==
    call.at # "idle" /\ ~call.cleared /\ ~call.stray =>
        /\ Clients!Here.id # Clients!NoConv => call.naming \/ ItsOwnPlace
        /\ call.at \in {"spawn", "running"} /\ Clients!Here.id = Clients!NoConv => call.memory
        /\ call.at = "running" /\ call.isNew => call.memory

Steady == ~call.cleared /\ ~(llm = "opencode" /\ call.stray)

Told(c) == c # Clients!NoConv /\ turns \in convs[c].asked

CarryInv ==
    Steady =>
        /\ call.at = "running" /\ call.conv # Clients!NoConv =>
              Clients!Here.id = call.conv /\ Told(call.conv) /\ (call.naming \/ ItsOwnPlace)
        /\ call.at = "running" /\ call.conv = Clients!NoConv =>
              IF call.resumed # Clients!NoConv THEN Clients!Here.id = call.resumed /\ ItsOwnPlace
              ELSE llm = "opencode" => Clients!Here.id = Clients!NoConv
        /\ call.at = "running" /\ call.prompt = "carry on" => Told(call.resumed)
        /\ call.at = "spawn" /\ call.prompt = "carry on" => Told(Clients!Here.id) /\ ItsOwnPlace
        /\ call.at = "returned" /\ call.err = "none" => Told(Clients!Here.id) /\ ItsOwnPlace

BackInv ==
    /\ BackTypes /\ NamingInv /\ ConvInv /\ AskedInv /\ TaskInv /\ ChatInv /\ GoneInv
    /\ MemoryInv /\ CarryInv /\ FreshInv /\ TurnInv /\ Clients!ResumesItsOwn


LEMMA WidenSeq ==
    ASSUME NEW S, NEW T, S \subseteq T, NEW s \in Seq(S)
    PROVE  s \in Seq(T)
  <1>1. s \in [1 .. Len(s) -> S] /\ Len(s) \in Nat
    OBVIOUS
  <1>2. s \in [1 .. Len(s) -> T]
    BY <1>1
  <1>. QED
    BY <1>1, <1>2

(* What the types say, part by part. *)
LEMMA TypesHave ==
    ASSUME BackTypes, Clients!BackendsConstants
    PROVE  /\ llm \in Clients!Clis /\ sess \in [Clients!Places -> Refs] /\ kept \in [{"thread", "task"} -> Refs]
           /\ convs \in Seq(ConvRows) /\ Len(convs) \in Nat /\ lost \subseteq 1 .. Len(convs) /\ gone \subseteq 1 .. Len(convs)
           /\ torn \in BOOLEAN /\ call \in CallRows
           /\ call.resumed \in Conversations /\ call.conv \in Conversations
           /\ turns \in 0 .. MaxTurns /\ faults \in 0 .. MaxFaults /\ switches \in 0 .. MaxSwitches
           /\ resets \in 0 .. MaxResets /\ call.place \in Clients!Places /\ Clients!Here \in Refs /\ Clients!Here = sess[call.place]
           /\ \A i \in 1 .. Len(convs) : convs[i] \in ConvRows /\ convs[i].cli \in Clients!Clis /\ convs[i].asked \subseteq 1 .. turns
           /\ {MaxTurns, MaxFaults, MaxSwitches, MaxResets, MaxTokenFailovers, MaxAutoContinue} \subseteq Nat
  <1>1. convs \in Seq(ConvRows)
    BY DEF BackTypes
  <1>2. Len(convs) \in Nat /\ \A i \in 1 .. Len(convs) : convs[i] \in ConvRows
    BY <1>1
  <1>3. \A i \in 1 .. Len(convs) : convs[i].cli \in Clients!Clis /\ convs[i].asked \subseteq 1 .. turns
    BY <1>2 DEF ConvRows
  <1>4. sess \in [Clients!Places -> Refs] /\ call.place \in Clients!Places
    BY DEF BackTypes, CallRows
  <1>5. /\ llm \in Clients!Clis /\ kept \in [{"thread", "task"} -> Refs]
        /\ lost \subseteq 1 .. Len(convs) /\ gone \subseteq 1 .. Len(convs)
        /\ torn \in BOOLEAN /\ call \in CallRows
        /\ call.resumed \in Conversations /\ call.conv \in Conversations
        /\ turns \in 0 .. MaxTurns /\ faults \in 0 .. MaxFaults /\ switches \in 0 .. MaxSwitches
        /\ resets \in 0 .. MaxResets
    BY DEF BackTypes, CallRows
  <1>. QED
    BY <1>1, <1>2, <1>3, <1>4, <1>5 DEF Clients!Here, Clients!BackendsConstants

LEMMA TypesTake == BackTypes => Clients!TypeOK
  BY DEF BackTypes, Clients!TypeOK, ConvRows, Refs, Conversations, CallRows

LEMMA BackInit == Clients!BackendsConstants /\ Clients!Init => BackInv
  <1>. SUFFICES ASSUME Clients!BackendsConstants, Clients!Init
                PROVE  BackInv
    OBVIOUS
  <1>1. convs = <<>> /\ Len(convs) = 0 /\ convs \in Seq(ConvRows)
    BY DEF Clients!Init
  <1>2. call = Clients!NoCall /\ call \in CallRows /\ call.resumed = 0 /\ call.conv = 0 /\ call.at = "idle" /\ ~call.naming
        /\ ~call.emitted /\ ~call.said
    BY DEF Clients!Init, Clients!NoCall, CallRows, Clients!BackendsConstants, Clients!Places, Clients!Prompts, Clients!Ends, Clients!NoConv
  <1>3. Clients!Blank \in Refs /\ Clients!Blank.id = Clients!NoConv /\ Clients!Blank.provider = ""
    BY <1>1 DEF Refs, Conversations, Clients!Blank, Clients!Ref, Clients!NoConv
  <1>4. /\ sess \in [Clients!Places -> Refs] /\ kept \in [{"thread", "task"} -> Refs]
        /\ sess["chat"] = Clients!Blank /\ sess["task"] = Clients!Blank /\ kept["task"] = Clients!Blank
    BY <1>3 DEF Clients!Init, Clients!Places
  <1>5. BackTypes
    <2>1. call.resumed \in Conversations /\ call.conv \in Conversations
      BY <1>1, <1>2 DEF Conversations
    <2>2. llm \in Clients!Clis /\ lost \subseteq 1 .. Len(convs) /\ gone \subseteq 1 .. Len(convs) /\ torn \in BOOLEAN
      BY DEF Clients!Init
    <2>3. /\ turns \in 0 .. MaxTurns /\ faults \in 0 .. MaxFaults /\ switches \in 0 .. MaxSwitches
          /\ resets \in 0 .. MaxResets
      BY DEF Clients!Init, Clients!BackendsConstants
    <2>. QED
      BY <1>1, <1>2, <1>4, <2>1, <2>2, <2>3 DEF BackTypes
  <1>6. NamingInv /\ ConvInv /\ AskedInv /\ MemoryInv /\ FreshInv /\ TurnInv /\ Clients!ResumesItsOwn
    BY <1>2 DEF NamingInv, ConvInv, AskedInv, MemoryInv, FreshInv, TurnInv, Clients!ResumesItsOwn
  <1>7. CarryInv
    BY <1>2 DEF CarryInv
  <1>8. TaskInv /\ ChatInv /\ GoneInv
    <2>1. gone = {} /\ ~call.naming
      BY <1>2 DEF Clients!Init
    <2>. QED
      BY <1>3, <1>4, <2>1 DEF TaskInv, ChatInv, GoneInv
  <1>. QED
    BY <1>5, <1>6, <1>7, <1>8 DEF BackInv

(* The steps of a turn that leave every session and every conversation as they are. *)
Calm ==
    /\ UNCHANGED <<llm, sess, kept, convs, lost, gone, torn, turns, switches, resets>>
    /\ faults' \in 0 .. MaxFaults

LEMMA CalmKeeps ==
    ASSUME Clients!BackendsConstants, BackInv, Calm, call.at # "idle", call' \in CallRows, call'.at # "idle",
           call'.naming <=> call.naming, call.naming => call'.at = call.at /\ call'.conv = call.conv,
           call'.place = call.place, call'.stray = call.stray, call'.cleared = call.cleared,
           call'.resumed \in Conversations, call'.conv \in Conversations
    PROVE  /\ BackTypes' /\ NamingInv' /\ TaskInv' /\ ChatInv' /\ GoneInv' /\ TurnInv'
           /\ Clients!Here' = Clients!Here /\ (ItsOwnPlace' <=> ItsOwnPlace) /\ (Steady' <=> Steady)
           /\ \A c : Told(c)' <=> Told(c)
  <1>1. BackTypes /\ NamingInv /\ TaskInv /\ ChatInv /\ GoneInv
    BY DEF BackInv
  <1>2. BackTypes'
    <2>1. UNCHANGED <<Refs, ConvRows, Conversations>>
      BY DEF Calm, Refs, ConvRows, Conversations
    <2>. QED
      BY <1>1, <2>1 DEF BackTypes, Calm
  <1>3. NamingInv'
    BY <1>1 DEF NamingInv, Calm
  <1>4. TaskInv' /\ ChatInv' /\ GoneInv' /\ TurnInv'
    BY <1>1 DEF BackInv, TaskInv, ChatInv, GoneInv, TurnInv, Calm
  <1>5. Clients!Here' = Clients!Here /\ (ItsOwnPlace' <=> ItsOwnPlace) /\ (Steady' <=> Steady)
    BY DEF Clients!Here, ItsOwnPlace, Steady, Calm, Clients!GetProvider
  <1>6. \A c : Told(c)' <=> Told(c)
    BY DEF Told, Calm
  <1>. QED
    BY <1>2, <1>3, <1>4, <1>5, <1>6


LEMMA SpawnKeeps ==
    ASSUME Clients!BackendsConstants, BackInv, Clients!Spawn
    PROVE  BackInv'
  <1>1. /\ BackTypes /\ NamingInv /\ ConvInv /\ AskedInv /\ TaskInv /\ ChatInv /\ GoneInv /\ MemoryInv /\ CarryInv
        /\ call.at = "spawn" /\ ~call.naming
    BY DEF BackInv, Clients!Spawn, NamingInv
  <1>2. Calm
    BY <1>1 DEF Clients!Spawn, Calm, BackTypes
  <1>3. Clients!StartsAfresh \in BOOLEAN /\ Clients!ToResume \in Conversations /\ Clients!ToResume \in Nat /\ Clients!NoConv \in Conversations /\ Clients!NoConv \in Nat
    <2>1. Clients!Here \in Refs /\ Len(convs) \in Nat
      BY <1>1, TypesHave
    <2>2. Clients!Here.id \in Conversations
      BY <2>1 DEF Refs
    <2>3. Clients!NoConv \in Conversations /\ \A c \in Conversations : c \in Nat
      BY <2>1 DEF Conversations, Clients!NoConv
    <2>. QED
      BY <2>2, <2>3 DEF Clients!StartsAfresh, Clients!ToResume
  <1>4. (Clients!StartsAfresh <=> Clients!ToResume = Clients!NoConv) /\ (~Clients!StartsAfresh => Clients!ToResume = Clients!Here.id /\ ItsOwnPlace)
    BY DEF Clients!StartsAfresh, Clients!ToResume, ItsOwnPlace
  <1>5. call \in CallRows
    BY <1>1 DEF BackTypes
  <1>6. call' \in CallRows
    BY <1>3, <1>5 DEF Clients!Spawn, CallRows
  <1>7. /\ call'.at = "running" /\ call'.resumed = Clients!ToResume /\ call'.conv = Clients!NoConv
        /\ call'.place = call.place /\ call'.stray = call.stray /\ call'.cleared = call.cleared
        /\ call'.naming = call.naming /\ call'.emitted = call.emitted /\ call'.said = call.said
        /\ call'.prompt = call.prompt /\ call'.memory = call.memory /\ call'.isNew = Clients!StartsAfresh
    BY <1>5 DEF Clients!Spawn, CallRows
  <1>8. /\ BackTypes' /\ NamingInv' /\ TaskInv' /\ ChatInv' /\ GoneInv' /\ TurnInv'
        /\ Clients!Here' = Clients!Here /\ (ItsOwnPlace' <=> ItsOwnPlace) /\ (Steady' <=> Steady)
        /\ \A c : Told(c)' <=> Told(c)
    BY <1>1, <1>2, <1>3, <1>6, <1>7, CalmKeeps
  <1>9. ConvInv' /\ AskedInv'
    BY <1>1, <1>4, <1>7 DEF ConvInv, AskedInv
  <1>13. FreshInv'
    BY <1>2, <1>7, <1>8 DEF FreshInv, Clients!StartsAfresh, Calm
  <1>10. MemoryInv'
    BY <1>1, <1>4, <1>7, <1>8 DEF MemoryInv, Clients!StartsAfresh, ItsOwnPlace
  <1>11. CarryInv'
    <2>2. Told(Clients!Here.id) /\ ItsOwnPlace => ~Clients!StartsAfresh
      BY DEF Told, Clients!StartsAfresh, ItsOwnPlace
    <2>3. Steady' /\ call'.prompt = "carry on" => ~Clients!StartsAfresh /\ call'.resumed = Clients!Here.id /\ Told(Clients!Here.id)
      BY <1>1, <1>4, <1>7, <1>8, <2>2 DEF CarryInv
    <2>4. Steady' /\ call'.resumed = Clients!NoConv /\ llm' = "opencode" => Clients!Here'.id = Clients!NoConv
      <3>1. Steady' /\ llm' = "opencode" => ~call.cleared /\ ~call.stray
        BY <1>7 DEF Steady
      <3>. QED
        BY <1>1, <1>4, <1>7, <1>8, <3>1 DEF MemoryInv, Clients!StartsAfresh, ItsOwnPlace
    <2>. QED
      BY <1>4, <1>7, <1>8, <2>3, <2>4 DEF CarryInv
  <1>12. Clients!ResumesItsOwn'
    <2>1. /\ Clients!ToResume # Clients!NoConv => Clients!ToResume = sess[call.place].id /\ (llm = "claude" \/ Clients!GetProvider(sess[call.place]) = llm)
          /\ UNCHANGED <<llm, convs, torn>>
      BY <1>2, <1>4 DEF Clients!Here, ItsOwnPlace, Calm
    <2>2. CASE call.place = "task"
      BY <1>1, <1>7, <2>1, <2>2 DEF TaskInv, Clients!ResumesItsOwn
    <2>3. CASE call.place = "chat"
      BY <1>1, <1>7, <2>1, <2>3 DEF ChatInv, Clients!ResumesItsOwn
    <2>4. CASE call.place \notin {"task", "chat"}
      BY <1>7, <2>4 DEF Clients!ResumesItsOwn
    <2>. QED
      BY <2>2, <2>3, <2>4
  <1>. QED
    BY <1>8, <1>9, <1>10, <1>11, <1>12, <1>13 DEF BackInv


(* SendMessage returns: nothing of the turn is lost but what the CLI did not do. *)
LEMMA SendReturns ==
    ASSUME Clients!BackendsConstants, BackInv, Calm, NEW e \in Clients!Ends, Clients!Returns(e),
           call.at \in {"spawn", "running"}, ~call.naming, e = "none" => call.at = "running" /\ call.conv # Clients!NoConv
    PROVE  BackInv'
  <1>1. /\ BackTypes /\ NamingInv /\ ConvInv /\ AskedInv /\ MemoryInv /\ CarryInv /\ call \in CallRows
        /\ call.resumed \in Conversations /\ call.conv \in Conversations
    BY DEF BackInv, BackTypes
  <1>2. /\ call' \in CallRows /\ call'.at = "returned" /\ call'.err = e /\ call'.resumed = call.resumed
        /\ call'.conv = call.conv /\ call'.naming = call.naming /\ call'.place = call.place
        /\ call'.stray = call.stray /\ call'.cleared = call.cleared
    BY <1>1 DEF Clients!Returns, CallRows
  <1>3. /\ BackTypes' /\ NamingInv' /\ TaskInv' /\ ChatInv' /\ GoneInv' /\ TurnInv'
        /\ Clients!Here' = Clients!Here /\ (ItsOwnPlace' <=> ItsOwnPlace) /\ (Steady' <=> Steady)
        /\ \A c : Told(c)' <=> Told(c)
    BY <1>1, <1>2, CalmKeeps
  <1>4. ConvInv' /\ AskedInv' /\ FreshInv' /\ Clients!ResumesItsOwn'
    BY <1>2 DEF ConvInv, AskedInv, FreshInv, Clients!ResumesItsOwn
  <1>5. MemoryInv'
    BY <1>1, <1>2, <1>3 DEF MemoryInv
  <1>6. CarryInv'
    BY <1>1, <1>2, <1>3 DEF CarryInv
  <1>. QED
    BY <1>3, <1>4, <1>5, <1>6 DEF BackInv

(* The attempt again, or the prompt to carry on: the next one resumes what this one had. *)
LEMMA AgainKeeps ==
    ASSUME Clients!BackendsConstants, BackInv, Calm, call.at \in {"running", "returned"}, ~call.naming,
           call' \in CallRows, call'.at = "spawn", call'.resumed = call.resumed, call'.conv = call.conv,
           call'.naming = call.naming, call'.place = call.place, call'.stray = call.stray,
           call'.cleared = call.cleared, call'.said = call.said, ~call'.emitted,
           call'.prompt = "carry on" \/ (call.at = "running" /\ call'.prompt = call.prompt /\ ~call.emitted),
           call'.memory = call.memory \/ call.err = "none",
           IF call.at = "returned" THEN call.err = "none"
           ELSE call'.memory = call.memory /\ (call'.prompt # call.prompt => call.emitted)
    PROVE  BackInv'
  <1>1. /\ BackTypes /\ NamingInv /\ ConvInv /\ AskedInv /\ MemoryInv /\ CarryInv /\ call \in CallRows
        /\ call.resumed \in Conversations /\ call.conv \in Conversations
    BY DEF BackInv, BackTypes
  <1>2. /\ BackTypes' /\ NamingInv' /\ TaskInv' /\ ChatInv' /\ GoneInv' /\ TurnInv'
        /\ Clients!Here' = Clients!Here /\ (ItsOwnPlace' <=> ItsOwnPlace) /\ (Steady' <=> Steady)
        /\ \A c : Told(c)' <=> Told(c)
    BY <1>1, CalmKeeps
  <1>3. ConvInv' /\ FreshInv' /\ Clients!ResumesItsOwn'
    BY DEF ConvInv, FreshInv, Clients!ResumesItsOwn
  <1>4. AskedInv'
    BY <1>1 DEF AskedInv
  <1>5. llm' = llm /\ (~call.cleared /\ ~call.stray => Steady)
    BY DEF Calm, Steady
  <1>6. MemoryInv'
    <2>1. CASE call.at = "returned"
      BY <1>1, <1>2, <1>5, <2>1 DEF MemoryInv, CarryInv, Told
    <2>2. CASE call.at = "running"
      BY <1>1, <1>2, <1>5, <2>2 DEF MemoryInv
    <2>. QED
      BY <2>1, <2>2
  <1>7. CarryInv'
    <2>1. CASE call.at = "returned"
      BY <1>1, <1>2, <2>1 DEF CarryInv
    <2>2. CASE call.at = "running"
      <3>1. Steady /\ call.emitted => Told(Clients!Here.id) /\ ItsOwnPlace
        BY <1>1, <2>2 DEF CarryInv, AskedInv
      <3>2. Steady /\ call.prompt = "carry on" => Told(Clients!Here.id) /\ ItsOwnPlace
        BY <1>1, <2>2 DEF CarryInv, Told
      <3>3. call'.prompt = "carry on" => call.emitted \/ call.prompt = "carry on"
        BY <2>2
      <3>. QED
        BY <1>2, <3>1, <3>2, <3>3 DEF CarryInv
    <2>. QED
      BY <2>1, <2>2
  <1>. QED
    BY <1>2, <1>3, <1>4, <1>6, <1>7 DEF BackInv

LEMMA CalmSteps ==
    ASSUME Clients!BackendsConstants, BackInv,
           \/ Clients!CliEnds \/ Clients!CliRefuses \/ Clients!Stop \/ Clients!Stopped \/ Clients!AutoContinue
           \/ \E kind \in {"capped", "killed", "error"} : Clients!CliFails(kind)
    PROVE  BackInv'
  <1>1. /\ BackTypes /\ NamingInv /\ ConvInv /\ AskedInv /\ MemoryInv /\ CarryInv /\ Clients!ResumesItsOwn /\ call \in CallRows
        /\ call.resumed \in Conversations /\ call.conv \in Conversations
        /\ faults \in 0 .. MaxFaults /\ MaxFaults \in Nat /\ MaxTokenFailovers \in Nat /\ MaxAutoContinue \in Nat
    BY TypesHave DEF BackInv, BackTypes
  <1>2. Calm
    BY <1>1 DEF Calm, Clients!CliEnds, Clients!CliRefuses, Clients!Stop, Clients!Stopped, Clients!AutoContinue, Clients!CliFails
  <1>3. CASE \/ Clients!CliEnds \/ Clients!CliRefuses \/ Clients!Stopped
             \/ \E kind \in {"capped", "killed", "error"} : Clients!CliFails(kind) /\ Clients!Returns("error")
    <2>1. PICK e \in Clients!Ends : Clients!Returns(e) /\ (e = "none" => call.at = "running" /\ call.conv # Clients!NoConv)
      <3>1. CASE Clients!CliEnds
        BY <3>1 DEF Clients!CliEnds, Clients!Reading, Clients!Ends
      <3>2. CASE Clients!CliRefuses
        BY <3>2 DEF Clients!CliRefuses, Clients!Ends
      <3>3. CASE Clients!Stopped
        BY <3>3 DEF Clients!Stopped, Clients!Ends
      <3>4. CASE \E kind \in {"capped", "killed", "error"} : Clients!CliFails(kind) /\ Clients!Returns("error")
        BY <3>4 DEF Clients!Ends
      <3>. QED
        BY <1>3, <3>1, <3>2, <3>3, <3>4
    <2>2. call.at \in {"spawn", "running"} /\ ~call.naming
      BY <1>1, <1>3 DEF Clients!CliEnds, Clients!CliRefuses, Clients!Stopped, Clients!CliFails, Clients!Reading, NamingInv
    <2>. QED
      BY <1>2, <2>1, <2>2, SendReturns
  <1>4. ASSUME NEW kind \in {"capped", "killed", "error"}, Clients!CliFails(kind), Clients!MayRetry(kind), Clients!Again(kind)
        PROVE  BackInv'
    <2>1. call.at = "running" /\ ~call.naming /\ call.attempt + 1 \in 0 .. MaxTokenFailovers
      BY <1>1, <1>4 DEF Clients!CliFails, Clients!Reading, Clients!MayRetry, CallRows
    <2>2. (call.retriedCrash \/ kind = "killed") \in BOOLEAN
      OBVIOUS
    <2>3. (IF call.emitted THEN "carry on" ELSE call.prompt) \in Clients!Prompts
      BY <1>1 DEF CallRows, Clients!Prompts
    <2>4. call' \in CallRows
      BY <1>1, <1>4, <2>1, <2>2, <2>3 DEF Clients!Again, CallRows
    <2>5. /\ call'.at = "spawn" /\ call'.resumed = call.resumed /\ call'.conv = call.conv
          /\ call'.naming = call.naming /\ call'.place = call.place /\ call'.stray = call.stray
          /\ call'.cleared = call.cleared /\ call'.said = call.said /\ call'.emitted = FALSE
          /\ call'.memory = call.memory /\ call'.prompt = (IF call.emitted THEN "carry on" ELSE call.prompt)
      BY <1>1, <1>4 DEF Clients!Again, CallRows
    <2>. QED
      BY <1>2, <2>1, <2>4, <2>5, AgainKeeps
  <1>5. CASE Clients!AutoContinue
    <2>1. call.at = "returned" /\ call.err = "none" /\ ~call.naming /\ call.autos + 1 \in 0 .. MaxAutoContinue
      BY <1>1, <1>5 DEF Clients!AutoContinue, NamingInv, CallRows
    <2>2. call' \in CallRows
      <3>1. 0 \in 0 .. MaxTokenFailovers /\ "carry on" \in Clients!Prompts
        BY <1>1 DEF Clients!Prompts
      <3>. QED
        BY <1>1, <1>5, <2>1, <3>1 DEF Clients!AutoContinue, CallRows
    <2>3. /\ call'.at = "spawn" /\ call'.resumed = call.resumed /\ call'.conv = call.conv
          /\ call'.naming = call.naming /\ call'.place = call.place /\ call'.stray = call.stray
          /\ call'.cleared = call.cleared /\ call'.said = call.said /\ call'.emitted = FALSE
          /\ call'.prompt = "carry on"
      BY <1>1, <1>5 DEF Clients!AutoContinue, CallRows
    <2>. QED
      BY <1>2, <2>1, <2>2, <2>3, AgainKeeps
  <1>6. CASE Clients!Stop
    <2>1. call' \in CallRows
      BY <1>1, <1>6 DEF Clients!Stop, CallRows
    <2>2. /\ call'.at = call.at /\ call'.resumed = call.resumed /\ call'.conv = call.conv
          /\ call'.naming = call.naming /\ call'.place = call.place /\ call'.stray = call.stray
          /\ call'.cleared = call.cleared /\ call'.said = call.said /\ call'.emitted = call.emitted
          /\ call'.prompt = call.prompt /\ call'.memory = call.memory /\ call'.isNew = call.isNew
          /\ call'.err = call.err /\ call.at \in {"spawn", "running"}
      BY <1>1, <1>6 DEF Clients!Stop, CallRows
    <2>3. /\ BackTypes' /\ NamingInv' /\ TaskInv' /\ ChatInv' /\ GoneInv' /\ TurnInv'
          /\ Clients!Here' = Clients!Here /\ (ItsOwnPlace' <=> ItsOwnPlace) /\ (Steady' <=> Steady)
          /\ \A c : Told(c)' <=> Told(c)
      BY <1>1, <1>2, <2>1, <2>2, CalmKeeps
    <2>4. UNCHANGED <<llm, convs, torn>>
      BY <1>2 DEF Calm
    <2>5. ConvInv' /\ AskedInv' /\ Clients!ResumesItsOwn'
      BY <1>1, <2>2, <2>4 DEF ConvInv, AskedInv, Clients!ResumesItsOwn
    <2>6. MemoryInv' /\ CarryInv'
      BY <1>1, <2>2, <2>3, <2>4 DEF MemoryInv, CarryInv
    <2>7. FreshInv'
      BY <2>2, <2>3, <2>4 DEF BackInv, FreshInv
    <2>. QED
      BY <2>3, <2>5, <2>6, <2>7 DEF BackInv
  <1>. QED
    BY <1>3, <1>4, <1>5, <1>6 DEF Clients!CliFails

(* A turn starts on a session that is its own backend's, or that it must leave. *)
LEMMA TurnStarts ==
    ASSUME Clients!BackendsConstants, BackInv, NEW p \in Clients!Places, NEW prompt \in {"question", "flush"},
           Clients!StartTurn(p, prompt)
    PROVE  BackInv'
  <1>1. /\ BackTypes /\ NamingInv /\ TaskInv /\ ChatInv /\ GoneInv /\ call.at = "idle" /\ ~call.naming
        /\ UNCHANGED <<llm, kept, convs, lost, faults, switches, resets, gone, torn>>
        /\ turns' = turns + 1 /\ turns < MaxTurns /\ sess' = [sess EXCEPT ![p] = Clients!Opening(p)]
        /\ prompt = "flush" => p = "chat" /\ sess["chat"].id # Clients!NoConv
    BY DEF BackInv, Clients!StartTurn, NamingInv
  <1>2. /\ sess \in [Clients!Places -> Refs] /\ kept \in [{"thread", "task"} -> Refs] /\ turns \in 0 .. MaxTurns
        /\ convs \in Seq(ConvRows) /\ Len(convs) \in Nat /\ MaxTurns \in Nat /\ MaxTokenFailovers \in Nat
        /\ MaxAutoContinue \in Nat
    BY <1>1, TypesHave
  <1>3. Clients!Blank \in Refs /\ Clients!Blank.id = Clients!NoConv
    <2>1. Clients!NoConv \in Conversations
      BY <1>2 DEF Conversations, Clients!NoConv
    <2>. QED
      BY <2>1 DEF Clients!Blank, Clients!Ref, Refs
  <1>4. Clients!Opening(p) \in Refs
    BY <1>2, <1>3 DEF Clients!Opening, Clients!Places
  <1>5. PICK new : new = Clients!Opening(p)
    OBVIOUS
  <1>6. new \in Refs /\ sess' = [sess EXCEPT ![p] = new] /\ sess'[p] = new /\ sess' \in [Clients!Places -> Refs]
        /\ \A q \in Clients!Places \ {p} : sess'[q] = sess[q]
    BY <1>1, <1>2, <1>4, <1>5
  <1>7. /\ call' = [Clients!NoCall EXCEPT !.at = "spawn", !.place = p, !.prompt = prompt,
                                          !.memory = Clients!Remembers(new, prompt),
                                          !.stray = new.id # Clients!NoConv /\ Clients!GetProvider(new) # llm]
    BY <1>5 DEF Clients!StartTurn
  <1>8. Clients!Remembers(new, prompt) \in BOOLEAN /\ (new.id # Clients!NoConv /\ Clients!GetProvider(new) # llm) \in BOOLEAN
    BY DEF Clients!Remembers
  <1>9. call' \in CallRows
    <2>1. 0 \in 0 .. MaxTokenFailovers /\ 0 \in 0 .. MaxAutoContinue /\ Clients!NoConv \in Nat
      BY <1>2 DEF Clients!NoConv
    <2>2. Clients!NoCall \in CallRows
      BY <2>1 DEF Clients!NoCall, CallRows, Clients!Prompts, Clients!Ends, Clients!Places
    <2>3. prompt \in Clients!Prompts
      BY DEF Clients!Prompts
    <2>. QED
      BY <1>7, <1>8, <2>2, <2>3 DEF CallRows
  <1>10. /\ call'.at = "spawn" /\ call'.place = p /\ call'.prompt = prompt /\ call'.naming = FALSE
         /\ call'.resumed = Clients!NoConv /\ call'.conv = Clients!NoConv /\ call'.emitted = FALSE /\ call'.said = FALSE
         /\ call'.cleared = FALSE
         /\ call'.memory = Clients!Remembers(new, prompt)
         /\ call'.stray = (new.id # Clients!NoConv /\ Clients!GetProvider(new) # llm)
    BY <1>7 DEF Clients!NoCall
  <1>11. BackTypes'
    <2>1. turns' \in 0 .. MaxTurns
      BY <1>1, <1>2
    <2>5. UNCHANGED <<Conversations, Refs>>
      BY <1>1 DEF Conversations, Refs
    <2>2. ConvRows \subseteq ConvRows'
      BY <1>1, <1>2 DEF ConvRows
    <2>3. convs \in Seq(ConvRows')
      BY <1>2, <2>2, WidenSeq
    <2>4. call'.resumed \in Conversations /\ call'.conv \in Conversations
      BY <1>2, <1>10 DEF Conversations, Clients!NoConv
    <2>. QED
      BY <1>1, <1>6, <1>9, <2>1, <2>3, <2>4, <2>5 DEF BackTypes
  <1>12. NamingInv' /\ ConvInv' /\ AskedInv' /\ FreshInv' /\ Clients!ResumesItsOwn'
    BY <1>10 DEF NamingInv, ConvInv, AskedInv, FreshInv, Clients!ResumesItsOwn
  <1>18. TurnInv'
    BY <1>1, <1>2 DEF TurnInv
  <1>13. TaskInv'
    <2>1. CASE p = "task"
      <3>1. new.id # Clients!NoConv => new = kept["task"] /\ kept["task"].provider = llm
        BY <1>3, <1>5, <2>1 DEF Clients!Opening
      <3>. QED
        BY <1>1, <1>6, <1>10, <2>1, <3>1 DEF TaskInv
    <2>2. CASE p # "task"
      BY <1>1, <1>6, <2>2 DEF TaskInv, Clients!Places
    <2>. QED
      BY <2>1, <2>2
  <1>14. sess'["chat"] = sess["chat"]
    BY <1>5, <1>6 DEF Clients!Opening, Clients!Places
  <1>15. ChatInv' /\ GoneInv'
    <2>1. ~torn => /\ sess["chat"].id # Clients!NoConv => convs[sess["chat"].id].cli = Clients!GetProvider(sess["chat"])
                   /\ sess["chat"].id = Clients!NoConv => sess["chat"].provider = ""
      BY <1>1 DEF ChatInv
    <2>2. ChatInv'
      BY <1>1, <1>10, <1>14, <2>1 DEF ChatInv
    <2>3. GoneInv'
      BY <1>1, <1>14 DEF GoneInv
    <2>. QED
      BY <2>2, <2>3
  <1>16. MemoryInv'
    <2>1. Clients!Here' = new /\ llm' = llm
      BY <1>1, <1>6, <1>10 DEF Clients!Here
    <2>2. new.id = Clients!NoConv => prompt # "flush"
      BY <1>1, <1>5 DEF Clients!Opening
    <2>3. ~call'.stray => (new.id # Clients!NoConv => ItsOwnPlace')
      BY <1>10, <2>1 DEF ItsOwnPlace, Clients!GetProvider
    <2>4. new.id = Clients!NoConv => call'.memory
      BY <1>10, <2>2 DEF Clients!Remembers
    <2>. QED
      BY <1>10, <2>1, <2>3, <2>4 DEF MemoryInv
  <1>17. CarryInv'
    BY <1>10 DEF CarryInv
  <1>. QED
    BY <1>11, <1>12, <1>13, <1>15, <1>16, <1>17, <1>18 DEF BackInv

(* One field of the session of the turn. *)
LEMMA SessionSet ==
    ASSUME Clients!BackendsConstants, BackTypes, NEW r, sess' = [sess EXCEPT ![call.place] = r], call'.place = call.place
    PROVE  Clients!Here' = r /\ sess'[call.place] = r /\ \A q \in Clients!Places \ {call.place} : sess'[q] = sess[q]
  BY TypesHave DEF Clients!Here

LEMMA ProviderIsSet ==
    ASSUME Clients!BackendsConstants, BackInv, Clients!SetProvider
    PROVE  BackInv'
  <1>1. /\ BackTypes /\ NamingInv /\ ConvInv /\ AskedInv /\ TaskInv /\ ChatInv /\ GoneInv /\ MemoryInv /\ CarryInv
        /\ FreshInv /\ Clients!ResumesItsOwn
        /\ call.naming /\ call.at = "running" /\ call.conv # Clients!NoConv /\ llm # "claude"
        /\ UNCHANGED <<llm, kept, convs, lost, turns, faults, switches, resets, gone, torn>>
    BY DEF BackInv, Clients!SetProvider, NamingInv
  <1>2. sess \in [Clients!Places -> Refs] /\ call \in CallRows /\ call.place \in Clients!Places /\ Clients!Here \in Refs
        /\ Clients!Here = sess[call.place] /\ llm \in Clients!Clis /\ call.resumed \in Conversations /\ call.conv \in Conversations
    BY <1>1, TypesHave
  <1>3. PICK r : r = [Clients!Here EXCEPT !.provider = llm]
    OBVIOUS
  <1>4. r \in Refs /\ r.id = Clients!Here.id /\ r.provider = llm
    BY <1>2, <1>3 DEF Refs
  <1>5. sess' = [sess EXCEPT ![call.place] = r]
    BY <1>2, <1>3 DEF Clients!SetProvider, Clients!Here
  <1>6. call' \in CallRows /\ call'.naming = FALSE
    BY <1>2 DEF Clients!SetProvider, CallRows
  <1>7. /\ call'.at = call.at /\ call'.place = call.place /\ call'.prompt = call.prompt
        /\ call'.resumed = call.resumed /\ call'.conv = call.conv /\ call'.isNew = call.isNew
        /\ call'.emitted = call.emitted /\ call'.said = call.said /\ call'.cleared = call.cleared
        /\ call'.stray = call.stray /\ call'.memory = call.memory /\ call'.err = call.err
    BY <1>2 DEF Clients!SetProvider, CallRows
  <1>8. Clients!Here' = r /\ sess'[call.place] = r /\ \A q \in Clients!Places \ {call.place} : sess'[q] = sess[q]
    BY <1>1, <1>5, <1>7, SessionSet
  <1>9. sess' \in [Clients!Places -> Refs]
    BY <1>2, <1>4, <1>5
  <1>10. Clients!GetProvider(r) = llm /\ ItsOwnPlace'
    <2>1. llm # ""
      BY <1>2 DEF Clients!Clis
    <2>. QED
      BY <1>1, <1>4, <1>8, <2>1 DEF Clients!GetProvider, ItsOwnPlace
  <1>11. BackTypes'
    <2>1. UNCHANGED <<Refs, ConvRows, Conversations>>
      BY <1>1 DEF Refs, ConvRows, Conversations
    <2>. QED
      BY <1>1, <1>6, <1>7, <1>9, <2>1 DEF BackTypes
  <1>12. NamingInv' /\ ConvInv' /\ AskedInv' /\ Clients!ResumesItsOwn'
    BY <1>1, <1>6, <1>7 DEF NamingInv, ConvInv, AskedInv, Clients!ResumesItsOwn
  <1>13. FreshInv' /\ TurnInv'
    BY <1>1, <1>7 DEF BackInv, FreshInv, TurnInv
  <1>14. \A q \in Clients!Places : sess'[q].id = sess[q].id
    BY <1>2, <1>4, <1>8
  <1>15. TaskInv' /\ GoneInv'
    BY <1>1, <1>7, <1>14 DEF TaskInv, GoneInv, Clients!Places
  <1>16. ChatInv'
    <2>1. CASE call.place = "chat"
      <3>1. ~torn => sess["chat"].id # Clients!NoConv /\ convs[sess["chat"].id].cli = llm
        BY <1>1, <2>1 DEF ChatInv
      <3>2. sess'["chat"] = r /\ r.id = sess["chat"].id
        BY <1>2, <1>4, <1>8, <2>1
      <3>. QED
        BY <1>1, <1>6, <1>10, <3>1, <3>2 DEF ChatInv
    <2>2. CASE call.place # "chat"
      <3>1. sess'["chat"] = sess["chat"]
        BY <1>8, <2>2 DEF Clients!Places
      <3>. QED
        BY <1>1, <1>6, <1>7, <2>2, <3>1 DEF ChatInv, Clients!GetProvider
    <2>. QED
      BY <2>1, <2>2
  <1>17. Clients!Here'.id = Clients!Here.id /\ (Steady' <=> Steady) /\ \A c : Told(c)' <=> Told(c)
    BY <1>1, <1>4, <1>7, <1>8 DEF Steady, Told
  <1>18. MemoryInv' /\ CarryInv'
    <2>1. MemoryInv'
      BY <1>1, <1>7, <1>10, <1>17 DEF MemoryInv
    <2>2. CarryInv'
      BY <1>1, <1>7, <1>10, <1>17 DEF CarryInv
    <2>. QED
      BY <2>1, <2>2
  <1>. QED
    BY <1>11, <1>12, <1>13, <1>15, <1>16, <1>18 DEF BackInv

LEMMA Appended ==
    ASSUME NEW S, NEW s \in Seq(S), NEW x \in S
    PROVE  /\ Append(s, x) \in Seq(S) /\ Len(Append(s, x)) = Len(s) + 1 /\ Append(s, x)[Len(s) + 1] = x
           /\ \A i \in 1 .. Len(s) : Append(s, x)[i] = s[i]
  OBVIOUS

(* A new conversation: every earlier one is where it was. *)
LEMMA OpensAnother ==
    ASSUME Clients!BackendsConstants, BackInv, Clients!Reading, call.conv = Clients!NoConv, call.isNew,
           convs' = Append(convs, [cli |-> llm, asked |-> Clients!Hearing({})]), Clients!Recorded(Len(convs) + 1),
           UNCHANGED <<llm, kept, lost, turns, faults, switches, resets, gone, torn>>
    PROVE  BackInv'
  <1>1. /\ BackTypes /\ NamingInv /\ ConvInv /\ AskedInv /\ TaskInv /\ ChatInv /\ GoneInv /\ MemoryInv /\ CarryInv
        /\ FreshInv /\ TurnInv /\ Clients!ResumesItsOwn /\ call.at = "running" /\ ~call.naming /\ call.resumed = Clients!NoConv
        /\ call.conv = Clients!NoConv
    BY DEF BackInv, Clients!Reading, ConvInv
  <1>2. /\ sess \in [Clients!Places -> Refs] /\ call \in CallRows /\ call.place \in Clients!Places /\ Clients!Here \in Refs
        /\ Clients!Here = sess[call.place] /\ llm \in Clients!Clis /\ convs \in Seq(ConvRows) /\ Len(convs) \in Nat
        /\ kept \in [{"thread", "task"} -> Refs] /\ lost \subseteq 1 .. Len(convs) /\ gone \subseteq 1 .. Len(convs)
        /\ turns \in 0 .. MaxTurns /\ MaxTurns \in Nat
    BY <1>1, TypesHave
  <1>3. PICK n : n = Len(convs) + 1
    OBVIOUS
  <1>4. PICK entry : entry = [cli |-> llm, asked |-> Clients!Hearing({})]
    OBVIOUS
  <1>5. entry \in ConvRows /\ entry.cli = llm /\ (call.prompt # "carry on" => turns \in entry.asked)
    <2>1. turns \in 1 .. turns
      BY <1>1, <1>2 DEF TurnInv
    <2>2. Clients!Hearing({}) \subseteq 1 .. turns /\ (call.prompt # "carry on" => turns \in Clients!Hearing({}))
      BY <2>1 DEF Clients!Hearing
    <2>. QED
      BY <1>2, <1>4, <2>2 DEF ConvRows
  <1>6. convs' = Append(convs, entry)
    BY <1>4
  <1>7. /\ convs' \in Seq(ConvRows) /\ Len(convs') = n /\ convs'[n] = entry /\ n \in Nat /\ n # Clients!NoConv
        /\ \A i \in 1 .. Len(convs) : convs'[i] = convs[i]
    <2>1. convs \in Seq(ConvRows) /\ entry \in ConvRows /\ n \in Nat /\ n # 0
      <3>1. Len(convs) \in Nat /\ convs \in Seq(ConvRows) /\ entry \in ConvRows
        BY <1>2, <1>5
      <3>2. n \in Nat /\ n # 0
        BY <1>3, <3>1
      <3>. QED
        BY <3>1, <3>2
    <2>2. /\ Append(convs, entry) \in Seq(ConvRows) /\ Len(Append(convs, entry)) = Len(convs) + 1
          /\ Append(convs, entry)[Len(convs) + 1] = entry
          /\ \A i \in 1 .. Len(convs) : Append(convs, entry)[i] = convs[i]
      BY <2>1, Appended
    <2>. QED
      BY <1>3, <1>6, <2>1, <2>2 DEF Clients!NoConv
  <1>8. /\ Conversations \subseteq Conversations' /\ n \in Conversations' /\ n \notin Conversations
        /\ Clients!NoConv \in Conversations' /\ 1 .. Len(convs) \subseteq 1 .. Len(convs')
        /\ n \notin 1 .. Len(convs) /\ \A c \in Conversations : c # Clients!NoConv => c \in 1 .. Len(convs)
    BY <1>2, <1>3, <1>7 DEF Conversations, Clients!NoConv
  <1>9. Refs \subseteq Refs' /\ ConvRows' = ConvRows
    BY <1>8 DEF Refs, ConvRows
  <1>10. \A s \in Refs : s.id \in Conversations /\ (s.id # Clients!NoConv => s.id \in 1 .. Len(convs) /\ convs'[s.id] = convs[s.id])
    BY <1>7, <1>8 DEF Refs
  <1>11. PICK saved \in BOOLEAN : saved = (llm = "opencode" => Clients!Here.id = Clients!NoConv)
    OBVIOUS
  <1>12. PICK r : r = IF saved THEN [Clients!Here EXCEPT !.id = n] ELSE Clients!Here
    OBVIOUS
  <1>13. r \in Refs' /\ r.provider = Clients!Here.provider /\ r.id = IF saved THEN n ELSE Clients!Here.id
    BY <1>2, <1>8, <1>9, <1>12 DEF Refs
  <1>14. sess' = [sess EXCEPT ![call.place] = r]
    BY <1>2, <1>3, <1>11, <1>12 DEF Clients!Recorded, Clients!Here
  <1>15. /\ call' \in CallRows /\ call'.conv = n
         /\ call'.naming = (saved /\ llm # "claude")
    <2>1. CASE saved
      <3>1. call' = [call EXCEPT !.conv = n, !.naming = llm # "claude"]
        BY <1>3, <1>11, <2>1 DEF Clients!Recorded
      <3>. QED
        BY <1>2, <1>7, <2>1, <3>1 DEF CallRows
    <2>2. CASE ~saved
      <3>1. call' = [call EXCEPT !.conv = n]
        BY <1>3, <1>11, <2>2 DEF Clients!Recorded
      <3>. QED
        BY <1>1, <1>2, <1>7, <2>2, <3>1 DEF CallRows
    <2>. QED
      BY <2>1, <2>2
  <1>16. /\ call'.at = call.at /\ call'.place = call.place /\ call'.prompt = call.prompt
         /\ call'.resumed = call.resumed /\ call'.isNew = call.isNew
         /\ call'.emitted = call.emitted /\ call'.said = call.said /\ call'.cleared = call.cleared
         /\ call'.stray = call.stray /\ call'.memory = call.memory /\ call'.err = call.err
    BY <1>2 DEF Clients!Recorded, CallRows
  <1>17. Clients!Here' = r /\ sess'[call.place] = r /\ \A q \in Clients!Places \ {call.place} : sess'[q] = sess[q]
    BY <1>1, <1>14, <1>16, SessionSet
  <1>18. BackTypes'
    <2>1. sess' \in [Clients!Places -> Refs'] /\ kept' \in [{"thread", "task"} -> Refs']
      BY <1>2, <1>9, <1>13, <1>14
    <2>2. lost' \subseteq 1 .. Len(convs') /\ gone' \subseteq 1 .. Len(convs')
      BY <1>2, <1>8
    <2>3. call'.resumed \in Conversations' /\ call'.conv \in Conversations'
      BY <1>1, <1>8, <1>15, <1>16
    <2>. QED
      BY <1>1, <1>7, <1>9, <1>15, <2>1, <2>2, <2>3 DEF BackTypes, CallRows
  <1>19. NamingInv' /\ ConvInv' /\ AskedInv' /\ FreshInv' /\ TurnInv' /\ Clients!ResumesItsOwn'
    <2>1. NamingInv' /\ ConvInv'
      BY <1>1, <1>5, <1>7, <1>15, <1>16 DEF NamingInv, ConvInv
    <2>2. AskedInv' /\ FreshInv' /\ TurnInv' /\ Clients!ResumesItsOwn'
      BY <1>1, <1>7, <1>15, <1>16 DEF AskedInv, FreshInv, TurnInv, Clients!ResumesItsOwn
    <2>. QED
      BY <2>1, <2>2
  <1>20. TaskInv'
    <2>1. kept["task"] \in Refs /\ sess["task"] \in Refs
      BY <1>2 DEF Clients!Places
    <2>2. kept'["task"].id # Clients!NoConv => convs'[kept'["task"].id].cli = kept'["task"].provider
      BY <1>1, <1>10, <2>1 DEF TaskInv
    <2>3. CASE call.place = "task"
      <3>1. sess'["task"].id # Clients!NoConv => convs'[sess'["task"].id].cli = llm
        <4>1. CASE saved
          <5>1. sess'["task"].id = n
            BY <1>13, <1>17, <2>3, <4>1
          <5>2. convs'[n].cli = llm
            BY <1>5, <1>7
          <5>. QED
            BY <5>1, <5>2
        <4>2. CASE ~saved
          <5>1. sess'["task"] = sess["task"]
            BY <1>2, <1>12, <1>17, <2>3, <4>2
          <5>. QED
            BY <1>1, <1>10, <2>1, <5>1 DEF TaskInv
        <4>. QED
          BY <4>1, <4>2
      <3>. QED
        BY <1>1, <1>16, <2>2, <2>3, <3>1 DEF TaskInv
    <2>4. CASE call.place # "task"
      <3>1. sess'["task"] = sess["task"] /\ sess["task"].id = Clients!NoConv
        BY <1>1, <1>17, <2>4 DEF TaskInv, Clients!Places
      <3>. QED
        BY <2>2, <3>1 DEF TaskInv
    <2>. QED
      BY <2>3, <2>4
  <1>21. sess["chat"] \in Refs
    BY <1>2 DEF Clients!Places
  <1>22. ChatInv'
    <2>1. ~torn => /\ sess["chat"].id # Clients!NoConv => convs[sess["chat"].id].cli = Clients!GetProvider(sess["chat"])
                   /\ sess["chat"].id = Clients!NoConv => sess["chat"].provider = ""
      BY <1>1 DEF ChatInv
    <2>2. CASE call.place = "chat" /\ saved
      <3>1. sess'["chat"].id = n /\ n # Clients!NoConv /\ convs'[n].cli = llm /\ sess'["chat"].provider = sess["chat"].provider
        BY <1>2, <1>5, <1>7, <1>13, <1>17, <2>2
      <3>2. llm = "claude" => sess["chat"].id = Clients!NoConv
        BY <1>1, <1>2, <2>2 DEF FreshInv
      <3>3. ~torn /\ llm = "claude" => Clients!GetProvider(sess'["chat"]) = llm
        BY <2>1, <3>1, <3>2 DEF Clients!GetProvider
      <3>. QED
        BY <1>1, <1>15, <1>16, <2>2, <3>1, <3>3 DEF ChatInv
    <2>3. CASE ~(call.place = "chat" /\ saved)
      <3>1. sess'["chat"] = sess["chat"]
        <4>1. CASE call.place = "chat"
          BY <1>2, <1>12, <1>17, <2>3, <4>1
        <4>2. CASE call.place # "chat"
          BY <1>17, <4>2 DEF Clients!Places
        <4>. QED
          BY <4>1, <4>2
      <3>2. ~(call'.naming /\ call'.place = "chat")
        BY <1>15, <1>16, <2>3
      <3>. QED
        BY <1>10, <1>21, <2>1, <3>1, <3>2 DEF ChatInv
    <2>. QED
      BY <2>2, <2>3
  <1>23. GoneInv'
    <2>1. sess'["chat"].id = n \/ sess'["chat"] = sess["chat"]
      <3>1. CASE call.place = "chat"
        BY <1>2, <1>12, <1>13, <1>17, <3>1
      <3>2. CASE call.place # "chat"
        BY <1>17, <3>2 DEF Clients!Places
      <3>. QED
        BY <3>1, <3>2
    <2>2. gone' = gone /\ n \notin gone /\ \A c \in gone : c # Clients!NoConv
      BY <1>2, <1>8 DEF Clients!NoConv
    <2>. QED
      BY <1>1, <1>10, <1>21, <2>1, <2>2 DEF GoneInv
  <1>24. Steady' <=> Steady
    BY <1>16 DEF Steady
  <1>25. Steady => saved /\ call.prompt # "carry on"
    BY <1>1, <1>11 DEF CarryInv, Told
  <1>26. saved => call'.naming \/ ItsOwnPlace'
    BY <1>15 DEF ItsOwnPlace
  <1>27. MemoryInv'
    <2>1. ~call'.cleared /\ ~call'.stray => Steady
      BY <1>16 DEF Steady
    <2>2. saved => Clients!Here'.id # Clients!NoConv
      BY <1>7, <1>13, <1>17
    <2>. QED
      BY <1>1, <1>16, <1>25, <1>26, <2>1, <2>2 DEF MemoryInv
  <1>28. CarryInv'
    <2>1. Steady => Clients!Here'.id = n /\ Told(n)'
      BY <1>5, <1>7, <1>13, <1>17, <1>25 DEF Told
    <2>. QED
      BY <1>1, <1>7, <1>15, <1>16, <1>24, <1>25, <1>26, <2>1 DEF CarryInv
  <1>. QED
    BY <1>18, <1>19, <1>20, <1>22, <1>23, <1>27, <1>28 DEF BackInv

LEMMA Replaced ==
    ASSUME NEW S, NEW s \in Seq(S), NEW n \in 1 .. Len(s), NEW x \in S
    PROVE  /\ [s EXCEPT ![n] = x] \in Seq(S) /\ Len([s EXCEPT ![n] = x]) = Len(s)
           /\ [s EXCEPT ![n] = x][n] = x
           /\ \A i \in 1 .. Len(s) : i # n => [s EXCEPT ![n] = x][i] = s[i]
  OBVIOUS

(* A conversation goes on: it hears this turn's question, and the session holds it already. *)
LEMMA ConversationGoesOn ==
    ASSUME Clients!BackendsConstants, BackInv, Clients!Reading, call.conv = Clients!NoConv, Clients!Resumable,
           convs' = [convs EXCEPT ![call.resumed].asked = Clients!Hearing(@)], sess' = sess,
           call' = [call EXCEPT !.conv = call.resumed],
           UNCHANGED <<llm, kept, lost, turns, faults, switches, resets, gone, torn>>
    PROVE  BackInv'
  <1>1. /\ BackTypes /\ NamingInv /\ ConvInv /\ AskedInv /\ TaskInv /\ ChatInv /\ GoneInv /\ MemoryInv /\ CarryInv
        /\ FreshInv /\ TurnInv /\ Clients!ResumesItsOwn /\ call.at = "running" /\ ~call.naming
        /\ call.conv = Clients!NoConv /\ call.resumed # Clients!NoConv /\ ~call.isNew
    BY DEF BackInv, Clients!Reading, Clients!Resumable, ConvInv
  <1>2. /\ sess \in [Clients!Places -> Refs] /\ call \in CallRows /\ call.place \in Clients!Places /\ Clients!Here \in Refs
        /\ Clients!Here = sess[call.place] /\ llm \in Clients!Clis /\ convs \in Seq(ConvRows) /\ Len(convs) \in Nat
        /\ kept \in [{"thread", "task"} -> Refs] /\ lost \subseteq 1 .. Len(convs) /\ gone \subseteq 1 .. Len(convs)
        /\ turns \in 0 .. MaxTurns /\ MaxTurns \in Nat /\ call.resumed \in Conversations
    BY <1>1, TypesHave
  <1>3. PICK n : n = call.resumed
    OBVIOUS
  <1>4. n \in Nat /\ n # Clients!NoConv /\ n \in 1 .. Len(convs) /\ n \in Conversations
    <2>1. Len(convs) \in Nat /\ n \in 0 .. Len(convs) /\ n # 0
      BY <1>1, <1>2, <1>3 DEF Conversations, Clients!NoConv
    <2>. QED
      BY <2>1 DEF Conversations, Clients!NoConv
  <1>5. convs[n] \in ConvRows
    BY <1>2, <1>4
  <1>6. PICK entry : entry = [convs[n] EXCEPT !.asked = Clients!Hearing(convs[n].asked)]
    OBVIOUS
  <1>7. /\ entry \in ConvRows /\ entry.cli = convs[n].cli /\ convs[n].asked \subseteq entry.asked
        /\ call.prompt # "carry on" => turns \in entry.asked
    <2>1. turns \in 1 .. turns
      BY <1>1, <1>2 DEF TurnInv
    <2>2. convs[n].asked \subseteq 1 .. turns
      BY <1>5 DEF ConvRows
    <2>3. /\ Clients!Hearing(convs[n].asked) \subseteq 1 .. turns /\ convs[n].asked \subseteq Clients!Hearing(convs[n].asked)
          /\ call.prompt # "carry on" => turns \in Clients!Hearing(convs[n].asked)
      BY <2>1, <2>2 DEF Clients!Hearing
    <2>. QED
      BY <1>5, <1>6, <2>3 DEF ConvRows
  <1>8. convs' = [convs EXCEPT ![n] = entry]
    BY <1>3, <1>6
  <1>9. /\ convs' \in Seq(ConvRows) /\ Len(convs') = Len(convs) /\ convs'[n] = entry
        /\ \A i \in 1 .. Len(convs) : i # n => convs'[i] = convs[i]
    <2>1. convs \in Seq(ConvRows) /\ entry \in ConvRows /\ n \in 1 .. Len(convs)
      BY <1>2, <1>4, <1>7
    <2>2. /\ [convs EXCEPT ![n] = entry] \in Seq(ConvRows) /\ Len([convs EXCEPT ![n] = entry]) = Len(convs)
          /\ [convs EXCEPT ![n] = entry][n] = entry
          /\ \A i \in 1 .. Len(convs) : i # n => [convs EXCEPT ![n] = entry][i] = convs[i]
      BY <2>1, Replaced
    <2>. QED
      BY <1>8, <2>2
  <1>10. \A i \in 1 .. Len(convs) : convs'[i].cli = convs[i].cli /\ convs[i].asked \subseteq convs'[i].asked
    BY <1>7, <1>9
  <1>11. Conversations' = Conversations /\ Refs' = Refs /\ ConvRows' = ConvRows
         /\ \A c \in Conversations : c # Clients!NoConv => c \in 1 .. Len(convs)
    <2>1. Conversations' = Conversations /\ ConvRows' = ConvRows
      BY <1>9 DEF Conversations, ConvRows
    <2>2. \A c \in Conversations : c # Clients!NoConv => c \in 1 .. Len(convs)
      BY <1>2 DEF Conversations, Clients!NoConv
    <2>. QED
      BY <2>1, <2>2 DEF Refs
  <1>12. \A s \in Refs : s.id # Clients!NoConv => s.id \in 1 .. Len(convs) /\ convs'[s.id].cli = convs[s.id].cli
    BY <1>10, <1>11 DEF Refs
  <1>13. call' \in CallRows /\ call'.conv = n /\ call'.conv \in Conversations
    BY <1>2, <1>3, <1>4 DEF CallRows
  <1>14. /\ call'.at = call.at /\ call'.place = call.place /\ call'.prompt = call.prompt
         /\ call'.resumed = call.resumed /\ call'.isNew = call.isNew /\ call'.naming = call.naming
         /\ call'.emitted = call.emitted /\ call'.said = call.said /\ call'.cleared = call.cleared
         /\ call'.stray = call.stray /\ call'.memory = call.memory /\ call'.err = call.err
    BY <1>2 DEF CallRows
  <1>15. BackTypes'
    BY <1>1, <1>2, <1>9, <1>11, <1>13, <1>14 DEF BackTypes
  <1>16. NamingInv' /\ ConvInv' /\ AskedInv' /\ FreshInv' /\ TurnInv'
    BY <1>1, <1>3, <1>13, <1>14 DEF NamingInv, ConvInv, AskedInv, FreshInv, TurnInv
  <1>17. Clients!ResumesItsOwn'
    <2>1. convs'[call.resumed].cli = convs[call.resumed].cli
      BY <1>3, <1>4, <1>10
    <2>. QED
      BY <1>1, <1>14, <2>1 DEF Clients!ResumesItsOwn
  <1>18. kept["task"] \in Refs /\ sess["task"] \in Refs /\ sess["chat"] \in Refs
    BY <1>2 DEF Clients!Places
  <1>19. TaskInv' /\ ChatInv'
    <2>1. TaskInv'
      BY <1>1, <1>12, <1>14, <1>18 DEF TaskInv
    <2>2. ~torn => /\ sess["chat"].id # Clients!NoConv => convs[sess["chat"].id].cli = Clients!GetProvider(sess["chat"])
                   /\ sess["chat"].id = Clients!NoConv => sess["chat"].provider = ""
      BY <1>1 DEF ChatInv
    <2>3. ChatInv'
      BY <1>1, <1>12, <1>14, <1>18, <2>2 DEF ChatInv
    <2>. QED
      BY <2>1, <2>3
  <1>20. GoneInv'
    BY <1>1, <1>2, <1>10 DEF GoneInv
  <1>21. Clients!Here' = Clients!Here /\ (ItsOwnPlace' <=> ItsOwnPlace) /\ (Steady' <=> Steady)
    BY <1>14 DEF Clients!Here, ItsOwnPlace, Steady, Clients!GetProvider
  <1>22. MemoryInv'
    BY <1>1, <1>14, <1>21 DEF MemoryInv
  <1>23. CarryInv'
    <2>1. Steady => Told(n)'
      <3>1. Steady /\ call.prompt = "carry on" => turns \in convs[n].asked
        BY <1>1, <1>3 DEF CarryInv, Told
      <3>. QED
        BY <1>4, <1>7, <1>9, <3>1 DEF Told
    <2>2. Steady => Clients!Here.id = n /\ ItsOwnPlace
      BY <1>1, <1>3 DEF CarryInv
    <2>. QED
      BY <1>1, <1>3, <1>4, <1>13, <1>14, <1>21, <2>1, <2>2 DEF CarryInv
  <1>. QED
    BY <1>15, <1>16, <1>17, <1>19, <1>20, <1>22, <1>23 DEF BackInv

LEMMA ConversationOpens ==
    ASSUME Clients!BackendsConstants, BackInv, Clients!CliOpens
    PROVE  BackInv'
  <1>1. CASE call.isNew /\ convs' = Append(convs, [cli |-> llm, asked |-> Clients!Hearing({})]) /\ Clients!Recorded(Len(convs) + 1)
    BY <1>1, OpensAnother DEF Clients!CliOpens
  <1>2. CASE /\ Clients!Resumable /\ convs' = [convs EXCEPT ![call.resumed].asked = Clients!Hearing(@)]
             /\ sess' = sess /\ call' = [call EXCEPT !.conv = call.resumed]
    BY <1>2, ConversationGoesOn DEF Clients!CliOpens
  <1>. QED
    BY <1>1, <1>2 DEF Clients!CliOpens

LEMMA SaysSomething ==
    ASSUME Clients!BackendsConstants, BackInv, Clients!CliSays
    PROVE  BackInv'
  <1>1. /\ BackTypes /\ NamingInv /\ ConvInv /\ AskedInv /\ TaskInv /\ ChatInv /\ GoneInv /\ MemoryInv /\ CarryInv
        /\ FreshInv /\ TurnInv /\ Clients!ResumesItsOwn /\ call.at = "running" /\ ~call.naming /\ call.conv # Clients!NoConv
        /\ UNCHANGED <<llm, kept, convs, lost, turns, faults, switches, resets, gone, torn>>
    BY DEF BackInv, Clients!Reading, Clients!CliSays
  <1>2. /\ sess \in [Clients!Places -> Refs] /\ call \in CallRows /\ call.place \in Clients!Places /\ Clients!Here \in Refs
        /\ Clients!Here = sess[call.place] /\ llm \in Clients!Clis
        /\ call.conv \in Conversations
    BY <1>1, TypesHave
  <1>3. PICK saved \in BOOLEAN : saved = (llm = "opencode" /\ call.isNew /\ Clients!Here.id = Clients!NoConv)
    OBVIOUS
  <1>4. PICK r : r = IF saved THEN [Clients!Here EXCEPT !.id = call.conv] ELSE Clients!Here
    OBVIOUS
  <1>5. r \in Refs /\ r.id = (IF saved THEN call.conv ELSE Clients!Here.id)
    BY <1>2, <1>4 DEF Refs
  <1>6. sess' = [sess EXCEPT ![call.place] = r] /\ call' = [call EXCEPT !.emitted = TRUE, !.said = TRUE, !.naming = saved]
    <2>1. CASE saved
      BY <1>2, <1>3, <1>4, <2>1 DEF Clients!CliSays, Clients!Shown
    <2>2. CASE ~saved
      BY <1>2, <1>3, <1>4, <2>2 DEF Clients!CliSays, Clients!Shown
    <2>. QED
      BY <2>1, <2>2
  <1>7. call' \in CallRows /\ call'.naming = saved /\ call'.emitted = TRUE /\ call'.said = TRUE
    BY <1>2, <1>6 DEF CallRows
  <1>8. /\ call'.at = call.at /\ call'.place = call.place /\ call'.prompt = call.prompt
        /\ call'.resumed = call.resumed /\ call'.conv = call.conv /\ call'.isNew = call.isNew
        /\ call'.cleared = call.cleared /\ call'.stray = call.stray /\ call'.memory = call.memory
        /\ call'.err = call.err
    BY <1>2, <1>6 DEF CallRows
  <1>9. Clients!Here' = r /\ sess'[call.place] = r /\ \A q \in Clients!Places \ {call.place} : sess'[q] = sess[q]
    BY <1>1, <1>6, <1>8, SessionSet
  <1>10. sess' \in [Clients!Places -> Refs]
    BY <1>2, <1>5, <1>6
  <1>11. BackTypes'
    <2>1. UNCHANGED <<Refs, ConvRows, Conversations>>
      BY <1>1 DEF Refs, ConvRows, Conversations
    <2>. QED
      BY <1>1, <1>7, <1>8, <1>10, <2>1 DEF BackTypes
  <1>12. NamingInv' /\ ConvInv' /\ AskedInv' /\ FreshInv' /\ TurnInv' /\ Clients!ResumesItsOwn'
    <2>1. NamingInv'
      BY <1>1, <1>3, <1>7, <1>8 DEF NamingInv
    <2>2. ConvInv' /\ AskedInv' /\ FreshInv' /\ TurnInv' /\ Clients!ResumesItsOwn'
      BY <1>1, <1>7, <1>8 DEF ConvInv, AskedInv, FreshInv, TurnInv, Clients!ResumesItsOwn
    <2>. QED
      BY <2>1, <2>2
  <1>13. saved => convs[call.conv].cli = llm /\ llm = "opencode"
    BY <1>1, <1>3 DEF ConvInv
  <1>14. \A q \in Clients!Places : ~(saved /\ call.place = q) => sess'[q] = sess[q]
    <2>1. ASSUME NEW q \in Clients!Places, ~(saved /\ call.place = q)
          PROVE  sess'[q] = sess[q]
      <3>1. CASE call.place = q
        BY <1>2, <1>4, <1>9, <2>1, <3>1
      <3>2. CASE call.place # q
        BY <1>9, <3>2
      <3>. QED
        BY <3>1, <3>2
    <2>. QED
      BY <2>1
  <1>15. "chat" \in Clients!Places /\ "task" \in Clients!Places
    BY DEF Clients!Places
  <1>16. TaskInv'
    <2>1. CASE saved /\ call.place = "task"
      <3>1. sess'["task"].id = call.conv
        BY <1>5, <1>9, <2>1
      <3>. QED
        BY <1>1, <1>8, <1>13, <2>1, <3>1 DEF TaskInv
    <2>2. CASE ~(saved /\ call.place = "task")
      <3>1. sess'["task"] = sess["task"]
        BY <1>14, <1>15, <2>2
      <3>. QED
        BY <1>1, <1>8, <3>1 DEF TaskInv
    <2>. QED
      BY <2>1, <2>2
  <1>17. ChatInv' /\ GoneInv'
    <2>1. CASE saved /\ call.place = "chat"
      <3>1. sess'["chat"].id = call.conv
        BY <1>5, <1>9, <2>1
      <3>. QED
        BY <1>1, <1>7, <1>8, <1>13, <2>1, <3>1 DEF ChatInv, GoneInv
    <2>2. CASE ~(saved /\ call.place = "chat")
      <3>1. sess'["chat"] = sess["chat"]
        BY <1>14, <1>15, <2>2
      <3>2. ~torn => /\ sess["chat"].id # Clients!NoConv => convs[sess["chat"].id].cli = Clients!GetProvider(sess["chat"])
                     /\ sess["chat"].id = Clients!NoConv => sess["chat"].provider = ""
        BY <1>1 DEF ChatInv
      <3>3. ~(call'.naming /\ call'.place = "chat")
        BY <1>7, <1>8, <2>2
      <3>4. ChatInv'
        BY <1>1, <3>1, <3>2, <3>3 DEF ChatInv
      <3>5. GoneInv'
        BY <1>1, <3>1 DEF GoneInv
      <3>. QED
        BY <3>4, <3>5
    <2>. QED
      BY <2>1, <2>2
  <1>18. Steady => ~saved
    BY <1>1, <1>3 DEF CarryInv
  <1>19. (Steady' <=> Steady) /\ \A c : Told(c)' <=> Told(c)
    BY <1>1, <1>8 DEF Steady, Told
  <1>20. ~saved => Clients!Here' = Clients!Here /\ (ItsOwnPlace' <=> ItsOwnPlace)
    BY <1>1, <1>4, <1>9 DEF ItsOwnPlace
  <1>21. MemoryInv'
    <2>1. ~call'.cleared /\ ~call'.stray => Steady
      BY <1>8 DEF Steady
    <2>. QED
      BY <1>1, <1>7, <1>8, <1>18, <1>20, <2>1 DEF MemoryInv
  <1>22. CarryInv'
    BY <1>1, <1>7, <1>8, <1>18, <1>19, <1>20 DEF CarryInv
  <1>. QED
    BY <1>11, <1>12, <1>16, <1>17, <1>21, <1>22 DEF BackInv

LEMMA TurnIsOver ==
    ASSUME Clients!BackendsConstants, BackInv, Clients!TurnEnds
    PROVE  BackInv'
  <1>1. /\ BackTypes /\ NamingInv /\ TaskInv /\ ChatInv /\ GoneInv /\ call.at = "returned" /\ ~call.naming
        /\ UNCHANGED <<llm, convs, lost, turns, faults, switches, resets, gone, torn>>
        /\ sess' = [sess EXCEPT !["task"] = Clients!Blank] /\ call' = Clients!NoCall
    BY DEF BackInv, Clients!TurnEnds, NamingInv
  <1>2. /\ sess \in [Clients!Places -> Refs] /\ kept \in [{"thread", "task"} -> Refs] /\ llm \in Clients!Clis /\ Len(convs) \in Nat
        /\ MaxTokenFailovers \in Nat /\ MaxAutoContinue \in Nat
    BY <1>1, TypesHave
  <1>3. sess["task"] \in Refs /\ sess["thread"] \in Refs /\ "task" \in Clients!Places /\ "chat" \in Clients!Places
    BY <1>2 DEF Clients!Places
  <1>4. Clients!NoConv \in Conversations
    BY <1>2 DEF Conversations, Clients!NoConv
  <1>5. Clients!Blank \in Refs /\ Clients!Blank.id = Clients!NoConv
    BY <1>4 DEF Clients!Blank, Clients!Ref, Refs
  <1>6. \A c \in Conversations : Clients!Ref(c, llm) \in Refs /\ Clients!Ref(c, llm).id = c /\ Clients!Ref(c, llm).provider = llm
    BY <1>2 DEF Clients!Ref, Refs
  <1>7. kept' \in [{"thread", "task"} -> Refs] /\ (kept'["task"] = kept["task"] \/ kept'["task"] = Clients!Ref(Clients!NoConv, llm)
           \/ kept'["task"] = Clients!Ref(sess["task"].id, llm))
    <2>1. CASE kept' = kept
      BY <1>2, <2>1
    <2>2. CASE kept' = [kept EXCEPT !["thread"] = Clients!Ref(sess["thread"].id, llm)]
      <3>1. Clients!Ref(sess["thread"].id, llm) \in Refs
        BY <1>3, <1>6 DEF Refs
      <3>. QED
        BY <1>2, <2>2, <3>1
    <2>3. CASE kept' = [kept EXCEPT !["task"] = Clients!Ref(IF call.err = "notfound" THEN Clients!NoConv ELSE sess["task"].id, llm)]
      <3>1. PICK c : c = IF call.err = "notfound" THEN Clients!NoConv ELSE sess["task"].id
        OBVIOUS
      <3>2. c \in Conversations
        BY <1>3, <1>4, <3>1 DEF Refs
      <3>3. Clients!Ref(c, llm) \in Refs /\ kept' = [kept EXCEPT !["task"] = Clients!Ref(c, llm)]
        BY <1>6, <2>3, <3>1, <3>2
      <3>4. kept' \in [{"thread", "task"} -> Refs] /\ kept'["task"] = Clients!Ref(c, llm)
        BY <1>2, <3>3
      <3>. QED
        BY <3>1, <3>4
    <2>. QED
      BY <2>1, <2>2, <2>3 DEF Clients!TurnEnds, Clients!ThreadKept, Clients!TaskKept
  <1>8. sess' \in [Clients!Places -> Refs] /\ sess'["task"] = Clients!Blank /\ sess'["chat"] = sess["chat"]
    BY <1>1, <1>2, <1>3, <1>5
  <1>9. call' \in CallRows /\ call'.resumed = Clients!NoConv /\ call'.conv = Clients!NoConv /\ call'.at = "idle" /\ call'.naming = FALSE
    <2>1. 0 \in 0 .. MaxTokenFailovers /\ 0 \in 0 .. MaxAutoContinue /\ Clients!NoConv \in Nat
      BY <1>2 DEF Clients!NoConv
    <2>. QED
      BY <1>1, <2>1 DEF Clients!NoCall, CallRows, Clients!Prompts, Clients!Ends, Clients!Places
  <1>10. BackTypes'
    <2>1. UNCHANGED <<Refs, ConvRows, Conversations>>
      BY <1>1 DEF Refs, ConvRows, Conversations
    <2>. QED
      BY <1>1, <1>4, <1>7, <1>8, <1>9, <2>1 DEF BackTypes
  <1>11. NamingInv' /\ ConvInv' /\ AskedInv' /\ FreshInv' /\ TurnInv' /\ Clients!ResumesItsOwn'
    BY <1>9 DEF NamingInv, ConvInv, AskedInv, FreshInv, TurnInv, Clients!ResumesItsOwn
  <1>12. MemoryInv' /\ CarryInv'
    BY <1>9 DEF MemoryInv, CarryInv
  <1>13. TaskInv'
    <2>1. kept'["task"].id # Clients!NoConv => convs[kept'["task"].id].cli = kept'["task"].provider
      <3>1. sess["task"].id \in Conversations
        BY <1>3 DEF Refs
      <3>2. CASE kept'["task"] = kept["task"]
        BY <1>1, <3>2 DEF TaskInv
      <3>3. CASE kept'["task"] = Clients!Ref(Clients!NoConv, llm)
        BY <1>4, <1>6, <3>3
      <3>4. CASE kept'["task"] = Clients!Ref(sess["task"].id, llm)
        BY <1>1, <1>6, <3>1, <3>4 DEF TaskInv
      <3>. QED
        BY <1>7, <3>2, <3>3, <3>4
    <2>. QED
      BY <1>1, <1>5, <1>8, <2>1 DEF TaskInv
  <1>14. ChatInv' /\ GoneInv'
    <2>1. ~torn => /\ sess["chat"].id # Clients!NoConv => convs[sess["chat"].id].cli = Clients!GetProvider(sess["chat"])
                   /\ sess["chat"].id = Clients!NoConv => sess["chat"].provider = ""
      BY <1>1 DEF ChatInv
    <2>2. ChatInv'
      BY <1>1, <1>8, <1>9, <2>1 DEF ChatInv
    <2>3. GoneInv'
      BY <1>1, <1>8 DEF GoneInv
    <2>. QED
      BY <2>2, <2>3
  <1>. QED
    BY <1>10, <1>11, <1>12, <1>13, <1>14 DEF BackInv

(* A reset takes the chat's session from under a turn: from then on the turn is cleared. *)
LEMMA ChatIsReset ==
    ASSUME Clients!BackendsConstants, BackInv, Clients!Reset
    PROVE  BackInv'
  <1>1. /\ BackTypes /\ NamingInv /\ ConvInv /\ AskedInv /\ TaskInv /\ ChatInv /\ GoneInv /\ MemoryInv /\ CarryInv
        /\ FreshInv /\ TurnInv /\ Clients!ResumesItsOwn
        /\ UNCHANGED <<llm, kept, convs, lost, turns, faults, switches>>
        /\ resets < MaxResets /\ resets' = resets + 1 /\ sess' = [sess EXCEPT !["chat"] = Clients!Blank]
        /\ gone' = gone \union ({sess["chat"].id} \ {Clients!NoConv})
        /\ torn' = (torn \/ (call.place = "chat" /\ call.naming))
        /\ call' = [call EXCEPT !.cleared = call.cleared \/ (call.at # "idle" /\ call.place = "chat")]
    BY DEF BackInv, Clients!Reset
  <1>2. /\ sess \in [Clients!Places -> Refs] /\ call \in CallRows /\ call.place \in Clients!Places /\ Clients!Here = sess[call.place]
        /\ Len(convs) \in Nat /\ gone \subseteq 1 .. Len(convs) /\ resets \in 0 .. MaxResets /\ MaxResets \in Nat
    BY <1>1, TypesHave
  <1>3. sess["chat"] \in Refs
    BY <1>2 DEF Clients!Places
  <1>4. Clients!NoConv \in Conversations /\ \A c \in Conversations : c # Clients!NoConv => c \in 1 .. Len(convs)
    BY <1>2 DEF Conversations, Clients!NoConv
  <1>5. Clients!Blank \in Refs /\ Clients!Blank.id = Clients!NoConv /\ Clients!Blank.provider = ""
    BY <1>4 DEF Clients!Blank, Clients!Ref, Refs
  <1>6. /\ sess' \in [Clients!Places -> Refs] /\ sess'["chat"] = Clients!Blank
        /\ \A q \in Clients!Places : q # "chat" => sess'[q] = sess[q]
    BY <1>1, <1>2, <1>5 DEF Clients!Places
  <1>7. gone' \subseteq 1 .. Len(convs) /\ Clients!NoConv \notin gone'
    <2>1. sess["chat"].id \in Conversations
      BY <1>3 DEF Refs
    <2>2. gone' \subseteq 1 .. Len(convs)
      BY <1>1, <1>2, <1>4, <2>1
    <2>. QED
      BY <1>2, <2>2 DEF Clients!NoConv
  <1>8. /\ call' \in CallRows
        /\ call'.cleared = (call.cleared \/ (call.at # "idle" /\ call.place = "chat"))
    <2>1. (call.cleared \/ (call.at # "idle" /\ call.place = "chat")) \in BOOLEAN
      OBVIOUS
    <2>. QED
      BY <1>1, <1>2, <2>1 DEF CallRows
  <1>9. /\ call'.at = call.at /\ call'.place = call.place /\ call'.prompt = call.prompt
        /\ call'.resumed = call.resumed /\ call'.conv = call.conv /\ call'.isNew = call.isNew
        /\ call'.naming = call.naming /\ call'.emitted = call.emitted /\ call'.said = call.said
        /\ call'.stray = call.stray /\ call'.memory = call.memory /\ call'.err = call.err
    BY <1>1, <1>2 DEF CallRows
  <1>10. torn' \in BOOLEAN /\ resets' \in 0 .. MaxResets
    BY <1>1, <1>2
  <1>11. BackTypes'
    <2>1. UNCHANGED <<Refs, ConvRows, Conversations>>
      BY <1>1 DEF Refs, ConvRows, Conversations
    <2>. QED
      BY <1>1, <1>6, <1>7, <1>8, <1>9, <1>10, <2>1 DEF BackTypes
  <1>12. NamingInv' /\ ConvInv' /\ AskedInv' /\ TurnInv'
    BY <1>1, <1>9 DEF NamingInv, ConvInv, AskedInv, TurnInv
  <1>13. Clients!ResumesItsOwn'
    <2>1. torn => torn'
      BY <1>1
    <2>. QED
      BY <1>1, <1>9, <2>1 DEF Clients!ResumesItsOwn
  <1>14. FreshInv'
    <2>1. Clients!Here' = Clients!Here \/ Clients!Here' = Clients!Blank
      BY <1>2, <1>6, <1>9 DEF Clients!Here
    <2>. QED
      BY <1>1, <1>5, <1>9, <2>1 DEF FreshInv
  <1>15. TaskInv'
    <2>1. sess'["task"] = sess["task"]
      BY <1>6 DEF Clients!Places
    <2>. QED
      BY <1>1, <1>9, <2>1 DEF TaskInv
  <1>16. ChatInv' /\ GoneInv'
    BY <1>1, <1>5, <1>6, <1>7, <1>9 DEF ChatInv, GoneInv
  <1>17. call.at = "idle" \/ call'.cleared \/ (Clients!Here' = Clients!Here /\ (call'.cleared <=> call.cleared))
    BY <1>2, <1>6, <1>8, <1>9 DEF Clients!Here
  <1>18. CASE call.at = "idle" \/ call'.cleared
    BY <1>9, <1>11, <1>12, <1>13, <1>14, <1>15, <1>16, <1>18 DEF BackInv, MemoryInv, CarryInv, Steady
  <1>19. CASE Clients!Here' = Clients!Here /\ (call'.cleared <=> call.cleared)
    <2>1. (ItsOwnPlace' <=> ItsOwnPlace) /\ (Steady' <=> Steady) /\ \A c : Told(c)' <=> Told(c)
      BY <1>1, <1>9, <1>19 DEF ItsOwnPlace, Steady, Told, Clients!GetProvider
    <2>2. MemoryInv'
      BY <1>1, <1>9, <1>19, <2>1 DEF MemoryInv
    <2>3. CarryInv'
      BY <1>1, <1>9, <1>19, <2>1 DEF CarryInv
    <2>. QED
      BY <1>11, <1>12, <1>13, <1>14, <1>15, <1>16, <2>2, <2>3 DEF BackInv
  <1>. QED
    BY <1>17, <1>18, <1>19

LEMMA BetweenTurns ==
    ASSUME Clients!BackendsConstants, BackInv,
           \/ \E b \in Clients!Clis : Clients!Restart(b)
           \/ \E c \in 1 .. Len(convs) : Clients!Forgets(c)
           \/ UNCHANGED Clients!vars
    PROVE  BackInv'
  <1>1. /\ BackTypes /\ NamingInv /\ ConvInv /\ AskedInv /\ TaskInv /\ ChatInv /\ GoneInv /\ MemoryInv /\ CarryInv
        /\ FreshInv /\ TurnInv /\ Clients!ResumesItsOwn
    BY DEF BackInv
  <1>2. /\ lost \subseteq 1 .. Len(convs) /\ faults \in 0 .. MaxFaults /\ switches \in 0 .. MaxSwitches
        /\ MaxFaults \in Nat /\ MaxSwitches \in Nat /\ llm \in Clients!Clis
    BY <1>1, TypesHave
  <1>3. CASE UNCHANGED Clients!vars
    <2>1. UNCHANGED <<llm, sess, kept, convs, lost, call, turns, faults, switches, resets, gone, torn>>
      BY <1>3 DEF Clients!vars
    <2>2. UNCHANGED <<Refs, ConvRows, Conversations, Clients!Here>> /\ (ItsOwnPlace' <=> ItsOwnPlace)
          /\ (Steady' <=> Steady) /\ \A c : Told(c)' <=> Told(c)
      BY <2>1 DEF Refs, ConvRows, Conversations, Clients!Here, ItsOwnPlace, Steady, Told, Clients!GetProvider
    <2>3. BackTypes'
      BY <1>1, <2>1, <2>2 DEF BackTypes
    <2>4. NamingInv' /\ ConvInv' /\ AskedInv' /\ FreshInv' /\ TurnInv' /\ Clients!ResumesItsOwn'
      BY <1>1, <2>1, <2>2 DEF NamingInv, ConvInv, AskedInv, FreshInv, TurnInv, Clients!ResumesItsOwn
    <2>5. MemoryInv' /\ CarryInv'
      BY <1>1, <2>1, <2>2 DEF MemoryInv, CarryInv
    <2>6. TaskInv' /\ ChatInv' /\ GoneInv'
      BY <1>1, <2>1 DEF TaskInv, ChatInv, GoneInv, Clients!GetProvider
    <2>. QED
      BY <2>3, <2>4, <2>5, <2>6 DEF BackInv
  <1>4. CASE (\E b \in Clients!Clis : Clients!Restart(b)) \/ (\E c \in 1 .. Len(convs) : Clients!Forgets(c))
    <2>1. /\ call.at = "idle" /\ UNCHANGED <<sess, kept, convs, call, turns, resets, gone, torn>>
          /\ llm' \in Clients!Clis /\ lost' \subseteq 1 .. Len(convs)
          /\ faults' \in 0 .. MaxFaults /\ switches' \in 0 .. MaxSwitches
      <3>1. CASE \E b \in Clients!Clis : Clients!Restart(b)
        BY <1>2, <3>1 DEF Clients!Restart
      <3>2. CASE \E c \in 1 .. Len(convs) : Clients!Forgets(c)
        BY <1>2, <3>2 DEF Clients!Forgets
      <3>. QED
        BY <1>4, <3>1, <3>2
    <2>2. BackTypes'
      <3>1. UNCHANGED <<Refs, ConvRows, Conversations>>
        BY <2>1 DEF Refs, ConvRows, Conversations
      <3>. QED
        BY <1>1, <2>1, <3>1 DEF BackTypes
    <2>3. NamingInv' /\ ConvInv' /\ AskedInv' /\ FreshInv' /\ TurnInv' /\ Clients!ResumesItsOwn' /\ MemoryInv' /\ CarryInv'
      BY <1>1, <2>1 DEF NamingInv, ConvInv, AskedInv, FreshInv, TurnInv, Clients!ResumesItsOwn, MemoryInv, CarryInv
    <2>4. TaskInv' /\ GoneInv'
      BY <1>1, <2>1 DEF TaskInv, GoneInv
    <2>5. ChatInv'
      BY <1>1, <2>1 DEF ChatInv, NamingInv, Clients!GetProvider
    <2>. QED
      BY <2>2, <2>3, <2>4, <2>5 DEF BackInv
  <1>. QED
    BY <1>3, <1>4

LEMMA BackStep == Clients!BackendsConstants /\ BackInv /\ [Clients!Next]_(Clients!vars) => BackInv'
  BY TurnStarts, SpawnKeeps, ConversationOpens, ProviderIsSet, SaysSomething, CalmSteps, TurnIsOver, ChatIsReset,
     BetweenTurns DEF Clients!Next

LEMMA BackHolds == Clients!BackendsConstants /\ Clients!Spec => []BackInv
  <1>1. Clients!BackendsConstants /\ Clients!Init => BackInv
    BY BackInit
  <1>2. Clients!BackendsConstants /\ BackInv /\ [Clients!Next]_(Clients!vars) => BackInv'
    BY BackStep
  <1>3. CASE Clients!BackendsConstants
    BY <1>1, <1>2, <1>3, PTL DEF Clients!Spec
  <1>. QED
    BY <1>3

(* What the invariant gives the four properties. *)
LEMMA BackGives == BackInv => Clients!TypeOK /\ Clients!ResumesItsOwn /\ Clients!AskedOnce /\ Clients!CarriesOnThere /\ Clients!OpensWithMemory
  <1>. SUFFICES ASSUME BackInv
                PROVE  Clients!TypeOK /\ Clients!ResumesItsOwn /\ Clients!AskedOnce /\ Clients!CarriesOnThere /\ Clients!OpensWithMemory
    OBVIOUS
  <1>1. Clients!TypeOK /\ Clients!ResumesItsOwn
    BY TypesTake DEF BackInv
  <1>2. Clients!AskedOnce
    BY DEF BackInv, AskedInv, Clients!AskedOnce
  <1>3. Clients!CarriesOnThere
    BY DEF BackInv, CarryInv, Clients!CarriesOnThere, Steady, Told
  <1>4. Clients!OpensWithMemory
    BY DEF BackInv, MemoryInv, Clients!OpensWithMemory
  <1>. QED
    BY <1>1, <1>2, <1>3, <1>4

(* No command-line backend resumes another's conversation, no question is sent a second time once *)
(* something was shown, a prompt to carry on reaches the conversation that heard the question, and *)
(* a new conversation opens with the agent's memory (claude/client.go, codex/client.go,            *)
(* opencode/client.go, bot/handler.go), whatever fails, is stopped, reset or forgotten.            *)
THEOREM ClientsAreSafe ==
    Clients!BackendsConstants /\ Clients!Spec => [](Clients!TypeOK /\ Clients!ResumesItsOwn /\ Clients!AskedOnce /\ Clients!CarriesOnThere /\ Clients!OpensWithMemory)
  <1>1. BackInv => Clients!TypeOK /\ Clients!ResumesItsOwn /\ Clients!AskedOnce /\ Clients!CarriesOnThere /\ Clients!OpensWithMemory
    BY BackGives
  <1>. QED
    BY <1>1, BackHolds, PTL

LEMMA ForgottenStep == BackInv => Clients!ForgottenStays
  <1>. SUFFICES ASSUME BackInv, Clients!Spawn, call.place = "chat", call'.resumed \in gone
                PROVE  convs[call'.resumed].cli = "opencode"
    BY DEF Clients!ForgottenStays
  <1>1. call \in CallRows /\ gone \subseteq 1 .. Len(convs) /\ GoneInv
    BY DEF BackInv, BackTypes
  <1>2. call'.resumed = Clients!ToResume
    BY <1>1 DEF Clients!Spawn, CallRows
  <1>3. Clients!NoConv \notin gone
    BY <1>1 DEF Clients!NoConv
  <1>4. call'.resumed = sess["chat"].id
    BY <1>2, <1>3 DEF Clients!ToResume, Clients!Here
  <1>. QED
    BY <1>1, <1>4 DEF GoneInv

(* What a reset took out of the chat stays out, but for opencode's (session.go Reset), wherever in *)
(* a running turn the reset falls.                                                               *)
THEOREM ForgottenStaysForgotten == Clients!BackendsConstants /\ Clients!Spec => [][Clients!ForgottenStays]_(Clients!vars)
  <1>1. BackInv => Clients!ForgottenStays
    BY ForgottenStep
  <1>2. BackInv /\ [Clients!Next]_(Clients!vars) => [Clients!ForgottenStays]_(Clients!vars)
    BY <1>1
  <1>. QED
    BY <1>2, BackHolds, PTL DEF Clients!Spec
=============================================================================
