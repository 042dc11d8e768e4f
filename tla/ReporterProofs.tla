--------------------------- MODULE ReporterProofs ---------------------------
(***************************************************************************)
(* Proofs about Reporter, for any number of gateways, tasks and agents, any *)
(* batch and any bounds.                                                   *)
(***************************************************************************)
EXTENDS Reporter, TLAPS, SequenceTheorems

TaskRows == [state : States, claimed_by : Agents \cup {Nobody},
             reported : Reporters \cup {Nobody}]
Loops    == [phase : Phases, batch : Seq(Reports)]

(* TypeOK, with the domains of the functions. *)
Types ==
    /\ task \in [Tasks -> TaskRows]
    /\ updated \in Seq(Tasks)
    /\ reporter \in [Reporters -> Loops]
    /\ \A g \in Reporters :
         reporter[g].phase \in {"down", "idle"} <=> reporter[g].batch = <<>>
    /\ told \in [Tasks -> Seq(Terminal)]
    /\ posted \in [Tasks -> Nat]
    /\ outcomes \in [Tasks -> Nat] /\ \A t \in Tasks : outcomes[t] <= MaxOutcomes[t]
    /\ failures \in 0..MaxFailures /\ lost \in 0..failures /\ outages \in 0..MaxOutages

----------------------------------------------------------------------------
(* Sequences *)

LEMMA RemoveAtType ==
    ASSUME NEW S, NEW s \in Seq(S), NEW i \in DOMAIN s
    PROVE  RemoveAt(s, i) \in Seq(S)
  BY DEF RemoveAt

LEMMA TouchType ==
    ASSUME updated \in Seq(Tasks), NEW t \in Tasks, Touch(t)
    PROVE  updated' \in Seq(Tasks)
  <1>1. CASE t \in Range(updated)
    <2>1. (CHOOSE i \in DOMAIN updated : updated[i] = t) \in DOMAIN updated
      BY <1>1 DEF Range
    <2>. QED
      BY <1>1, <2>1, RemoveAtType DEF Touch
  <1>2. CASE t \notin Range(updated)
    BY <1>2 DEF Touch
  <1>. QED
    BY <1>1, <1>2

(* Of a batch one report is left fewer, and it is one of the batch. *)
LEMMA TailOfBatch ==
    ASSUME NEW S, NEW s \in Seq(S), s # <<>>
    PROVE  /\ Head(s) \in S /\ Tail(s) \in Seq(S)
           /\ Len(s) = 1 <=> Tail(s) = <<>>
           /\ \A i \in DOMAIN Tail(s) : i + 1 \in DOMAIN s /\ Tail(s)[i] = s[i + 1]
           /\ 1 \in DOMAIN s /\ Head(s) = s[1]
  <1>1. Len(s) \in Nat \ {0} /\ DOMAIN s = 1..Len(s)
    BY EmptySeq, LenProperties
  <1>2. Head(s) \in S /\ Tail(s) \in Seq(S)
    BY HeadTailProperties
  <1>3. Len(Tail(s)) = Len(s) - 1
    BY <1>1
  <1>4. DOMAIN Tail(s) = 1..(Len(s) - 1)
    BY <1>2, <1>3, LenProperties
  <1>5. \A i \in 1..(Len(s) - 1) : Tail(s)[i] = s[i + 1]
    BY <1>1
  <1>6. Len(s) = 1 <=> Tail(s) = <<>>
    <2>1. Tail(s) = <<>> => Len(Tail(s)) = 0
      BY EmptySeq
    <2>2. Tail(s) # <<>> => Len(Tail(s)) \in Nat \ {0}
      BY <1>2, EmptySeq
    <2>. QED
      BY <1>1, <1>3, <2>1, <2>2
  <1>7. Head(s) = s[1]
    BY <1>1
  <1>. QED
    BY <1>1, <1>2, <1>4, <1>5, <1>6, <1>7

(* One row or one counter is written. *)
LEMMA MarkerWritten ==
    ASSUME Types, NEW t \in Tasks, NEW m \in Reporters \cup {Nobody},
           task' = [task EXCEPT ![t].reported = m]
    PROVE  task' \in [Tasks -> TaskRows]
  <1>1. [task[t] EXCEPT !.reported = m] \in TaskRows
    BY DEF Types, TaskRows
  <1>2. task' = [task EXCEPT ![t] = [task[t] EXCEPT !.reported = m]]
    BY DEF Types
  <1>. QED
    BY <1>1, <1>2 DEF Types

LEMMA PostCounted ==
    ASSUME Types, NEW t \in Tasks, posted' = [posted EXCEPT ![t] = @ + 1]
    PROVE  posted' \in [Tasks -> Nat]
  BY DEF Types

(* What the query of a tick returns. *)
LEMMA BatchRead ==
    ASSUME Types, NEW a, NEW s \in Oldest(Pending(a))
    PROVE  LET batch == [i \in DOMAIN s |-> [task |-> updated[s[i]],
                                             state |-> task[updated[s[i]]].state]]
           IN  /\ batch \in Seq(Reports) /\ batch # <<>>
               /\ \A i \in DOMAIN batch :
                    /\ batch[i].task \in Tasks
                    /\ batch[i].state = task[batch[i].task].state
                    /\ batch[i].state \in Terminal
  <1>. DEFINE batch == [i \in DOMAIN s |-> [task |-> updated[s[i]],
                                            state |-> task[updated[s[i]]].state]]
  <1>1. PICK n \in 1..Batch : s \in [1..n -> Pending(a)]
    BY DEF Oldest
  <1>2. n \in Nat \ {0}
    BY ReporterConstants
  <1>3. \A i \in 1..n : updated[s[i]] \in Tasks /\ task[updated[s[i]]].state \in Terminal
    <2>. SUFFICES ASSUME NEW i \in 1..n
                  PROVE  updated[s[i]] \in Tasks /\ task[updated[s[i]]].state \in Terminal
      OBVIOUS
    <2>1. s[i] \in DOMAIN updated /\ task[updated[s[i]]].state \in Terminal
      BY <1>1 DEF Pending
    <2>2. updated \in [1..Len(updated) -> Tasks] /\ DOMAIN updated = 1..Len(updated)
      BY LenProperties DEF Types
    <2>. QED
      BY <2>1, <2>2
  <1>4. batch \in [1..n -> Reports]
    BY <1>1, <1>3 DEF Reports
  <1>5. batch \in Seq(Reports) /\ batch # <<>>
    BY <1>2, <1>4
  <1>6. DOMAIN batch = 1..n
    BY <1>1
  <1>. QED
    BY <1>1, <1>3, <1>5, <1>6

(* On to the next report: what is left of a batch was in it. *)
LEMMA NextItemStep ==
    ASSUME Types, NEW g \in Reporters, NextItem(g), reporter[g].batch # <<>>
    PROVE  /\ reporter' \in [Reporters -> Loops]
           /\ \A h \in Reporters :
                reporter'[h].phase \in {"down", "idle"} <=> reporter'[h].batch = <<>>
           /\ reporter'[g].phase \in {"idle", "loop"}
           /\ \A i \in DOMAIN reporter'[g].batch :
                \E j \in DOMAIN reporter[g].batch : reporter'[g].batch[i] = reporter[g].batch[j]
           /\ \A h \in Reporters \ {g} : reporter'[h] = reporter[h]
  <1>. DEFINE s == reporter[g].batch
  <1>1. s \in Seq(Reports)
    BY DEF Types, Loops
  <1>2. CASE Len(s) = 1
    <2>1. reporter' = [reporter EXCEPT ![g] = Idle]
      BY <1>2 DEF NextItem, Types
    <2>2. Idle \in Loops /\ Idle.phase = "idle" /\ Idle.batch = <<>>
      BY DEF Idle, Loops, Phases
    <2>. QED
      BY <2>1, <2>2 DEF Types
  <1>3. CASE Len(s) # 1
    <2>1. reporter' = [reporter EXCEPT ![g] = [phase |-> "loop", batch |-> Tail(s)]]
      BY <1>3 DEF NextItem, Types
    <2>2. Tail(s) \in Seq(Reports) /\ Tail(s) # <<>>
      BY <1>1, <1>3, TailOfBatch
    <2>3. [phase |-> "loop", batch |-> Tail(s)] \in Loops
      BY <2>2 DEF Loops, Phases
    <2>4. \A i \in DOMAIN Tail(s) : i + 1 \in DOMAIN s /\ Tail(s)[i] = s[i + 1]
      BY <1>1, TailOfBatch
    <2>. QED
      BY <2>1, <2>2, <2>3, <2>4 DEF Types
  <1>. QED
    BY <1>2, <1>3

LEMMA StayStep ==
    ASSUME Types, NEW g \in Reporters, NEW q \in Phases \ {"down", "idle"}, Stay(g, q),
           reporter[g].batch # <<>>
    PROVE  /\ reporter' \in [Reporters -> Loops]
           /\ \A h \in Reporters :
                reporter'[h].phase \in {"down", "idle"} <=> reporter'[h].batch = <<>>
           /\ reporter'[g].phase = q /\ reporter'[g].batch = reporter[g].batch
           /\ \A h \in Reporters \ {g} : reporter'[h] = reporter[h]
  BY DEF Stay, Types, Loops

----------------------------------------------------------------------------
(* Types *)

LEMMA InitType == Init => Types
  BY ReporterConstants DEF Init, Types, TaskRows, Loops, Idle, States, Phases

LEMMA ItemType ==
    ASSUME Types, NEW g \in Reporters, reporter[g].phase \notin {"down", "idle"}
    PROVE  reporter[g].batch # <<>> /\ Item(g) \in Reports
  <1>1. reporter[g].batch \in Seq(Reports) /\ reporter[g].batch # <<>>
    BY DEF Types, Loops
  <1>. QED
    BY <1>1, TailOfBatch DEF Item

LEMMA StepType == Types /\ [Next]_vars => Types'
  <1>. SUFFICES ASSUME Types, [Next]_vars PROVE Types'
    OBVIOUS
  <1>. USE ReporterConstants
  <1>1. ASSUME NEW t \in Tasks, NEW s \in Ends, NEW a \in Agents, EndTask(t, s, a)
        PROVE  Types'
    <2>1. updated' \in Seq(Tasks)
      BY <1>1, TouchType DEF EndTask, Types
    <2>2. task' \in [Tasks -> TaskRows]
      <3>1. s \in States
        BY DEF States, Terminal
      <3>2. task' = [task EXCEPT ![t] = [@ EXCEPT !.state = s, !.claimed_by = a]]
        BY <1>1 DEF EndTask, Types
      <3>3. task[t] \in TaskRows
        BY DEF Types
      <3>4. [task[t] EXCEPT !.state = s, !.claimed_by = a] \in TaskRows
        BY <3>1, <3>3 DEF TaskRows
      <3>. QED
        BY <3>2, <3>4 DEF Types
    <2>3. outcomes' \in [Tasks -> Nat] /\ \A u \in Tasks : outcomes'[u] <= MaxOutcomes[u]
      BY <1>1 DEF EndTask, Types
    <2>. QED
      BY <1>1, <2>1, <2>2, <2>3 DEF EndTask, Types
  <1>2. ASSUME NEW t \in Tasks, ResumeTask(t) PROVE Types'
    <2>1. updated' \in Seq(Tasks)
      BY <1>2, TouchType DEF ResumeTask, Types
    <2>2. task' \in [Tasks -> TaskRows]
      <3>1. task[t] \in TaskRows /\ "open" \in States
        BY DEF Types, States
      <3>2. [task[t] EXCEPT !.state = "open"] \in TaskRows
        BY <3>1 DEF TaskRows
      <3>3. task' = [task EXCEPT ![t] = [@ EXCEPT !.state = "open"]]
        BY <1>2 DEF ResumeTask, Types
      <3>. QED
        BY <3>2, <3>3 DEF Types
    <2>. QED
      BY <1>2, <2>1, <2>2 DEF ResumeTask, Types
  <1>3. ASSUME NEW g \in Reporters, ReadPending(g) PROVE Types'
    <2>1. PICK s \in Oldest(Pending(AgentOf[g])) :
            reporter' = [reporter EXCEPT ![g] =
                           [phase |-> "loop",
                            batch |-> [i \in DOMAIN s |->
                                         [task |-> updated[s[i]],
                                          state |-> task[updated[s[i]]].state]]]]
      BY <1>3 DEF ReadPending
    <2>. DEFINE batch == [i \in DOMAIN s |-> [task |-> updated[s[i]],
                                              state |-> task[updated[s[i]]].state]]
    <2>2. batch \in Seq(Reports) /\ batch # <<>>
      BY BatchRead
    <2>. HIDE DEF batch
    <2>3. reporter' = [reporter EXCEPT ![g] = [phase |-> "loop", batch |-> batch]]
      BY <2>1 DEF batch
    <2>4. [phase |-> "loop", batch |-> batch] \in Loops
      BY <2>2 DEF Loops, Phases
    <2>. QED
      BY <1>3, <2>2, <2>3, <2>4 DEF ReadPending, Types
  <1>4. ASSUME NEW g \in Reporters, MarkReported(g) PROVE Types'
    <2>1. reporter[g].batch # <<>> /\ Item(g).task \in Tasks
      BY <1>4, ItemType DEF MarkReported, Reports
    <2>. DEFINE t == Item(g).task
    <2>2. task' = task \/ task' = [task EXCEPT ![t].reported = g]
      BY <1>4 DEF MarkReported
    <2>3. task' \in [Tasks -> TaskRows]
      <3>1. t \in Tasks
        BY <2>1
      <3>. HIDE DEF t
      <3>. QED
        BY <2>2, <3>1, MarkerWritten DEF Types
    <2>4. NextItem(g) \/ Stay(g, "sending")
      BY <1>4 DEF MarkReported
    <2>5. /\ reporter' \in [Reporters -> Loops]
          /\ \A h \in Reporters :
               reporter'[h].phase \in {"down", "idle"} <=> reporter'[h].batch = <<>>
      BY <2>1, <2>4, NextItemStep, StayStep DEF Phases
    <2>. QED
      BY <1>4, <2>3, <2>5 DEF MarkReported, Types
  <1>5. ASSUME NEW g \in Reporters, MarkFails(g) \/ UnmarkFails(g) PROVE Types'
    <2>1. reporter[g].batch # <<>>
      BY <1>5, ItemType DEF MarkFails, UnmarkFails
    <2>2. NextItem(g) /\ Outage
      BY <1>5 DEF MarkFails, UnmarkFails
    <2>3. outages' \in 0..MaxOutages
      BY <2>2 DEF Outage, Types
    <2>. QED
      BY <1>5, <2>1, <2>2, <2>3, NextItemStep DEF MarkFails, UnmarkFails, Types
  <1>6. ASSUME NEW g \in Reporters, Send(g) PROVE Types'
    <2>1. reporter[g].batch # <<>> /\ Item(g).task \in Tasks /\ Item(g).state \in Terminal
      BY <1>6, ItemType DEF Send, Reports
    <2>2. Stay(g, "posting") \/ Stay(g, "refused")
      BY <1>6 DEF Send
    <2>3. /\ reporter' \in [Reporters -> Loops]
          /\ \A h \in Reporters :
               reporter'[h].phase \in {"down", "idle"} <=> reporter'[h].batch = <<>>
      BY <2>1, <2>2, StayStep DEF Phases
    <2>. DEFINE t == Item(g).task
                s == Item(g).state
    <2>4. told' \in [Tasks -> Seq(Terminal)]
      <3>1. told' = told \/ told' = [told EXCEPT ![t] = Append(@, s)]
        BY <1>6 DEF Send
      <3>. HIDE DEF t, s
      <3>2. t \in Tasks /\ s \in Terminal
        BY <2>1 DEF t, s
      <3>3. Append(told[t], s) \in Seq(Terminal)
        BY <3>2 DEF Types
      <3>. QED
        BY <3>1, <3>2, <3>3 DEF Types
    <2>5. failures' \in 0..MaxFailures /\ lost' \in 0..failures'
      <3>1. \/ failures' = failures /\ lost' = lost
            \/ /\ failures < MaxFailures /\ failures' = failures + 1
               /\ lost' = lost \/ lost' = lost + 1
        BY <1>6 DEF Send, Failure
      <3>2. failures \in Nat /\ lost \in Nat /\ lost <= failures /\ failures <= MaxFailures
        BY DEF Types
      <3>. QED
        BY <3>1, <3>2
    <2>. QED
      BY <1>6, <2>3, <2>4, <2>5 DEF Send, Types
  <1>7. ASSUME NEW g \in Reporters, UnmarkReported(g) PROVE Types'
    <2>1. reporter[g].batch # <<>> /\ Item(g).task \in Tasks
      BY <1>7, ItemType DEF UnmarkReported, Reports
    <2>. DEFINE t == Item(g).task
    <2>2. task' = task \/ task' = [task EXCEPT ![t].reported = Nobody]
      BY <1>7 DEF UnmarkReported
    <2>3. task' \in [Tasks -> TaskRows]
      <3>1. t \in Tasks
        BY <2>1
      <3>. HIDE DEF t
      <3>. QED
        BY <2>2, <3>1, MarkerWritten DEF Types
    <2>. QED
      BY <1>7, <2>1, <2>3, NextItemStep DEF UnmarkReported, Types
  <1>8. ASSUME NEW g \in Reporters, ReportToThread(g) PROVE Types'
    <2>1. reporter[g].batch # <<>> /\ Item(g).task \in Tasks
      BY <1>8, ItemType DEF ReportToThread, Reports
    <2>. DEFINE t == Item(g).task
    <2>2. posted' \in [Tasks -> Nat] /\ outages' \in 0..MaxOutages
      <3>1. posted' = posted \/ posted' = [posted EXCEPT ![t] = @ + 1]
        BY <1>8 DEF ReportToThread
      <3>2. outages' = outages \/ (outages < MaxOutages /\ outages' = outages + 1)
        BY <1>8 DEF ReportToThread, Outage
      <3>3. t \in Tasks
        BY <2>1
      <3>. HIDE DEF t
      <3>4. posted' \in [Tasks -> Nat]
        BY <3>1, <3>3, PostCounted DEF Types
      <3>5. outages' \in 0..MaxOutages
        BY <3>2 DEF Types
      <3>. QED
        BY <3>4, <3>5
    <2>. QED
      BY <1>8, <2>1, <2>2, NextItemStep DEF ReportToThread, Types
  <1>9. ASSUME NEW g \in Reporters, Crash(g) PROVE Types'
    <2>1. outages' \in 0..MaxOutages
      BY <1>9 DEF Crash, Outage, Types
    <2>2. Down \in Loops
      BY DEF Down, Loops, Phases
    <2>. QED
      BY <1>9, <2>1, <2>2 DEF Crash, Down, Types
  <1>10. ASSUME NEW g \in Reporters, Start(g) PROVE Types'
    <2>1. Idle \in Loops
      BY DEF Idle, Loops, Phases
    <2>. QED
      BY <1>10, <2>1 DEF Start, Idle, Types
  <1>11. CASE UNCHANGED vars
    BY <1>11 DEF vars, Types
  <1>. QED
    BY <1>1, <1>2, <1>3, <1>4, <1>5, <1>6, <1>7, <1>8, <1>9, <1>10, <1>11 DEF Next, Tick

LEMMA TypesHold == Spec => []Types
  BY InitType, StepType, PTL DEF Spec

(* Every variable keeps its type and its bounds, and a reporter has a batch   *)
(* exactly while it works through one.                                       *)
THEOREM TypeCorrect == Spec => []TypeOK
  <1>1. Types => TypeOK
    BY DEF Types, TypeOK, TaskRows, Loops
  <1>. QED
    BY <1>1, TypesHold, PTL

----------------------------------------------------------------------------
(* What a marker stands for                                                 *)

(* The report a gateway has in hand is of a task it marked and nobody else    *)
(* can mark; an unmarked task was never posted and never told, but for sends   *)
(* whose answer was lost.                                                   *)
Claims ==
    /\ \A t \in Tasks :
         task[t].reported = Nobody => posted[t] = 0 /\ Len(told[t]) <= lost
    /\ \A g \in Reporters :
         /\ reporter[g].phase \in {"sending", "refused"} =>
              /\ task[Item(g).task].reported = g
              /\ posted[Item(g).task] = 0 /\ Len(told[Item(g).task]) <= lost
         /\ reporter[g].phase = "posting" =>
              /\ task[Item(g).task].reported = g
              /\ posted[Item(g).task] = 0 /\ Len(told[Item(g).task]) >= 1

(* A batch is as old as the tick that read it: what it says of a task was     *)
(* true, and is until the task ends again.                                  *)
Batches ==
    /\ \A t \in Tasks : task[t].state \in Terminal => outcomes[t] >= 1
    /\ \A g \in Reporters : \A i \in DOMAIN reporter[g].batch :
         LET r == reporter[g].batch[i] IN
         /\ outcomes[r.task] >= 1
         /\ r.state = "canceled" => \/ task[r.task].state = "canceled"
                                    \/ outcomes[r.task] > 1

Inv == Types /\ Claims /\ ToldOnce /\ PostedOnce /\ Batches /\ MarkersAreKept

LEMMA InitInv == Init => Inv
  <1>. SUFFICES ASSUME Init PROVE Inv
    OBVIOUS
  <1>1. Types
    BY InitType
  <1>2. Claims /\ ToldOnce /\ PostedOnce
    BY ReporterConstants DEF Init, Idle, Claims, ToldOnce, PostedOnce
  <1>3. Batches /\ MarkersAreKept
    BY DEF Init, Idle, Batches, MarkersAreKept, Terminal
  <1>. QED
    BY <1>1, <1>2, <1>3 DEF Inv

(* A step that neither marks, sends nor posts keeps every claim. *)
LEMMA ClaimsKept ==
    ASSUME Types, Claims, ToldOnce, PostedOnce, UNCHANGED <<told, posted, lost>>,
           \A t \in Tasks : task'[t].reported = task[t].reported,
           \A h \in Reporters : \/ reporter'[h] = reporter[h]
                                \/ reporter'[h].phase \in {"down", "idle", "loop"}
    PROVE  Claims' /\ ToldOnce' /\ PostedOnce'
  <1>1. ToldOnce' /\ PostedOnce'
    BY DEF ToldOnce, PostedOnce
  <1>2. \A t \in Tasks :
          task'[t].reported = Nobody => posted'[t] = 0 /\ Len(told'[t]) <= lost'
    BY DEF Claims
  <1>3. ASSUME NEW h \in Reporters, reporter'[h].phase \in {"sending", "refused", "posting"}
        PROVE  /\ reporter[h].phase = reporter'[h].phase
               /\ Item(h)' = Item(h) /\ Item(h).task \in Tasks
    <2>1. reporter'[h] = reporter[h]
      BY <1>3
    <2>2. Item(h) \in Reports
      BY <1>3, <2>1, ItemType
    <2>. QED
      BY <2>1, <2>2 DEF Item, Reports
  <1>. QED
    BY <1>1, <1>2, <1>3 DEF Claims

(* A task in one gateway's hands is not in another's. *)
LEMMA InOneHand ==
    ASSUME Claims, NEW g \in Reporters, NEW h \in Reporters \ {g},
           reporter[g].phase \in {"sending", "refused", "posting"},
           reporter[h].phase \in {"sending", "refused", "posting"}
    PROVE  Item(g).task # Item(h).task
  BY DEF Claims

LEMMA MarkClaims ==
    ASSUME Inv, NEW g \in Reporters, MarkReported(g)
    PROVE  Claims' /\ ToldOnce' /\ PostedOnce'
  <1>. DEFINE t == Item(g).task
  <1>1. reporter[g].batch # <<>> /\ t \in Tasks
    BY ItemType DEF Inv, MarkReported, Reports
  <1>2. UNCHANGED <<told, posted, lost>> /\ ToldOnce' /\ PostedOnce'
    BY DEF MarkReported, Inv, ToldOnce, PostedOnce
  <1>3. CASE NextItem(g) /\ UNCHANGED task
    <2>1. /\ \A h \in Reporters \ {g} : reporter'[h] = reporter[h]
          /\ reporter'[g].phase \in {"idle", "loop"}
      BY <1>1, <1>3, NextItemStep DEF Inv
    <2>. QED
      BY <1>2, <1>3, <2>1, ClaimsKept DEF Inv
  <1>4. CASE task[t].reported = Nobody /\ task' = [task EXCEPT ![t].reported = g]
    <2>1. NextItem(g) \/ Stay(g, "sending")
      BY DEF MarkReported
    <2>2. /\ \A h \in Reporters \ {g} : reporter'[h] = reporter[h]
          /\ reporter'[g].phase \in {"idle", "loop", "sending"}
          /\ reporter'[g].phase = "sending" => reporter'[g].batch = reporter[g].batch
      BY <1>1, <2>1, NextItemStep, StayStep DEF Inv, Phases
    <2>3. /\ task'[t].reported = g
          /\ \A u \in Tasks \ {t} : task'[u].reported = task[u].reported
      <3>. HIDE DEF t
      <3>. QED
        BY <1>1, <1>4 DEF Inv, Types, TaskRows
    <2>4. posted[t] = 0 /\ Len(told[t]) <= lost
      BY <1>1, <1>4 DEF Inv, Claims
    <2>5. ASSUME NEW h \in Reporters \ {g},
                 reporter'[h].phase \in {"sending", "refused", "posting"}
          PROVE  /\ reporter[h].phase = reporter'[h].phase /\ Item(h)' = Item(h)
                 /\ Item(h).task \in Tasks \ {t}
      <3>1. reporter'[h] = reporter[h]
        BY <2>2, <2>5
      <3>2. Item(h) \in Reports
        BY <2>5, <3>1, ItemType DEF Inv
      <3>3. task[Item(h).task].reported = h
        BY <2>5, <3>1 DEF Inv, Claims
      <3>. QED
        BY <1>4, <3>1, <3>2, <3>3, ReporterConstants DEF Item, Reports
    <2>6. \A u \in Tasks : task'[u].reported = Nobody =>
                             posted'[u] = 0 /\ Len(told'[u]) <= lost'
      BY <1>2, <2>3, ReporterConstants DEF Inv, Claims
    <2>7. reporter'[g].phase = "sending" => Item(g)' = Item(g)
      BY <2>2 DEF Item
    <2>8. \A h \in Reporters :
            /\ reporter'[h].phase \in {"sending", "refused"} =>
                 /\ task'[Item(h)'.task].reported = h
                 /\ posted'[Item(h)'.task] = 0 /\ Len(told'[Item(h)'.task]) <= lost'
            /\ reporter'[h].phase = "posting" =>
                 /\ task'[Item(h)'.task].reported = h
                 /\ posted'[Item(h)'.task] = 0 /\ Len(told'[Item(h)'.task]) >= 1
      <3>. SUFFICES ASSUME NEW h \in Reporters,
                           reporter'[h].phase \in {"sending", "refused", "posting"}
                    PROVE  /\ reporter'[h].phase \in {"sending", "refused"} =>
                                /\ task'[Item(h)'.task].reported = h
                                /\ posted'[Item(h)'.task] = 0
                                /\ Len(told'[Item(h)'.task]) <= lost'
                           /\ reporter'[h].phase = "posting" =>
                                /\ task'[Item(h)'.task].reported = h
                                /\ posted'[Item(h)'.task] = 0
                                /\ Len(told'[Item(h)'.task]) >= 1
        OBVIOUS
      <3>1. CASE h = g
        BY <1>2, <2>2, <2>3, <2>4, <2>7, <3>1
      <3>2. CASE h # g
        BY <1>2, <2>3, <2>5, <3>2 DEF Inv, Claims
      <3>. QED
        BY <3>1, <3>2
    <2>. QED
      BY <1>2, <2>6, <2>8 DEF Claims
  <1>. QED
    BY <1>3, <1>4 DEF MarkReported

LEMMA SendClaims ==
    ASSUME Inv, NEW g \in Reporters, Send(g), Types'
    PROVE  Claims' /\ ToldOnce' /\ PostedOnce'
  <1>. DEFINE t == Item(g).task
              s == Item(g).state
  <1>1. reporter[g].batch # <<>> /\ t \in Tasks /\ s \in Terminal
    BY ItemType DEF Inv, Send, Reports
  <1>2. UNCHANGED <<task, posted>> /\ reporter[g].phase = "sending"
    BY DEF Send
  <1>3. task[t].reported = g /\ posted[t] = 0 /\ Len(told[t]) <= lost
    BY <1>2 DEF Inv, Claims
  <1>4. /\ \A h \in Reporters \ {g} : reporter'[h] = reporter[h]
        /\ reporter'[g].phase \in {"posting", "refused"}
        /\ reporter'[g].batch = reporter[g].batch
        /\ Stay(g, "posting") => reporter'[g].phase = "posting"
        /\ Stay(g, "refused") => reporter'[g].phase = "refused"
    BY <1>1, StayStep DEF Send, Inv, Phases
  <1>5. Item(g)' = Item(g)
    BY <1>4 DEF Item
  <1>6. lost \in Nat /\ lost' \in Nat /\ lost' >= lost
    BY DEF Inv, Types, Send
  <1>7. told' = told \/ told' = [told EXCEPT ![t] = Append(@, s)]
    BY DEF Send
  <1>8. /\ \A u \in Tasks \ {t} : told'[u] = told[u]
        /\ Len(told[t]) \in Nat
        /\ Len(told'[t]) \in {Len(told[t]), Len(told[t]) + 1}
        /\ told' # told => Len(told'[t]) = Len(told[t]) + 1
    <2>. HIDE DEF t, s
    <2>1. Len(told[t]) \in Nat
      BY <1>1 DEF Inv, Types
    <2>2. CASE told' = told
      BY <2>1, <2>2
    <2>3. CASE told' = [told EXCEPT ![t] = Append(@, s)]
      <3>1. told'[t] = Append(told[t], s)
        BY <1>1, <2>3 DEF Inv, Types
      <3>2. Len(Append(told[t], s)) = Len(told[t]) + 1
        BY <1>1 DEF Inv, Types
      <3>3. \A u \in Tasks \ {t} : told'[u] = told[u]
        BY <2>3 DEF Inv, Types
      <3>. QED
        BY <2>1, <3>1, <3>2, <3>3
    <2>. QED
      BY <1>7, <2>2, <2>3
  <1>9. \/ /\ reporter'[g].phase = "posting" /\ lost' = lost
           /\ told' = [told EXCEPT ![t] = Append(@, s)]
        \/ reporter'[g].phase = "refused" /\ told' = told
        \/ reporter'[g].phase = "refused" /\ lost' = lost + 1
    BY <1>4 DEF Send
  <1>10. reporter'[g].phase = "posting" => Len(told'[t]) = Len(told[t]) + 1 /\ lost' = lost
    <2>. HIDE DEF t, s
    <2>. QED
      BY <1>1, <1>9 DEF Inv, Types
  <1>11. reporter'[g].phase = "refused" => Len(told'[t]) <= lost'
    BY <1>3, <1>6, <1>8, <1>9
  <1>12. Len(told'[t]) <= 1 + lost'
    BY <1>3, <1>6, <1>8
  <1>13. \A u \in Tasks : Len(told[u]) \in Nat
    BY DEF Inv, Types
  <1>14. \A u \in Tasks : Len(told'[u]) >= Len(told[u])
    BY <1>8, <1>13
  <1>15. ToldOnce'
    BY <1>6, <1>8, <1>12, <1>13 DEF Inv, ToldOnce
  <1>16. PostedOnce'
    BY <1>2, <1>8, <1>13, <1>14 DEF Inv, Types, PostedOnce
  <1>17. \A u \in Tasks : task'[u].reported = Nobody =>
                            posted'[u] = 0 /\ Len(told'[u]) <= lost'
    <2>1. g # Nobody
      BY ReporterConstants
    <2>. QED
      BY <1>2, <1>3, <1>6, <1>8, <1>13, <2>1 DEF Inv, Claims
  <1>18. ASSUME NEW h \in Reporters, h # g,
                reporter'[h].phase \in {"sending", "refused", "posting"}
         PROVE  /\ reporter[h].phase = reporter'[h].phase /\ Item(h)' = Item(h)
                /\ Item(h).task \in Tasks \ {t}
    <2>1. reporter'[h] = reporter[h]
      BY <1>4, <1>18
    <2>2. Item(h) \in Reports
      BY <1>18, <2>1, ItemType DEF Inv
    <2>3. Item(h).task # t
      BY <1>2, <1>18, <2>1, InOneHand DEF Inv
    <2>. QED
      BY <2>1, <2>2, <2>3 DEF Item, Reports
  <1>19. ASSUME NEW h \in Reporters, reporter'[h].phase \in {"sending", "refused"}
         PROVE  /\ task'[Item(h)'.task].reported = h
                /\ posted'[Item(h)'.task] = 0 /\ Len(told'[Item(h)'.task]) <= lost'
    <2>1. CASE h = g
      BY <1>2, <1>3, <1>4, <1>5, <1>11, <1>19, <2>1
    <2>2. CASE h # g
      BY <1>2, <1>6, <1>8, <1>13, <1>18, <1>19, <2>2 DEF Inv, Claims
    <2>. QED
      BY <2>1, <2>2
  <1>20. ASSUME NEW h \in Reporters, reporter'[h].phase = "posting"
         PROVE  /\ task'[Item(h)'.task].reported = h
                /\ posted'[Item(h)'.task] = 0 /\ Len(told'[Item(h)'.task]) >= 1
    <2>1. CASE h = g
      BY <1>2, <1>3, <1>5, <1>8, <1>10, <1>20, <2>1
    <2>2. CASE h # g
      BY <1>2, <1>13, <1>14, <1>18, <1>20, <2>2 DEF Inv, Claims
    <2>. QED
      BY <2>1, <2>2
  <1>. QED
    BY <1>15, <1>16, <1>17, <1>19, <1>20 DEF Claims

LEMMA UnmarkClaims ==
    ASSUME Inv, NEW g \in Reporters, UnmarkReported(g)
    PROVE  Claims' /\ ToldOnce' /\ PostedOnce'
  <1>. DEFINE t == Item(g).task
  <1>1. reporter[g].batch # <<>> /\ t \in Tasks /\ reporter[g].phase = "refused"
    BY ItemType DEF Inv, UnmarkReported, Reports
  <1>2. UNCHANGED <<told, posted, lost>> /\ ToldOnce' /\ PostedOnce'
    BY DEF UnmarkReported, Inv, ToldOnce, PostedOnce
  <1>3. task[t].reported = g /\ posted[t] = 0 /\ Len(told[t]) <= lost
    BY <1>1 DEF Inv, Claims
  <1>4. task' = [task EXCEPT ![t].reported = Nobody]
    BY <1>3 DEF UnmarkReported
  <1>5. \A u \in Tasks \ {t} : task'[u].reported = task[u].reported
    <2>. HIDE DEF t
    <2>. QED
      BY <1>1, <1>4 DEF Inv, Types, TaskRows
  <1>6. /\ \A h \in Reporters \ {g} : reporter'[h] = reporter[h]
        /\ reporter'[g].phase \in {"idle", "loop"}
    BY <1>1, NextItemStep DEF Inv, UnmarkReported
  <1>7. \A u \in Tasks : task'[u].reported = Nobody =>
                           posted'[u] = 0 /\ Len(told'[u]) <= lost'
    BY <1>2, <1>3, <1>5 DEF Inv, Claims
  <1>8. ASSUME NEW h \in Reporters,
               reporter'[h].phase \in {"sending", "refused", "posting"}
        PROVE  /\ reporter[h].phase = reporter'[h].phase /\ Item(h)' = Item(h)
               /\ Item(h).task \in Tasks \ {t}
    <2>1. h # g /\ reporter'[h] = reporter[h]
      BY <1>6, <1>8
    <2>2. Item(h) \in Reports
      BY <1>8, <2>1, ItemType DEF Inv
    <2>3. Item(h).task # t
      BY <1>1, <1>8, <2>1, InOneHand DEF Inv
    <2>. QED
      BY <2>1, <2>2, <2>3 DEF Item, Reports
  <1>9. \A h \in Reporters :
          /\ reporter'[h].phase \in {"sending", "refused"} =>
               /\ task'[Item(h)'.task].reported = h
               /\ posted'[Item(h)'.task] = 0 /\ Len(told'[Item(h)'.task]) <= lost'
          /\ reporter'[h].phase = "posting" =>
               /\ task'[Item(h)'.task].reported = h
               /\ posted'[Item(h)'.task] = 0 /\ Len(told'[Item(h)'.task]) >= 1
    BY <1>2, <1>5, <1>8 DEF Inv, Claims
  <1>. QED
    BY <1>2, <1>7, <1>9 DEF Claims

LEMMA ReportClaims ==
    ASSUME Inv, NEW g \in Reporters, ReportToThread(g)
    PROVE  Claims' /\ ToldOnce' /\ PostedOnce'
  <1>. DEFINE t == Item(g).task
  <1>1. reporter[g].batch # <<>> /\ t \in Tasks /\ reporter[g].phase = "posting"
    BY ItemType DEF Inv, ReportToThread, Reports
  <1>2. UNCHANGED <<task, told, lost>>
    BY DEF ReportToThread
  <1>3. task[t].reported = g /\ posted[t] = 0 /\ Len(told[t]) >= 1
    BY <1>1 DEF Inv, Claims
  <1>4. posted' = posted \/ posted' = [posted EXCEPT ![t] = @ + 1]
    BY DEF ReportToThread
  <1>5. posted'[t] \in {0, 1} /\ \A u \in Tasks \ {t} : posted'[u] = posted[u]
    <2>. HIDE DEF t
    <2>. QED
      BY <1>1, <1>3, <1>4 DEF Inv, Types
  <1>6. /\ \A h \in Reporters \ {g} : reporter'[h] = reporter[h]
        /\ reporter'[g].phase \in {"idle", "loop"}
    BY <1>1, NextItemStep DEF Inv, ReportToThread
  <1>7. Len(told[t]) \in Nat
    BY <1>1 DEF Inv, Types
  <1>8. ToldOnce' /\ PostedOnce'
    BY <1>2, <1>3, <1>5, <1>7 DEF Inv, ToldOnce, PostedOnce
  <1>9. \A u \in Tasks : task'[u].reported = Nobody =>
                           posted'[u] = 0 /\ Len(told'[u]) <= lost'
    <2>1. g # Nobody
      BY ReporterConstants
    <2>. QED
      BY <1>2, <1>3, <1>5, <2>1 DEF Inv, Claims
  <1>10. ASSUME NEW h \in Reporters,
                reporter'[h].phase \in {"sending", "refused", "posting"}
         PROVE  /\ reporter[h].phase = reporter'[h].phase /\ Item(h)' = Item(h)
                /\ Item(h).task \in Tasks \ {t}
    <2>1. h # g /\ reporter'[h] = reporter[h]
      BY <1>6, <1>10
    <2>2. Item(h) \in Reports
      BY <1>10, <2>1, ItemType DEF Inv
    <2>3. Item(h).task # t
      BY <1>1, <1>10, <2>1, InOneHand DEF Inv
    <2>. QED
      BY <2>1, <2>2, <2>3 DEF Item, Reports
  <1>11. \A h \in Reporters :
          /\ reporter'[h].phase \in {"sending", "refused"} =>
               /\ task'[Item(h)'.task].reported = h
               /\ posted'[Item(h)'.task] = 0 /\ Len(told'[Item(h)'.task]) <= lost'
          /\ reporter'[h].phase = "posting" =>
               /\ task'[Item(h)'.task].reported = h
               /\ posted'[Item(h)'.task] = 0 /\ Len(told'[Item(h)'.task]) >= 1
    BY <1>2, <1>5, <1>10 DEF Inv, Claims
  <1>. QED
    BY <1>8, <1>9, <1>11 DEF Claims

----------------------------------------------------------------------------
(* What a batch says                                                        *)

LEMMA BatchReports ==
    ASSUME Types, NEW g \in Reporters, NEW i \in DOMAIN reporter[g].batch
    PROVE  reporter[g].batch[i] \in Reports
  <1>1. reporter[g].batch \in Seq(Reports)
    BY DEF Types, Loops
  <1>. QED
    BY <1>1, LenProperties

(* A batch that only gets shorter stays true while no task ends or is resumed. *)
LEMMA BatchesKept ==
    ASSUME Types, Batches, UNCHANGED outcomes,
           \A t \in Tasks : task'[t].state = task[t].state,
           \A h \in Reporters : \A i \in DOMAIN reporter'[h].batch :
             \E j \in DOMAIN reporter[h].batch : reporter'[h].batch[i] = reporter[h].batch[j]
    PROVE  Batches'
  <1>1. ASSUME NEW h \in Reporters, NEW i \in DOMAIN reporter'[h].batch
        PROVE  LET r == reporter'[h].batch[i] IN
               /\ outcomes'[r.task] >= 1
               /\ r.state = "canceled" => \/ task'[r.task].state = "canceled"
                                          \/ outcomes'[r.task] > 1
    <2>1. PICK j \in DOMAIN reporter[h].batch : reporter'[h].batch[i] = reporter[h].batch[j]
      OBVIOUS
    <2>2. reporter[h].batch[j].task \in Tasks
      BY BatchReports DEF Reports
    <2>. QED
      BY <2>1, <2>2 DEF Batches
  <1>. QED
    BY <1>1 DEF Batches

LEMMA NextItemBatches ==
    ASSUME Types, Batches, NEW g \in Reporters, NextItem(g), reporter[g].batch # <<>>,
           UNCHANGED outcomes, \A t \in Tasks : task'[t].state = task[t].state
    PROVE  Batches'
  <1>1. \A h \in Reporters : \A i \in DOMAIN reporter'[h].batch :
          \E j \in DOMAIN reporter[h].batch : reporter'[h].batch[i] = reporter[h].batch[j]
    BY NextItemStep
  <1>. QED
    BY <1>1, BatchesKept

LEMMA BatchesStep ==
    ASSUME Inv, Types', [Next]_vars
    PROVE  Batches'
  <1>. USE ReporterConstants DEF Inv
  <1>1. ASSUME NEW t \in Tasks, NEW s \in Ends, NEW a \in Agents, EndTask(t, s, a)
        PROVE  Batches'
    <2>1. /\ UNCHANGED reporter
          /\ \A u \in Tasks \ {t} : task'[u] = task[u] /\ outcomes'[u] = outcomes[u]
          /\ outcomes'[t] = outcomes[t] + 1 /\ outcomes[t] \in Nat
      BY <1>1 DEF EndTask, Types
    <2>2. \A u \in Tasks : task'[u].state \in Terminal => outcomes'[u] >= 1
      BY <2>1 DEF Batches
    <2>3. ASSUME NEW h \in Reporters, NEW i \in DOMAIN reporter[h].batch
          PROVE  LET r == reporter[h].batch[i] IN
                 /\ outcomes'[r.task] >= 1
                 /\ r.state = "canceled" => \/ task'[r.task].state = "canceled"
                                            \/ outcomes'[r.task] > 1
      <3>1. reporter[h].batch[i].task \in Tasks
        BY BatchReports DEF Reports
      <3>2. outcomes[reporter[h].batch[i].task] >= 1
        BY DEF Batches
      <3>. QED
        BY <2>1, <3>1, <3>2 DEF Batches
    <2>. QED
      BY <2>1, <2>2, <2>3 DEF Batches
  <1>2. ASSUME NEW t \in Tasks, ResumeTask(t) PROVE Batches'
    <2>1. /\ UNCHANGED <<reporter, outcomes>> /\ task[t].state = "failed"
          /\ task'[t].state = "open"
          /\ \A u \in Tasks \ {t} : task'[u] = task[u]
      BY <1>2 DEF ResumeTask, Types, TaskRows
    <2>2. \A u \in Tasks : task'[u].state \in Terminal => outcomes'[u] >= 1
      BY <2>1 DEF Batches, Terminal
    <2>3. ASSUME NEW h \in Reporters, NEW i \in DOMAIN reporter[h].batch
          PROVE  LET r == reporter[h].batch[i] IN
                 /\ outcomes'[r.task] >= 1
                 /\ r.state = "canceled" => \/ task'[r.task].state = "canceled"
                                            \/ outcomes'[r.task] > 1
      <3>1. reporter[h].batch[i].task \in Tasks
        BY BatchReports DEF Reports
      <3>. QED
        BY <2>1, <3>1 DEF Batches
    <2>. QED
      BY <2>1, <2>2, <2>3 DEF Batches
  <1>3. ASSUME NEW g \in Reporters, ReadPending(g) PROVE Batches'
    <2>1. PICK s \in Oldest(Pending(AgentOf[g])) :
            reporter' = [reporter EXCEPT ![g] =
                           [phase |-> "loop",
                            batch |-> [i \in DOMAIN s |->
                                         [task |-> updated[s[i]],
                                          state |-> task[updated[s[i]]].state]]]]
      BY <1>3 DEF ReadPending
    <2>. DEFINE batch == [i \in DOMAIN s |-> [task |-> updated[s[i]],
                                              state |-> task[updated[s[i]]].state]]
    <2>2. \A i \in DOMAIN batch : /\ batch[i].task \in Tasks
                                   /\ batch[i].state = task[batch[i].task].state
                                   /\ batch[i].state \in Terminal
      BY BatchRead
    <2>. HIDE DEF batch
    <2>3. reporter' = [reporter EXCEPT ![g] = [phase |-> "loop", batch |-> batch]]
      BY <2>1 DEF batch
    <2>4. UNCHANGED <<task, outcomes>>
      BY <1>3 DEF ReadPending
    <2>5. reporter'[g].batch = batch /\ \A h \in Reporters \ {g} : reporter'[h] = reporter[h]
      BY <2>3 DEF Types
    <2>6. ASSUME NEW i \in DOMAIN batch
          PROVE  /\ outcomes[batch[i].task] >= 1
                 /\ batch[i].state = "canceled" => task[batch[i].task].state = "canceled"
      BY <2>2 DEF Batches
    <2>. QED
      BY <2>4, <2>5, <2>6 DEF Batches
  <1>4. ASSUME NEW g \in Reporters, MarkReported(g) \/ UnmarkReported(g) PROVE Batches'
    <2>. DEFINE t == Item(g).task
    <2>1. reporter[g].batch # <<>> /\ t \in Tasks
      BY <1>4, ItemType DEF MarkReported, UnmarkReported, Reports
    <2>2. UNCHANGED outcomes
      BY <1>4 DEF MarkReported, UnmarkReported
    <2>3. \A u \in Tasks : task'[u].state = task[u].state
      <3>1. \/ task' = task
            \/ task' = [task EXCEPT ![t].reported = g]
            \/ task' = [task EXCEPT ![t].reported = Nobody]
        BY <1>4 DEF MarkReported, UnmarkReported
      <3>. HIDE DEF t
      <3>2. ASSUME NEW m, task' = [task EXCEPT ![t].reported = m]
            PROVE  \A u \in Tasks : task'[u].state = task[u].state
        BY <2>1, <3>2 DEF Types, TaskRows
      <3>. QED
        BY <3>1, <3>2
    <2>4. CASE NextItem(g)
      BY <2>1, <2>2, <2>3, <2>4, NextItemBatches
    <2>5. CASE Stay(g, "sending")
      <3>1. \A h \in Reporters : reporter'[h].batch = reporter[h].batch
        BY <2>1, <2>5, StayStep DEF Phases
      <3>. QED
        BY <2>2, <2>3, <3>1, BatchesKept
    <2>. QED
      BY <1>4, <2>4, <2>5 DEF MarkReported, UnmarkReported
  <1>5. ASSUME NEW g \in Reporters, MarkFails(g) \/ UnmarkFails(g) \/ ReportToThread(g)
        PROVE  Batches'
    <2>1. reporter[g].batch # <<>>
      BY <1>5, ItemType DEF MarkFails, UnmarkFails, ReportToThread
    <2>2. NextItem(g) /\ UNCHANGED <<task, outcomes>>
      BY <1>5 DEF MarkFails, UnmarkFails, ReportToThread
    <2>. QED
      BY <2>1, <2>2, NextItemBatches
  <1>6. ASSUME NEW g \in Reporters, Send(g) PROVE Batches'
    <2>1. reporter[g].batch # <<>>
      BY <1>6, ItemType DEF Send
    <2>2. (Stay(g, "posting") \/ Stay(g, "refused")) /\ UNCHANGED <<task, outcomes>>
      BY <1>6 DEF Send
    <2>3. \A h \in Reporters : reporter'[h].batch = reporter[h].batch
      BY <2>1, <2>2, StayStep DEF Phases
    <2>. QED
      BY <2>2, <2>3, BatchesKept
  <1>7. ASSUME NEW g \in Reporters, Crash(g) \/ Start(g) PROVE Batches'
    <2>1. UNCHANGED <<task, outcomes>>
      BY <1>7 DEF Crash, Start
    <2>2. /\ \A h \in Reporters \ {g} : reporter'[h] = reporter[h]
          /\ reporter'[g].batch = <<>>
      BY <1>7 DEF Crash, Start, Down, Idle, Types
    <2>. QED
      BY <2>1, <2>2, BatchesKept
  <1>8. CASE UNCHANGED vars
    BY <1>8 DEF vars, Batches
  <1>. QED
    BY <1>1, <1>2, <1>3, <1>4, <1>5, <1>6, <1>7, <1>8 DEF Next, Tick

----------------------------------------------------------------------------
(* Markers that are kept                                                    *)

(* Nothing that excuses or carries a marker is given up by these steps. *)
LEMMA MarkersKept ==
    ASSUME Inv, Types', NEW g \in Reporters,
           \A t \in Tasks : /\ task'[t].reported = task[t].reported
                            /\ task'[t].state = task[t].state
                            /\ told[t] # <<>> => told'[t] # <<>>,
           UNCHANGED outcomes, outages' >= outages,
           \A h \in Reporters \ {g} : reporter'[h] = reporter[h],
           \/ reporter[g].phase \notin {"sending", "refused"}
           \/ /\ reporter'[g].phase \in {"sending", "refused"}
              /\ reporter'[g].batch = reporter[g].batch
           \/ told'[Item(g).task] # <<>>
           \/ outages' > 0
    PROVE  MarkersAreKept'
  <1>. SUFFICES ASSUME NEW t \in Tasks,
                       task'[t].reported # Nobody, told'[t] = <<>>, ~(outages' > 0),
                       ~(outcomes'[t] > 1), task'[t].state # "canceled"
                PROVE  \E h \in Reporters :
                         /\ task'[t].reported = h
                         /\ reporter'[h].phase \in {"sending", "refused"}
                         /\ Item(h)'.task = t
    BY DEF MarkersAreKept
  <1>1. ~(outages > 0)
    BY ReporterConstants DEF Inv, Types
  <1>2. PICK h \in Reporters : /\ task[t].reported = h
                               /\ reporter[h].phase \in {"sending", "refused"}
                               /\ Item(h).task = t
    BY <1>1 DEF Inv, MarkersAreKept
  <1>3. CASE h # g
    BY <1>2, <1>3 DEF Item
  <1>4. CASE h = g
    BY <1>2, <1>4 DEF Item
  <1>. QED
    BY <1>3, <1>4

LEMMA MarkersStep ==
    ASSUME Inv, Types', Claims', [Next]_vars
    PROVE  MarkersAreKept'
  <1>. USE ReporterConstants
  <1>1. ASSUME NEW t \in Tasks, NEW s \in Ends, NEW a \in Agents, EndTask(t, s, a)
        PROVE  MarkersAreKept'
    <2>1. /\ UNCHANGED <<reporter, told, outages>>
          /\ \A u \in Tasks \ {t} : task'[u] = task[u] /\ outcomes'[u] = outcomes[u]
          /\ outcomes'[t] = outcomes[t] + 1 /\ outcomes[t] \in Nat
          /\ task'[t].reported = task[t].reported
          /\ task'[t].state = s
      BY <1>1 DEF EndTask, Inv, Types, TaskRows
    <2>2. \A h \in Reporters : Item(h)' = Item(h)
      BY <2>1 DEF Item
    <2>3. CASE task[t].state \in Terminal
      <3>1. outcomes'[t] > 1
        BY <2>1, <2>3 DEF Inv, Batches
      <3>. QED
        BY <2>1, <2>2, <3>1 DEF Inv, MarkersAreKept
    <2>4. CASE task[t].state \notin Terminal
      <3>1. task[t].state # "canceled"
        BY <2>4 DEF Terminal
      <3>2. outcomes[t] > 1 => outcomes'[t] > 1
        BY <2>1
      <3>. QED
        BY <2>1, <2>2, <3>1, <3>2 DEF Inv, MarkersAreKept
    <2>. QED
      BY <2>3, <2>4
  <1>2. ASSUME NEW t \in Tasks, ResumeTask(t) PROVE MarkersAreKept'
    <2>1. /\ UNCHANGED <<reporter, told, outages, outcomes>>
          /\ \A u \in Tasks \ {t} : task'[u] = task[u]
          /\ task'[t].reported = task[t].reported
          /\ task[t].state = "failed"
      BY <1>2 DEF ResumeTask, Inv, Types, TaskRows
    <2>2. \A h \in Reporters : Item(h)' = Item(h)
      BY <2>1 DEF Item
    <2>. QED
      BY <2>1, <2>2 DEF Inv, MarkersAreKept
  <1>3. ASSUME NEW g \in Reporters, ReadPending(g) PROVE MarkersAreKept'
    <2>1. /\ UNCHANGED <<task, told, outcomes, outages>> /\ reporter[g].phase = "idle"
          /\ \A h \in Reporters \ {g} : reporter'[h] = reporter[h]
      BY <1>3 DEF ReadPending, Inv, Types
    <2>2. outages' >= outages
      BY <2>1 DEF Inv, Types
    <2>. QED
      BY <2>1, <2>2, MarkersKept
  <1>4. ASSUME NEW g \in Reporters, MarkReported(g) PROVE MarkersAreKept'
    <2>. DEFINE t == Item(g).task
    <2>1. /\ reporter[g].batch # <<>> /\ Item(g) \in Reports /\ t \in Tasks
          /\ reporter[g].phase = "loop"
      BY <1>4, ItemType DEF MarkReported, Reports, Inv
    <2>2. UNCHANGED <<told, outcomes, outages>>
      BY <1>4 DEF MarkReported
    <2>3. \A h \in Reporters \ {g} : reporter'[h] = reporter[h]
      <3>1. NextItem(g) \/ Stay(g, "sending")
        BY <1>4 DEF MarkReported
      <3>. QED
        BY <2>1, <3>1, NextItemStep, StayStep DEF Inv, Phases
    <2>4. CASE UNCHANGED task
      <3>1. outages' >= outages
        BY <2>2 DEF Inv, Types
      <3>2. reporter[g].phase \notin {"sending", "refused"}
        BY <2>1
      <3>. QED
        BY <2>2, <2>3, <2>4, <3>1, <3>2, MarkersKept
    <2>5. CASE task' = [task EXCEPT ![t].reported = g]
      <3>1. /\ task'[t].reported = g
            /\ \A u \in Tasks : /\ task'[u].state = task[u].state
                                /\ u # t => task'[u].reported = task[u].reported
        <4>. HIDE DEF t
        <4>1. task \in [Tasks -> TaskRows] /\ t \in Tasks
          BY <2>1 DEF Inv, Types
        <4>2. \A row \in TaskRows : LET new == [row EXCEPT !.reported = g] IN
                 new.reported = g /\ new.state = row.state
          BY DEF TaskRows
        <4>. QED
          BY <2>5, <4>1, <4>2
      <3>2. ASSUME NEW u \in Tasks \ {t},
                   task'[u].reported # Nobody, told'[u] = <<>>, ~(outages' > 0),
                   ~(outcomes'[u] > 1), task'[u].state # "canceled"
            PROVE  \E h \in Reporters : /\ task'[u].reported = h
                                        /\ reporter'[h].phase \in {"sending", "refused"}
                                        /\ Item(h)'.task = u
        <4>1. PICK h \in Reporters : /\ task[u].reported = h
                                     /\ reporter[h].phase \in {"sending", "refused"}
                                     /\ Item(h).task = u
          BY <2>2, <3>1, <3>2 DEF Inv, MarkersAreKept
        <4>2. h # g
          BY <2>1, <4>1
        <4>. QED
          BY <2>3, <3>1, <4>1, <4>2 DEF Item
      <3>3. CASE Item(g).state # "canceled" /\ Stay(g, "sending")
        <4>1. reporter'[g].phase = "sending" /\ reporter'[g].batch = reporter[g].batch
          BY <2>1, <3>3, StayStep DEF Inv, Phases
        <4>2. Item(g)' = Item(g)
          BY <4>1 DEF Item
        <4>. QED
          BY <3>1, <3>2, <4>1, <4>2 DEF MarkersAreKept
      <3>4. CASE Item(g).state = "canceled"
        <4>1. 1 \in DOMAIN reporter[g].batch /\ Item(g) = reporter[g].batch[1]
          BY <2>1, TailOfBatch DEF Inv, Types, Loops, Item
        <4>2. task[t].state = "canceled" \/ outcomes[t] > 1
          BY <3>4, <4>1 DEF Inv, Batches
        <4>. QED
          BY <2>2, <3>1, <3>2, <4>2 DEF MarkersAreKept
      <3>. QED
        BY <1>4, <2>4, <3>3, <3>4 DEF MarkReported
    <2>. QED
      BY <1>4, <2>4, <2>5 DEF MarkReported
  <1>5. ASSUME NEW g \in Reporters, MarkFails(g) \/ UnmarkFails(g) PROVE MarkersAreKept'
    <2>1. reporter[g].batch # <<>>
      BY <1>5, ItemType DEF MarkFails, UnmarkFails, Inv
    <2>2. /\ NextItem(g) /\ UNCHANGED <<task, told, outcomes>>
          /\ outages' > 0 /\ outages' >= outages
      BY <1>5 DEF MarkFails, UnmarkFails, Outage, Inv, Types
    <2>3. \A h \in Reporters \ {g} : reporter'[h] = reporter[h]
      BY <2>1, <2>2, NextItemStep DEF Inv
    <2>. QED
      BY <2>2, <2>3, MarkersKept
  <1>6. ASSUME NEW g \in Reporters, Send(g) PROVE MarkersAreKept'
    <2>. DEFINE t == Item(g).task
                s == Item(g).state
    <2>1. reporter[g].batch # <<>> /\ t \in Tasks /\ s \in Terminal
      BY <1>6, ItemType DEF Send, Reports, Inv
    <2>2. Stay(g, "posting") \/ Stay(g, "refused")
      BY <1>6 DEF Send
    <2>3. /\ \A h \in Reporters \ {g} : reporter'[h] = reporter[h]
          /\ reporter'[g].batch = reporter[g].batch
          /\ Stay(g, "posting") => reporter'[g].phase = "posting"
          /\ Stay(g, "refused") => reporter'[g].phase = "refused"
      BY <2>1, <2>2, StayStep DEF Inv, Phases
    <2>4. UNCHANGED <<task, outcomes, outages>> /\ outages' >= outages
      BY <1>6 DEF Send, Inv, Types
    <2>5. told' = told \/ told' = [told EXCEPT ![t] = Append(@, s)]
      BY <1>6 DEF Send
    <2>6. \A u \in Tasks : told[u] # <<>> => told'[u] # <<>>
      <3>. HIDE DEF t, s
      <3>1. Append(told[t], s) # <<>>
        <4>1. told[t] \in Seq(Terminal)
          BY <2>1 DEF Inv, Types
        <4>2. Len(Append(told[t], s)) = Len(told[t]) + 1 /\ Len(told[t]) \in Nat
          BY <2>1, <4>1
        <4>3. Len(<<>>) = 0
          OBVIOUS
        <4>. QED
          BY <4>2, <4>3
      <3>. QED
        BY <2>1, <2>5, <3>1 DEF Inv, Types
    <2>7. reporter'[g].phase = "posting" => told'[t] # <<>>
      <3>1. Item(g)' = Item(g)
        BY <2>3 DEF Item
      <3>2. reporter'[g].phase = "posting" => Len(told'[t]) >= 1
        BY <3>1 DEF Claims
      <3>3. Len(<<>>) = 0
        OBVIOUS
      <3>. QED
        BY <3>2, <3>3
    <2>. QED
      BY <2>2, <2>3, <2>4, <2>6, <2>7, MarkersKept
  <1>7. ASSUME NEW g \in Reporters, UnmarkReported(g) PROVE MarkersAreKept'
    <2>. DEFINE t == Item(g).task
    <2>1. reporter[g].batch # <<>> /\ t \in Tasks /\ reporter[g].phase = "refused"
      BY <1>7, ItemType DEF UnmarkReported, Reports, Inv
    <2>2. UNCHANGED <<told, outcomes, outages>>
      BY <1>7 DEF UnmarkReported
    <2>3. \A h \in Reporters \ {g} : reporter'[h] = reporter[h]
      BY <1>7, <2>1, NextItemStep DEF UnmarkReported, Inv
    <2>4. task' = [task EXCEPT ![t].reported = Nobody]
      <3>1. task[t].reported = g
        BY <2>1 DEF Inv, Claims
      <3>. QED
        BY <1>7, <3>1 DEF UnmarkReported
    <2>5. /\ task'[t].reported = Nobody
          /\ \A u \in Tasks : /\ task'[u].state = task[u].state
                              /\ u # t => task'[u].reported = task[u].reported
      <3>. HIDE DEF t
      <3>1. task \in [Tasks -> TaskRows]
        BY DEF Inv, Types
      <3>2. \A row \in TaskRows : LET new == [row EXCEPT !.reported = Nobody] IN
               new.reported = Nobody /\ new.state = row.state
        BY DEF TaskRows
      <3>. QED
        BY <2>1, <2>4, <3>1, <3>2
    <2>6. \A h \in Reporters \ {g} : Item(h)' = Item(h)
      BY <2>3 DEF Item
    <2>. QED
      <3>. HIDE DEF t
      <3>. SUFFICES ASSUME NEW u \in Tasks, u # t
                    PROVE  MarkersAreKept!(u)'
        BY <2>5 DEF MarkersAreKept
      <3>1. MarkersAreKept!(u)
        BY DEF Inv, MarkersAreKept
      <3>2. task'[u].reported = task[u].reported /\ task'[u].state = task[u].state
        BY <2>5
      <3>3. task[u].reported = g => ~ (Item(g).task = u)
        BY DEF t
      <3>. QED
        BY <2>2, <2>3, <2>6, <3>1, <3>2, <3>3
  <1>8. ASSUME NEW g \in Reporters, ReportToThread(g) PROVE MarkersAreKept'
    <2>1. reporter[g].batch # <<>> /\ reporter[g].phase = "posting"
      BY <1>8, ItemType DEF ReportToThread, Inv
    <2>2. /\ NextItem(g) /\ UNCHANGED <<task, told, outcomes>> /\ outages' >= outages
      BY <1>8 DEF ReportToThread, Outage, Inv, Types
    <2>3. \A h \in Reporters \ {g} : reporter'[h] = reporter[h]
      BY <2>1, <2>2, NextItemStep DEF Inv
    <2>. QED
      BY <2>1, <2>2, <2>3, MarkersKept
  <1>9. ASSUME NEW g \in Reporters, Crash(g) PROVE MarkersAreKept'
    <2>1. outages' > 0
      BY <1>9 DEF Crash, Outage, Inv, Types
    <2>. QED
      BY <2>1 DEF MarkersAreKept
  <1>10. ASSUME NEW g \in Reporters, Start(g) PROVE MarkersAreKept'
    <2>1. /\ UNCHANGED <<task, told, outcomes, outages>> /\ reporter[g].phase = "down"
          /\ \A h \in Reporters \ {g} : reporter'[h] = reporter[h] /\ outages' >= outages
      BY <1>10 DEF Start, Inv, Types
    <2>2. outages' >= outages
      BY <2>1 DEF Inv, Types
    <2>. QED
      BY <2>1, <2>2, MarkersKept
  <1>11. CASE UNCHANGED vars
    BY <1>11 DEF vars, Inv, MarkersAreKept, Item
  <1>. QED
    BY <1>1, <1>2, <1>3, <1>4, <1>5, <1>6, <1>7, <1>8, <1>9, <1>10, <1>11 DEF Next, Tick

----------------------------------------------------------------------------
(* The theorems                                                             *)

LEMMA StepClaims ==
    ASSUME Inv, Types', [Next]_vars
    PROVE  Claims' /\ ToldOnce' /\ PostedOnce'
  <1>1. ASSUME NEW t \in Tasks, NEW s \in Ends, NEW a \in Agents,
               EndTask(t, s, a)
        PROVE  Claims' /\ ToldOnce' /\ PostedOnce'
    <2>1. UNCHANGED <<reporter, told, posted, lost>>
      BY <1>1 DEF EndTask
    <2>2. \A u \in Tasks : task'[u].reported = task[u].reported
      BY <1>1 DEF EndTask, Inv, Types, TaskRows
    <2>. QED
      BY <2>1, <2>2, ClaimsKept DEF Inv
  <1>2. ASSUME NEW t \in Tasks, ResumeTask(t)
        PROVE  Claims' /\ ToldOnce' /\ PostedOnce'
    <2>1. UNCHANGED <<reporter, told, posted, lost>>
      BY <1>2 DEF ResumeTask
    <2>2. \A u \in Tasks : task'[u].reported = task[u].reported
      BY <1>2 DEF ResumeTask, Inv, Types, TaskRows
    <2>. QED
      BY <2>1, <2>2, ClaimsKept DEF Inv
  <1>3. ASSUME NEW g \in Reporters, ReadPending(g) \/ Crash(g) \/ Start(g)
        PROVE  Claims' /\ ToldOnce' /\ PostedOnce'
    <2>1. UNCHANGED <<task, told, posted, lost>>
      BY <1>3 DEF ReadPending, Crash, Start
    <2>2. \A h \in Reporters : \/ reporter'[h] = reporter[h]
                                \/ reporter'[h].phase \in {"down", "idle", "loop"}
      BY <1>3 DEF ReadPending, Crash, Start, Down, Idle, Inv, Types
    <2>. QED
      BY <2>1, <2>2, ClaimsKept DEF Inv
  <1>4. ASSUME NEW g \in Reporters, MarkFails(g) \/ UnmarkFails(g)
        PROVE  Claims' /\ ToldOnce' /\ PostedOnce'
    <2>1. reporter[g].batch # <<>>
      BY <1>4, ItemType DEF MarkFails, UnmarkFails, Inv
    <2>2. NextItem(g) /\ UNCHANGED <<task, told, posted, lost>>
      BY <1>4 DEF MarkFails, UnmarkFails
    <2>3. \A h \in Reporters : \/ reporter'[h] = reporter[h]
                                \/ reporter'[h].phase \in {"down", "idle", "loop"}
      BY <2>1, <2>2, NextItemStep DEF Inv
    <2>. QED
      BY <2>2, <2>3, ClaimsKept DEF Inv
  <1>5. CASE UNCHANGED vars
    BY <1>5, ClaimsKept DEF vars, Inv
  <1>. QED
    BY <1>1, <1>2, <1>3, <1>4, <1>5, MarkClaims, SendClaims, UnmarkClaims, ReportClaims
       DEF Next, Tick

LEMMA InvHolds == Spec => []Inv
  <1>1. Inv /\ [Next]_vars => Inv'
    BY StepType, StepClaims, BatchesStep, MarkersStep DEF Inv
  <1>. QED
    BY <1>1, InitInv, PTL DEF Spec

(* However many gateways report, whatever dies, and however often a task is     *)
(* resumed and ends again, the owner hears of it once, and once more for each  *)
(* send that arrived although its answer did not.                            *)
THEOREM OwnerIsToldOnce == Spec => []ToldOnce
  <1>1. Inv => ToldOnce
    BY DEF Inv
  <1>. QED
    BY <1>1, InvHolds, PTL

(* No task is posted to its thread twice, and none the owner was not told of.   *)
THEOREM ThreadIsToldOnce == Spec => []PostedOnce
  <1>1. Inv => PostedOnce
    BY DEF Inv
  <1>. QED
    BY <1>1, InvHolds, PTL

(* While no gateway and no statement fails, the marker of a task that ended     *)
(* once and was not canceled stands for news the owner has or is about to get. *)
THEOREM MarkersStandForNews == Spec => []MarkersAreKept
  <1>1. Inv => MarkersAreKept
    BY DEF Inv
  <1>. QED
    BY <1>1, InvHolds, PTL

-----------------------------------------------------------------------------
(* The dev server of a project, Preview.tla, for every value of its constants. *)

CONSTANTS Panel, Other, Main, Found, Ports, MaxRuns, MaxAsks, MaxChanges, MaxFaults

VARIABLES declared, run, current, listens, call, panel, down, overlapped, asks,
    changes, faults

Server == INSTANCE Preview

RunRows == [alive : BOOLEAN, done : BOOLEAN, state : {"none", "starting", "running", "exited"},
            port : Ports \cup {0}, probe : {"none", "dialling", "answered", "over"}, silent : BOOLEAN]

CallRows == [at : {"none", "take", "wait", "launch", "register"}, start : BOOLEAN, run : 0 .. MaxRuns]

PrevTypes ==
    /\ run \in [Server!Runs -> RunRows] /\ current \in 0 .. MaxRuns /\ listens \in [Ports -> 0 .. MaxRuns]
    /\ call \in [Server!Calls -> CallRows] /\ down \in BOOLEAN /\ overlapped \in BOOLEAN

RowsInv ==
    \A r \in Server!Runs :
        /\ run[r].state = "running" => run[r].probe = "over"
        /\ run[r].state = "exited" => run[r].done
        /\ run[r].done => ~run[r].alive
        /\ run[r].probe = "none" => run[r].state # "running"

ListensInv == \A p \in Ports : listens[p] # 0 => run[listens[p]].alive /\ run[listens[p]].port = p

(* What each call holds: nobody ends a run that was not told, and two never register the same. *)
CallsInv ==
    /\ call[Main].start = FALSE
    /\ \A c \in Server!Calls : /\ call[c].at \in {"launch", "register"} => call[c].start
                               /\ call[c].at \in {"wait", "register"} => call[c].run \in Server!Runs
                               /\ call[c].at = "register" => run[call[c].run].probe = "none"
                                                             /\ run[call[c].run].state = "starting"
    /\ \A c, d \in Server!Calls : c # d /\ call[c].at = "register" /\ call[d].at = "register"
                              => call[c].run # call[d].run
    /\ current # 0 => run[current].probe # "none"

Opens(c) == call[c].at # "none" /\ (call[c].start \/ c = Main)

(* Without an overlap one start or the end is under way at a time, and it has taken the run away. *)
AloneInv ==
    ~overlapped => /\ \A c, d \in Server!Calls : Opens(c) /\ Opens(d) => c = d
                   /\ \A c \in Server!Calls : Opens(c) /\ call[c].at # "take" => current = 0

PrevInv == PrevTypes /\ RowsInv /\ ListensInv /\ CallsInv /\ AloneInv /\ Server!NothingIsLeftRunning


LEMMA PrevStarts == Server!PreviewConstants /\ Server!Init => PrevInv
  <1>. SUFFICES ASSUME Server!PreviewConstants, Server!Init
                PROVE  PrevInv
    OBVIOUS
  <1>1. 0 \in 0 .. MaxRuns /\ Server!NoRun \in RunRows /\ Server!NoCall \in CallRows
    BY DEF Server!PreviewConstants, Server!NoRun, Server!NoCall, RunRows, CallRows
  <1>2. PrevTypes
    BY <1>1 DEF PrevTypes, Server!Init
  <1>3. \A r \in Server!Runs : ~run[r].alive /\ ~run[r].done /\ run[r].state = "none" /\ run[r].probe = "none"
    BY DEF Server!Init, Server!NoRun
  <1>4. \A c \in Server!Calls : call[c].at = "none" /\ call[c].start = FALSE
    BY DEF Server!Init, Server!NoCall
  <1>5. Main \in Server!Calls
    BY DEF Server!Calls
  <1>. QED
    BY <1>2, <1>3, <1>4, <1>5
       DEF PrevInv, RowsInv, ListensInv, CallsInv, AloneInv, Opens, Server!NothingIsLeftRunning, Server!Init

(* A step that touches neither calls nor runs. *)
LEMMA OthersKeep ==
    ASSUME PrevInv, UNCHANGED <<run, current, listens, call, down>>, overlapped' \in BOOLEAN,
           overlapped => overlapped'
    PROVE  PrevInv'
  BY DEF PrevInv, PrevTypes, RowsInv, ListensInv, CallsInv, AloneInv, Opens, Server!NothingIsLeftRunning, Server!Held

(* The row of a call that has just begun. *)
LEMMA NewCalls ==
    ASSUME Server!PreviewConstants
    PROVE  /\ \E q \in CallRows : q = [Server!NoCall EXCEPT !.at = "take", !.start = TRUE] /\ q.at = "take" /\ q.start = TRUE
           /\ \E q \in CallRows : q = [Server!NoCall EXCEPT !.at = "take"] /\ q.at = "take" /\ q.start = FALSE
  <1>1. Server!NoCall \in CallRows /\ Server!NoCall.start = FALSE
    BY DEF Server!NoCall, CallRows, Server!PreviewConstants
  <1>2. PICK q1, q2 : q1 = [Server!NoCall EXCEPT !.at = "take", !.start = TRUE] /\ q2 = [Server!NoCall EXCEPT !.at = "take"]
    OBVIOUS
  <1>3. q1 \in CallRows /\ q1.at = "take" /\ q1.start = TRUE
    BY <1>1, <1>2 DEF CallRows
  <1>4. q2 \in CallRows /\ q2.at = "take" /\ q2.start = FALSE
    BY <1>1, <1>2 DEF CallRows
  <1>. QED
    BY <1>2, <1>3, <1>4

(* A call begins. *)
LEMMA BeginsKeep ==
    ASSUME Server!PreviewConstants, PrevInv, NEW c \in Server!Calls, NEW s \in BOOLEAN, call[c].at = "none",
           NEW q \in CallRows, q.at = "take", q.start = s, call' = [call EXCEPT ![c] = q], c = Main => s = FALSE,
           UNCHANGED <<run, current, listens, down>>, overlapped' \in BOOLEAN, overlapped => overlapped',
           (s \/ c = Main) /\ Server!Overlaps => overlapped'
    PROVE  PrevInv'
  <1>3. PrevTypes /\ RowsInv /\ ListensInv /\ CallsInv /\ AloneInv /\ Server!NothingIsLeftRunning /\ Main \in Server!Calls
    BY DEF PrevInv, Server!Calls
  <1>4. /\ call'[c] = q /\ call' \in [Server!Calls -> CallRows]
        /\ \A d \in Server!Calls \ {c} : call'[d] = call[d]
    BY <1>3 DEF PrevTypes
  <1>5. PrevTypes' /\ RowsInv' /\ ListensInv'
    BY <1>3, <1>4 DEF PrevTypes, RowsInv, ListensInv
  <1>6. CallsInv'
    BY <1>3, <1>4 DEF CallsInv
  <1>7. AloneInv'
    BY <1>3, <1>4 DEF AloneInv, Opens, Server!Overlaps
  <1>8. Server!NothingIsLeftRunning'
    BY <1>3, <1>4 DEF Server!NothingIsLeftRunning, Server!Held
  <1>. QED
    BY <1>5, <1>6, <1>7, <1>8 DEF PrevInv

LEMMA StartsKeep ==
    ASSUME Server!PreviewConstants, PrevInv, NEW c \in {Panel, Other}, call[c].at = "none", call' = Server!Starts(c),
           UNCHANGED <<run, current, listens, down>>, overlapped' \in BOOLEAN, overlapped => overlapped',
           Server!Overlaps => overlapped'
    PROVE  PrevInv'
  <1>1. c \in Server!Calls /\ c # Main /\ call \in [Server!Calls -> CallRows]
    BY DEF Server!Calls, Server!PreviewConstants, PrevInv, PrevTypes
  <1>2. CASE declared = "server"
    <2>1. PICK q \in CallRows : q = [Server!NoCall EXCEPT !.at = "take", !.start = TRUE] /\ q.at = "take" /\ q.start = TRUE
      BY NewCalls
    <2>2. call' = [call EXCEPT ![c] = q]
      BY <1>2, <2>1 DEF Server!Starts
    <2>. QED
      BY <1>1, <2>1, <2>2, BeginsKeep
  <1>3. CASE declared # "server"
    <2>1. call' = call
      BY <1>1, <1>3 DEF Server!Starts
    <2>. QED
      BY <2>1, OthersKeep
  <1>. QED
    BY <1>2, <1>3

LEMMA CallsBegin ==
    ASSUME Server!PreviewConstants, PrevInv, Server!Asks \/ Server!ShutDown \/ Server!PollArrives \/ \E start \in BOOLEAN : Server!Presses(start)
    PROVE  PrevInv'
  <1>0. PICK plain \in CallRows : plain = [Server!NoCall EXCEPT !.at = "take"] /\ plain.at = "take" /\ plain.start = FALSE
    BY NewCalls
  <1>1. overlapped \in BOOLEAN /\ Main \in Server!Calls /\ Panel \in Server!Calls /\ Other \in Server!Calls
        /\ Main # Panel /\ Main # Other /\ Server!Overlaps \in BOOLEAN
    BY DEF PrevInv, PrevTypes, Server!Calls, Server!PreviewConstants, Server!Overlaps
  <1>2. CASE Server!Asks
    <2>1. call[Other].at = "none" /\ UNCHANGED <<run, current, listens, down>>
      BY <1>2 DEF Server!Asks, Server!NoCall
    <2>2. CASE call' = Server!Starts(Other) /\ overlapped' = (overlapped \/ Server!Overlaps)
      BY <1>1, <2>1, <2>2, StartsKeep
    <2>3. CASE call' = [call EXCEPT ![Other] = [Server!NoCall EXCEPT !.at = "take"]] /\ UNCHANGED overlapped
      <3>1. call' = [call EXCEPT ![Other] = plain]
        BY <1>0, <2>3
      <3>. QED
        BY <1>0, <1>1, <2>1, <2>3, <3>1, BeginsKeep
    <2>. QED
      BY <1>2, <2>2, <2>3 DEF Server!Asks
  <1>3. CASE Server!ShutDown
    <2>1. /\ call' = [call EXCEPT ![Main] = plain] /\ overlapped' = (overlapped \/ Server!Overlaps)
          /\ UNCHANGED <<run, current, listens, down>> /\ call[Main].at = "none"
      BY <1>0, <1>3 DEF Server!ShutDown, Server!NoCall
    <2>. QED
      BY <1>0, <1>1, <2>1, BeginsKeep
  <1>4. CASE Server!PollArrives
    <2>1. PICK starts \in BOOLEAN :
            /\ starts => call[Panel] = Server!NoCall
            /\ call' = IF starts THEN Server!Starts(Panel) ELSE call
            /\ overlapped' = (overlapped \/ (starts /\ Server!Overlaps))
            /\ UNCHANGED <<run, current, listens, down>>
      BY <1>4 DEF Server!PollArrives, Server!Wants
    <2>2. CASE starts
      <3>1. call[Panel].at = "none"
        BY <2>1, <2>2 DEF Server!NoCall
      <3>. QED
        BY <1>1, <2>1, <2>2, <3>1, StartsKeep
    <2>3. CASE ~starts
      BY <1>1, <2>1, <2>3, OthersKeep
    <2>. QED
      BY <2>2, <2>3
  <1>5. ASSUME NEW start \in BOOLEAN, Server!Presses(start)
        PROVE  PrevInv'
    <2>1. call[Panel].at = "none" /\ UNCHANGED <<run, current, listens, down>>
          /\ overlapped' = (overlapped \/ (start /\ Server!Overlaps))
      BY <1>5 DEF Server!Presses, Server!NoCall
    <2>2. CASE start
      <3>1. call' = Server!Starts(Panel)
        BY <1>5, <2>2 DEF Server!Presses
      <3>. QED
        BY <1>1, <2>1, <2>2, <3>1, StartsKeep
    <2>3. CASE ~start
      <3>1. call' = [call EXCEPT ![Panel] = plain]
        BY <1>0, <1>5, <2>3 DEF Server!Presses
      <3>. QED
        BY <1>0, <1>1, <2>1, <2>3, <3>1, BeginsKeep
    <2>. QED
      BY <2>2, <2>3
  <1>. QED
    BY <1>2, <1>3, <1>4, <1>5

(* A call goes on, or is over. *)
LEMMA Goes ==
    ASSUME PrevTypes, NEW c \in Server!Calls, NEW q \in CallRows, call' = [call EXCEPT ![c] = q]
    PROVE  call'[c] = q /\ call' \in [Server!Calls -> CallRows] /\ \A d \in Server!Calls \ {c} : call'[d] = call[d]
  BY DEF PrevTypes

LEMMA OverRow ==
    ASSUME Server!PreviewConstants
    PROVE  Server!NoCall \in CallRows /\ Server!NoCall.at = "none" /\ Server!NoCall.start = FALSE
  BY DEF Server!NoCall, CallRows, Server!PreviewConstants

(* Stop takes the run of the map, whoever it was started by. *)
LEMMA TakeKeeps ==
    ASSUME Server!PreviewConstants, PrevInv, NEW c \in Server!Calls, ~down, Server!Take(c)
    PROVE  PrevInv'
  <1>1. PrevTypes /\ RowsInv /\ ListensInv /\ CallsInv /\ AloneInv /\ Server!NothingIsLeftRunning /\ Main \in Server!Calls
    BY DEF PrevInv, Server!Calls
  <1>2. call[c].at = "take" /\ current' = 0 /\ UNCHANGED <<run, listens, overlapped>> /\ call[c] \in CallRows
        /\ current \in 0 .. MaxRuns /\ 0 \in 0 .. MaxRuns
    BY <1>1 DEF Server!Take, PrevTypes, Server!PreviewConstants
  <1>3. PICK q \in CallRows :
          /\ call' = [call EXCEPT ![c] = q]
          /\ \/ q.at = "wait" /\ q.run = current /\ current # 0 /\ ~run[current].done
                  /\ q.start = call[c].start /\ down' = down
             \/ /\ q.at = "launch" /\ q.start = call[c].start /\ call[c].start /\ down' = down
                /\ current # 0 => run[current].done
             \/ q.at = "none" /\ q.start = FALSE /\ down' = (c = Main) /\ (current # 0 => run[current].done)
    <2>1. CASE current # 0 /\ Server!EndsRun(current)
      <3>1. PICK q : q = [call[c] EXCEPT !.at = "wait", !.run = current]
        OBVIOUS
      <3>2. q \in CallRows /\ q.at = "wait" /\ q.run = current /\ q.start = call[c].start
        BY <1>2, <3>1 DEF CallRows
      <3>3. call' = [call EXCEPT ![c] = q] /\ down' = down
        BY <1>1, <2>1, <3>1 DEF Server!Take, PrevTypes
      <3>. QED
        BY <2>1, <3>2, <3>3 DEF Server!EndsRun
    <2>2. CASE ~(current # 0 /\ Server!EndsRun(current)) /\ call[c].start
      <3>1. PICK q : q = [call[c] EXCEPT !.at = "launch"]
        OBVIOUS
      <3>2. q \in CallRows /\ q.at = "launch" /\ q.start = call[c].start
        BY <1>2, <3>1 DEF CallRows
      <3>3. call' = [call EXCEPT ![c] = q] /\ down' = down
        BY <1>1, <2>2, <3>1 DEF Server!Take, PrevTypes
      <3>. QED
        BY <2>2, <3>2, <3>3 DEF Server!EndsRun
    <2>3. CASE ~(current # 0 /\ Server!EndsRun(current)) /\ ~call[c].start
      <3>1. call' = [call EXCEPT ![c] = Server!NoCall] /\ down' = (c = Main)
        BY <2>3 DEF Server!Take, Server!Ends
      <3>. QED
        BY <2>3, <3>1, OverRow DEF Server!EndsRun
    <2>. QED
      BY <2>1, <2>2, <2>3
  <1>4. /\ call'[c] = q /\ call' \in [Server!Calls -> CallRows] /\ \A d \in Server!Calls \ {c} : call'[d] = call[d]
    BY <1>1, <1>3, Goes
  <1>5. PrevTypes' /\ RowsInv' /\ ListensInv'
    BY <1>1, <1>2, <1>3, <1>4 DEF PrevTypes, RowsInv, ListensInv
  <1>6. current # 0 => current \in Server!Runs
    BY <1>2 DEF Server!Runs, Server!PreviewConstants
  <1>7. CallsInv'
    BY <1>1, <1>2, <1>3, <1>4, <1>6 DEF CallsInv
  <1>8. AloneInv'
    BY <1>1, <1>2, <1>3, <1>4 DEF AloneInv, Opens
  <1>9. Server!NothingIsLeftRunning'
    <2>. SUFFICES ASSUME NEW r \in Server!Runs, run[r].alive, ~overlapped
                  PROVE  Server!Held(r)' \/ (r = current /\ ~down)'
      BY <1>2 DEF Server!NothingIsLeftRunning
    <2>1. ~run[r].done
      BY <1>1 DEF RowsInv
    <2>2. CASE r = current /\ r # 0
      BY <1>3, <1>4, <2>1, <2>2 DEF Server!Held
    <2>3. CASE \E d \in Server!Calls : call[d].at \in {"wait", "register"} /\ call[d].run = r
      BY <1>2, <1>4, <2>3 DEF Server!Held
    <2>. QED
      BY <1>1, <2>2, <2>3 DEF Server!NothingIsLeftRunning, Server!Held, Server!Runs
  <1>. QED
    BY <1>5, <1>7, <1>8, <1>9 DEF PrevInv

LEMMA WaitedKeeps ==
    ASSUME Server!PreviewConstants, PrevInv, NEW c \in Server!Calls, ~down, Server!Waited(c)
    PROVE  PrevInv'
  <1>1. PrevTypes /\ RowsInv /\ ListensInv /\ CallsInv /\ AloneInv /\ Server!NothingIsLeftRunning /\ Main \in Server!Calls
    BY DEF PrevInv, Server!Calls
  <1>2. /\ call[c].at = "wait" /\ run[call[c].run].done /\ call[c].run \in Server!Runs
        /\ UNCHANGED <<run, current, listens, overlapped>> /\ call[c] \in CallRows
        /\ current \in 0 .. MaxRuns /\ 0 \in 0 .. MaxRuns
    BY <1>1 DEF Server!Waited, PrevTypes, Server!PreviewConstants, CallsInv
  <1>3. PICK q \in CallRows :
          /\ call' = [call EXCEPT ![c] = q]
          /\ \/ q.at = "launch" /\ q.start = call[c].start /\ call[c].start /\ down' = down
             \/ q.at = "none" /\ q.start = FALSE /\ down' = (c = Main)
    <2>1. CASE call[c].start
      <3>1. PICK q : q = [call[c] EXCEPT !.at = "launch", !.run = 0]
        OBVIOUS
      <3>2. q \in CallRows /\ q.at = "launch" /\ q.start = call[c].start
        BY <1>2, <3>1 DEF CallRows
      <3>3. call' = [call EXCEPT ![c] = q] /\ down' = down
        BY <1>1, <2>1, <3>1 DEF Server!Waited, PrevTypes
      <3>. QED
        BY <2>1, <3>2, <3>3
    <2>2. CASE ~call[c].start
      <3>1. call' = [call EXCEPT ![c] = Server!NoCall] /\ down' = (c = Main)
        BY <2>2 DEF Server!Waited, Server!Ends
      <3>. QED
        BY <3>1, OverRow
    <2>. QED
      BY <2>1, <2>2
  <1>4. /\ call'[c] = q /\ call' \in [Server!Calls -> CallRows] /\ \A d \in Server!Calls \ {c} : call'[d] = call[d]
    BY <1>1, <1>3, Goes
  <1>5. PrevTypes' /\ RowsInv' /\ ListensInv'
    BY <1>1, <1>2, <1>3, <1>4 DEF PrevTypes, RowsInv, ListensInv
  <1>7. CallsInv'
    BY <1>1, <1>2, <1>3, <1>4 DEF CallsInv
  <1>8. AloneInv'
    BY <1>1, <1>2, <1>3, <1>4 DEF AloneInv, Opens
  <1>9. Server!NothingIsLeftRunning'
    <2>. SUFFICES ASSUME NEW r \in Server!Runs, run[r].alive, ~overlapped
                  PROVE  Server!Held(r)' \/ (r = current /\ ~down)'
      BY <1>2 DEF Server!NothingIsLeftRunning
    <2>1. ~run[r].done /\ r # call[c].run
      BY <1>1, <1>2 DEF RowsInv
    <2>2. CASE r = current
      <3>1. c # Main
        BY <1>1, <1>2, <2>2 DEF AloneInv, Opens, Server!Runs
      <3>. QED
        BY <1>2, <1>3, <2>2, <3>1
    <2>3. CASE \E d \in Server!Calls : call[d].at \in {"wait", "register"} /\ call[d].run = r
      BY <1>2, <1>4, <2>1, <2>3 DEF Server!Held
    <2>. QED
      BY <1>1, <2>2, <2>3 DEF Server!NothingIsLeftRunning, Server!Held
  <1>. QED
    BY <1>5, <1>7, <1>8, <1>9 DEF PrevInv

(* A dev server is made for a call that starts one, or nothing comes of it. *)
LEMMA LaunchKeeps ==
    ASSUME Server!PreviewConstants, PrevInv, NEW c \in Server!Calls, ~down, Server!Launch(c)
    PROVE  PrevInv'
  <1>1. PrevTypes /\ RowsInv /\ ListensInv /\ CallsInv /\ AloneInv /\ Server!NothingIsLeftRunning /\ Main \in Server!Calls
    BY DEF PrevInv, Server!Calls
  <1>2. /\ call[c].at = "launch" /\ call[c].start /\ call[c] \in CallRows
        /\ current \in 0 .. MaxRuns /\ 0 \in 0 .. MaxRuns /\ c # Main
        /\ UNCHANGED <<current, listens, overlapped, down>>
    <2>1. call[c].at = "launch" /\ UNCHANGED <<current, listens, overlapped>> /\ UNCHANGED down
      BY DEF Server!Launch
    <2>2. call[c].start
      BY <1>1, <2>1 DEF CallsInv
    <2>3. call[Main].start = FALSE
      BY <1>1 DEF CallsInv
    <2>4. call[c] \in CallRows /\ current \in 0 .. MaxRuns /\ 0 \in 0 .. MaxRuns
      BY <1>1 DEF PrevTypes, Server!PreviewConstants
    <2>5. c # Main
      BY <2>2, <2>3
    <2>. QED
      BY <2>1, <2>2, <2>4, <2>5
  <1>3. CASE call' = [call EXCEPT ![c] = Server!NoCall] /\ UNCHANGED run
    <2>1. /\ call'[c] = Server!NoCall /\ call' \in [Server!Calls -> CallRows] /\ \A d \in Server!Calls \ {c} : call'[d] = call[d]
          /\ Server!NoCall.at = "none" /\ Server!NoCall.start = FALSE
      BY <1>1, <1>3, Goes, OverRow
    <2>2. PrevTypes' /\ RowsInv' /\ ListensInv'
      BY <1>1, <1>2, <1>3, <2>1 DEF PrevTypes, RowsInv, ListensInv
    <2>3. CallsInv'
      BY <1>1, <1>2, <1>3, <2>1 DEF CallsInv
    <2>4. AloneInv'
      BY <1>1, <1>2, <2>1 DEF AloneInv, Opens
    <2>5. Server!NothingIsLeftRunning'
      BY <1>1, <1>2, <1>3, <2>1 DEF Server!NothingIsLeftRunning, Server!Held
    <2>. QED
      BY <2>2, <2>3, <2>4, <2>5 DEF PrevInv
  <1>4. ASSUME NEW r \in Server!Runs, NEW p \in Ports, run[r] = Server!NoRun,
               run' = [run EXCEPT ![r] = [Server!NoRun EXCEPT !.alive = TRUE, !.state = "starting", !.port = p]],
               call' = [call EXCEPT ![c].at = "register", ![c].run = r]
        PROVE  PrevInv'
    <2>1. PICK q : q = [[call[c] EXCEPT !.at = "register"] EXCEPT !.run = r]
      OBVIOUS
    <2>0. r \in 0 .. MaxRuns
      BY DEF Server!PreviewConstants, Server!Runs
    <2>2. q \in CallRows /\ q.at = "register" /\ q.start /\ q.run = r
      BY <1>2, <2>0, <2>1 DEF CallRows
    <2>3. call' = [call EXCEPT ![c] = q]
      BY <1>1, <1>4, <2>1 DEF PrevTypes
    <2>4. /\ call'[c] = q /\ call' \in [Server!Calls -> CallRows] /\ \A d \in Server!Calls \ {c} : call'[d] = call[d]
      BY <1>1, <2>2, <2>3, Goes
    <2>5. PICK row : row = [Server!NoRun EXCEPT !.alive = TRUE, !.state = "starting", !.port = p]
      OBVIOUS
    <2>6. Server!NoRun \in RunRows /\ Server!NoRun.state = "none" /\ Server!NoRun.probe = "none" /\ ~Server!NoRun.alive /\ ~Server!NoRun.done
      BY DEF Server!NoRun, RunRows
    <2>7. row \in RunRows /\ row.alive /\ row.state = "starting" /\ row.port = p /\ row.probe = "none" /\ ~row.done
      BY <2>5, <2>6 DEF RunRows
    <2>8. run' \in [Server!Runs -> RunRows] /\ run'[r] = row /\ \A s \in Server!Runs \ {r} : run'[s] = run[s]
      BY <1>1, <1>4, <2>5, <2>7 DEF PrevTypes
    <2>9. PrevTypes'
      BY <1>1, <1>2, <2>4, <2>8 DEF PrevTypes
    <2>10. RowsInv'
      BY <1>1, <2>7, <2>8 DEF RowsInv
    <2>11. ListensInv'
      <3>1. \A x \in Ports : listens[x] # 0 => listens[x] # r /\ listens[x] \in Server!Runs
        BY <1>1, <1>4, <2>6 DEF ListensInv, PrevTypes, Server!Runs
      <3>. QED
        BY <1>1, <1>2, <2>8, <3>1 DEF ListensInv
    <2>12. CallsInv'
      <3>1. \A d \in Server!Calls : call[d].at = "register" => call[d].run # r
        BY <1>1, <1>4, <2>6 DEF CallsInv
      <3>2. current # 0 => current # r /\ current \in Server!Runs
        BY <1>1, <1>2, <1>4, <2>6 DEF CallsInv, Server!Runs
      <3>3. \A d \in Server!Calls : /\ call'[d].at \in {"launch", "register"} => call'[d].start
                                    /\ call'[d].at \in {"wait", "register"} => call'[d].run \in Server!Runs
                                    /\ call'[d].at = "register" => run'[call'[d].run].probe = "none"
                                                                   /\ run'[call'[d].run].state = "starting"
        <4>1. ASSUME NEW d \in Server!Calls
              PROVE  /\ call'[d].at \in {"launch", "register"} => call'[d].start
                     /\ call'[d].at \in {"wait", "register"} => call'[d].run \in Server!Runs
                     /\ call'[d].at = "register" => run'[call'[d].run].probe = "none"
                                                    /\ run'[call'[d].run].state = "starting"
          <5>1. CASE d = c
            BY <2>2, <2>4, <2>7, <2>8, <5>1
          <5>2. CASE d # c
            <6>1. call'[d] = call[d] /\ (call[d].at = "register" => call[d].run # r)
              BY <2>4, <3>1, <5>2
            <6>. QED
              BY <1>1, <2>8, <6>1 DEF CallsInv
          <5>. QED
            BY <5>1, <5>2
        <4>. QED
          BY <4>1
      <3>4. \A d, e \in Server!Calls : d # e /\ call'[d].at = "register" /\ call'[e].at = "register"
                                   => call'[d].run # call'[e].run
        BY <1>1, <2>2, <2>4, <3>1 DEF CallsInv
      <3>5. call'[Main].start = FALSE
        BY <1>1, <1>2, <2>4 DEF CallsInv
      <3>6. current' # 0 => run'[current'].probe # "none"
        BY <1>1, <1>2, <2>8, <3>2 DEF CallsInv
      <3>. QED
        BY <3>3, <3>4, <3>5, <3>6 DEF CallsInv
    <2>13. AloneInv'
      BY <1>1, <1>2, <2>2, <2>4 DEF AloneInv, Opens
    <2>14. Server!NothingIsLeftRunning'
      <3>. SUFFICES ASSUME NEW s \in Server!Runs, run'[s].alive, ~overlapped
                    PROVE  Server!Held(s)' \/ (s = current /\ ~down)'
        BY <1>2 DEF Server!NothingIsLeftRunning
      <3>1. CASE s = r
        BY <2>2, <2>4, <3>1 DEF Server!Held
      <3>2. CASE s # r
        <4>1. run[s].alive
          BY <2>8, <3>2
        <4>2. CASE \E d \in Server!Calls : call[d].at \in {"wait", "register"} /\ call[d].run = s
          BY <1>2, <2>4, <4>2 DEF Server!Held
        <4>. QED
          BY <1>1, <1>2, <4>1, <4>2 DEF Server!NothingIsLeftRunning, Server!Held
      <3>. QED
        BY <3>1, <3>2
    <2>. QED
      BY <2>9, <2>10, <2>11, <2>12, <2>13, <2>14 DEF PrevInv
  <1>. QED
    BY <1>3, <1>4 DEF Server!Launch

(* The channel's run is the one just started; the one before it was taken away. *)
LEMMA RegisterKeeps ==
    ASSUME Server!PreviewConstants, PrevInv, NEW c \in Server!Calls, ~down, Server!Register(c)
    PROVE  PrevInv'
  <1>1. PrevTypes /\ RowsInv /\ ListensInv /\ CallsInv /\ AloneInv /\ Server!NothingIsLeftRunning /\ Main \in Server!Calls
    BY DEF PrevInv, Server!Calls
  <1>2. PICK r \in Server!Runs : r = call[c].run /\ run[r].probe = "none" /\ run[r].state = "starting"
    BY <1>1 DEF Server!Register, CallsInv
  <1>3. /\ call[c].at = "register" /\ call[c].start /\ c # Main /\ r \in 0 .. MaxRuns /\ r # 0
        /\ current' = r /\ run' = [run EXCEPT ![r].probe = "dialling"] /\ UNCHANGED <<listens, overlapped>>
        /\ call' = [call EXCEPT ![c] = Server!NoCall] /\ down' = FALSE
    <2>1. call[c].at = "register" /\ call[c].start /\ c # Main
      <3>1. call[c].at = "register"
        BY DEF Server!Register
      <3>2. call[c].start /\ call[Main].start = FALSE
        BY <1>1, <3>1 DEF CallsInv
      <3>. QED
        BY <3>1, <3>2
    <2>2. r \in 0 .. MaxRuns /\ r # 0
      BY DEF Server!Runs, Server!PreviewConstants
    <2>3. /\ current' = r /\ run' = [run EXCEPT ![r].probe = "dialling"] /\ UNCHANGED <<listens, overlapped>>
          /\ call' = [call EXCEPT ![c] = Server!NoCall] /\ down' = (c = Main)
      BY <1>2 DEF Server!Register, Server!Ends
    <2>. QED
      BY <2>1, <2>2, <2>3
  <1>4. /\ call'[c] = Server!NoCall /\ call' \in [Server!Calls -> CallRows] /\ \A d \in Server!Calls \ {c} : call'[d] = call[d]
        /\ Server!NoCall.at = "none" /\ Server!NoCall.start = FALSE
    BY <1>1, <1>3, Goes, OverRow
  <1>5. PICK row : row = [run[r] EXCEPT !.probe = "dialling"]
    OBVIOUS
  <1>6. run[r] \in RunRows
    BY <1>1 DEF PrevTypes
  <1>7. row \in RunRows /\ row.probe = "dialling" /\ row.state = run[r].state /\ row.alive = run[r].alive
        /\ row.done = run[r].done /\ row.port = run[r].port
    BY <1>5, <1>6 DEF RunRows
  <1>8. run' \in [Server!Runs -> RunRows] /\ run'[r] = row /\ \A s \in Server!Runs \ {r} : run'[s] = run[s]
    BY <1>1, <1>3, <1>5, <1>7 DEF PrevTypes
  <1>9. PrevTypes'
    BY <1>1, <1>3, <1>4, <1>8 DEF PrevTypes
  <1>10. RowsInv'
    BY <1>1, <1>2, <1>7, <1>8 DEF RowsInv
  <1>11. ListensInv'
    <2>1. \A x \in Ports : listens[x] # 0 => listens[x] \in Server!Runs
      BY <1>1 DEF PrevTypes, Server!Runs
    <2>2. \A s \in Server!Runs : run'[s].alive = run[s].alive /\ run'[s].port = run[s].port
      BY <1>7, <1>8
    <2>. QED
      BY <1>1, <1>3, <2>1, <2>2 DEF ListensInv
  <1>12. CallsInv'
    <2>1. \A d \in Server!Calls \ {c} : call[d].at = "register" => call[d].run # r
      BY <1>1, <1>2, <1>3 DEF CallsInv
    <2>2. \A d \in Server!Calls : /\ call'[d].at \in {"launch", "register"} => call'[d].start
                                  /\ call'[d].at \in {"wait", "register"} => call'[d].run \in Server!Runs
                                  /\ call'[d].at = "register" => run'[call'[d].run].probe = "none"
                                                                 /\ run'[call'[d].run].state = "starting"
      BY <1>1, <1>4, <1>8, <2>1 DEF CallsInv
    <2>3. \A d, e \in Server!Calls : d # e /\ call'[d].at = "register" /\ call'[e].at = "register"
                                 => call'[d].run # call'[e].run
      BY <1>1, <1>4 DEF CallsInv
    <2>4. call'[Main].start = FALSE /\ run'[current'].probe # "none"
      BY <1>1, <1>3, <1>4, <1>7, <1>8 DEF CallsInv
    <2>. QED
      BY <2>2, <2>3, <2>4 DEF CallsInv
  <1>13. AloneInv'
    BY <1>1, <1>3, <1>4 DEF AloneInv, Opens
  <1>14. Server!NothingIsLeftRunning'
    <2>. SUFFICES ASSUME NEW s \in Server!Runs, run'[s].alive, ~overlapped
                  PROVE  Server!Held(s)' \/ (s = current /\ ~down)'
      BY <1>3 DEF Server!NothingIsLeftRunning
    <2>1. CASE s = r
      BY <1>3, <2>1
    <2>2. CASE s # r
      <3>1. run[s].alive /\ s # 0
        BY <1>8, <2>2 DEF Server!Runs
      <3>2. current = 0
        BY <1>1, <1>3 DEF AloneInv, Opens
      <3>3. PICK d \in Server!Calls : call[d].at \in {"wait", "register"} /\ call[d].run = s
        BY <1>1, <3>1, <3>2 DEF Server!NothingIsLeftRunning, Server!Held
      <3>. QED
        BY <1>2, <1>4, <2>2, <3>3 DEF Server!Held
    <2>. QED
      BY <2>1, <2>2
  <1>. QED
    BY <1>9, <1>10, <1>11, <1>12, <1>13, <1>14 DEF PrevInv

MayBecome(old, new) ==
    /\ new.state = "running" => new.probe = "over"
    /\ new.state = "exited" => new.done
    /\ new.done => ~new.alive
    /\ new.alive => old.alive
    /\ new.probe = "none" <=> old.probe = "none"
    /\ new.probe = "none" => new.state = old.state

MayBeHeard(heard, r, new) ==
    \A p \in Ports : heard[p] # 0 =>
       \/ heard[p] = r /\ new.alive /\ new.port = p
       \/ heard[p] = listens[p] /\ (listens[p] = r => new.alive /\ new.port = run[r].port)

(* A dev server's own steps, and those of what watches it. *)
LEMMA RunsKeep ==
    ASSUME Server!PreviewConstants, PrevInv, NEW r \in Server!Runs, NEW row \in RunRows, run' = [run EXCEPT ![r] = row],
           UNCHANGED <<current, call, down, overlapped>>, NEW heard \in [Ports -> 0 .. MaxRuns], listens' = heard,
           MayBecome(run[r], row), MayBeHeard(heard, r, row)
    PROVE  PrevInv'
  <1>0. /\ row.state = "running" => row.probe = "over"
        /\ row.state = "exited" => row.done
        /\ row.done => ~row.alive
        /\ row.alive => run[r].alive
        /\ row.probe = "none" <=> run[r].probe = "none"
        /\ row.probe = "none" => row.state = run[r].state
        /\ \A p \in Ports : listens'[p] # 0 =>
              \/ listens'[p] = r /\ row.alive /\ row.port = p
              \/ listens'[p] = listens[p] /\ (listens[p] = r => row.alive /\ row.port = run[r].port)
    BY DEF MayBecome, MayBeHeard
  <1>1. PrevTypes /\ RowsInv /\ ListensInv /\ CallsInv /\ AloneInv /\ Server!NothingIsLeftRunning
    BY DEF PrevInv
  <1>2. run' \in [Server!Runs -> RunRows] /\ run'[r] = row /\ \A s \in Server!Runs \ {r} : run'[s] = run[s]
    BY <1>1 DEF PrevTypes
  <1>3. PrevTypes'
    BY <1>1, <1>2 DEF PrevTypes
  <1>4. RowsInv'
    BY <1>0, <1>1, <1>2 DEF RowsInv
  <1>5. ListensInv'
    <2>1. \A p \in Ports : listens[p] # 0 => listens[p] \in Server!Runs
      BY <1>1 DEF PrevTypes, Server!Runs
    <2>. QED
      BY <1>0, <1>1, <1>2, <2>1 DEF ListensInv
  <1>6. CallsInv'
    <2>1. current # 0 => current \in Server!Runs
      BY <1>1 DEF PrevTypes, Server!Runs, Server!PreviewConstants
    <2>2. \A s \in Server!Runs : run[s].probe = "none" <=> run'[s].probe = "none"
      BY <1>0, <1>2
    <2>3. \A s \in Server!Runs : run[s].probe = "none" => run'[s].state = run[s].state
      BY <1>0, <1>2
    <2>. QED
      BY <1>1, <2>1, <2>2, <2>3 DEF CallsInv
  <1>7. AloneInv'
    BY <1>1 DEF AloneInv, Opens
  <1>8. Server!NothingIsLeftRunning'
    BY <1>0, <1>1, <1>2 DEF Server!NothingIsLeftRunning, Server!Held
  <1>. QED
    BY <1>3, <1>4, <1>5, <1>6, <1>7, <1>8 DEF PrevInv

LEMMA WatchesKeep ==
    ASSUME Server!PreviewConstants, PrevInv, NEW r \in Server!Runs,
           \/ Server!Listen(r) \/ Server!Exits(r) \/ Server!Watches(r)
           \/ \E c \in Server!Calls : call[c].run = r /\ Server!Killed(c)
    PROVE  PrevInv'
  <1>1. PrevTypes /\ RowsInv /\ ListensInv /\ CallsInv /\ run[r] \in RunRows /\ listens \in [Ports -> 0 .. MaxRuns]
        /\ run \in [Server!Runs -> RunRows] /\ r # 0 /\ r \in 0 .. MaxRuns /\ 0 \in 0 .. MaxRuns
    BY DEF PrevInv, PrevTypes, Server!Runs, Server!PreviewConstants
  <1>0. PICK heard : heard = listens'
    OBVIOUS
  <1>2. CASE Server!Listen(r)
    <2>1. /\ UNCHANGED <<run, current, call, down, overlapped>> /\ run[r].alive
          /\ listens' = [listens EXCEPT ![run[r].port] = r]
      BY <1>2 DEF Server!Listen
    <2>2. run' = [run EXCEPT ![r] = run[r]] /\ listens' \in [Ports -> 0 .. MaxRuns]
      BY <1>1, <2>1
    <2>3. \A p \in Ports : listens'[p] = (IF p = run[r].port THEN r ELSE listens[p])
      BY <1>1, <2>1
    <2>9. MayBecome(run[r], run[r])
      BY <1>1, <2>1 DEF RowsInv, MayBecome
    <2>10. MayBeHeard(heard, r, run[r])
      BY <1>0, <1>1, <2>1, <2>3 DEF MayBeHeard
    <2>. QED
      BY <1>0, <1>1, <2>1, <2>2, <2>9, <2>10, RunsKeep
  <1>3. CASE Server!Exits(r) \/ \E c \in Server!Calls : call[c].run = r /\ Server!Killed(c)
    <2>1. /\ run' = [run EXCEPT ![r].alive = FALSE] /\ listens' = Server!Freed(r)
          /\ UNCHANGED <<current, call, down, overlapped>>
      BY <1>3 DEF Server!Exits, Server!Killed
    <2>2. PICK row : row = [run[r] EXCEPT !.alive = FALSE]
      OBVIOUS
    <2>3. row \in RunRows /\ ~row.alive /\ row.state = run[r].state /\ row.probe = run[r].probe /\ row.done = run[r].done
      BY <1>1, <2>2 DEF RunRows
    <2>4. run' = [run EXCEPT ![r] = row]
      BY <1>1, <2>1, <2>2
    <2>5. listens' \in [Ports -> 0 .. MaxRuns] /\ \A p \in Ports : listens'[p] # 0 => listens'[p] = listens[p] /\ listens[p] # r
      BY <1>1, <2>1 DEF Server!Freed
    <2>9. MayBecome(run[r], row)
      BY <1>1, <2>1, <2>3, <2>5 DEF RowsInv, MayBecome
    <2>10. MayBeHeard(heard, r, row)
      BY <1>0, <1>1, <2>1, <2>3, <2>5 DEF ListensInv, MayBeHeard
    <2>. QED
      <3>1. row \in RunRows /\ heard \in [Ports -> 0 .. MaxRuns] /\ listens' = heard
        BY <1>0, <2>3, <2>5
      <3>2. UNCHANGED <<current, call, down, overlapped>>
        BY <2>1
      <3>. QED
        BY <2>4, <2>9, <2>10, <3>1, <3>2, RunsKeep
  <1>4. CASE Server!Reaped(r)
    <2>1. /\ run' = [run EXCEPT ![r].done = TRUE, ![r].state = "exited"] /\ UNCHANGED <<listens, current, call, down, overlapped>>
          /\ ~run[r].alive /\ run[r].probe # "none"
      BY <1>4 DEF Server!Reaped
    <2>2. PICK row : row = [[run[r] EXCEPT !.done = TRUE] EXCEPT !.state = "exited"]
      OBVIOUS
    <2>3. row \in RunRows /\ ~row.alive /\ row.state = "exited" /\ row.probe = run[r].probe /\ row.done
      BY <1>1, <2>1, <2>2 DEF RunRows
    <2>4. run' = [run EXCEPT ![r] = row]
      BY <1>1, <2>1, <2>2
    <2>5. \A p \in Ports : listens[p] # 0 => listens[p] # r
      BY <1>1, <2>1 DEF ListensInv
    <2>9. MayBecome(run[r], row)
      BY <1>1, <2>1, <2>3, <2>5 DEF RowsInv, MayBecome
    <2>10. MayBeHeard(heard, r, row)
      BY <1>0, <1>1, <2>1, <2>3, <2>5 DEF ListensInv, MayBeHeard
    <2>. QED
      <3>1. row \in RunRows /\ heard \in [Ports -> 0 .. MaxRuns] /\ listens' = heard
        BY <1>0, <1>1, <2>1, <2>3
      <3>2. UNCHANGED <<current, call, down, overlapped>>
        BY <2>1
      <3>. QED
        BY <2>4, <2>9, <2>10, <3>1, <3>2, RunsKeep
  <1>5. CASE Server!Dialled(r)
    <2>1. /\ run' = [run EXCEPT ![r].probe = "answered"] /\ UNCHANGED <<listens, current, call, down, overlapped>>
          /\ run[r].probe = "dialling"
      BY <1>5 DEF Server!Dialled
    <2>2. PICK row : row = [run[r] EXCEPT !.probe = "answered"]
      OBVIOUS
    <2>3. row \in RunRows /\ row.alive = run[r].alive /\ row.state = run[r].state /\ row.probe = "answered"
          /\ row.done = run[r].done /\ row.port = run[r].port
      BY <1>1, <2>1, <2>2 DEF RunRows
    <2>4. run' = [run EXCEPT ![r] = row]
      BY <1>1, <2>1, <2>2
    <2>9. MayBecome(run[r], row)
      BY <1>1, <2>1, <2>3 DEF RowsInv, MayBecome
    <2>10. MayBeHeard(heard, r, row)
      BY <1>0, <1>1, <2>1, <2>3 DEF ListensInv, MayBeHeard
    <2>. QED
      BY <1>0, <1>1, <2>1, <2>3, <2>4, <2>9, <2>10, RunsKeep
  <1>6. CASE Server!SaysRunning(r)
    <2>1. /\ run' = [run EXCEPT ![r].probe = "over", ![r].state = "running"]
          /\ UNCHANGED <<listens, current, call, down, overlapped>> /\ run[r].probe = "answered"
      BY <1>6 DEF Server!SaysRunning
    <2>2. PICK row : row = [[run[r] EXCEPT !.probe = "over"] EXCEPT !.state = "running"]
      OBVIOUS
    <2>3. row \in RunRows /\ row.alive = run[r].alive /\ row.state = "running" /\ row.probe = "over"
          /\ row.done = run[r].done /\ row.port = run[r].port
      BY <1>1, <2>1, <2>2 DEF RunRows
    <2>4. run' = [run EXCEPT ![r] = row]
      BY <1>1, <2>1, <2>2
    <2>9. MayBecome(run[r], row)
      BY <1>1, <2>1, <2>3 DEF RowsInv, MayBecome
    <2>10. MayBeHeard(heard, r, row)
      BY <1>0, <1>1, <2>1, <2>3 DEF ListensInv, MayBeHeard
    <2>. QED
      BY <1>0, <1>1, <2>1, <2>3, <2>4, <2>9, <2>10, RunsKeep
  <1>7. CASE Server!ProbeEnds(r)
    <2>1. /\ run' = [run EXCEPT ![r].probe = "over", ![r].silent = ~run[r].done /\ Server!Silent(r)]
          /\ UNCHANGED <<listens, current, call, down, overlapped>> /\ run[r].probe = "dialling"
      BY <1>7 DEF Server!ProbeEnds
    <2>2. PICK quiet \in BOOLEAN : quiet = (~run[r].done /\ Server!Silent(r))
      BY DEF Server!Silent
    <2>3. PICK row : row = [[run[r] EXCEPT !.probe = "over"] EXCEPT !.silent = quiet]
      OBVIOUS
    <2>4. row \in RunRows /\ row.alive = run[r].alive /\ row.state = run[r].state /\ row.probe = "over"
          /\ row.done = run[r].done /\ row.port = run[r].port
      BY <1>1, <2>1, <2>3 DEF RunRows
    <2>5. run' = [run EXCEPT ![r] = row]
      BY <1>1, <2>1, <2>2, <2>3
    <2>9. MayBecome(run[r], row)
      BY <1>1, <2>1, <2>4 DEF RowsInv, MayBecome
    <2>10. MayBeHeard(heard, r, row)
      BY <1>0, <1>1, <2>1, <2>4 DEF ListensInv, MayBeHeard
    <2>. QED
      BY <1>0, <1>1, <2>1, <2>4, <2>5, <2>9, <2>10, RunsKeep
  <1>. QED
    BY <1>2, <1>3, <1>4, <1>5, <1>6, <1>7 DEF Server!Watches

LEMMA PrevStep == Server!PreviewConstants /\ PrevInv /\ [Server!Next]_(Server!vars) => PrevInv'
  <1>. SUFFICES ASSUME Server!PreviewConstants, PrevInv, [Server!Next]_(Server!vars)
                PROVE  PrevInv'
    OBVIOUS
  <1>0. overlapped \in BOOLEAN
    BY DEF PrevInv, PrevTypes
  <1>1. CASE UNCHANGED Server!vars
    BY <1>0, <1>1, OthersKeep DEF Server!vars
  <1>2. CASE (\E kind \in {"none", "static", "server"} : Server!Declare(kind)) \/ Server!Poll \/ Server!PollFails
    BY <1>0, <1>2, OthersKeep DEF Server!Declare, Server!Poll, Server!PollFails
  <1>3. CASE Server!Asks \/ Server!ShutDown \/ Server!PollArrives \/ \E start \in BOOLEAN : Server!Presses(start)
    BY <1>3, CallsBegin
  <1>4. ASSUME NEW c \in Server!Calls, ~down, Server!Handles(c)
        PROVE  PrevInv'
    <2>1. Server!Killed(c) => call[c].run \in Server!Runs
      BY DEF Server!Killed, PrevInv, CallsInv
    <2>2. CASE Server!Killed(c)
      BY <2>1, <2>2, WatchesKeep
    <2>. QED
      BY <1>4, <2>2, TakeKeeps, WaitedKeeps, LaunchKeeps, RegisterKeeps DEF Server!Handles
  <1>5. ASSUME NEW r \in Server!Runs, Server!Listen(r) \/ Server!Exits(r) \/ Server!Watches(r)
        PROVE  PrevInv'
    BY <1>5, WatchesKeep
  <1>. QED
    BY <1>1, <1>2, <1>3, <1>4, <1>5 DEF Server!Next

(* However the calls of the panel, of a second tab and of the dashboard's end come in, and whatever dies meanwhile: a
   living dev server is the channel's or in a call's hands, and none outlives the dashboard, unless two starts, or a
   start and the end, overlapped; a port has one listener, the one that was told it. *)
THEOREM NoServerIsForgotten == Server!PreviewConstants /\ Server!Spec => [](Server!TypeOK /\ Server!NothingIsLeftRunning)
  <1>1. CASE Server!PreviewConstants
    <2>1. Server!PreviewConstants /\ Server!Init => PrevInv
      BY PrevStarts
    <2>2. Server!PreviewConstants /\ PrevInv /\ [Server!Next]_(Server!vars) => PrevInv'
      BY PrevStep
    <2>3. PrevInv => Server!TypeOK /\ Server!NothingIsLeftRunning
      BY DEF PrevInv, PrevTypes, RowsInv, ListensInv, CallsInv, Server!TypeOK
    <2>. QED
      BY <1>1, <2>1, <2>2, <2>3, PTL DEF Server!Spec
  <1>. QED
    BY <1>1

-----------------------------------------------------------------------------
(***************************************************************************)
(* The streamed reply (Streamer.tla), for every length of a message, of an     *)
(* answer and of the hold before the first send.  The invariant: who has a      *)
(* call under way holds the mark; what is sent is no shorter than what is        *)
(* shown; and what Finalize and a late flush of the ticker take is all there is,   *)
(* unless the answer was split over messages.                                 *)
(***************************************************************************)

CONSTANTS Limit, Hold, MaxUnits, MaxFails

VARIABLES buf, dirty, reason, tools, msg, rmsg, last, sent, inflight, pending, flush,
    turn, loop, screen, written, fails, missed, split

Reply == INSTANCE Streamer

FinalPlaces == {"freason", "fanswer", "fsend", "fend"}
Held == {"beat", "reason", "answer", "send", "end", "beaten"}
Places == Held \cup FinalPlaces \cup {"off", "start"}

Shown == [kind : {"hold", "text", "think", "notice"}, text : Seq(Nat), tool : BOOLEAN]
FlushRows == [at : Places, text : Seq(Nat), reason : BOOLEAN, tool : BOOLEAN]

ReplyTypes ==
    /\ written \in 0 .. MaxUnits /\ fails \in 0 .. MaxFails /\ buf \in Seq(Nat)
    /\ flush \in [Reply!Flushers -> FlushRows] /\ screen \in Seq(Shown) /\ last \in [is : Shown, len : Nat]
    /\ turn \in {"writing", "stop", "final", "close", "ended"}
    /\ loop \in {"running", "left", "stopped", "last", "over"}
    /\ reason \in {"none", "new", "sent"} /\ msg \in Nat /\ rmsg \in Nat
    /\ dirty \in BOOLEAN /\ tools \in BOOLEAN /\ sent \in BOOLEAN /\ inflight \in BOOLEAN /\ pending \in BOOLEAN
    /\ missed \in BOOLEAN /\ split \in BOOLEAN

(* Where the two goroutines can be. *)
PlacesInv ==
    /\ turn # "writing" => flush["turn"].at \in {"off"} \cup FinalPlaces
    /\ turn = "final" <=> flush["turn"].at \in FinalPlaces
    /\ flush["loop"].at \notin FinalPlaces
    /\ loop = "over" => flush["loop"].at = "off"
    /\ turn = "ended" => loop = "over"
    /\ loop = "over" => turn \in {"close", "ended"}

(* Who has a call under way has raised the mark, and nobody else has. *)
FlightInv ==
    /\ \A p \in Reply!Flushers : flush[p].at \in Held => inflight
    /\ \A p, q \in Reply!Flushers : flush[p].at \in Held /\ flush[q].at \in Held => p = q

(* What the chat shows is in messages that are sent, each of its lane. *)
ScreenInv ==
    /\ msg <= Len(screen) /\ rmsg <= Len(screen) /\ (msg = rmsg => msg = 0)
    /\ \A m \in 1 .. Len(screen) : Len(screen[m].text) <= Limit

Sending(p) == flush[p].at \in {"send", "fsend"}

(* No text is longer than what was written, and none made of units that were not. *)
UnitsInv ==
    /\ Len(buf) <= written /\ last.len <= written /\ buf \in Seq(1 .. written)
    /\ \A p \in Reply!Flushers : Len(flush[p].text) <= written /\ flush[p].text \in Seq(1 .. written)

(* What is sent is no shorter than what is shown, nor longer than the last length; once Finalize has taken the text
   everything else that is taken is that text, or a rest that is too short to be sent. *)
LengthsInv ==
    /\ msg # 0 => Len(screen[msg].text) <= last.len
    /\ \A p \in Reply!Flushers : Sending(p) => /\ Len(flush[p].text) <= last.len
                                               /\ msg # 0 => Len(screen[msg].text) <= Len(flush[p].text)
    /\ turn = "final" =>
          /\ buf = flush["turn"].text \/ (Len(buf) <= Limit /\ last.len > Limit)
          /\ flush["loop"].at \in {"reason", "answer"} =>
                flush["loop"].text = flush["turn"].text \/ (Len(flush["loop"].text) <= Limit /\ last.len > Limit)
          /\ flush["loop"].at = "send" => Len(flush["loop"].text) = Len(flush["turn"].text)

Written == [i \in 1 .. written |-> i]
Over == turn \in {"final", "close", "ended"}
Unsaid == turn \in {"writing", "stop"} \/ flush["turn"].at \in {"freason", "fanswer"}

(* Unless the answer was split: what is taken at the end is all there is. *)
TakenInv ==
    ~split =>
        /\ buf = Written
        /\ turn = "final" => flush["turn"].text = Written /\ ~flush["turn"].tool
        /\ Over /\ flush["loop"].at \in {"reason", "answer", "send"} => flush["loop"].text = Written
        /\ (sent \/ \E p \in Reply!Flushers : flush[p].at \in {"reason", "answer", "send", "end"})
              => tools \/ written + 1 >= Hold
        /\ Over /\ flush["loop"].at \in {"beat", "beaten"} => Reply!Early
        /\ Over /\ flush["loop"].at \in {"reason", "answer", "send", "end"} => ~Reply!Early

(* The last content is shown, or is being sent, or was refused. *)
LastInv ==
    Unsaid => /\ ~split /\ ~missed /\ last.is.kind = "text" =>
                    (msg # 0 /\ screen[msg] = last.is) \/ \E p \in Reply!Flushers : Reply!At(p, "send")
              /\ \A p \in Reply!Flushers : Reply!At(p, "send") => Reply!Rendered(p) = last.is

ThoughtInv ==
    /\ \A p \in Reply!Flushers : flush[p].reason => reason # "none"
    /\ turn = "final" => (reason # "none" => flush["turn"].reason)
    /\ turn \in {"close", "ended"} \/ flush["turn"].at \in {"fanswer", "fsend", "fend"} => (reason # "none" => rmsg # 0)

EndInv ==
    turn \in {"close", "ended"} \/ Reply!At("turn", "fend") =>
        split \/ missed \/ Reply!Early \/ Reply!Whole \/ Reply!At("loop", "send")

ReplyInv == ReplyTypes /\ PlacesInv /\ FlightInv /\ ScreenInv /\ UnitsInv /\ LengthsInv /\ TakenInv /\ LastInv /\ ThoughtInv /\ EndInv

LEMMA Division ==
    ASSUME NEW n \in Nat, NEW d \in Nat \ {0}
    PROVE  /\ (n + d - 1) \div d \in Nat
           /\ ((n + d - 1) \div d) * d <= n + d - 1
           /\ n + d - 1 < (((n + d - 1) \div d) + 1) * d
  <1>1. PICK m \in Nat : m = n + d - 1
    OBVIOUS
  <1>2. PICK q \in Int : q = m \div d
    BY <1>1
  <1>3. q * d <= m /\ m < (q + 1) * d
    BY <1>1, <1>2
  <1>. QED
    BY <1>1, <1>2, <1>3


LEMMA Product ==
    ASSUME NEW d \in Nat \ {0}, NEW a \in Int, NEW b \in Int
    PROVE  /\ a * d \in Int /\ (a <= b => a * d <= b * d) /\ (a * d < b * d => a < b)
           /\ (a - 1) * d = a * d - d /\ (a + 1) * d = a * d + d
           /\ 2 * d = d + d /\ 0 * d = 0
  <1>1. a <= b => a * d <= b * d
    <2>1. ASSUME a <= b
          PROVE  a * d <= b * d
      <3>1. b - a \in Nat
        BY <2>1
      <3>2. \A k \in Nat : k * d \in Nat
        OBVIOUS
      <3>3. (b - a) * d = b * d - a * d /\ b * d \in Int /\ a * d \in Int
        OBVIOUS
      <3>4. (b - a) * d \in Nat
        BY <3>1, <3>2
      <3>. QED
        BY <3>3, <3>4
    <2>. QED
      BY <2>1
  <1>2. b <= a => b * d <= a * d
    <2>1. ASSUME b <= a
          PROVE  b * d <= a * d
      <3>1. a - b \in Nat
        BY <2>1
      <3>2. \A k \in Nat : k * d \in Nat
        OBVIOUS
      <3>3. (a - b) * d = a * d - b * d /\ b * d \in Int /\ a * d \in Int
        OBVIOUS
      <3>4. (a - b) * d \in Nat
        BY <3>1, <3>2
      <3>. QED
        BY <3>3, <3>4
    <2>. QED
      BY <2>1
  <1>3. a * d \in Int /\ b * d \in Int
    OBVIOUS
  <1>4. a * d < b * d => a < b
    BY <1>2, <1>3
  <1>5. (a - 1) * d = a * d - d /\ (a + 1) * d = a * d + d /\ 2 * d = d + d /\ 0 * d = 0
    OBVIOUS
  <1>. QED
    BY <1>1, <1>3, <1>4, <1>5

(* A text in pieces: each fits in a message, a text that fits is one piece, and the first of several is full. *)
LEMMA ChunksAre ==
    ASSUME Reply!StreamerConstants, NEW S, NEW text \in Seq(S)
    PROVE  /\ Reply!Chunks(text) \in Seq(Seq(S))
           /\ Len(Reply!Chunks(text)) < 2 <=> Len(text) <= Limit
           /\ \A i \in 1 .. Len(Reply!Chunks(text)) : Len(Reply!Chunks(text)[i]) <= Limit
           /\ Len(text) > Limit => Len(Reply!Chunks(text)[1]) = Limit
  <1>1. Limit \in Nat \ {0}
    BY DEF Reply!StreamerConstants
  <1>2. PICK n \in Nat : n = Len(text)
    OBVIOUS
  <1>3. PICK k \in Nat : k = (n + Limit - 1) \div Limit /\ k * Limit <= n + Limit - 1 /\ n + Limit - 1 < (k + 1) * Limit
    BY <1>1, Division
  <1>4. k < 2 <=> n <= Limit
    <2>1. /\ k * Limit \in Int /\ 2 * Limit = Limit + Limit /\ (k + 1) * Limit = k * Limit + Limit
          /\ k * Limit < 2 * Limit => k < 2
      BY <1>1, Product
    <2>2. 2 <= k => 2 * Limit <= k * Limit
      BY <1>1, Product
    <2>3. 2 * Limit < (k + 1) * Limit => 2 < k + 1
      BY <1>1, Product
    <2>. QED
      BY <1>1, <1>3, <2>1, <2>2, <2>3
  <1>5. PICK parts : parts = Reply!Chunks(text)
    OBVIOUS
  <1>6. parts = [i \in 1 .. k |-> SubSeq(text, (i - 1) * Limit + 1, Reply!Min2(i * Limit, n))]
    BY <1>2, <1>3, <1>5 DEF Reply!Chunks
  <1>7. ASSUME NEW i \in 1 .. k
        PROVE  /\ parts[i] \in Seq(S) /\ Len(parts[i]) <= Limit
               /\ i = 1 /\ n > Limit => Len(parts[i]) = Limit
    <2>1. PICK a \in Int, c \in Int : a = (i - 1) * Limit /\ c = i * Limit /\ a = c - Limit /\ 0 <= a /\ (i = 1 => a = 0)
      <3>1. i * Limit \in Int /\ (i - 1) * Limit = i * Limit - Limit
        BY <1>1, Product
      <3>2. 0 <= i - 1 => 0 * Limit <= (i - 1) * Limit
        BY <1>1, Product
      <3>3. 0 * Limit = 0
        BY <1>1
      <3>4. i = 1 => (i - 1) * Limit = 0
        BY <1>1
      <3>. QED
        BY <1>1, <3>1, <3>2, <3>3, <3>4
    <2>2. PICK b \in Int : b = Reply!Min2(c, n) /\ b <= c /\ b <= n /\ (b = c \/ b = n)
      BY <1>2, <2>1 DEF Reply!Min2
    <2>3. parts[i] = SubSeq(text, a + 1, b)
      BY <1>6, <2>1, <2>2
    <2>4. \A j \in a + 1 .. b : text[j] \in S
      <3>1. \A j \in 1 .. n : text[j] \in S
        BY <1>2
      <3>. QED
        BY <2>1, <2>2, <3>1
    <2>5. SubSeq(text, a + 1, b) \in Seq(S) /\ Len(SubSeq(text, a + 1, b)) = IF a + 1 <= b THEN b - (a + 1) + 1 ELSE 0
      BY <2>1, <2>2, <2>4, SubSeqProperties
    <2>. QED
      BY <1>1, <2>1, <2>2, <2>3, <2>5
  <1>8. parts \in Seq(Seq(S)) /\ Len(parts) = k
    <2>1. parts \in [1 .. k -> Seq(S)]
      BY <1>6, <1>7
    <2>. QED
      BY <2>1
  <1>. QED
    <2>1. Len(parts) < 2 <=> Len(text) <= Limit
      BY <1>2, <1>4, <1>8
    <2>2. \A i \in 1 .. Len(parts) : Len(parts[i]) <= Limit
      BY <1>7, <1>8
    <2>3. Len(text) > Limit => Len(parts[1]) = Limit
      <3>1. ASSUME Len(text) > Limit
            PROVE  Len(parts[1]) = Limit
        <4>1. 1 \in 1 .. k /\ n > Limit
          BY <1>1, <1>2, <1>4, <3>1
        <4>. QED
          BY <1>7, <4>1
      <3>. QED
        BY <3>1
    <2>. QED
      BY <1>5, <1>8, <2>1, <2>2, <2>3


LEMMA StepsAre ==
    ASSUME ReplyTypes, NEW p \in Reply!Flushers, NEW where \in Places, Reply!Steps(p, where)
    PROVE  /\ flush' \in [Reply!Flushers -> FlushRows] /\ flush'[p].at = where /\ flush'[p].text = flush[p].text
           /\ flush'[p].reason = flush[p].reason /\ flush'[p].tool = flush[p].tool
           /\ \A q \in Reply!Flushers \ {p} : flush'[q] = flush[q]
           /\ flush'[p] \in FlushRows
  <1>1. flush' = [flush EXCEPT ![p].at = where] /\ flush \in [Reply!Flushers -> FlushRows] /\ flush[p] \in FlushRows
    BY DEF ReplyTypes, Reply!Steps
  <1>2. PICK row : row = [flush[p] EXCEPT !.at = where]
    OBVIOUS
  <1>3. row \in FlushRows /\ row.at = where /\ row.text = flush[p].text /\ row.reason = flush[p].reason /\ row.tool = flush[p].tool
    BY <1>1, <1>2 DEF FlushRows
  <1>4. flush' = [flush EXCEPT ![p] = row]
    BY <1>1, <1>2
  <1>. QED
    BY <1>1, <1>3, <1>4

LEMMA TakesAre ==
    ASSUME ReplyTypes, NEW p \in Reply!Flushers, NEW where \in Places, Reply!Take(p, where)
    PROVE  /\ flush' \in [Reply!Flushers -> FlushRows] /\ flush'[p].at = where /\ flush'[p].text = buf
           /\ flush'[p].reason = (reason # "none") /\ flush'[p].tool = tools
           /\ \A q \in Reply!Flushers \ {p} : flush'[q] = flush[q]
           /\ flush'[p] \in FlushRows
  <1>1. PICK thought \in BOOLEAN : thought = (reason # "none")
    OBVIOUS
  <1>2. PICK row : row = [at |-> where, text |-> buf, reason |-> thought, tool |-> tools]
    OBVIOUS
  <1>3. row \in FlushRows /\ row.at = where /\ row.text = buf /\ row.reason = thought /\ row.tool = tools
    BY <1>2 DEF FlushRows, ReplyTypes
  <1>4. flush' = [flush EXCEPT ![p] = row] /\ flush \in [Reply!Flushers -> FlushRows]
    BY <1>1, <1>2 DEF Reply!Take, ReplyTypes
  <1>. QED
    BY <1>1, <1>3, <1>4

LEMMA ShowsAre ==
    ASSUME ReplyTypes, ScreenInv, NEW m \in 0 .. Len(screen), NEW content \in Shown
    PROVE  /\ Reply!Shows(m, content) \in Seq(Shown) /\ Reply!MessageAfter(m) \in 1 .. Len(Reply!Shows(m, content))
           /\ Reply!Shows(m, content)[Reply!MessageAfter(m)] = content
           /\ Len(Reply!Shows(m, content)) = (IF m = 0 THEN Len(screen) + 1 ELSE Len(screen))
           /\ Reply!MessageAfter(m) = (IF m = 0 THEN Len(screen) + 1 ELSE m)
           /\ \A i \in 1 .. Len(screen) : i # m => Reply!Shows(m, content)[i] = screen[i]
  <1>1. screen \in Seq(Shown) /\ Len(screen) \in Nat
    BY DEF ReplyTypes
  <1>2. CASE m = 0
    <2>1. Reply!Shows(m, content) = Append(screen, content) /\ Reply!MessageAfter(m) = Len(screen) + 1
      BY <1>2 DEF Reply!Shows, Reply!MessageAfter
    <2>. QED
      BY <1>1, <1>2, <2>1
  <1>3. CASE m # 0
    <2>1. Reply!Shows(m, content) = [screen EXCEPT ![m] = content] /\ Reply!MessageAfter(m) = m /\ m \in 1 .. Len(screen)
      BY <1>1, <1>3 DEF Reply!Shows, Reply!MessageAfter
    <2>. QED
      BY <1>1, <1>3, <2>1
  <1>. QED
    BY <1>2, <1>3

LEMMA RenderedIs ==
    ASSUME Reply!StreamerConstants, ReplyTypes, NEW p \in Reply!Flushers
    PROVE  Reply!Rendered(p) \in Shown /\ Reply!Rendered(p).text = flush[p].text /\ Reply!Rendered(p).kind = "text"
  <1>1. flush[p] \in FlushRows
    BY DEF ReplyTypes
  <1>2. PICK tool \in BOOLEAN : tool = (flush[p].tool /\ (Len(flush[p].text) < Limit \/ flush[p].text = <<>>))
    BY <1>1 DEF FlushRows
  <1>3. Reply!Rendered(p) = [kind |-> "text", text |-> flush[p].text, tool |-> tool]
    BY <1>2 DEF Reply!Rendered, Reply!Content
  <1>4. flush[p].text \in Seq(Nat)
    BY <1>1 DEF FlushRows
  <1>. QED
    BY <1>3, <1>4 DEF Shown

(* What a call of the answer does: it shows the text, or is refused, or splits the text. *)
SendsWhole(text, content) ==
    /\ Len(text) <= Limit /\ screen' = Reply!Shows(msg, content) /\ msg' = Reply!MessageAfter(msg) /\ missed' = FALSE
    /\ UNCHANGED <<buf, split, fails>>

SendsRefused(text) ==
    /\ Len(text) <= Limit /\ missed' = TRUE /\ fails < MaxFails /\ fails' = fails + 1
    /\ UNCHANGED <<buf, split, screen, msg>>

SendsSplit(text) ==
    /\ Len(text) > Limit /\ split' = TRUE /\ missed' = FALSE /\ UNCHANGED fails
    /\ screen' \in Seq(Shown) /\ msg' = Len(screen') /\ Len(screen') > Len(screen)
    /\ \A m \in 1 .. Len(screen') : Len(screen'[m].text) <= Limit
    /\ \A m \in 1 .. Len(screen) : m # msg => screen'[m] = screen[m]
    /\ msg # 0 => Len(screen'[msg].text) = Limit
    /\ buf' \in Seq(Nat) /\ Len(buf') <= Limit

LEMMA SendsAre ==
    ASSUME Reply!StreamerConstants, ReplyTypes, ScreenInv, NEW p \in Reply!Flushers, NEW where, Reply!Sends(p, where)
    PROVE  /\ SendsWhole(flush[p].text, Reply!Rendered(p)) \/ SendsRefused(flush[p].text) \/ SendsSplit(flush[p].text)
           /\ \A S : flush[p].text \in Seq(S) /\ SendsSplit(flush[p].text) => buf' \in Seq(S)
           /\ Reply!Steps(p, where) /\ UNCHANGED <<dirty, reason, tools, written, rmsg, last, sent, pending>>
  <1>1. PICK text : text = flush[p].text
    OBVIOUS
  <1>2. text \in Seq(Nat) /\ Len(text) \in Nat /\ screen \in Seq(Shown) /\ Len(screen) \in Nat /\ Limit \in Nat \ {0}
        /\ msg \in 0 .. Len(screen)
    BY <1>1 DEF ReplyTypes, FlushRows, Reply!StreamerConstants, ScreenInv
  <1>3. Reply!Rendered(p) \in Shown /\ Reply!Rendered(p).text = text
    BY <1>1, RenderedIs
  <1>4. PICK parts : parts = Reply!Chunks(text)
    OBVIOUS
  <1>5. /\ parts \in Seq(Seq(Nat)) /\ (Len(parts) < 2 <=> Len(text) <= Limit)
        /\ \A i \in 1 .. Len(parts) : Len(parts[i]) <= Limit
        /\ Len(text) > Limit => Len(parts[1]) = Limit
    BY <1>2, <1>4, ChunksAre
  <1>6. Reply!Steps(p, where) /\ UNCHANGED <<dirty, reason, tools, written, rmsg, last, sent, pending>>
    BY DEF Reply!Sends
  <1>7. CASE Len(parts) < 2
    <2>1. \/ screen' = Reply!Shows(msg, Reply!Rendered(p)) /\ msg' = Reply!MessageAfter(msg) /\ missed' = FALSE /\ fails' = fails
          \/ fails < MaxFails /\ fails' = fails + 1 /\ missed' = TRUE /\ UNCHANGED <<screen, msg>>
      BY <1>3, <1>4, <1>7 DEF Reply!Sends
    <2>2. UNCHANGED <<buf, split>>
      BY <1>3, <1>4, <1>7 DEF Reply!Sends
    <2>3. Len(text) <= Limit
      BY <1>5, <1>7
    <2>. QED
      BY <1>1, <1>2, <1>6, <2>1, <2>2, <2>3 DEF SendsWhole, SendsRefused, SendsSplit
  <1>8. CASE ~(Len(parts) < 2)
    <2>0. PICK pieces \in Nat : pieces = Len(parts)
      BY <1>5
    <2>1. Len(parts) \in Nat /\ Len(parts) >= 2 /\ Len(text) > Limit /\ pieces >= 2
      BY <1>2, <1>5, <1>8, <2>0
    <2>2. PICK head : head = Reply!Content(parts[1], FALSE)
      OBVIOUS
    <2>3. \A i \in 1 .. Len(parts) : Reply!Content(parts[i], FALSE) \in Shown /\ Reply!Content(parts[i], FALSE).text = parts[i]
      <3>1. \A i \in 1 .. Len(parts) : parts[i] \in Seq(Nat)
        BY <1>5
      <3>. QED
        BY <3>1 DEF Reply!Content, Shown
    <2>4. PICK first : first = Reply!Shows(msg, head)
      OBVIOUS
    <2>5. head \in Shown /\ head.text = parts[1] /\ 1 \in 1 .. Len(parts)
      <3>1. 1 \in 1 .. Len(parts)
        BY <2>0, <2>1
      <3>2. Reply!Content(parts[1], FALSE) \in Shown /\ Reply!Content(parts[1], FALSE).text = parts[1]
        BY <2>3, <3>1
      <3>. QED
        BY <2>2, <3>1, <3>2
    <2>6. /\ first \in Seq(Shown) /\ Reply!MessageAfter(msg) \in 1 .. Len(first) /\ first[Reply!MessageAfter(msg)] = head
          /\ Len(first) = (IF msg = 0 THEN Len(screen) + 1 ELSE Len(screen))
          /\ Reply!MessageAfter(msg) = (IF msg = 0 THEN Len(screen) + 1 ELSE msg)
          /\ \A i \in 1 .. Len(screen) : i # msg => first[i] = screen[i]
      <3>1. head \in Shown /\ msg \in 0 .. Len(screen)
        BY <1>2, <2>5
      <3>. QED
        BY <2>4, <3>1, ShowsAre
    <2>7. PICK k \in Nat : k = Len(parts) - 1 /\ k >= 1
      <3>1. pieces - 1 \in Nat /\ pieces - 1 >= 1
        BY <2>1
      <3>. QED
        BY <2>0, <3>1
    <2>8. PICK rest : rest = [i \in 1 .. k |-> Reply!Content(parts[i + 1], FALSE)]
      OBVIOUS
    <2>9. rest \in Seq(Shown) /\ Len(rest) = k /\ \A i \in 1 .. k : rest[i].text = parts[i + 1]
      <3>1. \A i \in 1 .. k : i + 1 \in 1 .. Len(parts)
        BY <2>7
      <3>2. \A i \in 1 .. k : Reply!Content(parts[i + 1], FALSE) \in Shown /\ Reply!Content(parts[i + 1], FALSE).text = parts[i + 1]
        BY <2>3, <3>1
      <3>3. rest \in [1 .. k -> Shown] /\ \A i \in 1 .. k : rest[i].text = parts[i + 1]
        BY <2>8, <3>2
      <3>4. rest \in Seq(Shown) /\ Len(rest) = k
        BY <3>3
      <3>. QED
        BY <3>3, <3>4
    <2>10. /\ screen' = first \o rest /\ msg' = Len(screen') /\ buf' = parts[Len(parts)]
           /\ split' = TRUE /\ missed' = FALSE /\ UNCHANGED fails
      BY <1>3, <1>4, <1>8, <2>2, <2>4, <2>7, <2>8 DEF Reply!Sends
    <2>11. /\ screen' \in Seq(Shown) /\ Len(screen') = Len(first) + k
           /\ \A i \in 1 .. Len(first) : screen'[i] = first[i]
           /\ \A i \in Len(first) + 1 .. Len(first) + k : screen'[i] = rest[i - Len(first)]
      <3>1. /\ first \o rest \in Seq(Shown) /\ Len(first \o rest) = Len(first) + Len(rest)
            /\ \A i \in 1 .. Len(first) + Len(rest) : (first \o rest)[i] = IF i <= Len(first) THEN first[i] ELSE rest[i - Len(first)]
        <4>1. first \in Seq(Shown) /\ rest \in Seq(Shown)
          BY <2>6, <2>9
        <4>. QED
          BY <4>1, ConcatProperties
      <3>2. Len(first) \in Nat
        BY <2>6
      <3>. QED
        BY <2>7, <2>9, <2>10, <3>1, <3>2
    <2>12. \A m \in 1 .. Len(screen') : Len(screen'[m].text) <= Limit
      <3>. SUFFICES ASSUME NEW m \in 1 .. Len(screen')
                    PROVE  Len(screen'[m].text) <= Limit
        OBVIOUS
      <3>0. Len(first) \in Nat
        BY <2>6
      <3>1. CASE m > Len(first)
        <4>1. m - Len(first) \in 1 .. k /\ screen'[m] = rest[m - Len(first)] /\ m - Len(first) + 1 \in 1 .. Len(parts)
          BY <2>7, <2>11, <3>0, <3>1
        <4>. QED
          BY <1>5, <2>9, <4>1
      <3>2. CASE m = Reply!MessageAfter(msg)
        BY <1>5, <2>5, <2>6, <2>11, <3>2
      <3>3. CASE m <= Len(first) /\ m # Reply!MessageAfter(msg)
        <4>1. m \in 1 .. Len(screen) /\ m # msg /\ screen'[m] = screen[m]
          BY <1>2, <2>6, <2>11, <3>0, <3>3
        <4>. QED
          BY <4>1 DEF ScreenInv
      <3>. QED
        BY <2>11, <3>0, <3>1, <3>2, <3>3
    <2>13. \A m \in 1 .. Len(screen) : m # msg => screen'[m] = screen[m]
      BY <1>2, <2>6, <2>11
    <2>14. msg # 0 => Len(screen'[msg].text) = Limit
      BY <1>2, <1>5, <2>1, <2>5, <2>6, <2>11
    <2>15. buf' \in Seq(Nat) /\ Len(buf') <= Limit
      BY <1>5, <2>1, <2>10
    <2>16. \A S : text \in Seq(S) => buf' \in Seq(S)
      <3>1. ASSUME NEW S, text \in Seq(S)
            PROVE  buf' \in Seq(S)
        <4>1. parts \in Seq(Seq(S))
          BY <1>4, <3>1, ChunksAre
        <4>. QED
          BY <2>1, <2>10, <4>1
      <3>. QED
        BY <3>1
    <2>17. Len(screen') > Len(screen)
      BY <1>2, <2>6, <2>7, <2>11
    <2>. QED
      BY <1>1, <1>6, <2>1, <2>10, <2>11, <2>12, <2>13, <2>14, <2>15, <2>16, <2>17 DEF SendsSplit
  <1>. QED
    BY <1>7, <1>8


LEMMA ReplyStarts == Reply!StreamerConstants /\ Reply!Init => ReplyInv
  <1>. SUFFICES ASSUME Reply!StreamerConstants, Reply!Init
                PROVE  ReplyInv
    OBVIOUS
  <1>1. Reply!Idle \in FlushRows /\ Reply!Idle.at = "off" /\ Reply!Idle.text = <<>> /\ Reply!Idle.reason = FALSE
    BY DEF Reply!Idle, FlushRows, Places
  <1>2. Reply!Nothing \in Shown /\ Reply!Nothing.kind = "hold" /\ Reply!Nothing.text = <<>>
    BY DEF Reply!Nothing, Shown
  <1>3. flush \in [Reply!Flushers -> FlushRows] /\ \A p \in Reply!Flushers : flush[p] = Reply!Idle
    BY <1>1 DEF Reply!Init
  <1>4. PICK m \in {0, 1} : msg = m /\ screen = IF m = 0 THEN <<>> ELSE <<Reply!Nothing>>
    BY DEF Reply!Init
  <1>5. screen \in Seq(Shown) /\ Len(screen) = m /\ \A i \in 1 .. Len(screen) : screen[i] = Reply!Nothing
    BY <1>2, <1>4
  <1>6. last \in [is : Shown, len : Nat] /\ last.is = Reply!Nothing /\ last.len = 0
    BY <1>2 DEF Reply!Init
  <1>7. 0 \in 0 .. MaxUnits /\ 0 \in 0 .. MaxFails /\ Limit \in Nat
    BY DEF Reply!StreamerConstants
  <1>8. ReplyTypes
    <2>1. msg \in Nat /\ rmsg \in Nat /\ written \in 0 .. MaxUnits /\ fails \in 0 .. MaxFails
      BY <1>4, <1>7 DEF Reply!Init
    <2>2. buf \in Seq(Nat) /\ turn = "writing" /\ loop = "running" /\ reason = "none"
      BY DEF Reply!Init
    <2>3. /\ dirty \in BOOLEAN /\ tools \in BOOLEAN /\ sent \in BOOLEAN /\ inflight \in BOOLEAN /\ pending \in BOOLEAN
          /\ missed \in BOOLEAN /\ split \in BOOLEAN
      BY DEF Reply!Init
    <2>. QED
      BY <1>3, <1>5, <1>6, <2>1, <2>2, <2>3 DEF ReplyTypes
  <1>9. PlacesInv /\ FlightInv /\ LastInv /\ ThoughtInv /\ EndInv
    BY <1>1, <1>2, <1>3, <1>6 DEF Reply!Init, PlacesInv, FlightInv, LastInv, ThoughtInv, EndInv, FinalPlaces, Held, Reply!At, Reply!Flushers, Unsaid
  <1>10. ScreenInv
    BY <1>2, <1>4, <1>5, <1>7 DEF Reply!Init, ScreenInv
  <1>11. UnitsInv
    <2>1. written = 0 /\ buf = <<>> /\ last.len = 0 /\ \A p \in Reply!Flushers : flush[p].text = <<>>
      BY <1>1, <1>3, <1>6 DEF Reply!Init
    <2>2. <<>> \in Seq(1 .. written) /\ Len(<<>>) = 0
      BY EmptySeq
    <2>3. Len(buf) = 0 /\ \A p \in Reply!Flushers : Len(flush[p].text) = 0
      BY <2>1, <2>2
    <2>4. buf \in Seq(1 .. written) /\ \A p \in Reply!Flushers : flush[p].text \in Seq(1 .. written)
      BY <2>1, <2>2
    <2>. QED
      BY <2>1, <2>3, <2>4 DEF UnitsInv
  <1>12. LengthsInv
    BY <1>1, <1>2, <1>3, <1>4, <1>5, <1>6 DEF Reply!Init, LengthsInv, Sending
  <1>13. TakenInv
    <2>1. buf = Written
      BY DEF Reply!Init, Written
    <2>. QED
      <3>1. turn = "writing" /\ ~sent /\ \A p \in Reply!Flushers : flush[p].at = "off"
        BY <1>1, <1>3 DEF Reply!Init
      <3>. QED
        BY <2>1, <3>1 DEF TakenInv, Over
  <1>. QED
    BY <1>8, <1>9, <1>10, <1>11, <1>12, <1>13 DEF ReplyInv

(* A flush that has nothing in hand moves on; the loop too. *)
LEMMA Idles ==
    ASSUME Reply!StreamerConstants, ReplyInv, NEW p \in Reply!Flushers, NEW where \in {"off", "start"}, Reply!Steps(p, where),
           flush[p].at \in {"off", "start"}, p = "turn" => turn = "writing",
           UNCHANGED <<buf, reason, tools, written, msg, rmsg, last, sent, inflight, turn, screen, fails, missed, split>>,
           dirty' \in BOOLEAN, pending' \in BOOLEAN, loop' \in {"running", "left", "stopped", "last"} \/ loop' = loop,
           loop = "over" => p # "loop"
    PROVE  ReplyInv'
  <1>1. ReplyTypes /\ PlacesInv /\ FlightInv /\ ScreenInv /\ UnitsInv /\ LengthsInv /\ TakenInv /\ LastInv /\ ThoughtInv
        /\ EndInv /\ "turn" \in Reply!Flushers /\ "loop" \in Reply!Flushers /\ Reply!Flushers = {"turn", "loop"}
    BY DEF ReplyInv, Reply!Flushers
  <1>2. /\ flush' \in [Reply!Flushers -> FlushRows] /\ flush'[p].at = where /\ flush'[p].text = flush[p].text
        /\ flush'[p].reason = flush[p].reason /\ flush'[p].tool = flush[p].tool
        /\ \A q \in Reply!Flushers \ {p} : flush'[q] = flush[q]
    BY <1>1, StepsAre DEF Places
  <1>3. \A q \in Reply!Flushers : /\ flush'[q].text = flush[q].text /\ flush'[q].reason = flush[q].reason
                                  /\ flush'[q].at = flush[q].at
                                     \/ (q = p /\ flush[q].at \in {"off", "start"} /\ flush'[q].at \in {"off", "start"})
    BY <1>2
  <1>4. ReplyTypes'
    BY <1>1, <1>2 DEF ReplyTypes
  <1>5. PlacesInv' /\ FlightInv'
    BY <1>1, <1>3 DEF PlacesInv, FlightInv, FinalPlaces, Held
  <1>6. ScreenInv' /\ UnitsInv'
    BY <1>1, <1>3 DEF ScreenInv, UnitsInv
  <1>7. LengthsInv'
    <2>1. turn = "final" => flush'["turn"] = flush["turn"]
      BY <1>1, <1>2
    <2>. QED
      BY <1>1, <1>3, <2>1 DEF LengthsInv, Sending
  <1>8. Written' = Written /\ (Reply!Early' <=> Reply!Early) /\ (Reply!Whole' <=> Reply!Whole) /\ (Over' <=> Over)
    BY DEF Written, Reply!Early, Reply!Whole, Over
  <1>9. TakenInv'
    <2>1. turn = "final" => flush'["turn"] = flush["turn"]
      BY <1>1, <1>2
    <2>. QED
      BY <1>1, <1>3, <1>8, <2>1 DEF TakenInv
  <1>10. LastInv'
    <2>1. \A q \in Reply!Flushers : flush'[q].at = "send" <=> flush[q].at = "send"
      BY <1>3
    <2>2. \A q \in Reply!Flushers : flush[q].at = "send" => flush'[q] = flush[q]
      BY <1>2
    <2>3. \A q \in Reply!Flushers : flush[q].at = "send" => Reply!Rendered(q)' = Reply!Rendered(q)
      BY <2>2 DEF Reply!Rendered
    <2>4. Unsaid' => Unsaid
      BY <1>1, <1>3 DEF Unsaid
    <2>. QED
      BY <1>1, <2>1, <2>3, <2>4 DEF LastInv, Reply!At
  <1>11. ThoughtInv' /\ EndInv'
    BY <1>1, <1>3, <1>8 DEF ThoughtInv, EndInv, Reply!At
  <1>. QED
    BY <1>4, <1>5, <1>6, <1>7, <1>9, <1>10, <1>11 DEF ReplyInv


LEMMA WiderSeq == ASSUME NEW S, NEW T, S \subseteq T, NEW s \in Seq(S)
                  PROVE  s \in Seq(T)
  <1>1. \A i \in 1 .. Len(s) : s[i] \in T
    BY ElementOfSeq
  <1>2. PICK n \in Nat : s \in [1 .. n -> S]
    OBVIOUS
  <1>3. s \in [1 .. n -> T]
    BY <1>2
  <1>. QED
    BY <1>3

LEMMA Parts == ReplyInv => /\ ReplyTypes /\ PlacesInv /\ FlightInv /\ ScreenInv /\ UnitsInv /\ LengthsInv /\ TakenInv
                           /\ LastInv /\ ThoughtInv /\ EndInv
                           /\ "turn" \in Reply!Flushers /\ "loop" \in Reply!Flushers /\ Reply!Flushers = {"turn", "loop"}
  BY DEF ReplyInv, Reply!Flushers

LEMMA WriteKeeps == ASSUME Reply!StreamerConstants, ReplyInv, Reply!Write
                    PROVE  ReplyInv'
  <1>1. /\ ReplyTypes /\ PlacesInv /\ FlightInv /\ ScreenInv /\ UnitsInv /\ LengthsInv /\ TakenInv /\ LastInv /\ ThoughtInv
        /\ EndInv /\ "turn" \in Reply!Flushers /\ "loop" \in Reply!Flushers /\ Reply!Flushers = {"turn", "loop"}
    BY Parts
  <1>2. /\ turn = "writing" /\ Reply!At("turn", "off") /\ written < MaxUnits /\ written' = written + 1 /\ buf' = Append(buf, written + 1)
        /\ dirty' = TRUE
        /\ UNCHANGED <<reason, tools, msg, rmsg, last, sent, inflight, pending, turn, loop, screen, fails, missed, split>>
    BY DEF Reply!Write, Reply!TurnRuns, Reply!Ends
  <1>3. PICK where \in {"start", "off"} : Reply!Steps("turn", where)
    BY DEF Reply!Write, Reply!Steps
  <1>4. /\ flush' \in [Reply!Flushers -> FlushRows] /\ flush'["turn"].at = where /\ flush'["turn"].text = flush["turn"].text
        /\ flush'["turn"].reason = flush["turn"].reason
        /\ flush'["loop"] = flush["loop"]
    BY <1>1, <1>3, StepsAre DEF Places
  <1>5. written \in Nat /\ MaxUnits \in Nat /\ buf \in Seq(Nat) /\ Len(buf) \in Nat
    BY <1>1 DEF ReplyTypes, Reply!StreamerConstants
  <1>6. buf' \in Seq(Nat) /\ Len(buf') = Len(buf) + 1
    BY <1>2, <1>5
  <1>7. ReplyTypes'
    BY <1>1, <1>2, <1>4, <1>5, <1>6 DEF ReplyTypes
  <1>8. PlacesInv' /\ FlightInv' /\ ScreenInv'
    BY <1>1, <1>2, <1>3, <1>4 DEF PlacesInv, FlightInv, ScreenInv, FinalPlaces, Held, Reply!At
  <1>9. UnitsInv'
    <2>1. 1 .. written \subseteq 1 .. (written + 1) /\ written + 1 \in 1 .. (written + 1)
      BY <1>5
    <2>2. buf \in Seq(1 .. (written + 1)) /\ \A p \in Reply!Flushers : flush[p].text \in Seq(1 .. (written + 1))
      <3>1. PICK old, new : old = 1 .. written /\ new = 1 .. (written + 1)
        OBVIOUS
      <3>2. buf \in Seq(old) /\ (\A p \in Reply!Flushers : flush[p].text \in Seq(old)) /\ old \subseteq new
        BY <1>1, <2>1, <3>1 DEF UnitsInv
      <3>3. buf \in Seq(new) /\ \A p \in Reply!Flushers : flush[p].text \in Seq(new)
        BY <3>2, WiderSeq
      <3>. QED
        BY <3>1, <3>3
    <2>3. Append(buf, written + 1) \in Seq(1 .. (written + 1))
      BY <2>1, <2>2
    <2>4. last.len <= written + 1
      BY <1>1, <1>5 DEF UnitsInv, ReplyTypes
    <2>5. \A p \in Reply!Flushers : Len(flush[p].text) <= written + 1
      <3>1. \A p \in Reply!Flushers : Len(flush[p].text) \in Nat
        BY <1>1 DEF UnitsInv
      <3>. QED
        BY <1>1, <1>5, <3>1 DEF UnitsInv
    <2>6. Len(buf') <= written + 1
      BY <1>1, <1>5, <1>6 DEF UnitsInv
    <2>. QED
      BY <1>1, <1>2, <1>4, <2>2, <2>3, <2>4, <2>5, <2>6 DEF UnitsInv
  <1>10. LengthsInv'
    BY <1>1, <1>2, <1>3, <1>4 DEF LengthsInv, Sending, Reply!At
  <1>11. TakenInv'
    <2>1. ~split => buf' = Written'
      <3>1. ASSUME ~split
            PROVE  buf' = Written'
        <4>1. buf = [i \in 1 .. written |-> i]
          BY <1>1, <3>1 DEF TakenInv, Written
        <4>2. PICK old : old = buf
          OBVIOUS
        <4>3. Append(old, written + 1) = [i \in 1 .. (written + 1) |-> i]
          BY <1>5, <4>1, <4>2
        <4>. QED
          BY <1>2, <4>2, <4>3 DEF Written
      <3>. QED
        BY <3>1
    <2>2. \A p \in Reply!Flushers : flush'[p].at \in {"reason", "answer", "send", "end"} => flush'[p].at = flush[p].at
      BY <1>1, <1>3, <1>4
    <2>3. Hold \in Nat
      BY DEF Reply!StreamerConstants
    <2>. QED
      BY <1>1, <1>2, <1>5, <2>1, <2>2, <2>3 DEF TakenInv, Over
  <1>12. LastInv'
    <2>1. \A p \in Reply!Flushers : flush'[p].at = "send" => flush'[p] = flush[p]
      BY <1>1, <1>3, <1>4
    <2>2. \A p \in Reply!Flushers : flush'[p].at = "send" => Reply!Rendered(p)' = Reply!Rendered(p)
      BY <2>1 DEF Reply!Rendered
    <2>3. \A p \in Reply!Flushers : flush[p].at = "send" => flush'[p].at = "send"
      BY <1>1, <1>2, <1>4 DEF Reply!At
    <2>4. Unsaid
      BY <1>2 DEF Unsaid
    <2>. QED
      BY <1>1, <1>2, <2>1, <2>2, <2>3, <2>4 DEF LastInv, Reply!At
  <1>13. ThoughtInv' /\ EndInv'
    BY <1>1, <1>2, <1>3, <1>4 DEF ThoughtInv, EndInv, Reply!At
  <1>. QED
    BY <1>7, <1>8, <1>9, <1>10, <1>11, <1>12, <1>13 DEF ReplyInv

(* What changes neither a flush nor the screen. *)
LEMMA Notes ==
    ASSUME Reply!StreamerConstants, ReplyInv, turn = "writing" \/ flush' = flush,
           UNCHANGED <<buf, written, msg, rmsg, last, sent, inflight, pending, flush, screen, fails, missed, split>>,
           dirty' \in BOOLEAN, tools' \in BOOLEAN, tools => tools', reason' \in {"none", "new", "sent"},
           reason # "none" => reason' # "none",
           \/ turn = "writing" /\ turn' \in {"writing", "stop"} /\ flush["turn"].at = "off"
           \/ turn' = turn
           \/ turn = "close" /\ turn' = "ended" /\ loop = "over",
           loop = "over" => loop' = loop,
           turn # "writing" => reason' = reason /\ tools' = tools,
           loop' \in {"running", "left", "stopped", "last"} \/ loop' = loop \/ (loop' = "over" /\ flush["loop"].at = "off" /\ turn = "close")
    PROVE  ReplyInv'
  <1>1. /\ ReplyTypes /\ PlacesInv /\ FlightInv /\ ScreenInv /\ UnitsInv /\ LengthsInv /\ TakenInv /\ LastInv /\ ThoughtInv
        /\ EndInv /\ "turn" \in Reply!Flushers /\ "loop" \in Reply!Flushers /\ Reply!Flushers = {"turn", "loop"}
    BY Parts
  <1>2. ReplyTypes'
    BY <1>1 DEF ReplyTypes
  <1>3. PlacesInv' /\ FlightInv' /\ ScreenInv' /\ UnitsInv' /\ LengthsInv'
    BY <1>1 DEF PlacesInv, FlightInv, ScreenInv, UnitsInv, LengthsInv, Sending, FinalPlaces
  <1>4. Written' = Written /\ (Reply!Whole' <=> Reply!Whole)
    BY DEF Written, Reply!Whole
  <1>5. (Over' => turn # "writing") /\ (Over' <=> Over)
    BY DEF Over
  <1>6. turn # "writing" => (Reply!Early' <=> Reply!Early)
    BY DEF Reply!Early
  <1>7. TakenInv'
    BY <1>1, <1>4, <1>5, <1>6 DEF TakenInv
  <1>8. LastInv'
    <2>1. \A p \in Reply!Flushers : Reply!Rendered(p)' = Reply!Rendered(p)
      BY DEF Reply!Rendered
    <2>2. Unsaid' => Unsaid
      BY DEF Unsaid
    <2>. QED
      BY <1>1, <2>1, <2>2 DEF LastInv, Reply!At
  <1>9. ThoughtInv' /\ EndInv'
    BY <1>1, <1>4, <1>6 DEF ThoughtInv, EndInv, Reply!At, PlacesInv, FinalPlaces
  <1>. QED
    BY <1>2, <1>3, <1>7, <1>8, <1>9 DEF ReplyInv

LEMMA FinalKeeps == ASSUME Reply!StreamerConstants, ReplyInv, Reply!Final
                    PROVE  ReplyInv'
  <1>1. /\ ReplyTypes /\ PlacesInv /\ FlightInv /\ ScreenInv /\ UnitsInv /\ LengthsInv /\ TakenInv /\ LastInv /\ ThoughtInv
        /\ EndInv /\ "turn" \in Reply!Flushers /\ "loop" \in Reply!Flushers /\ Reply!Flushers = {"turn", "loop"}
    BY Parts
  <1>2. /\ turn = "stop" /\ ~inflight /\ turn' = "final"
        /\ UNCHANGED <<buf, dirty, reason, tools, written, msg, rmsg, last, sent, inflight, pending, loop, screen, fails,
                       missed, split>>
    BY DEF Reply!Final, Reply!MayEnd, Reply!Lanes
  <1>3. PICK thought \in BOOLEAN : thought = (reason # "none")
    OBVIOUS
  <1>4. PICK row : row = [at |-> "freason", text |-> buf, reason |-> thought, tool |-> FALSE]
    OBVIOUS
  <1>5. row \in FlushRows /\ row.at = "freason" /\ row.text = buf /\ row.reason = thought /\ row.tool = FALSE
    BY <1>1, <1>4 DEF FlushRows, Places, FinalPlaces, ReplyTypes
  <1>6. flush' \in [Reply!Flushers -> FlushRows] /\ flush'["turn"] = row /\ flush'["loop"] = flush["loop"]
    <2>1. flush' = [flush EXCEPT !["turn"] = row] /\ flush \in [Reply!Flushers -> FlushRows]
      BY <1>1, <1>3, <1>4 DEF Reply!Final, ReplyTypes
    <2>. QED
      BY <1>1, <1>5, <2>1
  <1>7. flush["loop"].at \notin Held
    BY <1>1, <1>2 DEF FlightInv
  <1>8. ReplyTypes'
    BY <1>1, <1>2, <1>6 DEF ReplyTypes
  <1>9. PlacesInv' /\ FlightInv' /\ ScreenInv' /\ UnitsInv'
    BY <1>1, <1>2, <1>5, <1>6, <1>7 DEF PlacesInv, FlightInv, ScreenInv, UnitsInv, FinalPlaces, Held
  <1>10. LengthsInv'
    BY <1>1, <1>2, <1>5, <1>6, <1>7 DEF LengthsInv, Sending, Held, PlacesInv, FinalPlaces
  <1>11. TakenInv'
    <2>1. Written' = Written
      BY <1>2 DEF Written
    <2>. QED
      BY <1>1, <1>2, <1>5, <1>6, <1>7, <2>1 DEF TakenInv, Over, Held
  <1>12. LastInv'
    <2>1. Unsaid /\ ~Reply!At("turn", "send") /\ ~Reply!At("loop", "send") /\ \A p \in Reply!Flushers : ~Reply!At(p, "send")' /\ ~Reply!At(p, "send")
      BY <1>1, <1>2, <1>5, <1>6, <1>7 DEF Unsaid, Reply!At, Held, PlacesInv, FinalPlaces
    <2>. QED
      BY <1>1, <1>2, <2>1 DEF LastInv
  <1>13. ThoughtInv' /\ EndInv'
    BY <1>1, <1>2, <1>3, <1>5, <1>6 DEF ThoughtInv, EndInv, Reply!At
  <1>. QED
    BY <1>8, <1>9, <1>10, <1>11, <1>12, <1>13 DEF ReplyInv


LEMMA WrittenLength == ASSUME ReplyTypes, TakenInv, ~split
                       PROVE  Len(buf) = written /\ Len(Written) = written
  <1>1. written \in Nat /\ buf = Written
    BY DEF ReplyTypes, TakenInv
  <1>2. Len(Written) = written
    BY <1>1 DEF Written
  <1>. QED
    BY <1>1, <1>2

(* A flush takes the lanes, or a beat. *)
LEMMA TakesKeep ==
    ASSUME Reply!StreamerConstants, ReplyInv, NEW p \in Reply!Flushers, NEW where \in {"beat", "reason"}, Reply!Take(p, where), Reply!At(p, "start"),
           ~inflight, inflight' = TRUE, where = "beat" <=> Reply!Early,
           UNCHANGED <<buf, tools, written, msg, rmsg, last, sent, pending, turn, loop, screen, fails, missed, split>>,
           dirty' \in BOOLEAN, reason' \in {"none", "new", "sent"}, reason' = "none" <=> reason = "none"
    PROVE  ReplyInv'
  <1>1. /\ ReplyTypes /\ PlacesInv /\ FlightInv /\ ScreenInv /\ UnitsInv /\ LengthsInv /\ TakenInv /\ LastInv /\ ThoughtInv
        /\ EndInv /\ "turn" \in Reply!Flushers /\ "loop" \in Reply!Flushers /\ Reply!Flushers = {"turn", "loop"}
    BY Parts
  <1>2. /\ flush' \in [Reply!Flushers -> FlushRows] /\ flush'[p].at = where /\ flush'[p].text = buf
        /\ flush'[p].reason = (reason # "none") /\ flush'[p] \in FlushRows
        /\ \A q \in Reply!Flushers \ {p} : flush'[q] = flush[q]
    BY <1>1, TakesAre DEF Places, Held
  <1>3. \A q \in Reply!Flushers : flush[q].at \notin Held
    BY <1>1 DEF FlightInv
  <1>4. turn # "writing" => p = "loop"
    BY <1>1 DEF PlacesInv, FinalPlaces, Reply!At
  <1>5. ReplyTypes'
    BY <1>1, <1>2 DEF ReplyTypes
  <1>6. PlacesInv'
    BY <1>1, <1>2, <1>4 DEF PlacesInv, FinalPlaces, Reply!At
  <1>7. FlightInv'
    BY <1>1, <1>2, <1>3 DEF FlightInv
  <1>8. ScreenInv' /\ UnitsInv'
    BY <1>1, <1>2 DEF ScreenInv, UnitsInv
  <1>9. LengthsInv'
    BY <1>1, <1>2, <1>3, <1>4 DEF LengthsInv, Sending, Held
  <1>10. Written' = Written /\ (Reply!Early' <=> Reply!Early) /\ (Reply!Whole' <=> Reply!Whole) /\ (Over' <=> Over)
    BY DEF Written, Reply!Early, Reply!Whole, Over
  <1>11. TakenInv'
    <2>1. ~split /\ where = "reason" => tools \/ written + 1 >= Hold
      BY <1>1, WrittenLength DEF Reply!Early, TakenInv, ReplyTypes, Reply!StreamerConstants
    <2>2. turn = "final" => flush'["turn"] = flush["turn"]
      BY <1>1, <1>2, <1>4
    <2>3. \A q \in Reply!Flushers : q # p => flush'[q].at \notin Held
      BY <1>2, <1>3
    <2>4. Over => p = "loop"
      BY <1>4 DEF Over
    <2>. QED
      BY <1>1, <1>2, <1>10, <2>1, <2>2, <2>3, <2>4 DEF TakenInv, Held
  <1>12. LastInv'
    <2>1. \A q \in Reply!Flushers : flush'[q].at # "send" /\ flush[q].at # "send"
      BY <1>2, <1>3 DEF Held
    <2>2. Unsaid' => Unsaid
      BY <1>1, <1>2, <1>4 DEF Unsaid
    <2>. QED
      BY <1>1, <2>1, <2>2 DEF LastInv, Reply!At
  <1>13. ThoughtInv'
    BY <1>1, <1>2, <1>4 DEF ThoughtInv
  <1>14. EndInv'
    BY <1>1, <1>2, <1>3, <1>10 DEF EndInv, Reply!At, Held
  <1>. QED
    BY <1>5, <1>6, <1>7, <1>8, <1>9, <1>11, <1>12, <1>13, <1>14 DEF ReplyInv

LEMMA FlushStartsKeeps == ASSUME Reply!StreamerConstants, ReplyInv, NEW p \in Reply!Flushers, Reply!FlushStarts(p)
                          PROVE  ReplyInv'
  <1>1. /\ Reply!At(p, "start")
        /\ UNCHANGED <<buf, tools, written, msg, rmsg, last, sent, turn, loop, screen, fails, missed, split>>
        /\ \/ Reply!Steps(p, "off") /\ UNCHANGED <<dirty, reason, inflight>> /\ pending' \in {pending, TRUE}
           \/ /\ ~inflight /\ inflight' = TRUE /\ UNCHANGED pending
              /\ \/ Reply!Early /\ Reply!Take(p, "beat") /\ UNCHANGED <<dirty, reason>>
                 \/ ~Reply!Early /\ Reply!Take(p, "reason") /\ dirty' = FALSE /\ reason' = IF reason = "none" THEN "none" ELSE "sent"
    BY DEF Reply!FlushStarts, Reply!Busy, Reply!Ends
  <1>2. /\ ReplyTypes /\ PlacesInv /\ "turn" \in Reply!Flushers /\ Reply!Flushers = {"turn", "loop"}
    BY Parts
  <1>3. (p = "turn" => turn = "writing") /\ (loop = "over" => p # "loop")
    BY <1>1, <1>2 DEF PlacesInv, Reply!At, FinalPlaces
  <1>4. CASE Reply!Steps(p, "off") /\ UNCHANGED <<dirty, reason, inflight>> /\ pending' \in {pending, TRUE}
    <2>1. dirty' \in BOOLEAN /\ pending' \in BOOLEAN /\ loop' = loop /\ flush[p].at \in {"off", "start"}
      BY <1>1, <1>2, <1>4 DEF ReplyTypes, Reply!At
    <2>. QED
      BY <1>1, <1>3, <1>4, <2>1, Idles
  <1>5. CASE ~inflight /\ inflight' = TRUE /\ UNCHANGED pending /\ Reply!Early /\ Reply!Take(p, "beat") /\ UNCHANGED <<dirty, reason>>
    <2>1. dirty' \in BOOLEAN /\ reason' \in {"none", "new", "sent"} /\ (reason' = "none" <=> reason = "none")
      BY <1>2, <1>5 DEF ReplyTypes
    <2>. QED
      BY <1>1, <1>5, <2>1, TakesKeep
  <1>6. CASE ~inflight /\ inflight' = TRUE /\ UNCHANGED pending /\ ~Reply!Early /\ Reply!Take(p, "reason") /\ dirty' = FALSE
             /\ reason' = IF reason = "none" THEN "none" ELSE "sent"
    <2>1. dirty' \in BOOLEAN /\ reason' \in {"none", "new", "sent"} /\ (reason' = "none" <=> reason = "none")
      BY <1>2, <1>6 DEF ReplyTypes
    <2>. QED
      BY <1>1, <1>6, <2>1, TakesKeep
  <1>. QED
    BY <1>1, <1>4, <1>5, <1>6

(* Held places change one to another: the mark stays. *)
LEMMA HeldKeeps ==
    ASSUME ReplyInv, NEW p \in Reply!Flushers, NEW where \in Held, Reply!Steps(p, where), flush[p].at \in Held,
           UNCHANGED <<inflight, turn, loop>>
    PROVE  PlacesInv' /\ FlightInv' /\ (turn # "writing" => p = "loop")
           /\ \A q \in Reply!Flushers \ {p} : flush[q].at \notin Held /\ flush'[q] = flush[q]
  <1>1. /\ ReplyTypes /\ PlacesInv /\ FlightInv /\ ScreenInv /\ UnitsInv /\ LengthsInv /\ TakenInv /\ LastInv /\ ThoughtInv
        /\ EndInv /\ "turn" \in Reply!Flushers /\ "loop" \in Reply!Flushers /\ Reply!Flushers = {"turn", "loop"}
    BY Parts
  <1>2. /\ flush' \in [Reply!Flushers -> FlushRows] /\ flush'[p].at = where
        /\ \A q \in Reply!Flushers \ {p} : flush'[q] = flush[q]
    BY <1>1, StepsAre DEF Places
  <1>3. turn # "writing" => p = "loop"
    BY <1>1 DEF PlacesInv, FinalPlaces, Held
  <1>. QED
    BY <1>1, <1>2, <1>3 DEF PlacesInv, FlightInv, Held, FinalPlaces

LEMMA BeatKeeps == ASSUME Reply!StreamerConstants, ReplyInv, NEW p \in Reply!Flushers, Reply!Heartbeat(p)
                   PROVE  ReplyInv'
  <1>1. /\ ReplyTypes /\ PlacesInv /\ FlightInv /\ ScreenInv /\ UnitsInv /\ LengthsInv /\ TakenInv /\ LastInv /\ ThoughtInv
        /\ EndInv /\ "turn" \in Reply!Flushers /\ "loop" \in Reply!Flushers /\ Reply!Flushers = {"turn", "loop"}
    BY Parts
  <1>2. /\ Reply!At(p, "beat") /\ msg' = Reply!MessageAfter(msg) /\ screen' = Reply!Shows(msg, Reply!Nothing) /\ last' = [last EXCEPT !.is = Reply!Nothing]
        /\ Reply!Steps(p, "beaten")
        /\ UNCHANGED <<buf, dirty, reason, tools, written, rmsg, sent, inflight, pending, turn, loop, fails, missed, split>>
    BY DEF Reply!Heartbeat, Reply!Lanes, Reply!Ends
  <1>3. /\ flush' \in [Reply!Flushers -> FlushRows] /\ flush'[p].at = "beaten" /\ flush'[p].text = flush[p].text
        /\ flush'[p].reason = flush[p].reason
    BY <1>1, <1>2, StepsAre DEF Places, Held
  <1>4. PlacesInv' /\ FlightInv' /\ (turn # "writing" => p = "loop")
        /\ \A q \in Reply!Flushers \ {p} : flush[q].at \notin Held /\ flush'[q] = flush[q]
    <2>1. flush[p].at \in Held /\ "beaten" \in Held
      BY <1>2 DEF Reply!At, Held
    <2>. QED
      BY <1>2, <2>1, HeldKeeps
  <1>5. Reply!Nothing \in Shown /\ Reply!Nothing.kind = "hold" /\ Reply!Nothing.text = <<>> /\ Len(Reply!Nothing.text) = 0 /\ msg \in 0 .. Len(screen)
        /\ Len(screen) \in Nat /\ Limit \in Nat
    BY <1>1 DEF Reply!Nothing, Shown, ScreenInv, ReplyTypes, Reply!StreamerConstants
  <1>6. /\ screen' \in Seq(Shown) /\ msg' \in 1 .. Len(screen') /\ screen'[msg'] = Reply!Nothing
        /\ Len(screen') = (IF msg = 0 THEN Len(screen) + 1 ELSE Len(screen))
        /\ msg' = (IF msg = 0 THEN Len(screen) + 1 ELSE msg)
        /\ \A i \in 1 .. Len(screen) : i # msg => screen'[i] = screen[i]
    <2>1. PICK content : content = Reply!Nothing
      OBVIOUS
    <2>2. /\ Reply!Shows(msg, content) \in Seq(Shown) /\ Reply!MessageAfter(msg) \in 1 .. Len(Reply!Shows(msg, content))
          /\ Reply!Shows(msg, content)[Reply!MessageAfter(msg)] = content
          /\ Len(Reply!Shows(msg, content)) = (IF msg = 0 THEN Len(screen) + 1 ELSE Len(screen))
          /\ Reply!MessageAfter(msg) = (IF msg = 0 THEN Len(screen) + 1 ELSE msg)
          /\ \A i \in 1 .. Len(screen) : i # msg => Reply!Shows(msg, content)[i] = screen[i]
      <3>1. content \in Shown /\ msg \in 0 .. Len(screen)
        BY <1>5, <2>1
      <3>. QED
        BY <1>1, <3>1, ShowsAre
    <2>. QED
      BY <1>2, <2>1, <2>2
  <1>7. last' \in [is : Shown, len : Nat] /\ last'.is = Reply!Nothing /\ last'.len = last.len
    BY <1>1, <1>2, <1>5 DEF ReplyTypes
  <1>8. ReplyTypes'
    BY <1>1, <1>2, <1>3, <1>6, <1>7 DEF ReplyTypes
  <1>9. ScreenInv'
    <2>1. \A m \in 1 .. Len(screen') : m = msg' \/ (m \in 1 .. Len(screen) /\ m # msg)
      BY <1>5, <1>6
    <2>. QED
      <3>1. rmsg \in Nat /\ rmsg <= Len(screen) /\ msg \in Nat /\ (msg = rmsg => msg = 0) /\ rmsg' = rmsg
            /\ \A m \in 1 .. Len(screen) : Len(screen[m].text) <= Limit
        BY <1>1, <1>2 DEF ScreenInv, ReplyTypes
      <3>2. \A m \in 1 .. Len(screen') : Len(screen'[m].text) <= Limit
        BY <1>5, <1>6, <2>1, <3>1
      <3>3. msg' <= Len(screen') /\ rmsg <= Len(screen') /\ msg' # rmsg
        BY <1>5, <1>6, <3>1
      <3>. QED
        BY <3>1, <3>2, <3>3 DEF ScreenInv
  <1>10. UnitsInv'
    BY <1>1, <1>2, <1>3, <1>4, <1>7 DEF UnitsInv
  <1>11. LengthsInv'
    <2>1. \A q \in Reply!Flushers : flush'[q].text = flush[q].text /\ (Sending(q)' => Sending(q)) /\ Len(flush[q].text) \in Nat
      BY <1>1, <1>3, <1>4 DEF Sending, UnitsInv
    <2>2. last.len \in Nat
      BY <1>1 DEF ReplyTypes
    <2>3. flush'["loop"].at \in {"reason", "answer", "send"} => flush'["loop"].at = flush["loop"].at
      BY <1>1, <1>3, <1>4
    <2>4. flush'["turn"].text = flush["turn"].text /\ flush'["loop"].text = flush["loop"].text
      BY <1>1, <2>1
    <2>. QED
      <3>1. Len(screen'[msg'].text) = 0 /\ last'.len = last.len
        BY <1>5, <1>6, <1>7
      <3>2. Len(screen'[msg'].text) <= last'.len
        BY <2>2, <3>1
      <3>3. \A q \in Reply!Flushers : Sending(q)' => Len(flush'[q].text) <= last'.len /\ Len(screen'[msg'].text) <= Len(flush'[q].text)
        <4>1. \A q \in Reply!Flushers : Sending(q)' => Len(flush[q].text) <= last.len
          BY <1>1, <2>1 DEF LengthsInv
        <4>. QED
          BY <2>1, <3>1, <4>1
      <3>4. turn = "final" =>
               /\ buf = flush["turn"].text \/ (Len(buf) <= Limit /\ last.len > Limit)
               /\ flush'["loop"].at \in {"reason", "answer"} =>
                     flush["loop"].text = flush["turn"].text \/ (Len(flush["loop"].text) <= Limit /\ last.len > Limit)
               /\ flush'["loop"].at = "send" => Len(flush["loop"].text) = Len(flush["turn"].text)
        BY <1>1, <2>3 DEF LengthsInv
      <3>. QED
        BY <1>2, <2>4, <3>1, <3>2, <3>3, <3>4 DEF LengthsInv
  <1>12. Written' = Written /\ (Reply!Early' <=> Reply!Early) /\ (Over' <=> Over)
    BY <1>2 DEF Written, Reply!Early, Over
  <1>13. TakenInv'
    <2>1. turn = "final" => flush'["turn"] = flush["turn"]
      BY <1>1, <1>4
    <2>2. \A q \in Reply!Flushers : flush'[q].at \in {"reason", "answer", "send", "end"} => flush[q].at \in {"reason", "answer", "send", "end"}
                              /\ flush'[q] = flush[q]
      BY <1>3, <1>4
    <2>3. flush'["loop"].at \in {"beat", "beaten"} => flush["loop"].at \in {"beat", "beaten"}
      BY <1>1, <1>2, <1>3, <1>4 DEF Reply!At
    <2>. QED
      BY <1>1, <1>2, <1>12, <2>1, <2>2, <2>3 DEF TakenInv
  <1>14. LastInv'
    <2>1. \A q \in Reply!Flushers : flush'[q].at # "send"
      BY <1>3, <1>4 DEF Held
    <2>. QED
      BY <1>5, <1>7, <2>1 DEF LastInv, Reply!At
  <1>15. ThoughtInv'
    BY <1>1, <1>2, <1>3, <1>4 DEF ThoughtInv
  <1>16. EndInv'
    <2>1. ASSUME turn \in {"close", "ended"} \/ flush'["turn"].at = "fend"
          PROVE  split \/ Reply!Early
      <3>1. p = "loop" /\ Over
        BY <1>1, <1>3, <1>4, <2>1 DEF Over, PlacesInv, FinalPlaces
      <3>. QED
        BY <1>1, <1>2, <3>1 DEF TakenInv, Reply!At
    <2>. QED
      BY <1>2, <1>12, <2>1 DEF EndInv, Reply!At
  <1>. QED
    BY <1>4, <1>8, <1>9, <1>10, <1>11, <1>13, <1>14, <1>15, <1>16 DEF ReplyInv


(* Where a flush that works for an answer goes: one of the loop or of the writer, or Finalize itself. *)
Onward(p, here, next) ==
    /\ p \in Reply!Flushers /\ Reply!At(p, here) /\ next \in Places
    /\ \/ here \in Held /\ next \in Held
       \/ p = "turn" /\ here \in FinalPlaces /\ next \in FinalPlaces

LEMMA OnwardKeeps ==
    ASSUME ReplyInv, NEW p \in Reply!Flushers, NEW here, NEW next, Onward(p, here, next), Reply!Steps(p, next),
           UNCHANGED <<inflight, turn, loop>>
    PROVE  /\ PlacesInv' /\ FlightInv' /\ flush' \in [Reply!Flushers -> FlushRows]
           /\ here \in Held /\ turn # "writing" => p = "loop"
           /\ here \in Held => \A q \in Reply!Flushers \ {p} : flush[q].at \notin Held
           /\ here \notin Held => turn = "final" /\ p = "turn"
           /\ \A q \in Reply!Flushers \ {p} : flush'[q] = flush[q]
           /\ flush'[p].at = next /\ flush'[p].text = flush[p].text /\ flush'[p].reason = flush[p].reason
           /\ flush'[p].tool = flush[p].tool
  <1>1. /\ ReplyTypes /\ PlacesInv /\ FlightInv /\ ScreenInv /\ UnitsInv /\ LengthsInv /\ TakenInv /\ LastInv /\ ThoughtInv
        /\ EndInv /\ "turn" \in Reply!Flushers /\ "loop" \in Reply!Flushers /\ Reply!Flushers = {"turn", "loop"}
    BY Parts
  <1>2. /\ flush' \in [Reply!Flushers -> FlushRows] /\ flush'[p].at = next /\ flush'[p].text = flush[p].text
        /\ flush'[p].reason = flush[p].reason /\ flush'[p].tool = flush[p].tool
        /\ \A q \in Reply!Flushers \ {p} : flush'[q] = flush[q]
    BY <1>1, StepsAre DEF Onward
  <1>3. flush[p].at = here
    BY DEF Onward, Reply!At
  <1>4. CASE here \in Held /\ next \in Held
    <2>1. turn # "writing" => p = "loop"
      BY <1>1, <1>3, <1>4 DEF PlacesInv, FinalPlaces, Held
    <2>. QED
      BY <1>1, <1>2, <1>3, <1>4, <2>1 DEF PlacesInv, FlightInv, Held, FinalPlaces
  <1>5. CASE p = "turn" /\ here \in FinalPlaces /\ next \in FinalPlaces
    BY <1>1, <1>2, <1>3, <1>5 DEF PlacesInv, FlightInv, Held, FinalPlaces
  <1>. QED
    BY <1>4, <1>5 DEF Onward

(* What the thinking lane makes of the screen. *)
LEMMA LaneIs ==
    ASSUME Reply!StreamerConstants, ReplyInv, NEW p \in Reply!Flushers, NEW next, Reply!ReasonLane(p, next)
    PROVE  /\ Reply!Steps(p, next) /\ screen' \in Seq(Shown) /\ msg' \in Nat /\ rmsg' \in Nat /\ ScreenInv'
           /\ (flush[p].reason => rmsg' # 0) /\ (rmsg # 0 => rmsg' # 0)
           /\ msg' = 0 \/ (msg' = msg /\ screen'[msg] = screen[msg])
           /\ rmsg # 0 \/ ~flush[p].reason => msg' = msg
           /\ split' = (split \/ (flush[p].reason /\ rmsg = 0 /\ msg # 0 /\ screen[msg].kind = "text"))
           /\ UNCHANGED split \/ flush[p].reason
  <1>1. /\ ReplyTypes /\ PlacesInv /\ FlightInv /\ ScreenInv /\ UnitsInv /\ LengthsInv /\ TakenInv /\ LastInv /\ ThoughtInv
        /\ EndInv /\ "turn" \in Reply!Flushers /\ "loop" \in Reply!Flushers /\ Reply!Flushers = {"turn", "loop"}
    BY Parts
  <1>2. CASE ~flush[p].reason
    <2>1. Reply!Steps(p, next) /\ UNCHANGED <<msg, rmsg, screen, split>>
      BY <1>2 DEF Reply!ReasonLane
    <2>2. ScreenInv'
      BY <1>1, <2>1 DEF ScreenInv
    <2>. QED
      BY <1>1, <1>2, <2>1, <2>2 DEF ReplyTypes
  <1>3. CASE flush[p].reason
    <2>1. PICK m : m = IF rmsg = 0 THEN msg ELSE rmsg
      OBVIOUS
    <2>2. PICK thinking : thinking = [kind |-> "think", text |-> <<>>, tool |-> FALSE]
      OBVIOUS
    <2>3. /\ Reply!Steps(p, next) /\ rmsg' = Reply!MessageAfter(m) /\ screen' = Reply!Shows(m, thinking)
          /\ split' = (split \/ (rmsg = 0 /\ msg # 0 /\ screen[msg].kind = "text"))
          /\ msg' = IF rmsg = 0 THEN 0 ELSE msg
      BY <1>3, <2>1, <2>2 DEF Reply!ReasonLane
    <2>4. /\ thinking \in Shown /\ Len(thinking.text) = 0 /\ m \in 0 .. Len(screen) /\ Len(screen) \in Nat
          /\ msg \in Nat /\ rmsg \in Nat /\ msg <= Len(screen) /\ rmsg <= Len(screen) /\ (msg = rmsg => msg = 0) /\ Limit \in Nat
      BY <1>1, <2>1, <2>2 DEF Shown, ScreenInv, ReplyTypes, Reply!StreamerConstants
    <2>5. /\ Reply!Shows(m, thinking) \in Seq(Shown) /\ Reply!MessageAfter(m) \in 1 .. Len(Reply!Shows(m, thinking))
          /\ Reply!Shows(m, thinking)[Reply!MessageAfter(m)] = thinking
          /\ Len(Reply!Shows(m, thinking)) = (IF m = 0 THEN Len(screen) + 1 ELSE Len(screen))
          /\ Reply!MessageAfter(m) = (IF m = 0 THEN Len(screen) + 1 ELSE m)
          /\ \A i \in 1 .. Len(screen) : i # m => Reply!Shows(m, thinking)[i] = screen[i]
      BY <1>1, <2>4, ShowsAre
    <2>6. \A i \in 1 .. Len(screen') : i = rmsg' \/ (i \in 1 .. Len(screen) /\ i # m)
      BY <2>3, <2>4, <2>5
    <2>7. ScreenInv'
      <3>1. msg' <= Len(screen') /\ rmsg' <= Len(screen') /\ (msg' = rmsg' => msg' = 0)
        BY <2>1, <2>3, <2>4, <2>5
      <3>2. \A i \in 1 .. Len(screen') : Len(screen'[i].text) <= Limit
        BY <1>1, <2>3, <2>4, <2>5, <2>6 DEF ScreenInv
      <3>. QED
        BY <3>1, <3>2 DEF ScreenInv
    <2>8. msg' = 0 \/ (msg' = msg /\ screen'[msg] = screen[msg])
      BY <2>1, <2>3, <2>4, <2>5
    <2>9. rmsg' # 0 /\ rmsg' \in Nat /\ msg' \in Nat /\ (rmsg # 0 => msg' = msg)
      BY <2>3, <2>4, <2>5
    <2>. QED
      BY <1>3, <2>3, <2>5, <2>7, <2>8, <2>9
  <1>. QED
    BY <1>2, <1>3

LEMMA LaneKeeps ==
    ASSUME Reply!StreamerConstants, ReplyInv, NEW p \in Reply!Flushers, NEW here, NEW next, Reply!ReasonLane(p, next),
           (here = "reason" /\ next = "answer") \/ (p = "turn" /\ here = "freason" /\ next = "fanswer"), Reply!At(p, here),
           UNCHANGED <<buf, dirty, reason, tools, written, last, sent, inflight, pending, turn, loop, fails, missed>>
    PROVE  ReplyInv'
  <1>1. /\ ReplyTypes /\ PlacesInv /\ FlightInv /\ ScreenInv /\ UnitsInv /\ LengthsInv /\ TakenInv /\ LastInv /\ ThoughtInv
        /\ EndInv /\ "turn" \in Reply!Flushers /\ "loop" \in Reply!Flushers /\ Reply!Flushers = {"turn", "loop"}
    BY Parts
  <1>2. /\ Reply!Steps(p, next) /\ screen' \in Seq(Shown) /\ msg' \in Nat /\ rmsg' \in Nat /\ ScreenInv'
        /\ (flush[p].reason => rmsg' # 0) /\ (rmsg # 0 => rmsg' # 0)
        /\ msg' = 0 \/ (msg' = msg /\ screen'[msg] = screen[msg])
        /\ rmsg # 0 \/ ~flush[p].reason => msg' = msg
        /\ split' = (split \/ (flush[p].reason /\ rmsg = 0 /\ msg # 0 /\ screen[msg].kind = "text"))
        /\ UNCHANGED split \/ flush[p].reason
    BY LaneIs
  <1>3. Onward(p, here, next)
    BY DEF Onward, Held, Places, FinalPlaces
  <1>4. /\ PlacesInv' /\ FlightInv' /\ flush' \in [Reply!Flushers -> FlushRows]
        /\ here \in Held /\ turn # "writing" => p = "loop"
        /\ here \in Held => \A q \in Reply!Flushers \ {p} : flush[q].at \notin Held
        /\ here \notin Held => turn = "final" /\ p = "turn"
        /\ \A q \in Reply!Flushers \ {p} : flush'[q] = flush[q]
        /\ flush'[p].at = next /\ flush'[p].text = flush[p].text /\ flush'[p].reason = flush[p].reason
        /\ flush'[p].tool = flush[p].tool
    BY <1>2, <1>3, OnwardKeeps
  <1>5. split' \in BOOLEAN /\ (split' <=> split \/ (flush[p].reason /\ rmsg = 0 /\ msg # 0 /\ screen[msg].kind = "text"))
    BY <1>1, <1>2 DEF ReplyTypes
  <1>6. ReplyTypes'
    BY <1>1, <1>2, <1>4, <1>5 DEF ReplyTypes
  <1>7. \A q \in Reply!Flushers : flush'[q].text = flush[q].text /\ flush'[q].reason = flush[q].reason /\ flush'[q].tool = flush[q].tool
    BY <1>4
  <1>8. UnitsInv'
    BY <1>1, <1>7 DEF UnitsInv
  <1>9. flush[p].at = here
    BY DEF Reply!At
  <1>10. \A q \in Reply!Flushers : Sending(q)' <=> Sending(q)
    BY <1>4, <1>9 DEF Sending
  <1>11. LengthsInv'
    <2>1. flush'["loop"].at \in {"reason", "answer"} <=> flush["loop"].at \in {"reason", "answer"}
      BY <1>1, <1>4, <1>9
    <2>2. flush'["loop"].at = "send" <=> flush["loop"].at = "send"
      BY <1>1, <1>4, <1>9
    <2>. QED
      BY <1>1, <1>2, <1>7, <1>10, <2>1, <2>2 DEF LengthsInv
  <1>12. Written' = Written /\ (Reply!Early' <=> Reply!Early) /\ (Over' <=> Over)
    BY DEF Written, Reply!Early, Over
  <1>13. TakenInv'
    <2>1. \A q \in Reply!Flushers : flush'[q].at \in {"reason", "answer", "send", "end"} <=> flush[q].at \in {"reason", "answer", "send", "end"}
      BY <1>4, <1>9
    <2>2. flush'["loop"].at \in {"reason", "answer", "send"} <=> flush["loop"].at \in {"reason", "answer", "send"}
      BY <1>1, <1>4, <1>9
    <2>3. flush'["loop"].at \in {"beat", "beaten"} <=> flush["loop"].at \in {"beat", "beaten"}
      BY <1>1, <1>4, <1>9
    <2>4. ~split' => ~split
      BY <1>5
    <2>. QED
      BY <1>1, <1>7, <1>12, <2>1, <2>2, <2>3, <2>4 DEF TakenInv
  <1>14. LastInv'
    <2>1. Unsaid' => Unsaid
      BY <1>1, <1>4, <1>9 DEF Unsaid
    <2>2. \A q \in Reply!Flushers : Reply!At(q, "send")' <=> Reply!At(q, "send")
      BY <1>4, <1>9 DEF Reply!At
    <2>3. \A q \in Reply!Flushers : Reply!Rendered(q)' = Reply!Rendered(q)
      BY <1>7 DEF Reply!Rendered
    <2>4. ~split' /\ msg # 0 /\ screen[msg].kind = "text" => ~split /\ msg' = msg /\ msg' # 0
      BY <1>2, <1>5
    <2>. QED
      BY <1>1, <1>2, <1>5, <2>1, <2>2, <2>3, <2>4 DEF LastInv
  <1>15. ThoughtInv'
    <2>1. (\A q \in Reply!Flushers : flush[q].reason => reason # "none") /\ (turn = "final" => (reason # "none" => flush["turn"].reason))
          /\ (turn \in {"close", "ended"} \/ flush["turn"].at \in {"fanswer", "fsend", "fend"} => (reason # "none" => rmsg # 0))
      BY <1>1 DEF ThoughtInv
    <2>2. turn \in {"close", "ended"} \/ flush'["turn"].at \in {"fanswer", "fsend", "fend"} => (reason # "none" => rmsg' # 0)
      <3>1. CASE here = "freason"
        <4>1. turn = "final" /\ p = "turn"
          BY <1>4, <3>1 DEF Held
        <4>. QED
          BY <1>2, <2>1, <4>1
      <3>2. CASE here = "reason" /\ p = "loop"
        <4>1. flush'["turn"] = flush["turn"]
          BY <1>1, <1>4, <3>2
        <4>. QED
          BY <1>2, <2>1, <4>1
      <3>3. CASE here = "reason" /\ p = "turn"
        <4>1. turn = "writing" /\ flush'["turn"].at = "answer"
          BY <1>4, <3>3 DEF Held
        <4>. QED
          BY <4>1
      <3>. QED
        BY <1>1, <3>1, <3>2, <3>3
    <2>. QED
      BY <1>1, <1>7, <2>1, <2>2 DEF ThoughtInv
  <1>16. EndInv'
    <2>1. ASSUME turn \in {"close", "ended"} \/ flush'["turn"].at = "fend"
          PROVE  /\ turn \in {"close", "ended"} \/ flush["turn"].at = "fend"
                 /\ msg' = msg /\ (msg # 0 => screen'[msg] = screen[msg]) /\ (flush'["loop"].at # "send" => flush["loop"].at # "send")
                 /\ (split => split')
      <3>1. turn \in {"close", "ended"} \/ flush["turn"].at = "fend"
        BY <1>1, <1>4, <1>9, <2>1
      <3>2. flush[p].reason => rmsg # 0
        BY <1>1, <3>1 DEF ThoughtInv
      <3>. QED
        BY <1>1, <1>2, <1>4, <1>5, <1>9, <3>1, <3>2
    <2>2. (turn \in {"close", "ended"} \/ flush'["turn"].at = "fend") /\ Reply!Whole => Reply!Whole'
      BY <2>1 DEF Reply!Whole
    <2>. QED
      BY <1>1, <1>12, <2>1, <2>2 DEF EndInv, Reply!At
  <1>. QED
    BY <1>2, <1>4, <1>6, <1>8, <1>11, <1>13, <1>14, <1>15, <1>16 DEF ReplyInv

(* The text an answer is made of is looked at: it goes on to be sent, or there is nothing to send. *)
LEMMA FormatKeeps ==
    ASSUME Reply!StreamerConstants, ReplyInv, NEW p \in Reply!Flushers, NEW here, NEW next, NEW done, Reply!Format(p, next, done), Reply!At(p, here),
           \/ here = "answer" /\ next = "send" /\ done = "end"
           \/ p = "turn" /\ here = "fanswer" /\ next = "fsend" /\ done = "fend" /\ ~(buf = <<>> /\ tools),
           UNCHANGED <<buf, dirty, reason, tools, written, msg, rmsg, sent, inflight, pending, turn, loop, screen, fails,
                       missed, split>>
    PROVE  ReplyInv'
  <1>1. /\ ReplyTypes /\ PlacesInv /\ FlightInv /\ ScreenInv /\ UnitsInv /\ LengthsInv /\ TakenInv /\ LastInv /\ ThoughtInv
        /\ EndInv /\ "turn" \in Reply!Flushers /\ "loop" \in Reply!Flushers /\ Reply!Flushers = {"turn", "loop"}
    BY Parts
  <1>2. PICK c : c = Reply!Rendered(p)
    OBVIOUS
  <1>3. c \in Shown /\ c.text = flush[p].text /\ c.kind = "text" /\ c.tool \in BOOLEAN
    BY <1>1, <1>2, RenderedIs DEF Shown
  <1>4. PICK where : /\ where \in {next, done} /\ Reply!Steps(p, where)
                     /\ where = done => (((c.text = <<>> /\ ~c.tool) \/ Reply!Skipped(c)) /\ last' = last)
                     /\ where = next => (~((c.text = <<>> /\ ~c.tool) \/ Reply!Skipped(c)) /\ last' = [is |-> c, len |-> Len(c.text)])
    BY <1>2 DEF Reply!Format
  <1>5. Onward(p, here, where)
    BY <1>4 DEF Onward, Held, Places, FinalPlaces
  <1>6. /\ PlacesInv' /\ FlightInv' /\ flush' \in [Reply!Flushers -> FlushRows]
        /\ here \in Held /\ turn # "writing" => p = "loop"
        /\ here \in Held => \A q \in Reply!Flushers \ {p} : flush[q].at \notin Held
        /\ here \notin Held => turn = "final" /\ p = "turn"
        /\ \A q \in Reply!Flushers \ {p} : flush'[q] = flush[q]
        /\ flush'[p].at = where /\ flush'[p].text = flush[p].text /\ flush'[p].reason = flush[p].reason
        /\ flush'[p].tool = flush[p].tool
    BY <1>4, <1>5, OnwardKeeps
  <1>7. /\ \A q \in Reply!Flushers : flush'[q].text = flush[q].text /\ flush'[q].reason = flush[q].reason /\ flush'[q].tool = flush[q].tool
        /\ flush[p].at = here
    BY <1>6 DEF Reply!At
  <1>8. last.len \in Nat /\ last.is \in Shown /\ Len(flush[p].text) \in Nat /\ Len(flush[p].text) <= written
    BY <1>1 DEF ReplyTypes, UnitsInv
  <1>9. /\ last' \in [is : Shown, len : Nat]
        /\ where = next => last'.is = c /\ last'.len = Len(flush[p].text) /\ last.len <= Len(flush[p].text)
                           /\ c # last.is /\ ~(c.text = <<>> /\ ~c.tool)
        /\ where = done => last' = last
    <2>1. where = next => c # last.is /\ ~(c.text = <<>> /\ ~c.tool) /\ (Len(c.text) >= last.len \/ last.len <= 0)
      BY <1>3, <1>4, <1>8 DEF Reply!Skipped
    <2>2. last \in [is : Shown, len : Nat]
      BY <1>1 DEF ReplyTypes
    <2>3. where = next => last' = [is |-> c, len |-> Len(c.text)]
      BY <1>4
    <2>. QED
      BY <1>3, <1>4, <1>8, <2>1, <2>2, <2>3
  <1>10. last'.len >= last.len /\ last'.len <= written /\ last'.len \in Nat
    BY <1>1, <1>4, <1>8, <1>9 DEF UnitsInv
  <1>11. ReplyTypes'
    BY <1>1, <1>6, <1>9 DEF ReplyTypes
  <1>12. ScreenInv' /\ UnitsInv'
    BY <1>1, <1>7, <1>10 DEF ScreenInv, UnitsInv
  <1>13. Written' = Written /\ (Reply!Early' <=> Reply!Early) /\ (Over' <=> Over) /\ (Reply!Whole' <=> Reply!Whole)
    BY DEF Written, Reply!Early, Over, Reply!Whole
  <1>14. LengthsInv'
    <2>1. msg # 0 => Len(screen[msg].text) \in Nat /\ Len(screen[msg].text) <= last.len
      <3>1. msg # 0 => msg \in 1 .. Len(screen) /\ screen \in Seq(Shown)
        BY <1>1 DEF ReplyTypes, ScreenInv
      <3>2. msg # 0 => screen[msg] \in Shown
        BY <3>1
      <3>3. msg # 0 => Len(screen[msg].text) \in Nat
        BY <3>2 DEF Shown
      <3>. QED
        BY <1>1, <3>3 DEF LengthsInv
    <2>2. msg # 0 => Len(screen[msg].text) <= last'.len
      BY <1>8, <1>10, <2>1
    <2>3. \A q \in Reply!Flushers : Len(flush[q].text) \in Nat
      BY <1>1 DEF UnitsInv
    <2>4. \A q \in Reply!Flushers : Sending(q)' => /\ Len(flush[q].text) <= last'.len
                                                   /\ msg # 0 => Len(screen[msg].text) <= Len(flush[q].text)
      <3>1. ASSUME NEW q \in Reply!Flushers, q # p, Sending(q)'
            PROVE  Len(flush[q].text) <= last'.len /\ (msg # 0 => Len(screen[msg].text) <= Len(flush[q].text))
        <4>1. Sending(q)
          BY <1>6, <3>1 DEF Sending
        <4>. QED
          BY <1>1, <1>8, <1>10, <2>3, <4>1 DEF LengthsInv
      <3>2. ASSUME Sending(p)'
            PROVE  Len(flush[p].text) <= last'.len /\ (msg # 0 => Len(screen[msg].text) <= Len(flush[p].text))
        <4>1. where = next
          BY <1>4, <1>6, <3>2 DEF Sending
        <4>. QED
          BY <1>8, <1>9, <2>1, <4>1
      <3>. QED
        BY <3>1, <3>2
    <2>5. ASSUME turn = "final"
          PROVE  /\ buf = flush["turn"].text \/ (Len(buf) <= Limit /\ last'.len > Limit)
                 /\ flush'["loop"].at \in {"reason", "answer"} =>
                       flush["loop"].text = flush["turn"].text \/ (Len(flush["loop"].text) <= Limit /\ last'.len > Limit)
                 /\ flush'["loop"].at = "send" => Len(flush["loop"].text) = Len(flush["turn"].text)
      <3>1. Limit \in Nat
        BY DEF Reply!StreamerConstants
      <3>2. last.len > Limit => last'.len > Limit
        BY <1>8, <1>10, <3>1
      <3>3. /\ buf = flush["turn"].text \/ (Len(buf) <= Limit /\ last.len > Limit)
            /\ flush["loop"].at \in {"reason", "answer"} =>
                   flush["loop"].text = flush["turn"].text \/ (Len(flush["loop"].text) <= Limit /\ last.len > Limit)
            /\ flush["loop"].at = "send" => Len(flush["loop"].text) = Len(flush["turn"].text)
        BY <1>1, <2>5 DEF LengthsInv
      <3>4. flush'["loop"].at \in {"reason", "answer"} => flush["loop"].at \in {"reason", "answer"}
        BY <1>1, <1>4, <1>6, <1>7
      <3>5. flush'["loop"].at = "send" /\ p = "turn" => flush["loop"].at = "send"
        BY <1>1, <1>6
      <3>6. ASSUME flush'["loop"].at = "send", p = "loop"
            PROVE  Len(flush["loop"].text) = Len(flush["turn"].text)
        <4>1. where = next /\ here = "answer"
          BY <1>4, <1>6, <3>6
        <4>2. last.len <= Len(flush["loop"].text) /\ flush["loop"].at \in {"reason", "answer"}
          BY <1>7, <1>9, <3>6, <4>1
        <4>. QED
          BY <1>8, <2>3, <3>1, <3>3, <3>6, <4>2
      <3>. QED
        BY <1>1, <3>2, <3>3, <3>4, <3>5, <3>6
    <2>. QED
      BY <1>1, <1>7, <2>2, <2>4, <2>5 DEF LengthsInv
  <1>15. TakenInv'
    <2>1. \A q \in Reply!Flushers : flush'[q].at \in {"reason", "answer", "send", "end"} => flush[q].at \in {"reason", "answer", "send", "end"}
      BY <1>4, <1>6, <1>7
    <2>2. /\ flush'["loop"].at \in {"reason", "answer", "send"} => flush["loop"].at \in {"reason", "answer", "send"}
          /\ flush'["loop"].at \in {"beat", "beaten"} => flush["loop"].at \in {"beat", "beaten"}
          /\ flush'["loop"].at \in {"reason", "answer", "send", "end"} => flush["loop"].at \in {"reason", "answer", "send", "end"}
      BY <1>1, <1>4, <1>6, <1>7
    <2>. QED
      BY <1>1, <1>7, <1>13, <2>1, <2>2 DEF TakenInv
  <1>16. LastInv'
    <2>1. Unsaid' => Unsaid /\ here = "answer"
      <3>1. CASE here = "answer"
        <4>1. turn = "writing" \/ (p = "loop" /\ flush'["turn"] = flush["turn"])
          BY <1>1, <1>6, <3>1 DEF Held
        <4>. QED
          BY <3>1, <4>1 DEF Unsaid
      <3>2. CASE here = "fanswer"
        <4>1. turn = "final" /\ p = "turn" /\ where \in {"fsend", "fend"}
          BY <1>4, <1>6, <3>2 DEF Held
        <4>. QED
          BY <1>6, <4>1 DEF Unsaid
      <3>. QED
        BY <3>1, <3>2
    <2>2. \A q \in Reply!Flushers : Reply!Rendered(q)' = Reply!Rendered(q)
      BY <1>7 DEF Reply!Rendered
    <2>3. here = "answer" => \A q \in Reply!Flushers : flush[q].at # "send"
      BY <1>1, <1>6, <1>7 DEF Held
    <2>4. here = "answer" => \A q \in Reply!Flushers : flush'[q].at = "send" <=> (q = p /\ where = next)
      BY <1>4, <1>6, <2>3
    <2>5. CASE where = next
      BY <1>1, <1>2, <1>9, <2>1, <2>2, <2>4, <2>5 DEF LastInv, Reply!At
    <2>6. CASE where # next
      <3>1. last' = last
        BY <1>4, <2>6
      <3>. QED
        BY <1>1, <2>1, <2>3, <2>4, <2>6, <3>1 DEF LastInv, Reply!At
    <2>. QED
      BY <2>5, <2>6
  <1>17. ThoughtInv'
    <2>1. flush'["turn"].at \in {"fanswer", "fsend", "fend"} => flush["turn"].at \in {"fanswer", "fsend", "fend"}
      BY <1>1, <1>4, <1>6, <1>7
    <2>. QED
      BY <1>1, <1>7, <2>1 DEF ThoughtInv
  <1>18. EndInv'
    <2>1. CASE here = "answer"
      <3>1. ASSUME turn \in {"close", "ended"} \/ flush'["turn"].at = "fend"
            PROVE  split \/ missed \/ Reply!Early \/ Reply!Whole \/ flush'["loop"].at = "send"
        <4>1. turn \in {"close", "ended"} \/ flush["turn"].at = "fend"
          BY <1>1, <1>4, <1>6, <1>7, <2>1, <3>1
        <4>2. flush'["loop"].at # "send" => flush["loop"].at # "send"
          BY <1>1, <1>6, <1>7, <2>1
        <4>. QED
          BY <1>1, <4>1, <4>2 DEF EndInv, Reply!At
      <3>. QED
        BY <1>13, <3>1 DEF EndInv, Reply!At
    <2>2. CASE here = "fanswer"
      <3>1. turn = "final" /\ p = "turn" /\ where \in {"fsend", "fend"} /\ next = "fsend" /\ done = "fend"
        BY <1>4, <1>6, <2>2 DEF Held
      <3>2. ASSUME where = "fend", ~split, ~missed, flush["loop"].at # "send"
            PROVE  Reply!Early \/ Reply!Whole
        <4>1. last' = last /\ ((c.text = <<>> /\ ~c.tool) \/ Reply!Skipped(c))
          BY <1>4, <3>1, <3>2
        <4>2. flush["turn"].text = Written /\ ~flush["turn"].tool /\ buf = Written /\ Len(buf) = written /\ Len(Written) = written
          BY <1>1, <3>1, <3>2, WrittenLength DEF TakenInv
        <4>3. ~c.tool
          BY <1>2, <3>1, <4>2 DEF Reply!Rendered, Reply!Content
        <4>4. CASE c.text = <<>>
          <5>1. buf = <<>> /\ ~tools /\ written = 0
            BY <1>3, <2>2, <3>1, <4>2, <4>4
          <5>2. ~sent
            <6>1. Hold \in Nat /\ Hold > 1
              BY DEF Reply!StreamerConstants
            <6>2. sent => tools \/ written + 1 >= Hold
              BY <1>1, <3>2 DEF TakenInv
            <6>. QED
              BY <5>1, <6>1, <6>2
          <5>3. Hold \in Nat /\ Hold > 1
            BY DEF Reply!StreamerConstants
          <5>4. Len(buf) = 0
            BY <4>2, <5>1
          <5>. QED
            BY <5>1, <5>2, <5>3, <5>4 DEF Reply!Early
        <4>5. CASE c.text # <<>>
          <5>1. Reply!Skipped(c)
            BY <4>1, <4>5
          <5>2. Len(c.text) = written /\ last.len <= written /\ written \in Nat
            BY <1>1, <1>3, <3>1, <4>2 DEF UnitsInv, ReplyTypes
          <5>3. c = last.is
            BY <1>8, <5>1, <5>2 DEF Reply!Skipped
          <5>4. Unsaid /\ ~Reply!At("turn", "send") /\ ~Reply!At("loop", "send")
            BY <1>7, <2>2, <3>1, <3>2 DEF Unsaid, Reply!At
          <5>5. msg # 0 /\ screen[msg] = c
            BY <1>1, <1>3, <3>2, <5>3, <5>4 DEF LastInv
          <5>. QED
            BY <1>3, <3>1, <4>2, <5>5 DEF Reply!Whole, Written
        <4>. QED
          BY <4>4, <4>5
      <3>3. flush'["turn"].at = where /\ flush'["loop"] = flush["loop"]
        BY <1>1, <1>6, <3>1
      <3>. QED
        BY <1>13, <3>1, <3>2, <3>3 DEF EndInv, Reply!At
    <2>. QED
      BY <2>1, <2>2
  <1>. QED
    BY <1>6, <1>11, <1>12, <1>14, <1>15, <1>16, <1>17, <1>18 DEF ReplyInv

(* Nothing was said and tools were run: the notice. *)
LEMMA NoticeKeeps ==
    ASSUME Reply!StreamerConstants, ReplyInv, Reply!At("turn", "fanswer"), buf = <<>>, tools,
           NEW notice, notice = [kind |-> "notice", text |-> <<>>, tool |-> FALSE],
           screen' = Reply!Shows(msg, notice), msg' = Reply!MessageAfter(msg), Reply!Steps("turn", "fend"),
           UNCHANGED <<buf, dirty, reason, tools, written, last, rmsg, sent, inflight, pending, turn, loop, fails, missed, split>>
    PROVE  ReplyInv'
  <1>1. /\ ReplyTypes /\ PlacesInv /\ FlightInv /\ ScreenInv /\ UnitsInv /\ LengthsInv /\ TakenInv /\ LastInv /\ ThoughtInv
        /\ EndInv /\ "turn" \in Reply!Flushers /\ "loop" \in Reply!Flushers /\ Reply!Flushers = {"turn", "loop"}
    BY Parts
  <1>2. Onward("turn", "fanswer", "fend")
    BY <1>1 DEF Onward, Places, FinalPlaces
  <1>3. /\ PlacesInv' /\ FlightInv' /\ flush' \in [Reply!Flushers -> FlushRows]
        /\ turn = "final" /\ flush'["loop"] = flush["loop"]
        /\ flush'["turn"].at = "fend" /\ flush'["turn"].text = flush["turn"].text /\ flush'["turn"].reason = flush["turn"].reason
        /\ flush'["turn"].tool = flush["turn"].tool
    BY <1>1, <1>2, OnwardKeeps DEF Held
  <1>4. /\ notice \in Shown /\ notice.text = <<>> /\ Len(notice.text) = 0 /\ msg \in 0 .. Len(screen)
        /\ Len(screen) \in Nat /\ Limit \in Nat /\ flush["turn"].at = "fanswer" /\ rmsg <= Len(screen) /\ msg \in Nat /\ rmsg \in Nat
    BY <1>1 DEF Shown, ScreenInv, ReplyTypes, Reply!StreamerConstants, Reply!At
  <1>5. /\ screen' \in Seq(Shown) /\ msg' \in 1 .. Len(screen') /\ screen'[msg'] = notice
        /\ Len(screen') = (IF msg = 0 THEN Len(screen) + 1 ELSE Len(screen))
        /\ msg' = (IF msg = 0 THEN Len(screen) + 1 ELSE msg)
        /\ \A i \in 1 .. Len(screen) : i # msg => screen'[i] = screen[i]
    <2>1. \A content \in Shown :
             /\ Reply!Shows(msg, content) \in Seq(Shown) /\ Reply!MessageAfter(msg) \in 1 .. Len(Reply!Shows(msg, content))
             /\ Reply!Shows(msg, content)[Reply!MessageAfter(msg)] = content
             /\ Len(Reply!Shows(msg, content)) = (IF msg = 0 THEN Len(screen) + 1 ELSE Len(screen))
             /\ Reply!MessageAfter(msg) = (IF msg = 0 THEN Len(screen) + 1 ELSE msg)
             /\ \A i \in 1 .. Len(screen) : i # msg => Reply!Shows(msg, content)[i] = screen[i]
      BY <1>1, <1>4, ShowsAre
    <2>. QED
      BY <1>4, <2>1
  <1>6. \A q \in Reply!Flushers : flush'[q].text = flush[q].text /\ flush'[q].reason = flush[q].reason
    BY <1>1, <1>3
  <1>7. ReplyTypes'
    BY <1>1, <1>3, <1>5 DEF ReplyTypes
  <1>8. ScreenInv'
    <2>1. \A m \in 1 .. Len(screen') : m = msg' \/ (m \in 1 .. Len(screen) /\ m # msg)
      BY <1>4, <1>5
    <2>2. rmsg <= Len(screen') /\ msg' # rmsg
      BY <1>1, <1>4, <1>5 DEF ScreenInv
    <2>. QED
      BY <1>1, <1>4, <1>5, <2>1, <2>2 DEF ScreenInv
  <1>9. UnitsInv'
    BY <1>1, <1>6 DEF UnitsInv
  <1>10. LengthsInv'
    <2>1. \A q \in Reply!Flushers : (Sending(q)' => Sending(q)) /\ Len(flush[q].text) \in Nat
      BY <1>1, <1>3 DEF Sending, UnitsInv
    <2>2. last.len \in Nat /\ msg' # 0 /\ Len(screen'[msg'].text) = 0
      BY <1>1, <1>4, <1>5 DEF ReplyTypes
    <2>3. \A q \in Reply!Flushers : Sending(q)' => /\ Len(flush'[q].text) <= last.len
                                                   /\ Len(screen'[msg'].text) <= Len(flush'[q].text)
      BY <1>1, <1>6, <2>1, <2>2 DEF LengthsInv
    <2>4. Len(screen'[msg'].text) <= last.len
      BY <2>2
    <2>. QED
      BY <1>1, <1>3, <2>2, <2>3, <2>4 DEF LengthsInv
  <1>11. Written' = Written /\ (Reply!Early' <=> Reply!Early) /\ (Over' <=> Over)
    BY DEF Written, Reply!Early, Over
  <1>12. TakenInv'
    <2>1. \A q \in Reply!Flushers : flush'[q].at \in {"reason", "answer", "send", "end"} => flush[q].at \in {"reason", "answer", "send", "end"}
      BY <1>1, <1>3
    <2>. QED
      BY <1>1, <1>3, <1>11, <2>1 DEF TakenInv
  <1>13. LastInv' /\ ThoughtInv'
    BY <1>1, <1>3, <1>4, <1>6 DEF LastInv, ThoughtInv, Unsaid
  <1>14. EndInv'
    <2>1. ~split => Reply!Whole'
      <3>1. ASSUME ~split
            PROVE  Reply!Whole'
        <4>1. buf = Written
          BY <1>1, <3>1 DEF TakenInv
        <4>2. screen'[msg'].text = Written'
          BY <1>4, <1>5, <1>11, <4>1
        <4>. QED
          BY <1>5, <4>2 DEF Reply!Whole, Written
      <3>. QED
        BY <3>1
    <2>. QED
      BY <2>1 DEF EndInv
  <1>. QED
    BY <1>3, <1>7, <1>8, <1>9, <1>10, <1>12, <1>13, <1>14 DEF ReplyInv

LEMMA FinalAnswerKeeps == ASSUME Reply!StreamerConstants, ReplyInv, Reply!FinalAnswer
                          PROVE  ReplyInv'
  <1>1. "turn" \in Reply!Flushers
    BY DEF Reply!Flushers
  <1>2. Reply!At("turn", "fanswer")
        /\ UNCHANGED <<buf, dirty, reason, tools, written, rmsg, sent, inflight, pending, turn, loop, fails, missed, split>>
    BY DEF Reply!FinalAnswer, Reply!Lanes, Reply!Ends
  <1>3. CASE buf = <<>> /\ tools
    <2>1. PICK notice : notice = [kind |-> "notice", text |-> <<>>, tool |-> FALSE]
      OBVIOUS
    <2>2. screen' = Reply!Shows(msg, notice) /\ msg' = Reply!MessageAfter(msg) /\ Reply!Steps("turn", "fend") /\ UNCHANGED last
      BY <1>3, <2>1 DEF Reply!FinalAnswer
    <2>. QED
      BY <1>2, <1>3, <2>1, <2>2, NoticeKeeps
  <1>4. CASE ~(buf = <<>> /\ tools)
    <2>1. Reply!Format("turn", "fsend", "fend") /\ UNCHANGED <<screen, msg>>
      BY <1>4 DEF Reply!FinalAnswer
    <2>. QED
      BY <1>1, <1>2, <1>4, <2>1, FormatKeeps
  <1>. QED
    BY <1>3, <1>4

(* The answer is sent, refused or split. *)
LEMMA SendKeeps ==
    ASSUME Reply!StreamerConstants, ReplyInv, NEW p \in Reply!Flushers, NEW here, NEW next, Reply!Sends(p, next), Reply!At(p, here),
           (here = "send" /\ next = "end") \/ (p = "turn" /\ here = "fsend" /\ next = "fend"),
           UNCHANGED <<inflight, turn, loop>>
    PROVE  ReplyInv'
  <1>1. /\ ReplyTypes /\ PlacesInv /\ FlightInv /\ ScreenInv /\ UnitsInv /\ LengthsInv /\ TakenInv /\ LastInv /\ ThoughtInv
        /\ EndInv /\ "turn" \in Reply!Flushers /\ "loop" \in Reply!Flushers /\ Reply!Flushers = {"turn", "loop"}
    BY Parts
  <1>2. PICK c, text : c = Reply!Rendered(p) /\ text = flush[p].text
    OBVIOUS
  <1>3. /\ SendsWhole(text, c) \/ SendsRefused(text) \/ SendsSplit(text)
        /\ \A S : text \in Seq(S) /\ SendsSplit(text) => buf' \in Seq(S)
        /\ Reply!Steps(p, next) /\ UNCHANGED <<dirty, reason, tools, written, rmsg, last, sent, pending>>
    <2>1. /\ SendsWhole(flush[p].text, Reply!Rendered(p)) \/ SendsRefused(flush[p].text) \/ SendsSplit(flush[p].text)
          /\ \A S : flush[p].text \in Seq(S) /\ SendsSplit(flush[p].text) => buf' \in Seq(S)
          /\ Reply!Steps(p, next) /\ UNCHANGED <<dirty, reason, tools, written, rmsg, last, sent, pending>>
      BY <1>1, SendsAre
    <2>. QED
      BY <1>2, <2>1
  <1>4. c \in Shown /\ c.text = text /\ c.kind = "text"
    BY <1>1, <1>2, RenderedIs
  <1>5. Onward(p, here, next)
    BY DEF Onward, Held, Places, FinalPlaces
  <1>6. /\ PlacesInv' /\ FlightInv' /\ flush' \in [Reply!Flushers -> FlushRows]
        /\ here \in Held /\ turn # "writing" => p = "loop"
        /\ here \in Held => \A q \in Reply!Flushers \ {p} : flush[q].at \notin Held
        /\ here \notin Held => turn = "final" /\ p = "turn"
        /\ \A q \in Reply!Flushers \ {p} : flush'[q] = flush[q]
        /\ flush'[p].at = next /\ flush'[p].text = flush[p].text /\ flush'[p].reason = flush[p].reason
        /\ flush'[p].tool = flush[p].tool
    BY <1>3, <1>5, OnwardKeeps
  <1>7. /\ \A q \in Reply!Flushers : flush'[q].text = flush[q].text /\ flush'[q].reason = flush[q].reason /\ flush'[q].tool = flush[q].tool
        /\ flush[p].at = here
    BY <1>6 DEF Reply!At
  <1>8. /\ last.len \in Nat /\ Len(text) \in Nat /\ Len(text) <= written /\ text \in Seq(1 .. written) /\ written \in Nat
        /\ Len(text) <= last.len /\ Limit \in Nat /\ MaxFails \in Nat /\ Len(screen) \in Nat /\ msg \in 0 .. Len(screen)
        /\ rmsg \in Nat /\ rmsg <= Len(screen)
    <2>1. Sending(p)
      BY <1>7 DEF Sending
    <2>2. Len(text) \in Nat /\ Len(text) <= written /\ text \in Seq(1 .. written) /\ Len(text) <= last.len
      BY <1>1, <1>2, <2>1 DEF UnitsInv, LengthsInv
    <2>. QED
      BY <1>1, <2>2 DEF ReplyTypes, ScreenInv, Reply!StreamerConstants
  <1>9. SendsWhole(text, c) =>
           /\ screen' \in Seq(Shown) /\ msg' \in 1 .. Len(screen') /\ screen'[msg'] = c
           /\ Len(screen') = (IF msg = 0 THEN Len(screen) + 1 ELSE Len(screen))
           /\ msg' = (IF msg = 0 THEN Len(screen) + 1 ELSE msg)
           /\ \A i \in 1 .. Len(screen) : i # msg => screen'[i] = screen[i]
    <2>1. \A content \in Shown :
             /\ Reply!Shows(msg, content) \in Seq(Shown) /\ Reply!MessageAfter(msg) \in 1 .. Len(Reply!Shows(msg, content))
             /\ Reply!Shows(msg, content)[Reply!MessageAfter(msg)] = content
             /\ Len(Reply!Shows(msg, content)) = (IF msg = 0 THEN Len(screen) + 1 ELSE Len(screen))
             /\ Reply!MessageAfter(msg) = (IF msg = 0 THEN Len(screen) + 1 ELSE msg)
             /\ \A i \in 1 .. Len(screen) : i # msg => Reply!Shows(msg, content)[i] = screen[i]
      BY <1>1, <1>8, ShowsAre
    <2>2. SendsWhole(text, c) => screen' = Reply!Shows(msg, c) /\ msg' = Reply!MessageAfter(msg)
      BY DEF SendsWhole
    <2>. QED
      BY <1>4, <2>1, <2>2
  <1>10. ReplyTypes'
    <2>1. /\ buf' \in Seq(Nat) /\ screen' \in Seq(Shown) /\ msg' \in Nat /\ fails' \in 0 .. MaxFails
          /\ missed' \in BOOLEAN /\ split' \in BOOLEAN
      <3>1. CASE SendsWhole(text, c)
        <4>1. missed' = FALSE /\ buf' = buf /\ split' = split /\ fails' = fails
          BY <3>1 DEF SendsWhole
        <4>2. screen' \in Seq(Shown) /\ msg' \in Nat
          BY <1>9, <3>1
        <4>. QED
          BY <1>1, <4>1, <4>2 DEF ReplyTypes
      <3>2. CASE SendsRefused(text)
        BY <1>1, <1>8, <3>2 DEF SendsRefused, ReplyTypes
      <3>3. CASE SendsSplit(text)
        <4>1. missed' = FALSE /\ split' = TRUE /\ fails' = fails /\ buf' \in Seq(Nat)
          BY <3>3 DEF SendsSplit
        <4>2. screen' \in Seq(Shown) /\ msg' = Len(screen')
          BY <3>3 DEF SendsSplit
        <4>3. msg' \in Nat
          BY <4>2
        <4>. QED
          BY <1>1, <4>1, <4>2, <4>3 DEF ReplyTypes
      <3>. QED
        BY <1>3, <3>1, <3>2, <3>3
    <2>. QED
      BY <1>1, <1>3, <1>6, <2>1 DEF ReplyTypes
  <1>11. ScreenInv'
    <2>1. CASE SendsWhole(text, c)
      <3>1. \A m \in 1 .. Len(screen') : m = msg' \/ (m \in 1 .. Len(screen) /\ m # msg)
        BY <1>8, <1>9, <2>1
      <3>2. rmsg <= Len(screen') /\ (msg' = rmsg => msg' = 0)
        BY <1>1, <1>8, <1>9, <2>1 DEF ScreenInv
      <3>3. Len(c.text) <= Limit
        BY <1>4, <2>1 DEF SendsWhole
      <3>4. screen'[msg'] = c /\ \A i \in 1 .. Len(screen) : i # msg => screen'[i] = screen[i]
        BY <1>9, <2>1
      <3>5. \A m \in 1 .. Len(screen) : Len(screen[m].text) <= Limit
        BY <1>1 DEF ScreenInv
      <3>6. \A m \in 1 .. Len(screen') : Len(screen'[m].text) <= Limit
        BY <3>1, <3>3, <3>4, <3>5
      <3>7. msg' <= Len(screen') /\ rmsg' = rmsg
        BY <1>3, <1>9, <2>1
      <3>. QED
        BY <3>2, <3>6, <3>7 DEF ScreenInv
    <2>2. CASE SendsRefused(text)
      BY <1>1, <1>3, <2>2 DEF SendsRefused, ScreenInv
    <2>3. CASE SendsSplit(text)
      <3>1. Len(screen') \in Nat /\ Len(screen') > Len(screen) /\ msg' = Len(screen') /\ rmsg' = rmsg
            /\ \A m \in 1 .. Len(screen') : Len(screen'[m].text) <= Limit
        BY <1>3, <2>3 DEF SendsSplit
      <3>. QED
        BY <1>8, <3>1 DEF ScreenInv
    <2>. QED
      BY <1>3, <2>1, <2>2, <2>3
  <1>12. UnitsInv'
    <2>1. CASE SendsSplit(text)
      <3>1. buf' \in Seq(1 .. written) /\ Len(buf') \in Nat /\ Len(buf') <= Limit /\ Len(text) > Limit
        BY <1>3, <1>8, <2>1 DEF SendsSplit
      <3>2. Len(buf') <= written
        BY <1>8, <3>1
      <3>. QED
        BY <1>1, <1>3, <1>7, <3>1, <3>2 DEF UnitsInv
    <2>2. CASE ~SendsSplit(text)
      <3>1. buf' = buf
        BY <1>3, <2>2 DEF SendsWhole, SendsRefused
      <3>. QED
        BY <1>1, <1>3, <1>7, <3>1 DEF UnitsInv
    <2>. QED
      BY <2>1, <2>2
  <1>13. \A q \in Reply!Flushers : Sending(q)' => Sending(q) /\ q # p /\ Len(flush[q].text) = Len(text)
    <2>1. ASSUME NEW q \in Reply!Flushers, Sending(q)'
          PROVE  Sending(q) /\ q # p /\ Len(flush[q].text) = Len(text)
      <3>1. q # p /\ flush'[q] = flush[q] /\ Sending(q)
        BY <1>6, <1>7, <2>1 DEF Sending
      <3>2. turn = "final" /\ {p, q} = {"turn", "loop"} /\ flush["loop"].at = "send"
        BY <1>1, <1>6, <1>7, <3>1 DEF Sending, Held, PlacesInv, FinalPlaces
      <3>3. Len(flush["loop"].text) = Len(flush["turn"].text)
        BY <1>1, <3>2 DEF LengthsInv
      <3>. QED
        BY <1>1, <1>2, <3>1, <3>2, <3>3
    <2>. QED
      BY <2>1
  <1>14. LengthsInv'
    <2>1. msg' # 0 => /\ Len(screen'[msg'].text) <= last.len
                      /\ \A q \in Reply!Flushers : Sending(q)' => Len(screen'[msg'].text) <= Len(flush[q].text)
      <3>1. CASE SendsWhole(text, c)
        <4>1. screen'[msg'].text = text
          BY <1>4, <1>9, <3>1
        <4>. QED
          BY <1>8, <1>13, <4>1
      <3>2. CASE SendsRefused(text)
        <4>1. msg' = msg /\ screen' = screen
          BY <3>2 DEF SendsRefused
        <4>. QED
          BY <1>1, <1>13, <4>1 DEF LengthsInv
      <3>3. CASE SendsSplit(text)
        <4>1. msg' # 0 => msg' \in 1 .. Len(screen') /\ screen' \in Seq(Shown)
          BY <1>8, <3>3 DEF SendsSplit
        <4>2. msg' # 0 => screen'[msg'] \in Shown
          BY <4>1
        <4>3. msg' # 0 => Len(screen'[msg'].text) \in Nat /\ Len(screen'[msg'].text) <= Limit /\ Len(text) > Limit
          BY <3>3, <4>1, <4>2 DEF SendsSplit, Shown
        <4>4. msg' # 0 => Len(screen'[msg'].text) <= Len(text) /\ Len(screen'[msg'].text) <= last.len
          BY <1>8, <4>3
        <4>. QED
          BY <1>13, <4>4
      <3>. QED
        BY <1>3, <3>1, <3>2, <3>3
    <2>2. \A q \in Reply!Flushers : Sending(q)' => Len(flush[q].text) <= last.len
      BY <1>1, <1>13 DEF LengthsInv
    <2>3. ASSUME turn = "final"
          PROVE  /\ buf' = flush["turn"].text \/ (Len(buf') <= Limit /\ last.len > Limit)
                 /\ flush'["loop"].at \in {"reason", "answer"} =>
                       flush["loop"].text = flush["turn"].text \/ (Len(flush["loop"].text) <= Limit /\ last.len > Limit)
                 /\ flush'["loop"].at = "send" => Len(flush["loop"].text) = Len(flush["turn"].text)
      <3>1. flush'["loop"].at \in {"reason", "answer", "send"} => flush'["loop"].at = flush["loop"].at
        BY <1>1, <1>6
      <3>2. buf' = flush["turn"].text \/ (Len(buf') <= Limit /\ last.len > Limit)
        <4>1. CASE SendsSplit(text)
          BY <1>8, <4>1 DEF SendsSplit
        <4>2. CASE ~SendsSplit(text)
          <5>1. buf' = buf
            BY <1>3, <4>2 DEF SendsWhole, SendsRefused
          <5>. QED
            BY <1>1, <2>3, <5>1 DEF LengthsInv
        <4>. QED
          BY <4>1, <4>2
      <3>. QED
        BY <1>1, <2>3, <3>1, <3>2 DEF LengthsInv
    <2>. QED
      BY <1>1, <1>3, <1>7, <2>1, <2>2, <2>3 DEF LengthsInv
  <1>15. Written' = Written /\ (Over' <=> Over) /\ (buf' = buf => (Reply!Early' <=> Reply!Early))
    BY <1>3 DEF Written, Reply!Early, Over
  <1>16. ~split' => ~split /\ buf' = buf
    BY <1>3 DEF SendsWhole, SendsRefused, SendsSplit
  <1>17. TakenInv'
    <2>1. \A q \in Reply!Flushers : flush'[q].at \in {"reason", "answer", "send", "end"} => flush[q].at \in {"reason", "answer", "send", "end"}
      BY <1>6, <1>7
    <2>2. /\ flush'["loop"].at \in {"reason", "answer", "send"} => flush["loop"].at \in {"reason", "answer", "send"}
          /\ flush'["loop"].at \in {"beat", "beaten"} => flush["loop"].at \in {"beat", "beaten"}
          /\ flush'["loop"].at \in {"reason", "answer", "send", "end"} => flush["loop"].at \in {"reason", "answer", "send", "end"}
      BY <1>1, <1>6, <1>7
    <2>. QED
      BY <1>1, <1>3, <1>7, <1>15, <1>16, <2>1, <2>2 DEF TakenInv
  <1>18. LastInv'
    <2>1. Unsaid' => Unsaid /\ here = "send"
      <3>1. CASE here = "send"
        <4>1. turn = "writing" \/ (p = "loop" /\ flush'["turn"] = flush["turn"])
          BY <1>1, <1>6, <3>1 DEF Held
        <4>. QED
          BY <3>1, <4>1 DEF Unsaid
      <3>2. CASE here = "fsend"
        <4>1. turn = "final" /\ p = "turn" /\ next = "fend"
          BY <1>6, <3>2 DEF Held
        <4>. QED
          BY <1>6, <4>1 DEF Unsaid
      <3>. QED
        BY <3>1, <3>2
    <2>2. here = "send" => \A q \in Reply!Flushers : flush'[q].at # "send"
      BY <1>6 DEF Held
    <2>3. ASSUME Unsaid', ~split', ~missed'
          PROVE  msg' # 0 /\ screen'[msg'] = last.is
      <3>1. SendsWhole(text, c)
        BY <1>3, <2>3 DEF SendsRefused, SendsSplit
      <3>2. c = last.is
        BY <1>1, <1>2, <2>1, <2>3 DEF LastInv
      <3>. QED
        BY <1>8, <1>9, <3>1, <3>2
    <2>. QED
      BY <1>3, <2>1, <2>2, <2>3 DEF LastInv, Reply!At
  <1>19. ThoughtInv'
    <2>1. flush'["turn"].at \in {"fanswer", "fsend", "fend"} => flush["turn"].at \in {"fanswer", "fsend", "fend"}
      BY <1>1, <1>6, <1>7
    <2>. QED
      BY <1>1, <1>3, <1>7, <2>1 DEF ThoughtInv
  <1>20. EndInv'
    <2>1. ASSUME turn \in {"close", "ended"} \/ flush'["turn"].at = "fend"
          PROVE  split' \/ missed' \/ Reply!Whole'
      <3>1. CASE ~SendsWhole(text, c)
        BY <1>3, <3>1 DEF SendsRefused, SendsSplit
      <3>2. ASSUME SendsWhole(text, c), ~split
            PROVE  Reply!Whole'
        <4>1. text = Written
          <5>1. CASE here = "fsend"
            BY <1>1, <1>2, <1>6, <3>2, <5>1 DEF TakenInv, Held
          <5>2. CASE here = "send"
            <6>1. Over /\ p = "loop"
              BY <1>1, <1>6, <2>1, <5>2 DEF Over, PlacesInv, FinalPlaces, Held
            <6>. QED
              BY <1>1, <1>2, <1>7, <3>2, <5>2, <6>1 DEF TakenInv
          <5>. QED
            BY <5>1, <5>2
        <4>2. msg' # 0 /\ screen'[msg'].text = Written'
          BY <1>4, <1>8, <1>9, <1>15, <3>2, <4>1
        <4>. QED
          BY <4>2 DEF Reply!Whole, Written
      <3>3. CASE SendsWhole(text, c) /\ split
        BY <3>3 DEF SendsWhole
      <3>. QED
        BY <3>1, <3>2, <3>3
    <2>. QED
      BY <2>1 DEF EndInv, Reply!At
  <1>. QED
    BY <1>6, <1>10, <1>11, <1>12, <1>14, <1>17, <1>18, <1>19, <1>20 DEF ReplyInv

LEMMA SendsKeep == ASSUME Reply!StreamerConstants, ReplyInv, (\E p \in Reply!Flushers : Reply!Send(p)) \/ Reply!FinalSend
                   PROVE  ReplyInv'
  <1>1. CASE Reply!FinalSend
    BY <1>1, SendKeeps DEF Reply!FinalSend, Reply!Ends, Reply!Flushers
  <1>2. ASSUME NEW p \in Reply!Flushers, Reply!Send(p)
        PROVE  ReplyInv'
    BY <1>2, SendKeeps DEF Reply!Send, Reply!Ends
  <1>. QED
    BY <1>1, <1>2

(* A flush is over: the mark is lowered, and what it held off is done next. *)
LEMMA FlushEndsKeeps == ASSUME Reply!StreamerConstants, ReplyInv, NEW p \in Reply!Flushers, Reply!FlushEnds(p)
                        PROVE  ReplyInv'
  <1>1. /\ ReplyTypes /\ PlacesInv /\ FlightInv /\ ScreenInv /\ UnitsInv /\ LengthsInv /\ TakenInv /\ LastInv /\ ThoughtInv
        /\ EndInv /\ "turn" \in Reply!Flushers /\ "loop" \in Reply!Flushers /\ Reply!Flushers = {"turn", "loop"}
    BY Parts
  <1>2. /\ flush[p].at \in {"end", "beaten"} /\ inflight' = FALSE /\ sent' = (sent \/ Reply!At(p, "end")) /\ pending' = FALSE
        /\ UNCHANGED <<buf, dirty, reason, tools, written, msg, rmsg, last, turn, loop, screen, fails, missed, split>>
    BY DEF Reply!FlushEnds, Reply!Clears, Reply!Drains, Reply!Lanes, Reply!Ends
  <1>3. PICK where \in {"start", "off"} : Reply!Steps(p, where)
    BY DEF Reply!FlushEnds, Reply!Drains
  <1>4. /\ flush' \in [Reply!Flushers -> FlushRows] /\ flush'[p].at = where /\ flush'[p].text = flush[p].text
        /\ flush'[p].reason = flush[p].reason /\ flush'[p].tool = flush[p].tool
        /\ \A q \in Reply!Flushers \ {p} : flush'[q] = flush[q]
    BY <1>1, <1>3, StepsAre DEF Places
  <1>5. \A q \in Reply!Flushers \ {p} : flush[q].at \notin Held
    BY <1>1, <1>2 DEF FlightInv, Held
  <1>6. turn # "writing" => p = "loop" /\ loop # "over"
    BY <1>1, <1>2 DEF PlacesInv, FinalPlaces
  <1>7. \A q \in Reply!Flushers : flush'[q].text = flush[q].text /\ flush'[q].reason = flush[q].reason /\ flush'[q].at \notin Held
    BY <1>3, <1>4, <1>5 DEF Held
  <1>8. sent' \in BOOLEAN /\ (sent' <=> sent \/ flush[p].at = "end")
    BY <1>1, <1>2 DEF ReplyTypes, Reply!At
  <1>9. ReplyTypes'
    BY <1>1, <1>2, <1>4, <1>8 DEF ReplyTypes
  <1>10. PlacesInv'
    BY <1>1, <1>2, <1>3, <1>4, <1>6 DEF PlacesInv, FinalPlaces
  <1>11. FlightInv' /\ ScreenInv' /\ UnitsInv'
    BY <1>1, <1>2, <1>7 DEF FlightInv, ScreenInv, UnitsInv
  <1>12. LengthsInv'
    <2>1. \A q \in Reply!Flushers : Sending(q)' => Sending(q)
      BY <1>3, <1>4 DEF Sending
    <2>. QED
      BY <1>1, <1>2, <1>7, <2>1 DEF LengthsInv, Held
  <1>13. Written' = Written /\ (Over' <=> Over) /\ (Reply!Whole' <=> Reply!Whole) /\ (Reply!Early' => Reply!Early)
    BY <1>2, <1>8 DEF Written, Over, Reply!Whole, Reply!Early
  <1>14. TakenInv'
    <2>1. turn = "final" => flush'["turn"] = flush["turn"]
      BY <1>1, <1>4, <1>6
    <2>. QED
      BY <1>1, <1>2, <1>7, <1>8, <1>13, <2>1 DEF TakenInv, Held
  <1>15. LastInv'
    <2>1. \A q \in Reply!Flushers : flush'[q].at # "send" /\ flush[q].at # "send"
      BY <1>2, <1>5, <1>7 DEF Held
    <2>2. Unsaid' => Unsaid
      BY <1>1, <1>2, <1>4, <1>6 DEF Unsaid
    <2>. QED
      BY <1>1, <1>2, <2>1, <2>2 DEF LastInv, Reply!At
  <1>16. turn # "writing" => flush'["turn"] = flush["turn"]
    BY <1>1, <1>4, <1>6
  <1>17. ThoughtInv'
    <2>1. turn = "writing" => flush'["turn"].at \notin FinalPlaces
      BY <1>1, <1>3, <1>4 DEF PlacesInv, FinalPlaces
    <2>. QED
      BY <1>1, <1>2, <1>7, <1>16, <2>1 DEF ThoughtInv, FinalPlaces
  <1>18. EndInv'
    <2>1. ASSUME turn \in {"close", "ended"} \/ flush'["turn"].at = "fend"
          PROVE  split \/ missed \/ Reply!Early' \/ Reply!Whole
      <3>1. turn \in {"final", "close", "ended"} /\ p = "loop" /\ Over
        BY <1>3, <1>4, <1>6, <1>10, <2>1, <1>2 DEF PlacesInv, FinalPlaces, Over
      <3>2. turn \in {"close", "ended"} \/ flush["turn"].at = "fend"
        BY <1>16, <2>1, <3>1
      <3>3. split \/ missed \/ Reply!Early \/ Reply!Whole
        BY <1>1, <1>2, <3>1, <3>2 DEF EndInv, Reply!At
      <3>4. ~split /\ flush[p].at = "end" => ~Reply!Early
        BY <1>1, <3>1 DEF TakenInv
      <3>5. flush[p].at = "beaten" /\ Reply!Early => Reply!Early'
        BY <1>2, <1>8 DEF Reply!Early
      <3>. QED
        BY <1>2, <3>3, <3>4, <3>5
    <2>. QED
      BY <1>2, <1>13, <2>1 DEF EndInv, Reply!At
  <1>. QED
    BY <1>9, <1>10, <1>11, <1>12, <1>14, <1>15, <1>17, <1>18 DEF ReplyInv

LEMMA CloseKeeps == ASSUME Reply!StreamerConstants, ReplyInv, Reply!Close
                    PROVE  ReplyInv'
  <1>1. /\ ReplyTypes /\ PlacesInv /\ FlightInv /\ ScreenInv /\ UnitsInv /\ LengthsInv /\ TakenInv /\ LastInv /\ ThoughtInv
        /\ EndInv /\ "turn" \in Reply!Flushers /\ "loop" \in Reply!Flushers /\ Reply!Flushers = {"turn", "loop"}
    BY Parts
  <1>2. /\ flush["turn"].at = "fend" /\ turn' = "close" /\ Reply!Steps("turn", "off")
        /\ UNCHANGED <<buf, dirty, reason, tools, written, msg, rmsg, last, sent, inflight, pending, loop, screen, fails,
                       missed, split>>
    BY DEF Reply!Close, Reply!At, Reply!Lanes
  <1>3. /\ flush' \in [Reply!Flushers -> FlushRows] /\ flush'["turn"].at = "off" /\ flush'["turn"].text = flush["turn"].text
        /\ flush'["turn"].reason = flush["turn"].reason /\ flush'["loop"] = flush["loop"]
    BY <1>1, <1>2, StepsAre DEF Places
  <1>4. turn = "final"
    BY <1>1, <1>2 DEF PlacesInv, FinalPlaces
  <1>5. \A q \in Reply!Flushers : flush'[q].text = flush[q].text /\ flush'[q].reason = flush[q].reason
    BY <1>1, <1>3
  <1>6. ReplyTypes'
    BY <1>1, <1>2, <1>3 DEF ReplyTypes
  <1>7. PlacesInv' /\ FlightInv'
    BY <1>1, <1>2, <1>3, <1>4 DEF PlacesInv, FlightInv, FinalPlaces, Held
  <1>8. ScreenInv' /\ UnitsInv'
    BY <1>1, <1>2, <1>5 DEF ScreenInv, UnitsInv
  <1>9. LengthsInv'
    <2>1. \A q \in Reply!Flushers : Sending(q)' => Sending(q)
      BY <1>1, <1>3 DEF Sending
    <2>. QED
      BY <1>1, <1>2, <1>5, <2>1 DEF LengthsInv
  <1>10. Written' = Written /\ Over /\ (Reply!Whole' <=> Reply!Whole) /\ (Reply!Early' <=> Reply!Early)
    BY <1>2, <1>4 DEF Written, Over, Reply!Whole, Reply!Early
  <1>11. TakenInv'
    <2>1. \A q \in Reply!Flushers : flush'[q].at \in {"reason", "answer", "send", "end"} => flush[q].at \in {"reason", "answer", "send", "end"}
      BY <1>1, <1>3
    <2>. QED
      BY <1>1, <1>2, <1>3, <1>10, <2>1 DEF TakenInv
  <1>12. LastInv'
    BY <1>2, <1>3 DEF LastInv, Unsaid
  <1>13. ThoughtInv' /\ EndInv'
    BY <1>1, <1>2, <1>3, <1>5, <1>10 DEF ThoughtInv, EndInv, Reply!At
  <1>. QED
    BY <1>6, <1>7, <1>8, <1>9, <1>11, <1>12, <1>13 DEF ReplyInv

(* No text that is shown gets shorter. *)
LEMMA ReplyGrows == ASSUME Reply!StreamerConstants, ReplyInv, Reply!Next
                    PROVE  Reply!NothingShrinks
  <1>1. /\ ReplyTypes /\ PlacesInv /\ FlightInv /\ ScreenInv /\ UnitsInv /\ LengthsInv /\ TakenInv /\ LastInv /\ ThoughtInv
        /\ EndInv /\ "turn" \in Reply!Flushers /\ "loop" \in Reply!Flushers /\ Reply!Flushers = {"turn", "loop"}
    BY Parts
  <1>2. /\ screen \in Seq(Shown) /\ DOMAIN screen = 1 .. Len(screen) /\ msg \in 0 .. Len(screen) /\ Len(screen) \in Nat
        /\ rmsg \in 0 .. Len(screen)
        /\ \A m \in 1 .. Len(screen) : screen[m] \in Shown /\ Len(screen[m].text) \in Nat
    <2>1. screen \in Seq(Shown)
      BY <1>1 DEF ReplyTypes
    <2>2. \A m \in 1 .. Len(screen) : screen[m] \in Shown
      BY <2>1
    <2>3. \A m \in 1 .. Len(screen) : Len(screen[m].text) \in Nat
      BY <2>2 DEF Shown
    <2>. QED
      BY <1>1, <2>1, <2>2, <2>3 DEF ReplyTypes, ScreenInv
  <1>3. CASE UNCHANGED screen
    BY <1>2, <1>3 DEF Reply!NothingShrinks
  <1>4. ASSUME NEW m \in 0 .. Len(screen), NEW content \in Shown, content.kind # "text", screen' = Reply!Shows(m, content)
        PROVE  Reply!NothingShrinks
    <2>1. \A i \in 1 .. Len(screen) : IF i = m THEN screen'[i] = content ELSE screen'[i] = screen[i]
      <3>1. /\ Reply!Shows(m, content)[Reply!MessageAfter(m)] = content
            /\ Reply!MessageAfter(m) = (IF m = 0 THEN Len(screen) + 1 ELSE m)
            /\ \A i \in 1 .. Len(screen) : i # m => Reply!Shows(m, content)[i] = screen[i]
        BY <1>1, <1>4, ShowsAre
      <3>. QED
        BY <1>2, <1>4, <3>1
    <2>. QED
      BY <1>2, <1>4, <2>1 DEF Reply!NothingShrinks
  <1>5. ASSUME NEW p \in Reply!Flushers, Reply!Heartbeat(p)
        PROVE  Reply!NothingShrinks
    <2>1. Reply!Nothing \in Shown /\ Reply!Nothing.kind # "text"
      BY DEF Reply!Nothing, Shown
    <2>2. screen' = Reply!Shows(msg, Reply!Nothing)
      BY <1>5 DEF Reply!Heartbeat
    <2>3. PICK content : content = Reply!Nothing
      OBVIOUS
    <2>. QED
      BY <1>2, <1>4, <2>1, <2>2, <2>3
  <1>6. ASSUME NEW p, NEW next, Reply!ReasonLane(p, next)
        PROVE  Reply!NothingShrinks
    <2>1. CASE ~flush[p].reason
      BY <1>3, <1>6, <2>1 DEF Reply!ReasonLane
    <2>2. CASE flush[p].reason
      <3>1. PICK thinking : thinking = [kind |-> "think", text |-> <<>>, tool |-> FALSE]
        OBVIOUS
      <3>2. thinking \in Shown /\ thinking.kind # "text"
        BY <3>1 DEF Shown
      <3>3. PICK m : m = IF rmsg = 0 THEN msg ELSE rmsg
        OBVIOUS
      <3>4. screen' = Reply!Shows(m, thinking)
        BY <1>6, <2>2, <3>1, <3>3 DEF Reply!ReasonLane
      <3>5. m \in 0 .. Len(screen)
        BY <1>2, <3>3
      <3>. QED
        BY <1>4, <3>2, <3>4, <3>5
    <2>. QED
      BY <2>1, <2>2
  <1>7. ASSUME NEW p \in Reply!Flushers, NEW next, Reply!Sends(p, next), Sending(p)
        PROVE  Reply!NothingShrinks
    <2>1. PICK c, text : c = Reply!Rendered(p) /\ text = flush[p].text
      OBVIOUS
    <2>2. SendsWhole(text, c) \/ SendsRefused(text) \/ SendsSplit(text)
      <3>1. SendsWhole(flush[p].text, Reply!Rendered(p)) \/ SendsRefused(flush[p].text) \/ SendsSplit(flush[p].text)
        BY <1>1, <1>7, SendsAre
      <3>. QED
        BY <2>1, <3>1
    <2>3. c \in Shown /\ c.text = text /\ Len(text) \in Nat /\ (msg # 0 => Len(screen[msg].text) <= Len(text))
      BY <1>1, <1>7, <2>1, RenderedIs DEF LengthsInv, UnitsInv
    <2>4. CASE SendsWhole(text, c)
      <3>1. screen' = Reply!Shows(msg, c)
        BY <2>4 DEF SendsWhole
      <3>2. \A content \in Shown : /\ Reply!Shows(msg, content)[Reply!MessageAfter(msg)] = content
                                   /\ Reply!MessageAfter(msg) = (IF msg = 0 THEN Len(screen) + 1 ELSE msg)
                                   /\ \A i \in 1 .. Len(screen) : i # msg => Reply!Shows(msg, content)[i] = screen[i]
        BY <1>1, <1>2, ShowsAre
      <3>3. \A i \in 1 .. Len(screen) : IF i = msg THEN screen'[i] = c ELSE screen'[i] = screen[i]
        BY <1>2, <2>3, <3>1, <3>2
      <3>4. \A i \in 1 .. Len(screen) : Len(screen'[i].text) >= Len(screen[i].text)
        BY <1>2, <2>3, <3>3
      <3>. QED
        BY <1>2, <3>4 DEF Reply!NothingShrinks
    <2>5. CASE SendsRefused(text)
      BY <1>3, <2>5 DEF SendsRefused
    <2>6. CASE SendsSplit(text)
      <3>1. (\A m \in 1 .. Len(screen) : m # msg => screen'[m] = screen[m]) /\ (msg # 0 => Len(screen'[msg].text) = Limit)
        BY <2>6 DEF SendsSplit
      <3>2. \A m \in 1 .. Len(screen) : Len(screen[m].text) <= Limit
        BY <1>1 DEF ScreenInv
      <3>3. Limit \in Nat
        BY DEF Reply!StreamerConstants
      <3>4. \A i \in 1 .. Len(screen) : Len(screen'[i].text) >= Len(screen[i].text)
        BY <1>2, <3>1, <3>2, <3>3
      <3>. QED
        BY <1>2, <3>4 DEF Reply!NothingShrinks
    <2>. QED
      BY <2>2, <2>4, <2>5, <2>6
  <1>8. CASE Reply!Write \/ Reply!NoteTool \/ Reply!NoteThinking \/ Reply!Flush \/ Reply!Tick \/ Reply!Stop \/ Reply!Final \/ Reply!Close \/ Reply!LoopEnds \/ Reply!Ended
    BY <1>3, <1>8 DEF Reply!Write, Reply!NoteTool, Reply!NoteThinking, Reply!Flush, Reply!Tick, Reply!Stop, Reply!Final, Reply!Close, Reply!LoopEnds, Reply!Ended
  <1>9. CASE Reply!FinalReason
    BY <1>6, <1>9 DEF Reply!FinalReason
  <1>10. CASE Reply!FinalAnswer
    <2>1. CASE buf = <<>> /\ tools
      <3>1. PICK notice : notice = [kind |-> "notice", text |-> <<>>, tool |-> FALSE]
        OBVIOUS
      <3>2. notice \in Shown /\ notice.kind # "text"
        BY <3>1 DEF Shown
      <3>3. screen' = Reply!Shows(msg, notice)
        BY <1>10, <2>1, <3>1 DEF Reply!FinalAnswer
      <3>. QED
        BY <1>2, <1>4, <3>2, <3>3
    <2>2. CASE ~(buf = <<>> /\ tools)
      BY <1>3, <1>10, <2>2 DEF Reply!FinalAnswer
    <2>. QED
      BY <2>1, <2>2
  <1>11. CASE Reply!FinalSend
    BY <1>1, <1>7, <1>11 DEF Reply!FinalSend, Sending, Reply!At
  <1>12. ASSUME NEW p \in Reply!Flushers, Reply!FlushStarts(p) \/ Reply!Answer(p) \/ Reply!FlushEnds(p)
         PROVE  Reply!NothingShrinks
    BY <1>3, <1>12 DEF Reply!FlushStarts, Reply!Answer, Reply!FlushEnds
  <1>13. ASSUME NEW p \in Reply!Flushers, Reply!Reason(p)
         PROVE  Reply!NothingShrinks
    BY <1>6, <1>13 DEF Reply!Reason
  <1>14. ASSUME NEW p \in Reply!Flushers, Reply!Send(p)
         PROVE  Reply!NothingShrinks
    BY <1>7, <1>14 DEF Reply!Send, Sending, Reply!At
  <1>. QED
    BY <1>5, <1>8, <1>9, <1>10, <1>11, <1>12, <1>13, <1>14 DEF Reply!Next

LEMMA ReplyStep == Reply!StreamerConstants /\ ReplyInv /\ [Reply!Next]_(Reply!vars) => ReplyInv'
  <1>. SUFFICES ASSUME Reply!StreamerConstants, ReplyInv, [Reply!Next]_(Reply!vars)
                PROVE  ReplyInv'
    OBVIOUS
  <1>1. /\ ReplyTypes /\ PlacesInv /\ "turn" \in Reply!Flushers /\ "loop" \in Reply!Flushers /\ Reply!Flushers = {"turn", "loop"}
    BY Parts
  <1>2. CASE UNCHANGED Reply!vars
    <2>0. /\ ReplyTypes /\ PlacesInv /\ FlightInv /\ ScreenInv /\ UnitsInv /\ LengthsInv /\ TakenInv /\ LastInv /\ ThoughtInv
          /\ EndInv
      BY Parts
    <2>1. ReplyTypes' /\ PlacesInv' /\ FlightInv' /\ ScreenInv' /\ UnitsInv' /\ LengthsInv'
      BY <1>2, <2>0 DEF Reply!vars, Reply!Lanes, Reply!Ends, ReplyTypes, PlacesInv, FlightInv, ScreenInv, UnitsInv, LengthsInv, Sending
    <2>2. TakenInv' /\ LastInv' /\ ThoughtInv' /\ EndInv'
      BY <1>2, <2>0 DEF Reply!vars, Reply!Lanes, Reply!Ends, TakenInv, LastInv, ThoughtInv, EndInv, Written, Over, Unsaid, Reply!Early, Reply!Whole, Reply!Rendered, Reply!Content, Reply!At
    <2>. QED
      BY <2>1, <2>2 DEF ReplyInv
  <1>3. CASE Reply!NoteTool \/ Reply!NoteThinking \/ Reply!Stop \/ Reply!Ended
    <2>1. flush["turn"].at = "off" \/ Reply!Ended
      BY <1>3 DEF Reply!NoteTool, Reply!NoteThinking, Reply!Stop, Reply!TurnRuns, Reply!At
    <2>2. CASE Reply!NoteTool \/ Reply!NoteThinking \/ Reply!Stop
      <3>1. /\ turn = "writing" /\ flush["turn"].at = "off" /\ flush' = flush
            /\ UNCHANGED <<buf, written, msg, rmsg, last, sent, inflight, pending, flush, screen, fails, missed, split>>
        BY <2>2 DEF Reply!NoteTool, Reply!NoteThinking, Reply!Stop, Reply!TurnRuns, Reply!Lanes, Reply!Ends, Reply!At
      <3>2. dirty \in BOOLEAN /\ tools \in BOOLEAN /\ reason \in {"none", "new", "sent"}
        BY <1>1 DEF ReplyTypes
      <3>3. /\ dirty' \in BOOLEAN /\ tools' \in BOOLEAN /\ (tools => tools') /\ reason' \in {"none", "new", "sent"}
            /\ (reason # "none" => reason' # "none") /\ turn' \in {"writing", "stop"}
            /\ (loop' = loop \/ loop' \in {"left", "stopped"})
        BY <2>2, <3>1, <3>2 DEF Reply!NoteTool, Reply!NoteThinking, Reply!Stop, Reply!Lanes, Reply!Ends
      <3>4. loop # "over"
        BY <1>1, <3>1 DEF PlacesInv
      <3>. QED
        BY <3>1, <3>3, <3>4, Notes
    <2>3. CASE Reply!Ended
      BY <1>1, <2>3, Notes DEF Reply!Ended, Reply!Lanes, ReplyTypes
    <2>. QED
      BY <1>3, <2>2, <2>3
  <1>4. CASE Reply!Write
    BY <1>4, WriteKeeps
  <1>5. CASE Reply!Flush
    BY <1>1, <1>5, Idles DEF Reply!Flush, Reply!TurnRuns, Reply!At, Reply!Lanes, Reply!Ends, ReplyTypes
  <1>6. CASE Reply!Tick
    BY <1>1, <1>6, Idles DEF Reply!Tick, Reply!At, Reply!Lanes, ReplyTypes
  <1>7. CASE Reply!LoopEnds
    <2>1. CASE loop \in {"left", "stopped"} /\ loop' = "last" /\ Reply!Steps("loop", "start")
      BY <1>1, <1>7, <2>1, Idles DEF Reply!LoopEnds, Reply!At, Reply!Lanes, ReplyTypes
    <2>2. CASE loop = "last" /\ loop' = "over" /\ flush' = flush
      BY <1>1, <1>7, <2>2, Notes DEF Reply!LoopEnds, Reply!At, Reply!Lanes, ReplyTypes
    <2>. QED
      BY <1>7, <2>1, <2>2 DEF Reply!LoopEnds
  <1>8. CASE Reply!Final
    BY <1>8, FinalKeeps
  <1>9. CASE Reply!FinalReason
    BY <1>1, <1>9, LaneKeeps DEF Reply!FinalReason, Reply!Lanes, Reply!Ends
  <1>10. CASE Reply!FinalAnswer
    BY <1>10, FinalAnswerKeeps
  <1>11. CASE Reply!FinalSend \/ \E p \in Reply!Flushers : Reply!Send(p)
    BY <1>11, SendsKeep
  <1>12. CASE Reply!Close
    BY <1>12, CloseKeeps
  <1>13. ASSUME NEW p \in Reply!Flushers, Reply!FlushStarts(p) \/ Reply!Heartbeat(p) \/ Reply!FlushEnds(p)
         PROVE  ReplyInv'
    BY <1>13, FlushStartsKeeps, BeatKeeps, FlushEndsKeeps
  <1>14. ASSUME NEW p \in Reply!Flushers, Reply!Reason(p)
         PROVE  ReplyInv'
    BY <1>14, LaneKeeps DEF Reply!Reason, Reply!Lanes, Reply!Ends
  <1>15. ASSUME NEW p \in Reply!Flushers, Reply!Answer(p)
         PROVE  ReplyInv'
    BY <1>15, FormatKeeps DEF Reply!Answer, Reply!Lanes, Reply!Ends
  <1>. QED
    BY <1>2, <1>3, <1>4, <1>5, <1>6, <1>7, <1>8, <1>9, <1>10, <1>11, <1>12, <1>13, <1>14, <1>15 DEF Reply!Next

LEMMA ReplyHolds == Reply!StreamerConstants /\ ReplyInv => Reply!TypeOK /\ Reply!OneCallAtATime /\ Reply!FinalIsWhole
  <1>. SUFFICES ASSUME Reply!StreamerConstants, ReplyInv
                PROVE  Reply!TypeOK /\ Reply!OneCallAtATime /\ Reply!FinalIsWhole
    OBVIOUS
  <1>1. /\ ReplyTypes /\ PlacesInv /\ FlightInv /\ ScreenInv /\ UnitsInv /\ LengthsInv /\ TakenInv /\ LastInv /\ ThoughtInv
        /\ EndInv /\ "turn" \in Reply!Flushers /\ "loop" \in Reply!Flushers /\ Reply!Flushers = {"turn", "loop"}
    BY Parts
  <1>2. Reply!TypeOK
    <2>1. \A i \in DOMAIN buf : buf[i] \in 1 .. written
      <3>1. PICK units : units = 1 .. written
        OBVIOUS
      <3>2. buf \in Seq(units)
        BY <1>1, <3>1 DEF UnitsInv
      <3>3. \A i \in 1 .. Len(buf) : buf[i] \in units
        BY <3>2
      <3>. QED
        BY <3>1, <3>2, <3>3
    <2>2. msg \in 0 .. Len(screen) /\ rmsg \in 0 .. Len(screen) /\ (msg = rmsg => msg = 0)
      BY <1>1 DEF ScreenInv, ReplyTypes
    <2>3. \A m \in DOMAIN screen : Len(screen[m].text) <= Limit
      BY <1>1 DEF ScreenInv, ReplyTypes
    <2>. QED
      BY <1>1, <2>1, <2>2, <2>3 DEF ReplyTypes, Reply!TypeOK
  <1>3. Reply!OneCallAtATime
    BY <1>1 DEF FlightInv, Reply!OneCallAtATime, Reply!Calling, Held
  <1>4. Reply!FinalIsWhole
    BY <1>1 DEF Reply!FinalIsWhole, EndInv, PlacesInv, Reply!At
  <1>. QED
    BY <1>2, <1>3, <1>4

(* A reply shown while it is written: until Finalize takes over no two calls to Telegram are under way, no edit takes
   away text that was shown, and a reply that fits in a message, keeps it and is long enough is shown whole at its end,
   whatever was sent, was held off or was to be sent when it ended, unless its last call was refused. *)
THEOREM ReplyIsWhole == Reply!StreamerConstants /\ Reply!Spec => [](Reply!TypeOK /\ Reply!OneCallAtATime /\ Reply!FinalIsWhole) /\ [][Reply!NothingShrinks]_(Reply!vars)
  <1>1. CASE Reply!StreamerConstants
    <2>1. Reply!Init => ReplyInv
      BY <1>1, ReplyStarts
    <2>2. ReplyInv /\ [Reply!Next]_(Reply!vars) => ReplyInv'
      BY <1>1, ReplyStep
    <2>3. ReplyInv => Reply!TypeOK /\ Reply!OneCallAtATime /\ Reply!FinalIsWhole
      BY <1>1, ReplyHolds
    <2>4. ReplyInv /\ [Reply!Next]_(Reply!vars) => [Reply!NothingShrinks]_(Reply!vars)
      BY <1>1, ReplyGrows
    <2>. QED
      BY <2>1, <2>2, <2>3, <2>4, PTL DEF Reply!Spec
  <1>. QED
    BY <1>1
=============================================================================
