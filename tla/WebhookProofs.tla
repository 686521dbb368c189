---------------------------- MODULE WebhookProofs ----------------------------
(***************************************************************************)
(* Theorems about Webhooks for any number of events, hooks, tasks and      *)
(* attempts, any number of repeated emissions, and any number of deaths,   *)
(* lost answers, deleted hooks and expired rows.                           *)
(***************************************************************************)
EXTENDS Webhooks, FiniteSetTheorems, TLAPS

----------------------------------------------------------------------------
(* The inductive invariant *)

EmissionRecord ==
    [pc : {"off", "insert"}, todo : SUBSET Hooks]
        \cup [pc : {"dispatch"}, todo : SUBSET Hooks, at : Hooks]
Task == [pc : {"off", "try", "post", "ok", "retry", "fail"},
         row : Rows \cup {NoTask.row}, attempt : 0 .. Attempts]

WorldIsWorld == aged \subseteq Rows /\ hooks \subseteq Hooks /\ alive \in BOOLEAN

RowsAreRows ==
    /\ row \in [Rows -> Statuses]
    /\ quiet \subseteq Rows

EmissionsAreEmissions ==
    /\ emit \in [Events -> EmissionRecord]
    /\ announced \subseteq Events

TasksAreTasks ==
    /\ worker \in [Workers -> Task]
    /\ \A w \in Workers : worker[w].pc # "off" => RowOf(w) \in Rows

CountersCount ==
    /\ emits \in [Events -> Nat] /\ {deaths, lost, upsets} \subseteq Nat

CronIsCron ==
    cron \in [step : {"off", "expire", "bury", "select", "dispatch"}, todo : SUBSET Rows]

\* A living task writes its row more often than every two minutes, so it never
\* finds it reclaimed: its row is neither quiet nor back in "pending".
TasksHoldTheirRow ==
    \A w \in Workers :
        worker[w].pc # "off" =>
            /\ RowOf(w) \notin quiet
            /\ row[RowOf(w)] \in {"dispatching", "delivered", "failed"}

TasksDiffer ==
    \A v, w \in Workers :
        worker[v].pc # "off" /\ worker[w].pc # "off" /\ RowOf(v) = RowOf(w) => v = w

\* The task that wrote "delivered" is over, unless the answer was lost.
DeliveredIsIdle ==
    lost = 0 =>
        \A w \in Workers : worker[w].pc # "off" => row[RowOf(w)] # "delivered"

\* An emission in progress passes over no hook that is there.
EmissionsHear ==
    /\ \A e \in Events, h \in Hooks :
            emit[e].pc # "off" /\ Deliverable(h) /\ row[<<e, h>>] = "none" =>
                h \in emit[e].todo
    /\ EveryHookHears

TasksOwn == TasksHoldTheirRow /\ TasksDiffer /\ DeliveredIsIdle

WebhookInv ==
    /\ WorldIsWorld /\ RowsAreRows /\ EmissionsAreEmissions /\ TasksAreTasks /\ CountersCount /\ CronIsCron
    /\ TasksOwn
    /\ EmissionsHear

LEMMA InitInv == InitWebhooks => WebhookInv
  BY WebhookConstants DEF InitWebhooks, WebhookInv, WorldIsWorld, RowsAreRows, EmissionsAreEmissions, TasksAreTasks,
     CountersCount, CronIsCron, TasksOwn, TasksHoldTheirRow, TasksDiffer, DeliveredIsIdle,
     EmissionsHear, EveryHookHears, EmissionRecord, Task, NoEmission, NoTask, Statuses, Rows

----------------------------------------------------------------------------
(* Lemmas: what a write does to the rows, and to the tasks that hold them *)

LEMMA WritesRows ==
  ASSUME RowsAreRows, NEW S \in SUBSET Rows, NEW s \in Statuses, Writes(S, s)
  PROVE  /\ RowsAreRows'
         /\ \A r \in Rows : row'[r] = IF r \in S THEN s ELSE row[r]
         /\ quiet' \subseteq quiet /\ quiet' \cap S = {}
  BY DEF RowsAreRows, Writes

\* Nothing but an INSERT touches a row that is not there, so what emissions owe
\* is untouched as long as emissions are.
NoRowIsLost == \A r \in Rows : row[r] # "none" => row'[r] # "none"

LEMMA EmissionsUntouched ==
  ASSUME WebhookInv, NoRowIsLost, emit' = emit, announced' = announced,
         hooks' \subseteq hooks, alive' => alive
  PROVE  EmissionsAreEmissions' /\ EmissionsHear'
  BY DEF WebhookInv, NoRowIsLost, EmissionsAreEmissions, EmissionsHear, EveryHookHears,
     Deliverable, Rows

\* A write by anybody else leaves the tasks theirs when it takes no row of theirs
\* back to "pending" and calls none "delivered".
LEMMA WritesPastTasks ==
  ASSUME WebhookInv, NEW S \in SUBSET Rows, NEW s \in Statuses, Writes(S, s),
         worker' = worker, lost' = 0 => lost = 0,
         \A w \in Workers : worker[w].pc # "off" /\ RowOf(w) \in S => s = "failed"
  PROVE  TasksAreTasks' /\ TasksOwn'
<1>1. RowsAreRows /\ TasksAreTasks /\ TasksHoldTheirRow /\ TasksDiffer /\ DeliveredIsIdle
  BY DEF WebhookInv, TasksOwn
<1>2. /\ \A r \in Rows : row'[r] = IF r \in S THEN s ELSE row[r]
      /\ quiet' \subseteq quiet
  BY <1>1, WritesRows
<1>3. TasksAreTasks' /\ TasksDiffer'
  BY <1>1 DEF TasksAreTasks, TasksDiffer, RowOf
<1>4. TasksHoldTheirRow'
  BY <1>1, <1>2 DEF TasksAreTasks, TasksHoldTheirRow, RowOf
<1>5. DeliveredIsIdle'
  BY <1>1, <1>2 DEF TasksAreTasks, DeliveredIsIdle, RowOf
<1>6. QED
  BY <1>3, <1>4, <1>5 DEF TasksOwn

\* Claiming a pending row, whoever does it and whether or not the answer arrives.
LEMMA DispatchKeeps ==
  ASSUME WebhookInv, NEW r \in Rows, Dispatches(r) \/ DispatchFails(r),
         lost' = 0 => lost = 0
  PROVE  RowsAreRows' /\ TasksAreTasks' /\ TasksOwn' /\ NoRowIsLost
<1>1. RowsAreRows /\ TasksAreTasks /\ TasksHoldTheirRow /\ TasksDiffer /\ DeliveredIsIdle
  BY DEF WebhookInv, TasksOwn
<1>2. CASE Claimable(r) /\ Writes({r}, "dispatching")
  <2>1. /\ RowsAreRows'
        /\ \A q \in Rows : row'[q] = IF q = r THEN "dispatching" ELSE row[q]
        /\ quiet' \subseteq quiet /\ r \notin quiet'
    BY <1>1, <1>2, WritesRows DEF Statuses
  <2>2. NoRowIsLost
    BY <1>2, <2>1 DEF NoRowIsLost
  <2>3. \A w \in Workers : worker[w].pc # "off" => RowOf(w) # r
    BY <1>1, <1>2 DEF TasksHoldTheirRow, Claimable
  <2>4. CASE worker' = worker
    BY <1>1, <1>2, <2>1, <2>2, <2>3, <2>4, WritesPastTasks DEF Statuses
  <2>5. CASE \E w \in Workers :
                /\ worker[w].pc = "off"
                /\ worker' = [worker EXCEPT ![w] = [pc |-> "try", row |-> r, attempt |-> 1]]
    <3>1. PICK w \in Workers :
                /\ worker[w].pc = "off"
                /\ worker' = [worker EXCEPT ![w] = [pc |-> "try", row |-> r, attempt |-> 1]]
      BY <2>5
    <3>2. /\ worker'[w] = [pc |-> "try", row |-> r, attempt |-> 1]
          /\ \A v \in Workers : v # w => worker'[v] = worker[v]
          /\ worker' \in [Workers -> Task]
      BY <1>1, <3>1, WebhookConstants DEF TasksAreTasks, Task
    <3>3. TasksAreTasks'
      BY <1>1, <3>2 DEF TasksAreTasks, RowOf
    <3>4. TasksHoldTheirRow'
      BY <1>1, <2>1, <3>2 DEF TasksAreTasks, TasksHoldTheirRow, RowOf
    <3>5. TasksDiffer'
      BY <1>1, <2>3, <3>2 DEF TasksDiffer, RowOf
    <3>6. DeliveredIsIdle'
      BY <1>1, <2>1, <2>3, <3>2 DEF TasksAreTasks, DeliveredIsIdle, RowOf
    <3>7. QED
      BY <2>1, <2>2, <3>3, <3>4, <3>5, <3>6 DEF TasksOwn
  <2>6. QED
    BY <1>2, <2>4, <2>5 DEF Dispatches, DispatchFails
<1>3. CASE UNCHANGED <<row, quiet, worker>>
  <2>1. RowsAreRows' /\ TasksAreTasks' /\ NoRowIsLost
    BY <1>1, <1>3 DEF RowsAreRows, TasksAreTasks, NoRowIsLost, RowOf
  <2>2. TasksOwn'
    BY <1>1, <1>3 DEF TasksOwn, TasksHoldTheirRow, TasksDiffer, DeliveredIsIdle, RowOf
  <2>3. QED
    BY <2>1, <2>2
<1>4. QED
  BY <1>2, <1>3 DEF Dispatches, DispatchFails

\* A task goes on with its row, or ends, and writes at most that row.
LEMMA TaskSteps ==
  ASSUME WebhookInv, NEW w \in Workers, NEW t \in Task,
         worker[w].pc # "off", worker' = [worker EXCEPT ![w] = t],
         t.pc = "off" \/ t.row = RowOf(w),
         \/ UNCHANGED <<row, quiet>>
         \/ row' = row /\ quiet' = quiet \ {RowOf(w)}
         \/ Writes({RowOf(w)}, "failed")
         \/ Writes({RowOf(w)}, "delivered") /\ (t.pc = "off" \/ lost' # 0),
         lost' = 0 => lost = 0
  PROVE  RowsAreRows' /\ TasksAreTasks' /\ TasksOwn' /\ NoRowIsLost
<1> DEFINE r == RowOf(w)
<1>1. RowsAreRows /\ TasksAreTasks /\ TasksHoldTheirRow /\ TasksDiffer /\ DeliveredIsIdle
  BY DEF WebhookInv, TasksOwn
<1>2. r \in Rows
  BY <1>1 DEF TasksAreTasks
<1>3. /\ RowsAreRows' /\ quiet' \subseteq quiet
      /\ \A q \in Rows : q # r => row'[q] = row[q]
      /\ \/ row'[r] = row[r] \/ row'[r] = "failed"
         \/ row'[r] = "delivered" /\ (t.pc = "off" \/ lost' # 0)
  BY <1>1, <1>2 DEF RowsAreRows, Writes, Statuses
<1>4. /\ worker'[w] = t
      /\ \A v \in Workers : v # w => worker'[v] = worker[v]
      /\ worker' \in [Workers -> Task]
  BY <1>1 DEF TasksAreTasks
<1>5. row[r] \in {"dispatching", "delivered", "failed"} /\ r \notin quiet
  BY <1>1 DEF TasksHoldTheirRow
<1>6. \A v \in Workers : v # w /\ worker[v].pc # "off" => RowOf(v) # r
  BY <1>1 DEF TasksDiffer
<1>7. NoRowIsLost
  BY <1>2, <1>3, <1>5 DEF NoRowIsLost
<1>8. TasksAreTasks'
  BY <1>1, <1>2, <1>4 DEF TasksAreTasks, RowOf
<1>9. TasksHoldTheirRow'
  BY <1>1, <1>2, <1>3, <1>4, <1>5, <1>6 DEF TasksAreTasks, TasksHoldTheirRow, RowOf
<1>10. TasksDiffer'
  BY <1>1, <1>4 DEF TasksDiffer, RowOf
<1>11. DeliveredIsIdle'
  <2> SUFFICES ASSUME lost' = 0, NEW v \in Workers, worker'[v].pc # "off"
               PROVE  row'[RowOf(v)'] # "delivered"
    BY DEF DeliveredIsIdle
  <2>1. CASE v = w
    BY <1>1, <1>2, <1>3, <1>4, <2>1 DEF DeliveredIsIdle, RowOf
  <2>2. CASE v # w
    BY <1>1, <1>3, <1>4, <1>6, <2>2 DEF DeliveredIsIdle, TasksAreTasks, RowOf
  <2>3. QED
    BY <2>1, <2>2
<1>12. QED
  BY <1>3, <1>7, <1>8, <1>9, <1>10, <1>11 DEF TasksOwn

----------------------------------------------------------------------------
(* The emissions *)

\* The emission of one event goes on; it drops no hook that still needs a row.
LEMMA EmissionSteps ==
  ASSUME WebhookInv, NoRowIsLost, NEW e \in Events, NEW m \in EmissionRecord,
         emit' = [emit EXCEPT ![e] = m], UNCHANGED <<hooks, alive>>,
         m.pc # "off" =>
            \A h \in Hooks : Deliverable(h) /\ row'[<<e, h>>] = "none" => h \in m.todo,
         announced' \in SUBSET Events, announced' \subseteq announced \cup {e},
         e \in announced' \ announced =>
            \A h \in Hooks : Deliverable(h) => row[<<e, h>>] # "none"
  PROVE  EmissionsAreEmissions' /\ EmissionsHear'
<1>1. EmissionsAreEmissions /\ EmissionsHear
  BY DEF WebhookInv
<1>2. /\ emit'[e] = m
      /\ \A d \in Events : d # e => emit'[d] = emit[d]
      /\ emit' \in [Events -> EmissionRecord]
  BY <1>1 DEF EmissionsAreEmissions
<1>3. \A h \in Hooks : Deliverable(h)' <=> Deliverable(h)
  BY DEF Deliverable
<1>4. \A d \in Events, h \in Hooks :
          row[<<d, h>>] # "none" => row'[<<d, h>>] # "none"
  BY DEF NoRowIsLost, Rows
<1>5. \A d \in Events, h \in Hooks :
          emit'[d].pc # "off" /\ Deliverable(h)' /\ row'[<<d, h>>] = "none" =>
              h \in emit'[d].todo
  BY <1>1, <1>2, <1>3, <1>4 DEF EmissionsHear
<1>6. EveryHookHears'
  BY <1>1, <1>3, <1>4 DEF EmissionsHear, EveryHookHears
<1>7. QED
  BY <1>2, <1>5, <1>6 DEF EmissionsAreEmissions, EmissionsHear

LEMMA OthersUntouched ==
  ASSUME WebhookInv, UNCHANGED <<hooks, alive, aged, upsets>>
  PROVE  WorldIsWorld'
  BY DEF WebhookInv, WorldIsWorld

LEMMA RowsUntouched ==
  ASSUME WebhookInv, UNCHANGED <<row, quiet, worker>>, lost' = 0 => lost = 0
  PROVE  RowsAreRows' /\ TasksAreTasks' /\ TasksOwn' /\ NoRowIsLost
  BY DEF WebhookInv, RowsAreRows, TasksAreTasks, NoRowIsLost, RowOf,
     TasksOwn, TasksHoldTheirRow, TasksDiffer, DeliveredIsIdle

LEMMA CronUntouched ==
  ASSUME WebhookInv, cron' = cron
  PROVE  CronIsCron'
  BY DEF WebhookInv, CronIsCron

LEMMA CountersCountOn ==
  ASSUME WebhookInv,
         emits' = emits \/ \E e \in Events : emits' = [emits EXCEPT ![e] = @ + 1],
         deaths' = deaths \/ deaths' = deaths + 1,
         lost' = lost \/ lost' = lost + 1,
         upsets' = upsets \/ upsets' = upsets + 1
  PROVE  CountersCount' /\ (lost' = 0 => lost = 0) /\ (lost' = lost + 1 => lost' # 0)
<1>1. emits \in [Events -> Nat] /\ deaths \in Nat /\ lost \in Nat /\ upsets \in Nat
  BY DEF WebhookInv, CountersCount
<1>2. emits' \in [Events -> Nat]
  BY <1>1
<1>3. deaths' \in Nat /\ lost' \in Nat /\ upsets' \in Nat
  BY <1>1
<1>4. QED
  BY <1>1, <1>2, <1>3 DEF CountersCount

LEMMA EmitStartsInv ==
  ASSUME WebhookInv, NEW e \in Events, EmitStarts(e)
  PROVE  WebhookInv'
<1> USE DEF EmitStarts, others, world
<1>1. RowsAreRows' /\ TasksAreTasks' /\ TasksOwn' /\ NoRowIsLost
  BY RowsUntouched
<1>2. WorldIsWorld' /\ CronIsCron' /\ CountersCount'
  BY OthersUntouched, CronUntouched, CountersCountOn
<1>3. [pc |-> "insert", todo |-> hooks] \in EmissionRecord
  BY DEF WebhookInv, WorldIsWorld, EmissionRecord
<1>4. EmissionsAreEmissions' /\ EmissionsHear'
  BY <1>1, <1>3, EmissionSteps DEF Deliverable, WebhookInv, EmissionsAreEmissions
<1>5. QED
  BY <1>1, <1>2, <1>4 DEF WebhookInv

LEMMA InsertsInv ==
  ASSUME WebhookInv, NEW e \in Events, NEW h \in Hooks, Inserts(e, h)
  PROVE  WebhookInv'
<1> USE DEF others, world, counters
<1>1. WorldIsWorld' /\ CronIsCron' /\ CountersCount' /\ (lost' = 0 => lost = 0)
  BY OthersUntouched, CronUntouched, CountersCountOn DEF Inserts
<1>2. /\ emit \in [Events -> EmissionRecord] /\ announced \subseteq Events
      /\ emit[e].pc = "insert" /\ emit[e].todo \subseteq Hooks
  BY DEF Inserts, WebhookInv, EmissionsAreEmissions, EmissionRecord
<1>3. \A g \in Hooks : Deliverable(g) /\ row[<<e, g>>] = "none" => g \in emit[e].todo
  BY <1>2 DEF WebhookInv, EmissionsHear
<1>4. <<e, h>> \in Rows
  BY DEF Rows
<1>5. CASE Deliverable(h) /\ row[<<e, h>>] = "none"
  <2> DEFINE m == [pc |-> "dispatch", todo |-> emit[e].todo \ {h}, at |-> h]
  <2>1. Writes({<<e, h>>}, "pending") /\ emit' = [emit EXCEPT ![e] = m]
        /\ worker' = worker /\ UNCHANGED <<hooks, alive, announced>>
    BY <1>5 DEF Inserts
  <2>2. /\ RowsAreRows'
        /\ \A r \in Rows : row'[r] = IF r = <<e, h>> THEN "pending" ELSE row[r]
    BY <1>4, <2>1, WritesRows DEF WebhookInv, Statuses
  <2>3. \A w \in Workers : worker[w].pc # "off" => RowOf(w) # <<e, h>>
    BY <1>5 DEF WebhookInv, TasksOwn, TasksHoldTheirRow
  <2>4. TasksAreTasks' /\ TasksOwn'
    BY <1>1, <1>4, <2>1, <2>3, WritesPastTasks DEF Statuses
  <2>5. NoRowIsLost
    BY <2>2 DEF NoRowIsLost
  <2>6. m \in EmissionRecord
    BY <1>2 DEF EmissionRecord
  <2>7. \A g \in Hooks : Deliverable(g) /\ row'[<<e, g>>] = "none" => g \in m.todo
    BY <1>3, <1>4, <2>2 DEF Rows
  <2>8. EmissionsAreEmissions' /\ EmissionsHear'
    BY <1>2, <2>1, <2>5, <2>6, <2>7, EmissionSteps
  <2>9. QED
    BY <1>1, <2>2, <2>4, <2>8 DEF WebhookInv
<1>6. CASE ~(Deliverable(h) /\ row[<<e, h>>] = "none")
  <2> DEFINE m == [pc |-> "insert", todo |-> emit[e].todo \ {h}]
  <2>1. emit' = [emit EXCEPT ![e].todo = @ \ {h}] /\ UNCHANGED <<row, quiet, worker>>
        /\ UNCHANGED <<hooks, alive, announced>>
    BY <1>6 DEF Inserts
  <2>2. [emit[e] EXCEPT !.todo = @ \ {h}] = m
    BY <1>2 DEF EmissionRecord
  <2>3. emit' = [emit EXCEPT ![e] = m]
    BY <2>1, <2>2
  <2>4. RowsAreRows' /\ TasksAreTasks' /\ TasksOwn' /\ NoRowIsLost
    BY <1>1, <2>1, RowsUntouched
  <2>5. m \in EmissionRecord
    BY <1>2 DEF EmissionRecord
  <2>6. \A g \in Hooks : Deliverable(g) /\ row'[<<e, g>>] = "none" => g \in m.todo
    BY <1>3, <1>6, <2>1
  <2>7. EmissionsAreEmissions' /\ EmissionsHear'
    BY <1>2, <2>1, <2>3, <2>4, <2>5, <2>6, EmissionSteps
  <2>8. QED
    BY <1>1, <2>4, <2>7 DEF WebhookInv
<1>7. QED
  BY <1>5, <1>6

LEMMA EmitDispatchesInv ==
  ASSUME WebhookInv, NEW e \in Events, EmitDispatches(e)
  PROVE  WebhookInv'
<1> USE DEF others, world, counters
<1> DEFINE m == [pc |-> "insert", todo |-> emit[e].todo]
<1>1. WorldIsWorld' /\ CronIsCron' /\ CountersCount' /\ (lost' = 0 => lost = 0)
  BY OthersUntouched, CronUntouched, CountersCountOn DEF EmitDispatches
<1>2. /\ emit \in [Events -> EmissionRecord] /\ announced \subseteq Events
      /\ emit[e].pc = "dispatch" /\ emit[e].todo \subseteq Hooks /\ emit[e].at \in Hooks
  BY DEF EmitDispatches, WebhookInv, EmissionsAreEmissions, EmissionRecord
<1>3. RowsAreRows' /\ TasksAreTasks' /\ TasksOwn' /\ NoRowIsLost
  BY <1>1, <1>2, DispatchKeeps DEF EmitDispatches, Rows
<1>4. m \in EmissionRecord
  BY <1>2 DEF EmissionRecord
<1>5. \A h \in Hooks : Deliverable(h) /\ row'[<<e, h>>] = "none" => h \in m.todo
  BY <1>2, <1>3 DEF WebhookInv, EmissionsHear, NoRowIsLost, Rows
<1>6. EmissionsAreEmissions' /\ EmissionsHear'
  BY <1>2, <1>3, <1>4, <1>5, EmissionSteps DEF EmitDispatches
<1>7. QED
  BY <1>1, <1>3, <1>6 DEF WebhookInv

LEMMA EmitBreaksInv ==
  ASSUME WebhookInv, NEW e \in Events, EmitBreaks(e)
  PROVE  WebhookInv'
<1> USE DEF others, world
<1>1. WorldIsWorld' /\ CronIsCron' /\ CountersCount' /\ (lost' = 0 => lost = 0)
  BY OthersUntouched, CronUntouched, CountersCountOn DEF EmitBreaks, DispatchFails, Loses
<1>2. RowsAreRows' /\ TasksAreTasks' /\ TasksOwn' /\ NoRowIsLost
  <2>1. CASE emit[e].pc = "dispatch" /\ DispatchFails(<<e, emit[e].at>>)
    <3>1. <<e, emit[e].at>> \in Rows
      BY <2>1 DEF WebhookInv, EmissionsAreEmissions, EmissionRecord, Rows
    <3>2. QED
      BY <1>1, <2>1, <3>1, DispatchKeeps
  <2>2. CASE UNCHANGED <<row, quiet>> /\ worker' = worker
    BY <1>1, <2>2, RowsUntouched
  <2>3. CASE /\ worker' = worker
             /\ \E h \in Hooks : row[<<e, h>>] = "none" /\ Writes({<<e, h>>}, "pending")
    <3>1. PICK h \in Hooks : row[<<e, h>>] = "none" /\ Writes({<<e, h>>}, "pending")
      BY <2>3
    <3>2. <<e, h>> \in Rows
      BY DEF Rows
    <3>3. /\ RowsAreRows'
          /\ \A r \in Rows : row'[r] = IF r = <<e, h>> THEN "pending" ELSE row[r]
      BY <3>1, <3>2, WritesRows DEF WebhookInv, Statuses
    <3>4. \A w \in Workers : worker[w].pc # "off" => RowOf(w) # <<e, h>>
      BY <3>1 DEF WebhookInv, TasksOwn, TasksHoldTheirRow
    <3>5. TasksAreTasks' /\ TasksOwn'
      BY <1>1, <2>3, <3>1, <3>2, <3>4, WritesPastTasks DEF Statuses
    <3>6. NoRowIsLost
      BY <3>3 DEF NoRowIsLost
    <3>7. QED
      BY <3>3, <3>5, <3>6
  <2>4. QED
    BY <2>1, <2>2, <2>3 DEF EmitBreaks
<1>3. NoEmission \in EmissionRecord /\ NoEmission.pc = "off"
  BY DEF EmissionRecord, NoEmission
<1>4. EmissionsAreEmissions' /\ EmissionsHear'
  BY <1>2, <1>3, EmissionSteps DEF EmitBreaks, AfterFailure, WebhookInv, EmissionsAreEmissions
<1>5. QED
  BY <1>1, <1>2, <1>4 DEF WebhookInv

LEMMA EmitEndsInv ==
  ASSUME WebhookInv, NEW e \in Events, EmitEnds(e)
  PROVE  WebhookInv'
<1> USE DEF EmitEnds, world, counters
<1>1. WorldIsWorld' /\ CronIsCron' /\ CountersCount' /\ (lost' = 0 => lost = 0)
  BY OthersUntouched, CronUntouched, CountersCountOn
<1>2. RowsAreRows' /\ TasksAreTasks' /\ TasksOwn' /\ NoRowIsLost
  BY <1>1, RowsUntouched
<1>3. NoEmission \in EmissionRecord /\ NoEmission.pc = "off"
  BY DEF EmissionRecord, NoEmission
<1>4. \A h \in Hooks : Deliverable(h) => row[<<e, h>>] # "none"
  BY DEF WebhookInv, EmissionsHear
<1>5. EmissionsAreEmissions' /\ EmissionsHear'
  BY <1>2, <1>3, <1>4, EmissionSteps DEF WebhookInv, EmissionsAreEmissions
<1>6. QED
  BY <1>1, <1>2, <1>5 DEF WebhookInv

----------------------------------------------------------------------------
(* The tasks *)

LEMMA DeliveryInv ==
  ASSUME WebhookInv, NEW w \in Workers, Delivery(w)
  PROVE  WebhookInv'
<1> USE DEF others, world, counters
<1>1. WorldIsWorld' /\ CronIsCron' /\ CountersCount'
      /\ (lost' = 0 => lost = 0) /\ (lost' = lost + 1 => lost' # 0)
      /\ emit' = emit /\ announced' = announced /\ UNCHANGED <<hooks, alive>>
  BY OthersUntouched, CronUntouched, CountersCountOn
     DEF Delivery, Tries, Posts, RecordsDelivery, RecordsAttempt, RecordsFailure, Loses
<1>2. /\ worker \in [Workers -> Task] /\ worker[w] \in Task
      /\ worker[w].pc # "off" => RowOf(w) \in Rows
  BY DEF WebhookInv, TasksAreTasks
<1>3. NoTask \in Task /\ NoTask.pc = "off"
  BY WebhookConstants DEF NoTask, Task
<1>4. \A pc \in {"try", "post", "ok", "retry", "fail"} :
          Goes(w, pc) => /\ worker' = [worker EXCEPT ![w] = [worker[w] EXCEPT !.pc = pc]]
                         /\ [worker[w] EXCEPT !.pc = pc] \in Task
                         /\ [worker[w] EXCEPT !.pc = pc].row = RowOf(w)
  BY <1>2 DEF Goes, Task, RowOf
<1>5. ASSUME RowsAreRows' /\ TasksAreTasks' /\ TasksOwn' /\ NoRowIsLost
      PROVE  WebhookInv'
  BY <1>1, <1>5, EmissionsUntouched DEF WebhookInv
<1>6. CASE Tries(w)
  <2>1. PICK pc \in {"post", "fail"} : Goes(w, pc)
    BY <1>6 DEF Tries
  <2>2. worker[w].pc # "off" /\ UNCHANGED <<row, quiet>>
    BY <1>6 DEF Tries
  <2>3. QED
    BY <1>1, <1>4, <1>5, <2>1, <2>2, TaskSteps
<1>7. CASE Posts(w)
  <2>1. PICK pc \in {"ok", "fail", "retry"} : Goes(w, pc)
    BY <1>7 DEF Posts
  <2>2. worker[w].pc # "off" /\ UNCHANGED <<row, quiet>>
    BY <1>7 DEF Posts
  <2>3. QED
    BY <1>1, <1>4, <1>5, <2>1, <2>2, TaskSteps
<1>8. CASE RecordsDelivery(w)
  <2>1. worker[w].pc # "off"
    BY <1>8 DEF RecordsDelivery
  <2>2. CASE Writes({RowOf(w)}, "delivered") /\ Stops(w)
    BY <1>1, <1>3, <1>5, <2>1, <2>2, TaskSteps DEF Stops
  <2>3. CASE Loses /\ Goes(w, "retry") /\ Writes({RowOf(w)}, "delivered")
    BY <1>1, <1>4, <1>5, <2>1, <2>3, TaskSteps DEF Loses
  <2>4. CASE Goes(w, "retry") /\ UNCHANGED <<row, quiet>>
    BY <1>1, <1>4, <1>5, <2>1, <2>4, TaskSteps
  <2>5. QED
    BY <1>8, <2>2, <2>3, <2>4 DEF RecordsDelivery
<1>9. CASE RecordsAttempt(w)
  <2> DEFINE t == [worker[w] EXCEPT !.pc = "try", !.attempt = worker[w].attempt + 1]
  <2>1. /\ worker[w].pc # "off" /\ row' = row /\ quiet' = quiet \ {RowOf(w)}
        /\ \/ worker[w].attempt < Attempts /\ worker' = [worker EXCEPT ![w] = t]
           \/ Goes(w, "fail")
    <3>1. [worker EXCEPT ![w].pc = "try", ![w].attempt = @ + 1] = [worker EXCEPT ![w] = t]
      BY <1>2 DEF Task
    <3>2. QED
      BY <1>9, <3>1 DEF RecordsAttempt
  <2>2. worker[w].attempt < Attempts => t \in Task /\ t.row = RowOf(w)
    <3>1. worker[w].attempt \in 0 .. Attempts
      BY <1>2 DEF Task
    <3>2. worker[w].attempt < Attempts => worker[w].attempt + 1 \in 0 .. Attempts
      BY <3>1, WebhookConstants
    <3>3. QED
      BY <1>2, <3>2 DEF Task, RowOf
  <2>3. QED
    BY <1>1, <1>4, <1>5, <2>1, <2>2, TaskSteps
<1>10. CASE RecordsFailure(w)
  BY <1>1, <1>3, <1>5, <1>10, TaskSteps DEF RecordsFailure, Stops
<1>11. QED
  BY <1>6, <1>7, <1>8, <1>9, <1>10 DEF Delivery

----------------------------------------------------------------------------
(* The cron *)

LEMMA CronInv ==
  ASSUME WebhookInv, Cron
  PROVE  WebhookInv'
<1> USE DEF others, world, counters
<1>1. WorldIsWorld' /\ CountersCount' /\ (lost' = 0 => lost = 0)
      /\ emit' = emit /\ announced' = announced /\ UNCHANGED <<hooks, alive>>
  BY OthersUntouched, CountersCountOn
     DEF Cron, CronReclaims, CronExpires, CronBuries, CronSelects, CronEnds,
         CronDispatches, CronBreaks, DispatchFails, Loses
<1>2. CronIsCron'
  BY DEF WebhookInv, CronIsCron, Cron, CronReclaims, CronExpires, CronBuries, CronSelects,
         CronEnds, CronDispatches, CronBreaks, CronStep
<1>3. ASSUME RowsAreRows' /\ TasksAreTasks' /\ TasksOwn' /\ NoRowIsLost
      PROVE  WebhookInv'
  BY <1>1, <1>2, <1>3, EmissionsUntouched DEF WebhookInv
<1>4. ASSUME NEW S \in SUBSET Rows, NEW s \in Statuses \ {"none"}, Writes(S, s), worker' = worker,
             \A w \in Workers : worker[w].pc # "off" /\ RowOf(w) \in S => s = "failed"
      PROVE  WebhookInv'
  <2>1. RowsAreRows' /\ \A r \in Rows : row'[r] = IF r \in S THEN s ELSE row[r]
    BY <1>4, WritesRows DEF WebhookInv
  <2>2. NoRowIsLost
    BY <2>1 DEF NoRowIsLost
  <2>3. TasksAreTasks' /\ TasksOwn'
    BY <1>1, <1>4, WritesPastTasks
  <2>4. QED
    BY <1>3, <2>1, <2>2, <2>3
<1>5. quiet \subseteq Rows /\ aged \subseteq Rows
  BY DEF WebhookInv, WorldIsWorld, RowsAreRows
<1>6. CASE CronReclaims
  <2> DEFINE S == {r \in quiet : row[r] = "dispatching"}
  <2>1. S \in SUBSET Rows /\ Writes(S, "pending") /\ worker' = worker
    BY <1>5, <1>6 DEF CronReclaims
  <2>2. \A w \in Workers : worker[w].pc # "off" => RowOf(w) \notin S
    BY DEF WebhookInv, TasksOwn, TasksHoldTheirRow
  <2>3. "pending" \in Statuses \ {"none"}
    BY DEF Statuses
  <2>4. QED
    BY <1>4, <2>1, <2>2, <2>3
<1>7. CASE CronExpires
  <2>1. "failed" \in Statuses \ {"none"}
    BY DEF Statuses
  <2>2. QED
    BY <1>4, <1>5, <1>7, <2>1 DEF CronExpires
<1>8. CASE CronBuries
  <2>1. "failed" \in Statuses \ {"none"}
    BY DEF Statuses
  <2>2. QED
    BY <1>4, <1>8, <2>1 DEF CronBuries
<1>9. CASE CronSelects \/ CronEnds
  BY <1>1, <1>3, <1>9, RowsUntouched DEF CronSelects, CronEnds
<1>10. CASE \E r \in Rows : CronDispatches(r) \/ CronBreaks(r)
  BY <1>1, <1>3, <1>10, DispatchKeeps DEF CronDispatches, CronBreaks
<1>11. QED
  BY <1>6, <1>7, <1>8, <1>9, <1>10 DEF Cron

----------------------------------------------------------------------------
(* The environment *)

LEMMA WorldInv ==
  ASSUME WebhookInv,
         (\E h \in Hooks : DeleteWebhook(h)) \/ AccountEnds \/ \E r \in Rows : DayPasses(r)
  PROVE  WebhookInv'
<1> USE DEF untouched, counters
<1>1. CronIsCron' /\ CountersCount' /\ lost' = lost
  BY CronUntouched, CountersCountOn DEF DeleteWebhook, AccountEnds, DayPasses, Upsets
<1>2. WorldIsWorld' /\ hooks' \subseteq hooks /\ (alive' => alive)
  <2>1. WorldIsWorld
    BY DEF WebhookInv
  <2>2. CASE \E h \in Hooks : DeleteWebhook(h)
    BY <2>1, <2>2 DEF WorldIsWorld, DeleteWebhook
  <2>3. CASE AccountEnds
    BY <2>1, <2>3 DEF WorldIsWorld, AccountEnds
  <2>4. CASE \E r \in Rows : DayPasses(r)
    BY <2>1, <2>4 DEF WorldIsWorld, DayPasses
  <2>5. QED
    BY <2>2, <2>3, <2>4
<1>3. RowsAreRows' /\ TasksAreTasks' /\ TasksOwn' /\ NoRowIsLost
  BY <1>1, RowsUntouched DEF DeleteWebhook, AccountEnds, DayPasses
<1>4. EmissionsAreEmissions' /\ EmissionsHear'
  BY <1>2, <1>3, EmissionsUntouched DEF DeleteWebhook, AccountEnds, DayPasses
<1>5. QED
  BY <1>1, <1>2, <1>3, <1>4 DEF WebhookInv

LEMMA QuietsInv ==
  ASSUME WebhookInv, NEW r \in Rows, Quiets(r)
  PROVE  WebhookInv'
<1> USE DEF Quiets, others, world, counters
<1>1. WorldIsWorld' /\ CronIsCron' /\ CountersCount' /\ lost' = lost
  BY OthersUntouched, CronUntouched, CountersCountOn
<1>2. RowsAreRows' /\ TasksAreTasks' /\ NoRowIsLost
  BY DEF WebhookInv, RowsAreRows, TasksAreTasks, NoRowIsLost, RowOf
<1>3. TasksOwn'
  BY DEF WebhookInv, TasksOwn, TasksHoldTheirRow, TasksDiffer, DeliveredIsIdle, RowOf
<1>4. EmissionsAreEmissions' /\ EmissionsHear'
  BY <1>2, EmissionsUntouched
<1>5. QED
  BY <1>1, <1>2, <1>3, <1>4 DEF WebhookInv

LEMMA DiesInv ==
  ASSUME WebhookInv, Dies
  PROVE  WebhookInv'
<1> USE DEF others, world
<1>1. WorldIsWorld' /\ CountersCount' /\ lost' = lost /\ UNCHANGED <<row, quiet>>
      /\ UNCHANGED <<hooks, alive, announced>>
  BY OthersUntouched, CountersCountOn DEF Dies
<1>2. CASE \E w \in Workers :
              worker[w].pc # "off" /\ Stops(w) /\ UNCHANGED <<emit, cron>>
  <2>1. PICK w \in Workers :
              worker[w].pc # "off" /\ Stops(w) /\ UNCHANGED <<emit, cron>>
    BY <1>2
  <2>2. NoTask \in Task /\ NoTask.pc = "off"
    BY WebhookConstants DEF NoTask, Task
  <2>3. RowsAreRows' /\ TasksAreTasks' /\ TasksOwn' /\ NoRowIsLost
    BY <1>1, <2>1, <2>2, TaskSteps DEF Stops
  <2>4. EmissionsAreEmissions' /\ EmissionsHear' /\ CronIsCron'
    BY <1>1, <2>1, <2>3, EmissionsUntouched, CronUntouched
  <2>5. QED
    BY <1>1, <2>3, <2>4 DEF WebhookInv
<1>3. CASE \E e \in Events :
              emit' = [emit EXCEPT ![e] = NoEmission] /\ UNCHANGED <<worker, cron>>
  <2>1. PICK e \in Events :
              emit' = [emit EXCEPT ![e] = NoEmission] /\ UNCHANGED <<worker, cron>>
    BY <1>3
  <2>2. NoEmission \in EmissionRecord /\ NoEmission.pc = "off"
    BY DEF EmissionRecord, NoEmission
  <2>3. RowsAreRows' /\ TasksAreTasks' /\ TasksOwn' /\ NoRowIsLost
    BY <1>1, <2>1, RowsUntouched
  <2>4. EmissionsAreEmissions' /\ EmissionsHear' /\ CronIsCron'
    BY <1>1, <2>1, <2>2, <2>3, EmissionSteps, CronUntouched DEF WebhookInv, EmissionsAreEmissions
  <2>5. QED
    BY <1>1, <2>3, <2>4 DEF WebhookInv
<1>4. CASE cron' = [step |-> "off", todo |-> {}] /\ UNCHANGED <<worker, emit>>
  <2>1. RowsAreRows' /\ TasksAreTasks' /\ TasksOwn' /\ NoRowIsLost
    BY <1>1, <1>4, RowsUntouched
  <2>2. EmissionsAreEmissions' /\ EmissionsHear' /\ CronIsCron'
    BY <1>1, <1>4, <2>1, EmissionsUntouched DEF CronIsCron
  <2>3. QED
    BY <1>1, <2>1, <2>2 DEF WebhookInv
<1>5. QED
  BY <1>2, <1>3, <1>4 DEF Dies

----------------------------------------------------------------------------
LEMMA NextInv ==
  ASSUME WebhookInv, [NextWebhooks]_vars
  PROVE  WebhookInv'
<1>1. CASE \E e \in Events : Emission(e)
  BY <1>1, EmitStartsInv, InsertsInv, EmitDispatchesInv, EmitBreaksInv, EmitEndsInv DEF Emission
<1>2. CASE \E w \in Workers : Delivery(w)
  BY <1>2, DeliveryInv
<1>3. CASE Cron
  BY <1>3, CronInv
<1>4. CASE \/ \E h \in Hooks : DeleteWebhook(h)
          \/ AccountEnds
          \/ \E r \in Rows : DayPasses(r)
  BY <1>4, WorldInv
<1>5. CASE \E r \in Rows : Quiets(r)
  BY <1>5, QuietsInv
<1>6. CASE Dies
  BY <1>6, DiesInv
<1>7. CASE UNCHANGED vars
  <2> USE <1>7 DEF vars, world
  <2>1. RowsAreRows' /\ TasksAreTasks' /\ TasksOwn' /\ NoRowIsLost
    BY RowsUntouched
  <2>2. WorldIsWorld' /\ CronIsCron' /\ CountersCount'
    BY OthersUntouched, CronUntouched, CountersCountOn
  <2>3. EmissionsAreEmissions' /\ EmissionsHear'
    BY <2>1, EmissionsUntouched
  <2>4. QED
    BY <2>1, <2>2, <2>3 DEF WebhookInv
<1>8. QED
  BY <1>1, <1>2, <1>3, <1>4, <1>5, <1>6, <1>7 DEF NextWebhooks

\* WebhookInv is an invariant of the outbox: what each part of it says holds in
\* every reachable state, for every instance.
THEOREM Invariant == WebhookSpec => []WebhookInv
<1>1. InitWebhooks => WebhookInv
  BY InitInv
<1>2. WebhookInv /\ [NextWebhooks]_vars => WebhookInv'
  BY NextInv
<1>3. QED
  BY <1>1, <1>2, PTL DEF WebhookSpec

----------------------------------------------------------------------------
\* NoCallOnceDelivered: an endpoint that has taken a delivery is not called for it
\* again, whatever is emitted again, reclaimed or expired meanwhile (deliver and
\* the reclaim of retryPendingWebhookDeliveries).
THEOREM DeliveredIsFinal == WebhookSpec => []NoCallOnceDelivered
<1>1. WebhookInv => NoCallOnceDelivered
  BY DEF WebhookInv, TasksOwn, DeliveredIsIdle, NoCallOnceDelivered, Working, RowOf
<1>2. QED
  BY <1>1, Invariant, PTL

\* EveryHookHears: when an emission has run to its end, every hook that is still
\* there has a row of it (emitWebhookEvent).
THEOREM NoHookPassedOver == WebhookSpec => []EveryHookHears
<1>1. WebhookInv => EveryHookHears
  BY DEF WebhookInv, EmissionsHear
<1>2. QED
  BY <1>1, Invariant, PTL

\* WebhookTypeOK, and with it: one living task per row at any time, however the
\* emission, the cron and its reclaim of dead tasks interleave
\* (dispatchPendingDelivery, retryPendingWebhookDeliveries).
THEOREM OneTaskPerRow == WebhookSpec => []WebhookTypeOK
<1>1. ASSUME WebhookInv
      PROVE  \A r \in Rows : Cardinality(Working(r)) <= 1
  <2> SUFFICES ASSUME NEW r \in Rows
               PROVE  Cardinality(Working(r)) <= 1
    OBVIOUS
  <2>1. CASE Working(r) = {}
    BY <2>1, FS_EmptySet
  <2>2. CASE \E w : w \in Working(r)
    <3>1. PICK w : w \in Working(r)
      BY <2>2
    <3>2. Working(r) = {w}
      BY <1>1, <3>1 DEF WebhookInv, TasksOwn, TasksDiffer, Working, RowOf
    <3>3. Cardinality(Working(r)) = 1
      BY <3>2, FS_Singleton
    <3>4. QED
      BY <3>3
  <2>3. QED
    BY <2>1, <2>2
<1>2. WebhookInv => WebhookTypeOK
  BY <1>1 DEF WebhookInv, WebhookTypeOK, WorldIsWorld, RowsAreRows, EmissionsAreEmissions,
     TasksAreTasks, Task
<1>3. QED
  BY <1>2, Invariant, PTL

\* DeliveryStands: a recorded delivery stays one, however often the event is
\* emitted again and whatever the cron expires or buries (retryPendingWebhookDeliveries
\* changes pending and dispatching rows only; deliver's tasks are over by then).
THEOREM DeliveryIsKept == WebhookSpec => DeliveryStands
<1>1. ASSUME WebhookInv, [NextWebhooks]_vars, NEW r \in Rows, row[r] = "delivered", lost = 0
      PROVE  row'[r] = "delivered"
  <2> USE DEF Writes
  <2>1. \A w \in Workers : worker[w].pc # "off" => RowOf(w) # r
    BY <1>1 DEF WebhookInv, TasksOwn, DeliveredIsIdle
  <2>2. row \in [Rows -> Statuses]
    BY <1>1 DEF WebhookInv, RowsAreRows
  <2>3. ASSUME NEW q \in Rows, Dispatches(q) \/ DispatchFails(q)
        PROVE  row'[r] = "delivered"
    BY <1>1, <2>2, <2>3 DEF Dispatches, DispatchFails, Claimable
  <2>4. CASE \E e \in Events : Emission(e)
    <3>1. PICK e \in Events : Emission(e)
      BY <2>4
    <3>2. CASE EmitStarts(e) \/ EmitEnds(e)
      BY <1>1, <3>2 DEF EmitStarts, EmitEnds
    <3>3. CASE \E h \in Hooks : Inserts(e, h)
      BY <1>1, <2>2, <3>3 DEF Inserts
    <3>4. ASSUME emit[e].pc = "dispatch"
          PROVE  <<e, emit[e].at>> \in Rows
      BY <1>1, <3>4 DEF WebhookInv, EmissionsAreEmissions, EmissionRecord, Rows
    <3>5. CASE EmitDispatches(e)
      BY <2>3, <3>4, <3>5 DEF EmitDispatches
    <3>6. CASE EmitBreaks(e)
      <4>1. CASE emit[e].pc = "dispatch" /\ DispatchFails(<<e, emit[e].at>>)
        BY <2>3, <3>4, <4>1
      <4>2. CASE \E h \in Hooks : row[<<e, h>>] = "none" /\ Writes({<<e, h>>}, "pending")
        BY <1>1, <2>2, <4>2
      <4>3. CASE UNCHANGED row
        BY <1>1, <4>3
      <4>4. QED
        BY <3>6, <4>1, <4>2, <4>3 DEF EmitBreaks
    <3>7. QED
      BY <3>1, <3>2, <3>3, <3>5, <3>6 DEF Emission
  <2>5. CASE \E w \in Workers : Delivery(w)
    <3>1. PICK w \in Workers : Delivery(w)
      BY <2>5
    <3>2. CASE Tries(w) \/ Posts(w) \/ RecordsAttempt(w)
      BY <1>1, <3>2 DEF Tries, Posts, RecordsAttempt
    <3>3. CASE RecordsDelivery(w)
      BY <1>1, <2>2, <3>3 DEF RecordsDelivery
    <3>4. CASE RecordsFailure(w)
      BY <1>1, <2>1, <2>2, <3>4 DEF RecordsFailure
    <3>5. QED
      BY <3>1, <3>2, <3>3, <3>4 DEF Delivery
  <2>6. CASE Cron
    <3>1. CASE CronReclaims
      BY <1>1, <2>2, <3>1 DEF CronReclaims
    <3>2. CASE CronExpires
      BY <1>1, <2>2, <3>2 DEF CronExpires
    <3>3. CASE CronBuries
      BY <1>1, <2>2, <3>3 DEF CronBuries
    <3>4. CASE CronSelects \/ CronEnds
      BY <1>1, <3>4 DEF CronSelects, CronEnds
    <3>5. CASE \E q \in Rows : CronDispatches(q) \/ CronBreaks(q)
      BY <2>3, <3>5 DEF CronDispatches, CronBreaks
    <3>6. QED
      BY <2>6, <3>1, <3>2, <3>3, <3>4, <3>5 DEF Cron
  <2>7. CASE \/ \E h \in Hooks : DeleteWebhook(h)
            \/ AccountEnds
            \/ \E q \in Rows : DayPasses(q)
    BY <1>1, <2>7 DEF DeleteWebhook, AccountEnds, DayPasses, untouched
  <2>8. CASE (\E q \in Rows : Quiets(q)) \/ Dies \/ UNCHANGED vars
    BY <1>1, <2>8 DEF Quiets, Dies, vars
  <2>9. QED
    BY <1>1, <2>4, <2>5, <2>6, <2>7, <2>8 DEF NextWebhooks
<1>2. WebhookInv /\ [NextWebhooks]_vars =>
        [\A r \in Rows : row[r] = "delivered" /\ lost = 0 => row'[r] = "delivered"]_vars
  BY <1>1
<1>3. QED
  BY <1>2, Invariant, PTL DEF WebhookSpec, DeliveryStands
=============================================================================
