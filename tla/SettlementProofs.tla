-------------------------- MODULE SettlementProofs --------------------------
(***************************************************************************)
(* Proofs about the repair worker next to the executors, for any entries   *)
(* on the repair stream, outcomes of its orders and number of failures.    *)
(* What the executors keep on their own is taken from ExecutionProofs.     *)
(*                                                                         *)
(* The last sections are about the pipeline: with the dispatcher in front, *)
(* both behave as they do behind TaskFeed, every order is on an exchange   *)
(* of the opportunity its task was made from, and what the dispatcher      *)
(* promises of its messages is not undone by them.                         *)
(***************************************************************************)
EXTENDS Pipeline, DispatcherProofs, ExecutionProofs, FiniteSetTheorems, SequenceTheorems

-----------------------------------------------------------------------------
(* Every entry the worker acts on is about a row.                          *)
SupportedHaveRows ==
    \A i \in DOMAIN repairTasks :
        Supported(repairTasks[i]) => repairTasks[i].task \in DOMAIN tasks

(* A busy worker is at a supported entry, and reports what is recorded.    *)
RepairBusy == rpc \in {"order", "close", "record", "report"}
RepairCursor ==
    /\ RepairBusy => rlast < Len(repairTasks) /\ Supported(REntry)
    /\ rpc = "report" => tasks[REntry.task].finished_at

SettlementInv ==
    /\ CoreInv /\ RepairTypeOK
    /\ SupportedHaveRows
    /\ RepairCursor
    /\ RepairOutcomeBeforeAck

-----------------------------------------------------------------------------
(* The entry of a busy worker.                                             *)
LEMMA REntryFacts ==
    ASSUME SettlementInv, RepairBusy
    PROVE  /\ rlast \in Nat /\ rlast + 1 \in DOMAIN repairTasks /\ REntry = repairTasks[rlast + 1]
           /\ REntry \in RepairEntry /\ Supported(REntry)
           /\ REntry.task \in DOMAIN tasks /\ REntry.task \in TaskIds
           /\ target_exchange \in Exchanges /\ repair_side \in Sides
<1>1. /\ repairTasks \in Seq(RepairEntry) /\ rlast \in Nat /\ rlast < Len(repairTasks)
      /\ Supported(REntry)
  BY DEF SettlementInv, CoreInv, ExecutionTypeOK, BusTypeOK, RepairTypeOK, RepairCursor
<1>2. rlast + 1 \in DOMAIN repairTasks /\ REntry \in RepairEntry
  BY <1>1 DEF REntry
<1>3. REntry.task \in DOMAIN tasks
  BY <1>1, <1>2 DEF SettlementInv, SupportedHaveRows, REntry
<1>4. target_exchange \in Exchanges
  <2>1. REntry.target_exchanges \in Seq(Exchanges) /\ REntry.target_exchanges # <<>>
    BY <1>1, <1>2 DEF RepairEntry, Supported
  <2> QED
    BY <2>1 DEF target_exchange
<1> QED
  BY <1>1, <1>2, <1>3, <1>4 DEF REntry, RepairEntry, repair_side, Sides

(* The repair stream only grows.                                           *)
RepairsGrow ==
    /\ Len(repairTasks) \in Nat /\ Len(repairTasks') \in Nat /\ Len(repairTasks) <= Len(repairTasks')
    /\ \A i \in DOMAIN repairTasks : i \in DOMAIN repairTasks' /\ repairTasks'[i] = repairTasks[i]

LEMMA AppendGrows ==
    ASSUME repairTasks \in Seq(RepairEntry), NEW e \in RepairEntry,
           repairTasks' = Append(repairTasks, e)
    PROVE  /\ repairTasks' \in Seq(RepairEntry)
           /\ RepairsGrow
           /\ DOMAIN repairTasks' \ DOMAIN repairTasks = {Len(repairTasks) + 1}
           /\ \A i \in DOMAIN repairTasks' \ DOMAIN repairTasks : repairTasks'[i] = e
BY DEF RepairsGrow

(* The rows and the repair stream, as the worker sees the others change    *)
(* them: no row goes away or becomes unfinished.                           *)
OthersStep ==
    /\ UNCHANGED repairVars
    /\ CoreInv'
    /\ RepairsGrow
    /\ DOMAIN tasks \subseteq DOMAIN tasks'
    /\ \A t \in DOMAIN tasks : tasks[t].finished_at => tasks'[t].finished_at
    /\ \A i \in DOMAIN repairTasks' \ DOMAIN repairTasks :
          Supported(repairTasks'[i]) => repairTasks'[i].task \in DOMAIN tasks'

(* What an executor appends, if anything.                                  *)
PlannedRepair(n) ==
    [task |-> Entry(n).task,
     buy_exchange |-> Entry(n).buy_exchange,
     sell_exchange |-> Entry(n).sell_exchange,
     execution_status |-> ExecutionStatus(n),
     repair_action |-> "AUTO_HEDGE_REPAIRING",
     target_exchanges |-> TargetExchanges(n)]

LEMMA ExecutorAppends ==
    ASSUME CoreInv, NEW n \in Nodes, AnyStep(n)
    PROVE  /\ RepairsGrow
           /\ \/ UNCHANGED repairTasks
              \/ /\ PublishRepair(n) /\ xpc[n] = "plan" /\ UNCHANGED tasks
                 /\ Entry(n) \in ExecEntry /\ Entry(n).task \in DOMAIN tasks
                 /\ DOMAIN repairTasks' \ DOMAIN repairTasks = {Len(repairTasks) + 1}
                 /\ \A i \in DOMAIN repairTasks' \ DOMAIN repairTasks :
                       repairTasks'[i] = PlannedRepair(n)
<1>1. repairTasks \in Seq(RepairEntry)
  BY DEF CoreInv, ExecutionTypeOK, BusTypeOK
<1>2. CASE UNCHANGED repairTasks
  BY <1>1, <1>2 DEF RepairsGrow
<1>3. CASE PublishRepair(n)
  <2>1. xpc[n] = "plan" /\ repairTasks' = Append(repairTasks, PlannedRepair(n)) /\ UNCHANGED tasks
    BY <1>3 DEF PublishRepair, PlannedRepair
  <2>2. ExecutionTypeOK /\ xlast[n] < Len(execTasks[n])
    BY <2>1 DEF CoreInv, CursorInv, Busy
  <2>3. Entry(n) \in ExecEntry /\ Entry(n).task \in DOMAIN tasks
    BY <2>2, EntryFacts DEF CoreInv, SentHaveRows, Entry
  <2>4. /\ TargetExchanges(n) \in Seq(Exchanges)
        /\ ExecutionStatus(n) \in {"OPEN_HEDGED", "OPEN_PARTIAL"}
    BY <2>1, ResultTypes DEF HasLegs
  <2>5. PlannedRepair(n) \in RepairEntry
    BY <2>3, <2>4 DEF PlannedRepair, RepairEntry, ExecEntry
  <2>6. RepairsGrow /\ DOMAIN repairTasks' \ DOMAIN repairTasks = {Len(repairTasks) + 1}
        /\ \A i \in DOMAIN repairTasks' \ DOMAIN repairTasks : repairTasks'[i] = PlannedRepair(n)
    BY <1>1, <2>1, <2>5, AppendGrows
  <2> QED
    BY <1>3, <2>1, <2>3, <2>6
<1>4. UNCHANGED repairTasks \/ PublishRepair(n)
  BY DEF AnyStep, ExecutorStep, StartTask, CheckGuard, BlockTask, Preflight, ChooseLegs,
     FinishLeg, CloseSessions, RecordResult, FailTask, ExecutorRestart, Raise, ExecutorCrash,
     busVars, streamVars
<1> QED
  BY <1>2, <1>3, <1>4

LEMMA ExecutorIsOther ==
    ASSUME SettlementInv, NEW n \in Nodes, AnyStep(n), UNCHANGED repairVars
    PROVE  OthersStep
<1>1. CoreInv
  BY DEF SettlementInv
<1>2. CoreInv' /\ DOMAIN tasks \subseteq DOMAIN tasks'
      /\ \A t \in DOMAIN tasks : tasks[t].finished_at => tasks'[t].finished_at
  BY <1>1, ExecutorKeepsCore, RowWriter
<1>3. RepairsGrow /\ \A i \in DOMAIN repairTasks' \ DOMAIN repairTasks :
                        Supported(repairTasks'[i]) => repairTasks'[i].task \in DOMAIN tasks'
  <2>1. PlannedRepair(n).task = Entry(n).task
    BY DEF PlannedRepair
  <2> QED
    BY <1>1, <2>1, ExecutorAppends
<1> QED
  BY <1>2, <1>3 DEF OthersStep

LEMMA FeedIsOther ==
    ASSUME SettlementInv, OutsideStep, UNCHANGED repairVars
    PROVE  OthersStep
<1>1. CoreInv /\ ExecutionTypeOK /\ repairTasks \in Seq(RepairEntry)
  BY DEF SettlementInv, CoreInv, ExecutionTypeOK, BusTypeOK
<1>2. UNCHANGED repairTasks
  BY <1>1, OutsideStreams
<1> QED
  BY <1>1, <1>2, OutsideKeepsCore, OutsideRows DEF OthersStep, RepairsGrow

LEMMA ProducerIsOther ==
    ASSUME SettlementInv, OtherProducer, UNCHANGED <<executorVars, repairVars>>
    PROVE  OthersStep
<1>1. CoreInv /\ repairTasks \in Seq(RepairEntry)
  BY DEF SettlementInv, CoreInv, ExecutionTypeOK, BusTypeOK
<1>2. PICK e \in OtherRepairEntries : repairTasks' = Append(repairTasks, e)
  BY DEF OtherProducer
<1>3. e \in RepairEntry /\ ~Supported(e)
  BY SettlementAssumption DEF SettlementAssumption
<1>4. /\ repairTasks' \in Seq(RepairEntry) /\ RepairsGrow
      /\ \A i \in DOMAIN repairTasks' \ DOMAIN repairTasks : repairTasks'[i] = e
  BY <1>1, <1>2, <1>3, AppendGrows
<1>5. UNCHANGED <<tasks, opps, execTasks, limit, routes, enabled, changes, orders, repairs,
                  xpc, xlast, xamount, xlegs, xfail>>
  BY DEF OtherProducer, adminVars, orderVars, executorVars
<1>6. CoreInv'
  <2>1. ExecutionTypeOK'
    BY <1>1, <1>4, <1>5 DEF CoreInv, ExecutionTypeOK, BusTypeOK, TasksTypeOK, ExecutorTypeOK
  <2>2. SentHaveRows' /\ SentOnce' /\ CursorInv'
    BY <1>1, <1>5 DEF CoreInv, SentHaveRows, SentOnce, CursorInv, Busy
  <2>3. LegsInv'
    BY <1>1, <1>5 DEF CoreInv, LegsInv, HasLegs, LegsFinished, Leg, OrderOf, Entry
  <2> QED
    BY <2>1, <2>2, <2>3 DEF CoreInv
<1> QED
  BY <1>3, <1>4, <1>5, <1>6 DEF OthersStep

LEMMA OthersKeep ==
    ASSUME SettlementInv, OthersStep
    PROVE  SettlementInv'
<1>1. UNCHANGED <<rpc, rlast, rresult, rsession, rspoilt, rfail>>
  BY DEF OthersStep, repairVars
<1>2. RepairTypeOK'
  BY <1>1 DEF SettlementInv, RepairTypeOK, OthersStep, RepairsGrow
<1>3. SupportedHaveRows'
  BY DEF SettlementInv, SupportedHaveRows, OthersStep, RepairsGrow
<1>4. ASSUME RepairBusy
      PROVE  REntry' = REntry /\ (rpc = "report" => tasks'[REntry.task].finished_at)
             /\ rlast < Len(repairTasks')
  <2>1. REntry' = REntry
    BY <1>1, <1>4, REntryFacts DEF OthersStep, RepairsGrow, REntry
  <2>2. rpc = "report" => tasks'[REntry.task].finished_at
    BY <1>4, REntryFacts DEF SettlementInv, RepairCursor, OthersStep
  <2>3. rlast < Len(repairTasks')
    BY <1>4 DEF SettlementInv, RepairCursor, RepairTypeOK, OthersStep, RepairsGrow
  <2> QED
    BY <2>1, <2>2, <2>3
<1>5. RepairCursor'
  BY <1>1, <1>4, REntryFacts DEF RepairCursor, RepairBusy, Supported
<1>6. RepairOutcomeBeforeAck'
  <2> SUFFICES ASSUME NEW i \in 1..rlast, Supported(repairTasks'[i])
               PROVE  tasks'[repairTasks'[i].task].finished_at
    BY <1>1 DEF RepairOutcomeBeforeAck, Supported
  <2>1. i \in DOMAIN repairTasks
    BY DEF SettlementInv, RepairTypeOK, CoreInv, ExecutionTypeOK, BusTypeOK
  <2>2. repairTasks'[i] = repairTasks[i]
    BY <2>1 DEF OthersStep, RepairsGrow
  <2>3. tasks[repairTasks[i].task].finished_at /\ repairTasks[i].task \in DOMAIN tasks
    BY <2>1, <2>2 DEF SettlementInv, RepairOutcomeBeforeAck, SupportedHaveRows
  <2> QED
    BY <2>2, <2>3 DEF OthersStep
<1> QED
  BY <1>2, <1>3, <1>5, <1>6 DEF SettlementInv, OthersStep

-----------------------------------------------------------------------------
(* What the worker itself does: to one row, to the orders it placed, and   *)
(* to nothing of the executors.                                            *)
LEMMA WorkerRow ==
    ASSUME SettlementInv, RepairNext
    PROVE  /\ TasksTypeOK' /\ DOMAIN tasks' = DOMAIN tasks
           /\ \A t \in DOMAIN tasks : tasks[t].finished_at => tasks'[t].finished_at
           /\ RecordRepair => tasks'[REntry.task].finished_at
           /\ \A t \in DOMAIN tasks : tasks'[t].repair_reason = "repair_succeeded" =>
                 \/ tasks[t].repair_reason = "repair_succeeded"
                 \/ RecordRepair /\ rresult = "REPAIRED" /\ t = REntry.task
           /\ \A t \in DOMAIN tasks : tasks'[t] # tasks[t] =>
                 /\ RecordRepair /\ t = REntry.task
                 /\ tasks'[t].dispatched_at = tasks[t].dispatched_at
                 /\ tasks'[t].repair_reason # "fully_hedged"
                 /\ tasks'[t].status \notin {"CREATED", "BLOCKED"}
<1>1. TasksTypeOK
  BY DEF SettlementInv, CoreInv, ExecutionTypeOK, BusTypeOK
<1>2. CASE RecordRepair
  <2>1. RepairBusy
    BY <1>2 DEF RecordRepair, RepairBusy
  <2> DEFINE T == REntry.task
             failed == {target_exchange}
  <2>2. failed \in SUBSET Exchanges /\ {} \in SUBSET Exchanges
    BY <2>1, REntryFacts
  <2>3. \/ /\ rresult = "REPAIRED"
           /\ mark_repair_result(T, "SUCCEEDED", "OPEN_HEDGED", {}, "repair_succeeded", None)
        \/ mark_repair_result(T, "FAILED", "OPEN_PARTIAL", failed, "one_leg_failed",
                              "manual_required")
    BY <1>2 DEF RecordRepair
  <2>4. "SUCCEEDED" \in Statuses /\ "FAILED" \in Statuses
    BY DEF Statuses
  <2> HIDE DEF T, failed
  <2>5. /\ OnlyRowChanges(T) /\ tasks'[T].finished_at
        /\ tasks'[T].repair_reason \in {"one_leg_failed", "repair_succeeded"}
        /\ rresult = "REPAIRED" \/ tasks'[T].repair_reason = "one_leg_failed"
        /\ tasks'[T].dispatched_at = tasks[T].dispatched_at
        /\ tasks'[T].status \notin {"CREATED", "BLOCKED"}
    BY <1>1, <2>2, <2>3, <2>4, MarkRepairResultRow
  <2> QED
    BY <1>2, <2>5 DEF OnlyRowChanges, T
<1>3. CASE ~RecordRepair
  <2>1. UNCHANGED tasks
    BY <1>3 DEF RepairNext, RepairStep, StartRepair, IgnoreRepair, PlaceRepairOrder,
       CloseRepairSession, RecordFails, FinishRepair, RepairRestart, RepairRaise,
       DatabaseError, RepairCrash, busVars
  <2> QED
    BY <1>1, <1>3, <2>1 DEF TasksTypeOK
<1> QED
  BY <1>2, <1>3

LEMMA WorkerOrders ==
    ASSUME SettlementInv, RepairNext
    PROVE  /\ repairs' \in [TaskIds \X Exchanges \X Sides -> Nat]
           /\ \A k \in TaskIds \X Exchanges \X Sides :
                 \/ repairs'[k] = repairs[k]
                 \/ /\ repairs'[k] = repairs[k] + 1
                    /\ rpc = "order" /\ rpc' = "close" /\ k[1] = REntry.task /\ k[2] = target_exchange
                    /\ UNCHANGED <<rlast, rfail, rspoilt, repairTasks>>
<1>1. repairs \in [TaskIds \X Exchanges \X Sides -> Nat]
  BY DEF SettlementInv, CoreInv, ExecutionTypeOK, BusTypeOK
<1>2. CASE \E outcome \in RepairOutcomes : PlaceRepairOrder(outcome)
  <2> DEFINE K == <<REntry.task, target_exchange, repair_side>>
             S == TaskIds \X Exchanges \X Sides
  <2>1. \/ repairs' = repairs
        \/ repairs' = [repairs EXCEPT ![K] = IF @ < MaxRepairOrders THEN @ + 1 ELSE @]
    BY <1>2 DEF PlaceRepairOrder
  <2>2. /\ rpc = "order" /\ rpc' = "close" /\ K[1] = REntry.task /\ K[2] = target_exchange
        /\ UNCHANGED <<rlast, rfail, rspoilt, repairTasks>>
    BY <1>2 DEF PlaceRepairOrder, streamVars
  <2>3. repairs \in [S -> Nat]
    BY <1>1
  <2> HIDE DEF K, S
  <2>4. \/ repairs' = repairs
        \/ repairs' = [k \in S |-> IF k = K THEN repairs[k] + 1 ELSE repairs[k]]
    <3>1. CASE repairs[K] < MaxRepairOrders
      BY <2>1, <2>3, <3>1
    <3>2. CASE ~(repairs[K] < MaxRepairOrders)
      <4>1. repairs' = repairs \/ repairs' = [repairs EXCEPT ![K] = repairs[K]]
        BY <2>1, <3>2
      <4> QED
        BY <2>3, <4>1
    <3> QED
      BY <3>1, <3>2
  <2>5. \A k \in S : (IF k = K THEN repairs[k] + 1 ELSE repairs[k]) \in Nat
    BY <2>3
  <2>6. \A k \in S : repairs'[k] = repairs[k] \/ (repairs'[k] = repairs[k] + 1 /\ k = K)
    BY <2>4
  <2>7. repairs' \in [S -> Nat]
    BY <2>3, <2>4, <2>5
  <2> QED
    BY <2>2, <2>6, <2>7 DEF S
<1>3. CASE ~ \E outcome \in RepairOutcomes : PlaceRepairOrder(outcome)
  <2>1. UNCHANGED repairs
    BY <1>3 DEF RepairNext, RepairStep, StartRepair, IgnoreRepair, RecordRepair,
       CloseRepairSession, RecordFails, FinishRepair, RepairRestart, RepairRaise,
       DatabaseError, RepairCrash, busVars, orderVars
  <2> QED
    BY <1>1, <2>1
<1> QED
  BY <1>2, <1>3

LEMMA WorkerFrame ==
    ASSUME RepairNext
    PROVE  UNCHANGED <<opps, execTasks, repairTasks, limit, routes, enabled, changes, orders>>
BY DEF RepairNext, RepairStep, StartRepair, IgnoreRepair, PlaceRepairOrder, RecordRepair,
   CloseRepairSession, RecordFails, FinishRepair, RepairRestart, RepairRaise, DatabaseError,
   RepairCrash, busVars, streamVars, adminVars, orderVars

LEMMA WorkerKeepsCore ==
    ASSUME SettlementInv, RepairNext, UNCHANGED executorVars
    PROVE  CoreInv'
<1>1. CoreInv
  BY DEF SettlementInv
<1>2. UNCHANGED <<opps, execTasks, repairTasks, limit, routes, enabled, changes, orders,
                  xpc, xlast, xamount, xlegs, xfail>>
  BY WorkerFrame DEF executorVars
<1>3. ExecutionTypeOK'
  <2>1. BusTypeOK'
    BY <1>1, <1>2, WorkerRow, WorkerOrders DEF CoreInv, ExecutionTypeOK, BusTypeOK
  <2>2. ExecutorTypeOK'
    BY <1>1, <1>2 DEF CoreInv, ExecutionTypeOK, ExecutorTypeOK
  <2> QED
    BY <2>1, <2>2 DEF ExecutionTypeOK
<1>4. SentHaveRows' /\ SentOnce' /\ CursorInv'
  BY <1>1, <1>2, WorkerRow DEF CoreInv, SentHaveRows, SentOnce, CursorInv, Busy
<1>5. LegsInv'
  BY <1>1, <1>2 DEF CoreInv, LegsInv, HasLegs, LegsFinished, Leg, OrderOf, Entry
<1> QED
  BY <1>3, <1>4, <1>5 DEF CoreInv

LEMMA WorkerKeepsRest ==
    ASSUME SettlementInv, RepairNext
    PROVE  RepairTypeOK' /\ SupportedHaveRows' /\ RepairCursor' /\ RepairOutcomeBeforeAck'
<1>1. /\ RepairTypeOK /\ SupportedHaveRows /\ RepairCursor /\ RepairOutcomeBeforeAck
      /\ Len(repairTasks) \in Nat /\ DOMAIN repairTasks = 1..Len(repairTasks)
  BY DEF SettlementInv, CoreInv, ExecutionTypeOK, BusTypeOK
<1>2. UNCHANGED repairTasks
  BY WorkerFrame
<1>3. SupportedHaveRows'
  BY <1>1, <1>2, WorkerRow DEF SupportedHaveRows, Supported
<1>4. /\ MaxRepairFailures \in Nat /\ rlast \in Nat /\ rfail \in Nat
  BY <1>1, RepairAssumption DEF RepairTypeOK, RepairAssumption
<1>5. RepairTypeOK'
  <2> USE <1>1, <1>2, <1>4 DEF RepairTypeOK, RepairCursor, RepairBusy
  <2>1. CASE StartRepair \/ IgnoreRepair \/ CloseRepairSession
    BY <2>1 DEF StartRepair, IgnoreRepair, CloseRepairSession
  <2>2. CASE \E outcome \in RepairOutcomes : PlaceRepairOrder(outcome)
    BY <2>2 DEF PlaceRepairOrder
  <2>3. CASE RecordRepair \/ RecordFails
    BY <2>3 DEF RecordRepair, RecordFails
  <2>4. CASE FinishRepair \/ RepairRestart
    BY <2>4 DEF FinishRepair, RepairRestart
  <2>5. CASE RepairRaise \/ RepairCrash \/ DatabaseError
    <3>1. rfail' = rfail + 1 /\ rfail < MaxRepairFailures
      BY <2>5 DEF RepairRaise, RepairCrash, DatabaseError
    <3>2. rfail' \in 0..MaxRepairFailures
      BY <1>4, <3>1
    <3>3. rlast' \in {0, rlast} /\ rpc' \in {"read", "down", "record"}
          /\ rresult' \in {None, rresult} /\ rsession' \in BOOLEAN /\ rspoilt' \in BOOLEAN
      BY <2>5 DEF RepairRaise, RepairCrash, DatabaseError
    <3>4. rlast' \in 0..Len(repairTasks)
      BY <1>4, <3>3
    <3> QED
      BY <3>2, <3>3, <3>4
  <2> QED
    BY <2>1, <2>2, <2>3, <2>4, <2>5 DEF RepairNext, RepairStep
<1>6. RepairCursor'
  <2>1. CASE StartRepair
    BY <1>2, <2>1 DEF StartRepair, RepairCursor, RepairBusy, REntry, Supported
  <2>2. CASE \/ \E outcome \in RepairOutcomes : PlaceRepairOrder(outcome)
             \/ CloseRepairSession \/ DatabaseError
    <3>1. RepairBusy /\ rlast' = rlast /\ rpc' # "report"
      BY <2>2 DEF PlaceRepairOrder, CloseRepairSession, DatabaseError, RepairBusy
    <3> QED
      BY <1>1, <1>2, <3>1 DEF RepairCursor, REntry, Supported
  <2>3. CASE RecordRepair
    <3>1. RepairBusy /\ rlast' = rlast /\ tasks'[REntry.task].finished_at
      BY <2>3, WorkerRow DEF RecordRepair, RepairBusy
    <3> QED
      BY <1>1, <1>2, <3>1 DEF RepairCursor, REntry, Supported
  <2>4. CASE IgnoreRepair \/ RecordFails \/ FinishRepair \/ RepairRestart \/ RepairRaise
             \/ RepairCrash
    <3>1. rpc' \in {"read", "down"}
      BY <2>4 DEF IgnoreRepair, RecordFails, FinishRepair, RepairRestart, RepairRaise, RepairCrash
    <3> QED
      BY <3>1 DEF RepairCursor, RepairBusy
  <2> QED
    BY <2>1, <2>2, <2>3, <2>4 DEF RepairNext, RepairStep
<1>7. RepairOutcomeBeforeAck'
  <2> SUFFICES ASSUME NEW i \in 1..rlast', Supported(repairTasks[i])
               PROVE  tasks'[repairTasks[i].task].finished_at
    BY <1>2 DEF RepairOutcomeBeforeAck, Supported
  <2>1. CASE i \in 1..rlast
    <3>1. i \in DOMAIN repairTasks
      BY <1>1, <2>1 DEF RepairTypeOK
    <3>2. tasks[repairTasks[i].task].finished_at /\ repairTasks[i].task \in DOMAIN tasks
      BY <1>1, <2>1, <3>1 DEF RepairOutcomeBeforeAck, SupportedHaveRows
    <3> QED
      BY <3>2, WorkerRow
  <2>2. CASE i \notin 1..rlast
    <3>1. (FinishRepair \/ IgnoreRepair) /\ rlast' = rlast + 1 /\ i = rlast + 1
      <4>1. rlast' \in {0, rlast} \/ ((FinishRepair \/ IgnoreRepair) /\ rlast' = rlast + 1)
        BY DEF RepairNext, RepairStep, StartRepair, PlaceRepairOrder, CloseRepairSession,
           RecordRepair, RecordFails, FinishRepair, IgnoreRepair, RepairRestart, RepairRaise,
           DatabaseError, RepairCrash
      <4> QED
        BY <1>4, <2>2, <4>1
    <3>2. FinishRepair /\ rpc = "report"
      BY <3>1 DEF IgnoreRepair, FinishRepair, REntry
    <3>3. tasks[REntry.task].finished_at /\ REntry.task \in DOMAIN tasks
      BY <1>1, <3>2, REntryFacts DEF RepairCursor, RepairBusy
    <3> QED
      BY <3>1, <3>3, WorkerRow DEF REntry
  <2> QED
    BY <2>1, <2>2
<1> QED
  BY <1>3, <1>5, <1>6, <1>7

-----------------------------------------------------------------------------
(* Repair orders, counted over the entries behind the cursor and the one   *)
(* under it; a failure starts the count again, a crash for every entry.    *)
Behind(t) == {i \in RepairEntriesOf(t) : i <= rlast}
Current(t) == IF rpc \in {"close", "record", "report"} /\ REntry.task = t THEN 1 ELSE 0
Attempts(t) == Cardinality(RepairEntriesOf(t)) * rfail + Cardinality(Behind(t)) + Current(t)

AttemptsInv ==
    /\ ~rsession => rspoilt
    /\ ~rspoilt => \A t \in TaskIds, e \in Exchanges, side \in Sides :
                       repairs[<<t, e, side>>] <= Attempts(t)

LEMMA EntriesFinite ==
    ASSUME NEW s \in Seq(RepairEntry), NEW t
    PROVE  LET E == {i \in DOMAIN s : s[i].task = t}
           IN  IsFiniteSet(E) /\ Cardinality(E) \in Nat
<1> DEFINE E == {i \in DOMAIN s : s[i].task = t}
<1>1. IsFiniteSet(1..Len(s)) /\ E \in SUBSET (1..Len(s))
  BY FS_Interval
<1> QED
  BY <1>1, FS_Subset, FS_CardinalityType

(* An entry is counted once, behind the cursor or under it.                *)
LEMMA AttemptsWithin ==
    ASSUME SettlementInv, NEW t
    PROVE  /\ IsFiniteSet(RepairEntriesOf(t)) /\ IsFiniteSet(Behind(t))
           /\ Cardinality(RepairEntriesOf(t)) \in Nat /\ Cardinality(Behind(t)) \in Nat
           /\ Current(t) \in {0, 1} /\ rfail \in Nat
           /\ Cardinality(Behind(t)) + Current(t) <= Cardinality(RepairEntriesOf(t))
<1> DEFINE E == RepairEntriesOf(t)
           B == Behind(t)
<1>1. /\ Len(repairTasks) \in Nat /\ DOMAIN repairTasks = 1..Len(repairTasks)
      /\ rlast \in Nat /\ rfail \in Nat
  BY RepairAssumption DEF SettlementInv, CoreInv, ExecutionTypeOK, BusTypeOK, RepairTypeOK,
     RepairAssumption
<1>2. repairTasks \in Seq(RepairEntry)
  BY DEF SettlementInv, CoreInv, ExecutionTypeOK, BusTypeOK
<1>3. IsFiniteSet(E) /\ Cardinality(E) \in Nat
  BY <1>2, EntriesFinite DEF RepairEntriesOf
<1>4. B \in SUBSET E
  BY DEF Behind
<1>5. IsFiniteSet(B) /\ Cardinality(B) \in Nat /\ Cardinality(B) <= Cardinality(E)
  BY <1>3, <1>4, FS_Subset, FS_CardinalityType
<1>6. CASE Current(t) = 1
  <2>1. RepairBusy /\ REntry.task = t
    BY <1>6 DEF Current, RepairBusy
  <2>2. rlast + 1 \in E /\ rlast + 1 \notin B
    BY <1>1, <2>1, REntryFacts DEF RepairEntriesOf, Behind
  <2>3. Cardinality(B \cup {rlast + 1}) = Cardinality(B) + 1
    BY <1>5, <2>2, FS_AddElement
  <2>4. B \cup {rlast + 1} \in SUBSET E
    BY <1>4, <2>2
  <2>5. Cardinality(B \cup {rlast + 1}) <= Cardinality(E)
    BY <1>3, <2>4, FS_Subset
  <2> QED
    BY <1>1, <1>3, <1>5, <1>6, <2>3, <2>5
<1>7. CASE Current(t) = 0
  BY <1>1, <1>3, <1>5, <1>7
<1> QED
  BY <1>6, <1>7 DEF Current

LEMMA TimesGrows ==
    ASSUME NEW a \in Nat, NEW b \in Nat, NEW f \in Nat, a <= b
    PROVE  a * f <= b * f /\ a * f \in Nat /\ b * f \in Nat
OBVIOUS

LEMMA OneMoreTime ==
    ASSUME NEW a \in Nat, NEW f \in Nat
    PROVE  a * (f + 1) = a * f + a /\ a * f \in Nat
OBVIOUS

LEMMA OthersKeepAttempts ==
    ASSUME SettlementInv, AttemptsInv, OthersStep, UNCHANGED repairs
    PROVE  AttemptsInv'
<1>1. UNCHANGED <<rpc, rlast, rresult, rsession, rspoilt, rfail>>
  BY DEF OthersStep, repairVars
<1>2. SettlementInv'
  BY OthersKeep
<1>3. ASSUME NEW t \in TaskIds
      PROVE  Attempts(t) \in Nat /\ Attempts(t)' \in Nat /\ Attempts(t) <= Attempts(t)'
  <2>1. Current(t)' = Current(t)
    BY <1>1, REntryFacts DEF Current, RepairBusy, REntry, OthersStep, RepairsGrow
  <2>2. Behind(t)' = Behind(t)
    <3>1. \A i \in Nat : i <= rlast => (i \in DOMAIN repairTasks' <=> i \in DOMAIN repairTasks)
      BY DEF OthersStep, RepairsGrow, SettlementInv, RepairTypeOK, CoreInv, ExecutionTypeOK, BusTypeOK
    <3>2. DOMAIN repairTasks \subseteq Nat /\ DOMAIN repairTasks' \subseteq Nat
      BY <1>2 DEF SettlementInv, CoreInv, ExecutionTypeOK, BusTypeOK
    <3> QED
      BY <1>1, <3>1, <3>2 DEF Behind, RepairEntriesOf, OthersStep, RepairsGrow
  <2>3. RepairEntriesOf(t) \in SUBSET (RepairEntriesOf(t)')
    BY DEF RepairEntriesOf, OthersStep, RepairsGrow
  <2>4. /\ IsFiniteSet(RepairEntriesOf(t)') /\ Cardinality(RepairEntriesOf(t)') \in Nat
    <3>1. repairTasks' \in Seq(RepairEntry)
      BY <1>2 DEF SettlementInv, CoreInv, ExecutionTypeOK, BusTypeOK
    <3> QED
      BY <3>1, EntriesFinite DEF RepairEntriesOf
  <2>5. Cardinality(RepairEntriesOf(t)) <= Cardinality(RepairEntriesOf(t)')
    BY <2>3, <2>4, FS_Subset
  <2>6. /\ Cardinality(RepairEntriesOf(t)) \in Nat /\ Cardinality(Behind(t)) \in Nat
        /\ Current(t) \in {0, 1} /\ rfail \in Nat
    BY AttemptsWithin
  <2>7. Cardinality(RepairEntriesOf(t)) * rfail <= Cardinality(RepairEntriesOf(t)') * rfail
        /\ Cardinality(RepairEntriesOf(t)) * rfail \in Nat
        /\ Cardinality(RepairEntriesOf(t)') * rfail \in Nat
    BY <2>4, <2>5, <2>6, TimesGrows
  <2> DEFINE x == Cardinality(RepairEntriesOf(t)) * rfail
             y == Cardinality(RepairEntriesOf(t)') * rfail
             b == Cardinality(Behind(t))
             c == Current(t)
  <2>8. Attempts(t) = x + b + c /\ Attempts(t)' = y + b + c
    BY <1>1, <2>1, <2>2 DEF Attempts
  <2>9. x <= y /\ x \in Nat /\ y \in Nat /\ b \in Nat /\ c \in Nat
    BY <2>6, <2>7
  <2> HIDE DEF x, y, b, c
  <2> QED
    BY <2>8, <2>9
<1>5. ASSUME ~rspoilt, NEW t \in TaskIds, NEW e \in Exchanges, NEW side \in Sides
      PROVE  repairs[<<t, e, side>>] <= Attempts(t)'
  <2>1. repairs[<<t, e, side>>] \in Nat
    BY DEF SettlementInv, CoreInv, ExecutionTypeOK, BusTypeOK
  <2>2. repairs[<<t, e, side>>] <= Attempts(t)
    BY <1>5 DEF AttemptsInv
  <2>3. Attempts(t) \in Nat /\ Attempts(t)' \in Nat /\ Attempts(t) <= Attempts(t)'
    BY <1>3
  <2> QED
    BY <2>1, <2>2, <2>3
<1> QED
  BY <1>1, <1>5 DEF AttemptsInv

(* In the worker's own steps the entries stay, and what it places, moves   *)
(* its cursor past or gives up is counted.                                 *)
LEMMA WorkerCounts ==
    ASSUME SettlementInv, AttemptsInv, RepairNext, ~rspoilt', NEW t
    PROVE  LET E == Cardinality(RepairEntriesOf(t))
               B == Cardinality(Behind(t))
               C == Current(t)
           IN  /\ ~rspoilt /\ RepairEntriesOf(t)' = RepairEntriesOf(t)
               /\ \/ /\ rfail' = rfail /\ Cardinality(Behind(t)') + Current(t)' >= B + C
                     /\ Cardinality(Behind(t)') \in Nat
                     /\ rpc = "order" /\ rpc' = "close" /\ REntry.task = t =>
                           Cardinality(Behind(t)') + Current(t)' = B + C + 1
                  \/ /\ rfail' = rfail + 1 /\ rpc' \in {"read", "down"}
                     /\ Cardinality(Behind(t)') \in Nat
                     /\ Current(t)' = 0
<1>1. /\ repairTasks \in Seq(RepairEntry) /\ UNCHANGED repairTasks
      /\ DOMAIN repairTasks = 1..Len(repairTasks) /\ Len(repairTasks) \in Nat
      /\ rlast \in Nat
  BY WorkerFrame DEF SettlementInv, CoreInv, ExecutionTypeOK, BusTypeOK, RepairTypeOK
<1>2. RepairEntriesOf(t)' = RepairEntriesOf(t)
  BY <1>1 DEF RepairEntriesOf
<1>3. /\ IsFiniteSet(RepairEntriesOf(t)) /\ IsFiniteSet(Behind(t))
      /\ Cardinality(Behind(t)) \in Nat /\ Current(t) \in {0, 1} /\ rfail \in Nat
  BY AttemptsWithin
<1>4. Cardinality(Behind(t)') \in Nat
  <2>1. Behind(t)' \in SUBSET RepairEntriesOf(t)
    BY <1>2 DEF Behind
  <2> QED
    BY <1>3, <2>1, FS_Subset, FS_CardinalityType
<1>5. ~rspoilt /\ ~DatabaseError /\ ~RecordFails
  BY DEF AttemptsInv, RepairNext, RepairStep, StartRepair, IgnoreRepair, PlaceRepairOrder,
     CloseRepairSession, RecordRepair, RecordFails, FinishRepair, RepairRestart, RepairRaise,
     DatabaseError, RepairCrash
<1>6. ASSUME rlast' = rlast
      PROVE  Behind(t)' = Behind(t) /\ REntry' = REntry
  BY <1>1, <1>2, <1>6 DEF Behind, REntry
<1>7. CASE StartRepair \/ RepairRestart
  <2>1. rlast' = rlast /\ rfail' = rfail /\ Current(t) = 0 /\ Current(t)' = 0 /\ rpc # "order"
    BY <1>7 DEF StartRepair, RepairRestart, Current
  <2> QED
    BY <1>2, <1>3, <1>4, <1>5, <1>6, <2>1
<1>8. CASE \E outcome \in RepairOutcomes : PlaceRepairOrder(outcome)
  <2>1. /\ rlast' = rlast /\ rfail' = rfail /\ Current(t) = 0
        /\ rpc = "order" /\ rpc' = "close"
    BY <1>8 DEF PlaceRepairOrder, Current
  <2>2. Current(t)' = IF REntry.task = t THEN 1 ELSE 0
    BY <1>6, <2>1 DEF Current
  <2> QED
    BY <1>2, <1>3, <1>4, <1>5, <1>6, <2>1, <2>2
<1>9. CASE CloseRepairSession \/ RecordRepair
  <2>1. /\ rlast' = rlast /\ rfail' = rfail /\ rpc # "order"
        /\ rpc \in {"close", "record"} /\ rpc' \in {"record", "report"}
    BY <1>9 DEF CloseRepairSession, RecordRepair
  <2>2. Current(t)' = Current(t)
    BY <1>6, <2>1 DEF Current
  <2> QED
    BY <1>2, <1>3, <1>4, <1>5, <1>6, <2>1, <2>2
<1>10. CASE IgnoreRepair \/ FinishRepair
  <2>1. /\ rlast' = rlast + 1 /\ rfail' = rfail /\ rpc # "order" /\ rpc' = "read"
        /\ rpc \in {"read", "report"}
    BY <1>10 DEF IgnoreRepair, FinishRepair
  <2>2. Current(t)' = 0
    BY <2>1 DEF Current
  <2>3. CASE Current(t) = 0
    <3>1. Behind(t) \in SUBSET (Behind(t)') /\ IsFiniteSet(Behind(t)')
      <4>1. Behind(t)' \in SUBSET RepairEntriesOf(t)
        BY <1>2 DEF Behind
      <4>2. Behind(t) \in SUBSET (Behind(t)')
        BY <1>1, <1>2, <2>1 DEF Behind, RepairEntriesOf
      <4> QED
        BY <1>3, <4>1, <4>2, FS_Subset
    <3>2. Cardinality(Behind(t)) <= Cardinality(Behind(t)')
      BY <3>1, FS_Subset
    <3> QED
      BY <1>2, <1>3, <1>4, <1>5, <2>1, <2>2, <2>3, <3>2
  <2>4. CASE Current(t) = 1
    <3>1. RepairBusy /\ REntry.task = t
      BY <2>4 DEF Current, RepairBusy
    <3>2. Behind(t)' = Behind(t) \cup {rlast + 1} /\ rlast + 1 \notin Behind(t)
      BY <1>1, <1>2, <2>1, <3>1, REntryFacts DEF Behind, RepairEntriesOf
    <3>3. Cardinality(Behind(t)') = Cardinality(Behind(t)) + 1
      BY <1>3, <3>2, FS_AddElement
    <3> QED
      BY <1>2, <1>3, <1>4, <1>5, <2>1, <2>2, <2>4, <3>3
  <2> QED
    BY <1>3, <2>3, <2>4
<1>11. CASE RepairRaise \/ RepairCrash
  <2>1. rfail' = rfail + 1 /\ rpc' \in {"read", "down"}
    BY <1>11 DEF RepairRaise, RepairCrash
  <2> QED
    BY <1>2, <1>4, <1>5, <2>1 DEF Current
<1> QED
  BY <1>5, <1>7, <1>8, <1>9, <1>10, <1>11 DEF RepairNext, RepairStep

LEMMA WorkerKeepsAttempts ==
    ASSUME SettlementInv, AttemptsInv, RepairNext
    PROVE  AttemptsInv'
<1>1. ~rsession' => rspoilt'
  BY DEF AttemptsInv, RepairNext, RepairStep, StartRepair, IgnoreRepair, PlaceRepairOrder,
     CloseRepairSession, RecordRepair, RecordFails, FinishRepair, RepairRestart, RepairRaise,
     DatabaseError, RepairCrash
<1>2. ASSUME ~rspoilt', NEW t \in TaskIds, NEW e \in Exchanges, NEW side \in Sides
      PROVE  repairs'[<<t, e, side>>] <= Attempts(t)'
  <2> DEFINE k == <<t, e, side>>
             E == Cardinality(RepairEntriesOf(t))
             B == Cardinality(Behind(t))
             C == Current(t)
             B1 == Cardinality(Behind(t)')
             C1 == Current(t)'
             p == repairs[k]
             q == repairs'[k]
  <2>1. E \in Nat /\ B \in Nat /\ C \in {0, 1} /\ rfail \in Nat /\ B + C <= E
    BY AttemptsWithin
  <2>2. /\ ~rspoilt /\ Attempts(t)' = E * rfail' + B1 + C1 /\ B1 \in Nat /\ C1 \in {0, 1}
        /\ \/ /\ rfail' = rfail /\ B1 + C1 >= B + C
              /\ rpc = "order" /\ rpc' = "close" /\ REntry.task = t => B1 + C1 = B + C + 1
           \/ rfail' = rfail + 1 /\ rpc' \in {"read", "down"} /\ C1 = 0
    <3>1. C1 \in {0, 1}
      BY DEF Current
    <3> QED
      BY <1>2, <3>1, WorkerCounts DEF Attempts
  <2>3. p <= E * rfail + B + C
    BY <2>2 DEF AttemptsInv, Attempts
  <2>4. p \in Nat /\ q \in Nat
    BY WorkerOrders DEF SettlementInv, CoreInv, ExecutionTypeOK, BusTypeOK
  <2>5. q = p \/ (q = p + 1 /\ rpc = "order" /\ rpc' = "close" /\ REntry.task = t)
    BY WorkerOrders
  <2>6. E * (rfail + 1) = E * rfail + E /\ E * rfail \in Nat
    BY <2>1, OneMoreTime
  <2> HIDE DEF E, B, C, B1, C1, p, q
  <2>7. q <= E * rfail' + B1 + C1
    <3>1. CASE rfail' = rfail /\ B1 + C1 >= B + C
      BY <2>1, <2>2, <2>3, <2>4, <2>5, <2>6, <3>1
    <3>2. CASE rfail' = rfail + 1 /\ rpc' \in {"read", "down"} /\ C1 = 0
      <4>1. q = p
        BY <2>5, <3>2
      <4> QED
        BY <2>1, <2>2, <2>3, <2>4, <2>6, <3>2, <4>1
    <3> QED
      BY <2>2, <3>1, <3>2
  <2> QED
    BY <2>2, <2>7 DEF q
<1> QED
  BY <1>1, <1>2 DEF AttemptsInv

-----------------------------------------------------------------------------
(* The invariants hold initially and in every step.                        *)
LEMMA SettlementInvInit == ASSUME SettlementInit PROVE SettlementInv /\ AttemptsInv
<1>1. CoreInv
  BY ExecutionInvInit DEF SettlementInit, ExecutionInit, ExecutionInv, RecordsInv
<1>2. /\ repairTasks = <<>> /\ repairs = NoOrders
      /\ rpc = "read" /\ rlast = 0 /\ rresult = None /\ rsession = TRUE
      /\ rspoilt = FALSE /\ rfail = 0
  BY DEF SettlementInit, BusInit, EmptyBus, RepairInit
<1>3. RepairTypeOK
  <2>1. Len(repairTasks) \in Nat
    BY <1>1 DEF CoreInv, ExecutionTypeOK, BusTypeOK
  <2>2. rlast \in 0..Len(repairTasks)
    BY <1>2, <2>1
  <2>3. rfail \in 0..MaxRepairFailures
    BY <1>2, RepairAssumption DEF RepairAssumption
  <2> QED
    BY <1>2, <2>2, <2>3 DEF RepairTypeOK
<1>4. SupportedHaveRows /\ RepairCursor /\ RepairOutcomeBeforeAck
  BY <1>2 DEF SupportedHaveRows, RepairCursor, RepairBusy, RepairOutcomeBeforeAck
<1>5. SettlementInv
  BY <1>1, <1>3, <1>4 DEF SettlementInv
<1>6. ASSUME NEW t \in TaskIds, NEW e \in Exchanges, NEW side \in Sides
      PROVE  repairs[<<t, e, side>>] <= Attempts(t)
  <2> DEFINE E == Cardinality(RepairEntriesOf(t))
             B == Cardinality(Behind(t))
             C == Current(t)
  <2>1. E \in Nat /\ B \in Nat /\ C \in {0, 1} /\ rfail \in Nat
    BY <1>5, AttemptsWithin
  <2>2. Attempts(t) = E * rfail + B + C
    BY DEF Attempts
  <2>3. E * rfail \in Nat
    BY <2>1, OneMoreTime
  <2>4. repairs[<<t, e, side>>] = 0
    BY <1>2 DEF NoOrders
  <2> HIDE DEF E, B, C
  <2> QED
    BY <2>1, <2>2, <2>3, <2>4
<1> QED
  BY <1>2, <1>5, <1>6 DEF AttemptsInv

LEMMA SettlementInvStep ==
    ASSUME SettlementInv, AttemptsInv, [SettlementNext]_settlementVars
    PROVE  SettlementInv' /\ AttemptsInv'
<1>1. CoreInv /\ ExecutionTypeOK
  BY DEF SettlementInv, CoreInv
<1>2. ASSUME NEW n \in Nodes, AnyStep(n), UNCHANGED repairVars
      PROVE  SettlementInv' /\ AttemptsInv'
  <2>1. OthersStep
    BY <1>2, ExecutorIsOther
  <2>2. UNCHANGED repairs
    BY <1>1, <1>2, ExecutorFrame
  <2> QED
    BY <2>1, <2>2, OthersKeep, OthersKeepAttempts
<1>3. CASE RepairNext /\ UNCHANGED executorVars
  <2>1. CoreInv' /\ RepairTypeOK' /\ SupportedHaveRows' /\ RepairCursor' /\ RepairOutcomeBeforeAck'
    BY <1>3, WorkerKeepsCore, WorkerKeepsRest
  <2> QED
    BY <1>3, <2>1, WorkerKeepsAttempts DEF SettlementInv
<1>4. CASE OutsideStep /\ UNCHANGED repairVars
  <2>1. OthersStep /\ UNCHANGED repairs
    BY <1>1, <1>4, FeedIsOther, OutsideStreams
  <2> QED
    BY <2>1, OthersKeep, OthersKeepAttempts
<1>5. CASE OtherProducer /\ UNCHANGED <<executorVars, repairVars>>
  <2>1. OthersStep /\ UNCHANGED repairs
    BY <1>5, ProducerIsOther DEF OtherProducer, orderVars
  <2> QED
    BY <2>1, OthersKeep, OthersKeepAttempts
<1> QED
  BY <1>2, <1>3, <1>4, <1>5 DEF SettlementNext, ExecutorNext, AnyStep, OutsideStep, settlementVars

LEMMA SettlementInvariant == SettlementSpec => [](SettlementInv /\ AttemptsInv)
BY SettlementInvInit, SettlementInvStep, PTL DEF SettlementSpec

(* What the table says of an open stays true when the worker writes it and *)
(* when others use its stream.                                             *)
LEMMA RecordsUnderWriters ==
    ASSUME RecordsInv, CoreInv', RepairsGrow, UNCHANGED <<executorVars, execTasks, orders>>,
           DOMAIN tasks' = DOMAIN tasks,
           \A t \in DOMAIN tasks :
               /\ tasks[t].finished_at => tasks'[t].finished_at
               /\ \/ tasks'[t] = tasks[t]
                  \/ /\ HasRepairTask(t) /\ tasks'[t].repair_reason # "fully_hedged"
                     /\ tasks'[t].status # "BLOCKED"
    PROVE  RecordsInv'
<1>1. /\ UNCHANGED <<xpc, xlast, xlegs, xfail>>
      /\ CoreInv /\ ExecutionTypeOK /\ SentHaveRows
      /\ OutcomeBeforeAck /\ PartialHasRepairTask /\ FullyHedgedHasBothLegs /\ RepairFirst
      /\ OrdersCounted /\ BusyNotBlocked /\ BlockedMeansUntraded
  BY DEF RecordsInv, CoreInv, executorVars
<1>2. \A t : HasRepairTask(t) => HasRepairTask(t)'
  BY DEF HasRepairTask, RepairsGrow
<1>3. RepairFirst'
  BY <1>1, <1>2 DEF RepairFirst, FailedSides, Leg, Entry
<1>4. OrdersCounted'
  BY <1>1 DEF OrdersCounted, Published, NoOrderFor, Tries, Finished, HasLegs, Leg
<1>5. \A n \in Nodes : \A i \in 1..xlast[n] : execTasks[n][i].task \in DOMAIN tasks
  <2> SUFFICES ASSUME NEW n \in Nodes, NEW i \in 1..xlast[n]
               PROVE  execTasks[n][i].task \in DOMAIN tasks
    OBVIOUS
  <2>1. execTasks[n] \in Seq(ExecEntry) /\ xlast[n] \in Nat /\ xlast[n] <= Len(execTasks[n])
    BY <1>1 DEF ExecutionTypeOK, BusTypeOK, ExecutorTypeOK
  <2> QED
    BY <1>1, <2>1 DEF SentHaveRows
<1>6. OutcomeBeforeAck'
  BY <1>1, <1>5 DEF OutcomeBeforeAck
<1>7. PartialHasRepairTask'
  BY <1>1, <1>2 DEF PartialHasRepairTask, HasRepairTask
<1>8. FullyHedgedHasBothLegs'
  BY <1>1 DEF FullyHedgedHasBothLegs
<1>9. BusyNotBlocked'
  <2> SUFFICES ASSUME NEW n \in Nodes, Busy(n)
               PROVE  tasks'[Entry(n).task].status # "BLOCKED"
    BY <1>1 DEF BusyNotBlocked, Busy, Entry
  <2>1. xlast[n] < Len(execTasks[n])
    BY DEF RecordsInv, CoreInv, CursorInv
  <2>2. Entry(n).task \in DOMAIN tasks
    BY <1>1, <2>1, EntryFacts DEF SentHaveRows, Entry
  <2> QED
    BY <1>1, <2>2 DEF BusyNotBlocked
<1>10. BlockedMeansUntraded'
  BY <1>1 DEF BlockedMeansUntraded, SentHaveRows
<1> QED
  BY <1>3, <1>4, <1>6, <1>7, <1>8, <1>9, <1>10 DEF RecordsInv

LEMMA RecordsInvStep ==
    ASSUME SettlementInv, RecordsInv, [SettlementNext]_settlementVars
    PROVE  RecordsInv'
<1>1. repairTasks \in Seq(RepairEntry)
  BY DEF SettlementInv, CoreInv, ExecutionTypeOK, BusTypeOK
<1>2. CASE RepairNext /\ UNCHANGED executorVars
  <2>1. CoreInv' /\ UNCHANGED <<execTasks, repairTasks, orders>>
    BY <1>2, WorkerKeepsCore, WorkerFrame
  <2>2. RepairsGrow
    BY <1>1, <2>1 DEF RepairsGrow
  <2>3. RecordRepair => HasRepairTask(REntry.task)
    BY REntryFacts DEF RecordRepair, RepairBusy, HasRepairTask
  <2> QED
    BY <1>2, <2>1, <2>2, <2>3, WorkerRow, RecordsUnderWriters
<1>3. CASE OtherProducer /\ UNCHANGED <<executorVars, repairVars>>
  <2>1. OthersStep /\ UNCHANGED <<tasks, execTasks, orders>>
    BY <1>3, ProducerIsOther DEF OtherProducer, orderVars
  <2> QED
    BY <1>3, <2>1, RecordsUnderWriters DEF OthersStep
<1>4. ASSUME NEW n \in Nodes, AnyStep(n)
      PROVE  RecordsInv'
  BY <1>4, ExecutorKeepsRecordsInv
<1>5. CASE OutsideStep
  BY <1>5, OutsideKeepsRecordsInv
<1> QED
  BY <1>2, <1>3, <1>4, <1>5 DEF SettlementNext, ExecutorNext, AnyStep, OutsideStep, settlementVars

LEMMA RecordsInvariant == SettlementSpec => []RecordsInv
<1>1. SettlementInit => RecordsInv
  BY ExecutionInvInit DEF SettlementInit, ExecutionInit, ExecutionInv
<1>2. SettlementInv /\ RecordsInv /\ [SettlementNext]_settlementVars => RecordsInv'
  BY RecordsInvStep
<1> QED
  BY <1>1, <1>2, SettlementInvariant, PTL DEF SettlementSpec

(* Executors and repair worker keep their types side by side: cursors stay *)
(* within their streams and every entry names exchanges and tasks.         *)
THEOREM SettlementTypes == SettlementSpec => []SettlementTypeOK
<1>1. SettlementInv => SettlementTypeOK
  BY DEF SettlementInv, CoreInv, ExecutionTypeOK, SettlementTypeOK
<1> QED
  BY <1>1, SettlementInvariant, PTL

(* The worker moves its cursor past a repair only when the table has an    *)
(* outcome of the task, also for an entry whose executor died before it    *)
(* recorded its own.                                                       *)
THEOREM RepairOutcomesBeforeAcks == SettlementSpec => []RepairOutcomeBeforeAck
<1>1. SettlementInv => RepairOutcomeBeforeAck
  BY DEF SettlementInv
<1> QED
  BY <1>1, SettlementInvariant, PTL

(* As long as no write has failed, the repair orders of a task are at most *)
(* one per entry and per life of the worker.                               *)
THEOREM RepairsAreCounted == SettlementSpec => []RepairAttemptsCounted
<1>1. SettlementInv /\ AttemptsInv => RepairAttemptsCounted
  <2> SUFFICES ASSUME SettlementInv, AttemptsInv, ~rspoilt,
                      NEW t \in TaskIds, NEW e \in Exchanges, NEW side \in Sides
               PROVE  repairs[<<t, e, side>>] <= Cardinality(RepairEntriesOf(t)) * (1 + rfail)
    BY DEF RepairAttemptsCounted, RepairAttemptsBounded
  <2> DEFINE E == Cardinality(RepairEntriesOf(t))
             B == Cardinality(Behind(t))
             C == Current(t)
             p == repairs[<<t, e, side>>]
  <2>1. E \in Nat /\ B \in Nat /\ C \in {0, 1} /\ rfail \in Nat /\ B + C <= E
    BY AttemptsWithin
  <2>2. p <= E * rfail + B + C
    BY DEF AttemptsInv, Attempts
  <2>3. p \in Nat
    BY DEF SettlementInv, CoreInv, ExecutionTypeOK, BusTypeOK
  <2>4. E * (rfail + 1) = E * rfail + E /\ E * rfail \in Nat
    BY <2>1, OneMoreTime
  <2>5. 1 + rfail = rfail + 1
    BY <2>1
  <2> HIDE DEF E, B, C, p
  <2>6. p <= E * (rfail + 1)
    BY <2>1, <2>2, <2>3, <2>4
  <2> QED
    BY <2>5, <2>6 DEF E, p
<1> QED
  BY <1>1, SettlementInvariant, PTL

-----------------------------------------------------------------------------
(* What the legs and the entries of a task say of its orders, as long as   *)
(* nothing failed.  A task is worked on from the choice of its legs on.    *)
Worked(t) ==
    \E n \in Nodes : \/ \E i \in 1..xlast[n] : execTasks[n][i].task = t
                     \/ HasLegs(n) /\ Entry(n).task = t

UnworkedIsClean == \A t \in TaskIds : ~Worked(t) => NoOrderFor(t) /\ AskedFor(t) = {}

(* A leg is where the opportunity put it, with one order once it is filled. *)
SideExchange(e, side) == IF side = "buy" THEN e.buy_exchange ELSE e.sell_exchange
SentLegs(n) ==
    /\ xpc[n] \in {"open", "submit", "plan"} =>
          Entry(n).buy_exchange # Entry(n).sell_exchange
    /\ xpc[n] \in {"submit", "plan"} =>
          /\ AskedFor(Entry(n).task) = {}
          /\ \A side \in Sides : Leg(n, side).exchange = SideExchange(Entry(n), side)
          /\ \A e \in Exchanges, side \in Sides :
                orders[<<Entry(n).task, e, side>>] =
                    IF e = SideExchange(Entry(n), side) /\ Leg(n, side).state = "filled"
                    THEN 1 ELSE 0
    /\ xpc[n] = "plan" => FailedSides(n) # {}
LegsAsSent == \A n \in Nodes : SentLegs(n)

(* An entry names the legs that have no order, and every task has one.     *)
Missing(r, side) ==
    \E k \in DOMAIN r.target_exchanges : r.target_exchanges[k] = SideExchange(r, side)
NamesItsLegs(r) ==
    /\ r.buy_exchange # r.sell_exchange
    /\ r.target_exchanges \in {<<r.buy_exchange>>, <<r.sell_exchange>>,
                               <<r.buy_exchange, r.sell_exchange>>}
    /\ \A e \in Exchanges, side \in Sides :
          orders[<<r.task, e, side>>] =
              IF e = SideExchange(r, side) /\ ~Missing(r, side) THEN 1 ELSE 0
EntriesNameLegs ==
    \A i \in DOMAIN repairTasks : Supported(repairTasks[i]) =>
        /\ NamesItsLegs(repairTasks[i])
        /\ \A j \in AskedFor(repairTasks[i].task) : j = i

(* The worker places one order for an entry, and says so.                  *)
RepairKey(r) == <<r.task, r.target_exchanges[1],
                  IF r.target_exchanges[1] = r.buy_exchange THEN "buy" ELSE "sell">>
Tried(i) == i <= rlast \/ (i = rlast + 1 /\ rpc \in {"close", "record", "report"})
RepairsAsEntries ==
    \A k \in TaskIds \X Exchanges \X Sides : repairs[k] # 0 =>
        /\ repairs[k] = 1
        /\ \E i \in DOMAIN repairTasks : /\ Supported(repairTasks[i]) /\ Tried(i)
                                        /\ k = RepairKey(repairTasks[i])
ResultsAreReal ==
    /\ rpc \in {"close", "record"} /\ rresult = "REPAIRED" => repairs[RepairKey(REntry)] = 1
    /\ \A t \in DOMAIN tasks : tasks[t].repair_reason = "repair_succeeded" =>
          \E i \in AskedFor(t) : repairs[RepairKey(repairTasks[i])] = 1

HedgeInv ==
    NoFailure =>
        /\ rsession
        /\ UnworkedIsClean /\ LegsAsSent
        /\ EntriesNameLegs
        /\ RepairsAsEntries /\ ResultsAreReal

(* What the hedge takes: legs that stay, exchanges that answer, and repair *)
(* orders that are counted at all.                                         *)
HedgeBounds ==
    /\ LegMoves \subseteq {<<FALSE, FALSE>>}
    /\ LegOutcomes \subseteq {"accepted", "rejected"}
    /\ MaxRepairOrders >= 1

-----------------------------------------------------------------------------
(* Whoever is not the worker leaves what it knows of its orders alone.     *)
LEMMA OthersKeepRepairs ==
    ASSUME SettlementInv, OthersStep, UNCHANGED repairs, RepairsAsEntries, ResultsAreReal,
           \A t \in DOMAIN tasks' : tasks'[t].repair_reason = "repair_succeeded" =>
                t \in DOMAIN tasks /\ tasks[t].repair_reason = "repair_succeeded"
    PROVE  RepairsAsEntries' /\ ResultsAreReal'
<1>1. /\ UNCHANGED <<rpc, rlast, rresult>>
      /\ \A i \in DOMAIN repairTasks : i \in DOMAIN repairTasks' /\ repairTasks'[i] = repairTasks[i]
  BY DEF OthersStep, repairVars, RepairsGrow
<1>2. RepairsAsEntries'
  <2> SUFFICES ASSUME NEW k \in TaskIds \X Exchanges \X Sides, repairs[k] # 0
               PROVE  /\ repairs[k] = 1
                      /\ \E i \in DOMAIN repairTasks' :
                            /\ Supported(repairTasks'[i]) /\ Tried(i)'
                            /\ k = RepairKey(repairTasks'[i])
    BY DEF RepairsAsEntries, Supported, RepairKey
  <2>1. PICK i \in DOMAIN repairTasks :
            Supported(repairTasks[i]) /\ Tried(i) /\ k = RepairKey(repairTasks[i])
    BY DEF RepairsAsEntries
  <2>2. Tried(i)'
    BY <1>1, <2>1 DEF Tried
  <2> QED
    BY <1>1, <2>1, <2>2 DEF RepairsAsEntries
<1>3. rpc \in {"close", "record"} => REntry' = REntry
  BY <1>1, REntryFacts DEF RepairBusy, REntry
<1>4. ASSUME NEW t \in DOMAIN tasks', tasks'[t].repair_reason = "repair_succeeded"
      PROVE  \E i \in DOMAIN repairTasks' :
                /\ Supported(repairTasks'[i]) /\ repairTasks'[i].task = t
                /\ repairs[RepairKey(repairTasks'[i])] = 1
  <2>1. PICK i \in AskedFor(t) : repairs[RepairKey(repairTasks[i])] = 1
    BY <1>4 DEF ResultsAreReal
  <2> QED
    BY <1>1, <2>1 DEF AskedFor
<1>5. ResultsAreReal'
  BY <1>1, <1>3, <1>4 DEF ResultsAreReal, AskedFor, Supported, RepairKey
<1> QED
  BY <1>2, <1>5

(* New entries are about others, or not for the worker.                    *)
LEMMA SupportedStay ==
    ASSUME RepairsGrow, NEW t,
           \A i \in DOMAIN repairTasks' \ DOMAIN repairTasks :
                Supported(repairTasks'[i]) => repairTasks'[i].task # t
    PROVE  {i \in DOMAIN repairTasks' : Supported(repairTasks'[i]) /\ repairTasks'[i].task = t}
               = AskedFor(t)
BY DEF RepairsGrow, AskedFor

(* The worker does not touch what the executors did and published.         *)
LEMMA WorkerKeepsLegsSent ==
    ASSUME RepairNext, UNCHANGED executorVars, UnworkedIsClean, LegsAsSent, EntriesNameLegs
    PROVE  UnworkedIsClean' /\ LegsAsSent' /\ EntriesNameLegs'
<1>1. UNCHANGED <<execTasks, repairTasks, orders, xpc, xlast, xlegs>>
  BY WorkerFrame DEF executorVars
<1>2. UnworkedIsClean'
  BY <1>1 DEF UnworkedIsClean, Worked, HasLegs, Entry, NoOrderFor, AskedFor, Supported
<1>3. LegsAsSent'
  <2>1. /\ \A n \in Nodes : Entry(n)' = Entry(n) /\ FailedSides(n)' = FailedSides(n)
        /\ \A n \in Nodes, side \in Sides : Leg(n, side)' = Leg(n, side)
    BY <1>1 DEF Entry, Leg, FailedSides
  <2>2. \A t : AskedFor(t)' = AskedFor(t)
    BY <1>1 DEF AskedFor
  <2> QED
    BY <1>1, <2>1, <2>2 DEF LegsAsSent, SentLegs
<1>4. EntriesNameLegs'
  BY <1>1 DEF EntriesNameLegs, NamesItsLegs, Missing, SideExchange, AskedFor, Supported
<1> QED
  BY <1>2, <1>3, <1>4

(* What the worker itself knows of its orders, as long as nothing fails:   *)
(* one order per entry, and the only one of the task.                      *)
LEMMA OrderIsFirst ==
    ASSUME SettlementInv, HedgeBounds, EntriesNameLegs, RepairsAsEntries,
           NEW outcome \in RepairOutcomes, PlaceRepairOrder(outcome)
    PROVE  LET K == RepairKey(REntry)
               S == TaskIds \X Exchanges \X Sides
           IN  /\ K \in S
               /\ outcome = "accepted" => repairs'[K] = 1
               /\ \A k \in S : repairs'[k] # repairs[k] => k = K /\ repairs'[k] = 1
<1> DEFINE K == RepairKey(REntry)
           S == TaskIds \X Exchanges \X Sides
<1>1. /\ repairs \in [S -> Nat] /\ rpc = "order"
      /\ MaxRepairOrders \in Nat /\ MaxRepairOrders >= 1
  BY RepairAssumption DEF SettlementInv, CoreInv, ExecutionTypeOK, BusTypeOK, HedgeBounds,
     PlaceRepairOrder, RepairAssumption
<1>2. /\ rlast \in Nat /\ rlast + 1 \in DOMAIN repairTasks /\ REntry = repairTasks[rlast + 1]
      /\ Supported(REntry) /\ REntry.task \in TaskIds
      /\ target_exchange \in Exchanges /\ repair_side \in Sides
  BY <1>1, REntryFacts DEF RepairBusy
<1>3. K = <<REntry.task, target_exchange, repair_side>> /\ K \in S
  BY <1>2 DEF RepairKey, target_exchange, repair_side
<1>4. repairs[K] = 0
  <2> SUFFICES ASSUME repairs[K] # 0
               PROVE  FALSE
    OBVIOUS
  <2>1. PICK i \in DOMAIN repairTasks :
            Supported(repairTasks[i]) /\ Tried(i) /\ K = RepairKey(repairTasks[i])
    BY <1>3 DEF RepairsAsEntries
  <2>2. repairTasks[i].task = REntry.task
    BY <2>1 DEF RepairKey
  <2>3. i = rlast + 1
    BY <1>2, <2>1, <2>2 DEF EntriesNameLegs, AskedFor
  <2> QED
    BY <1>1, <1>2, <2>1, <2>3 DEF Tried
<1>5. repairs' = IF outcome = "rejected" THEN repairs ELSE [repairs EXCEPT ![K] = 1]
  <2>1. 0 < MaxRepairOrders
    BY <1>1
  <2>2. repairs' = IF outcome = "rejected" THEN repairs
                   ELSE [repairs EXCEPT ![K] = IF @ < MaxRepairOrders THEN @ + 1 ELSE @]
    BY <1>3 DEF PlaceRepairOrder
  <2> HIDE DEF K
  <2> QED
    BY <1>4, <2>1, <2>2
<1> HIDE DEF K, S
<1>6. /\ outcome = "accepted" => repairs'[K] = 1
      /\ \A k \in S : repairs'[k] # repairs[k] => k = K /\ repairs'[k] = 1
  BY <1>1, <1>3, <1>5
<1> QED
  BY <1>3, <1>6 DEF K, S

LEMMA WorkerKeepsRepairs ==
    ASSUME SettlementInv, HedgeBounds, RepairNext, rfail' = rfail, rsession,
           EntriesNameLegs, RepairsAsEntries, ResultsAreReal
    PROVE  rsession' /\ RepairsAsEntries' /\ ResultsAreReal'
<1> DEFINE S == TaskIds \X Exchanges \X Sides
<1>1. /\ rfail \in Nat /\ rlast \in Nat /\ repairTasks \in Seq(RepairEntry)
      /\ DOMAIN repairTasks \subseteq Nat
  BY DEF SettlementInv, RepairTypeOK, CoreInv, ExecutionTypeOK, BusTypeOK
<1>2. UNCHANGED repairTasks
  BY WorkerFrame
<1>3. ~RepairRaise /\ ~RepairCrash /\ ~DatabaseError /\ ~RecordFails
  <2>1. rfail' # rfail + 1
    BY <1>1
  <2> QED
    BY <2>1 DEF RepairRaise, RepairCrash, DatabaseError, RecordFails
<1>4. rsession' /\ \A i \in DOMAIN repairTasks : Tried(i) => Tried(i)'
  <2>1. CASE StartRepair \/ RepairRestart \/ CloseRepairSession \/ RecordRepair
    BY <2>1 DEF StartRepair, RepairRestart, CloseRepairSession, RecordRepair, Tried
  <2>2. CASE IgnoreRepair \/ FinishRepair
    <3>1. rlast' = rlast + 1 /\ rsession' = rsession
      BY <2>2 DEF IgnoreRepair, FinishRepair
    <3>2. \A i \in Nat : i <= rlast \/ i = rlast + 1 => i <= rlast'
      BY <1>1, <3>1
    <3> QED
      BY <1>1, <3>1, <3>2 DEF Tried
  <2>3. CASE \E outcome \in RepairOutcomes : PlaceRepairOrder(outcome)
    BY <2>3 DEF PlaceRepairOrder, Tried
  <2> QED
    BY <1>3, <2>1, <2>2, <2>3 DEF RepairNext, RepairStep
(* Every order is one, for an entry that was tried.                        *)
<1>5. ASSUME NEW k \in S, repairs'[k] # 0
      PROVE  /\ repairs'[k] = 1
             /\ \E i \in DOMAIN repairTasks : /\ Supported(repairTasks[i]) /\ Tried(i)'
                                              /\ k = RepairKey(repairTasks[i])
  <2>1. CASE repairs'[k] = repairs[k]
    <3>1. PICK i \in DOMAIN repairTasks :
              Supported(repairTasks[i]) /\ Tried(i) /\ k = RepairKey(repairTasks[i])
      BY <1>5, <2>1 DEF RepairsAsEntries
    <3> QED
      BY <1>4, <1>5, <2>1, <3>1 DEF RepairsAsEntries
  <2>2. CASE repairs'[k] # repairs[k]
    <3>1. PICK outcome \in RepairOutcomes : PlaceRepairOrder(outcome)
      BY <2>2 DEF RepairNext, RepairStep, StartRepair, IgnoreRepair, RecordRepair,
         CloseRepairSession, RecordFails, FinishRepair, RepairRestart, RepairRaise,
         DatabaseError, RepairCrash, busVars, orderVars
    <3>2. k = RepairKey(REntry) /\ repairs'[k] = 1
      BY <2>2, <3>1, OrderIsFirst
    <3>3. RepairBusy /\ rpc' = "close" /\ rlast' = rlast
      BY <3>1 DEF PlaceRepairOrder, RepairBusy
    <3>4. PICK i \in DOMAIN repairTasks :
              i = rlast + 1 /\ Supported(repairTasks[i]) /\ REntry = repairTasks[i]
      BY <3>3, REntryFacts
    <3>5. Tried(i)'
      BY <3>3, <3>4 DEF Tried
    <3> QED
      BY <3>2, <3>4, <3>5
  <2> QED
    BY <2>1, <2>2
<1>6. RepairsAsEntries'
  BY <1>2, <1>5 DEF RepairsAsEntries, Supported, RepairKey
(* A result that says so has its order, and so has the row.                *)
<1>7. \A k \in S : repairs[k] = 1 => repairs'[k] = 1
  BY OrderIsFirst DEF RepairNext, RepairStep, StartRepair, IgnoreRepair, RecordRepair,
     CloseRepairSession, RecordFails, FinishRepair, RepairRestart, RepairRaise,
     DatabaseError, RepairCrash, busVars, orderVars
<1>8. ASSUME rpc' \in {"close", "record"}, rresult' = "REPAIRED"
      PROVE  repairs'[RepairKey(REntry)] = 1 /\ rlast' = rlast
  <2>1. CASE \E outcome \in RepairOutcomes : PlaceRepairOrder(outcome)
    <3>1. PICK outcome \in RepairOutcomes : PlaceRepairOrder(outcome)
      BY <2>1
    <3>2. outcome = "accepted" /\ rlast' = rlast
      BY <1>8, <3>1 DEF PlaceRepairOrder
    <3> QED
      BY <3>1, <3>2, OrderIsFirst
  <2>2. CASE ~ \E outcome \in RepairOutcomes : PlaceRepairOrder(outcome)
    <3>1. CloseRepairSession
      BY <1>3, <1>8, <2>2 DEF RepairNext, RepairStep, StartRepair, IgnoreRepair, RecordRepair,
         FinishRepair, RepairRestart
    <3>2. rpc = "close" /\ rresult = "REPAIRED" /\ rlast' = rlast /\ UNCHANGED repairs
      BY <1>8, <3>1 DEF CloseRepairSession, busVars
    <3> QED
      BY <3>2 DEF ResultsAreReal
  <2> QED
    BY <2>1, <2>2
<1>9. ASSUME NEW t \in DOMAIN tasks', tasks'[t].repair_reason = "repair_succeeded"
      PROVE  \E i \in AskedFor(t) : repairs'[RepairKey(repairTasks[i])] = 1
  <2>1. DOMAIN tasks' = DOMAIN tasks
    BY WorkerRow
  <2>2. PICK i \in AskedFor(t) : repairs[RepairKey(repairTasks[i])] = 1
    <3>1. CASE tasks[t].repair_reason = "repair_succeeded"
      BY <2>1, <3>1 DEF ResultsAreReal
    <3>2. CASE RecordRepair /\ rresult = "REPAIRED" /\ t = REntry.task
      <4>1. RepairBusy /\ repairs[RepairKey(REntry)] = 1
        BY <3>2 DEF RecordRepair, RepairBusy, ResultsAreReal
      <4> QED
        BY <3>2, <4>1, REntryFacts DEF AskedFor
    <3> QED
      BY <1>9, <2>1, <3>1, <3>2, WorkerRow
  <2>3. RepairKey(repairTasks[i]) \in S
    <3>1. repairTasks[i] \in RepairEntry /\ Supported(repairTasks[i])
      BY <1>1, <2>2 DEF AskedFor
    <3>2. /\ repairTasks[i].target_exchanges \in Seq(Exchanges)
          /\ repairTasks[i].target_exchanges # <<>>
          /\ repairTasks[i].task \in TaskIds
      BY <3>1 DEF RepairEntry, Supported
    <3>3. repairTasks[i].target_exchanges[1] \in Exchanges
      BY <3>2
    <3> QED
      BY <3>2, <3>3 DEF RepairKey, Sides
  <2> QED
    BY <1>7, <2>2, <2>3
<1>10. ResultsAreReal'
  <2>1. rlast' = rlast => REntry' = REntry
    BY <1>2 DEF REntry
  <2> QED
    BY <1>2, <1>8, <1>9, <2>1 DEF ResultsAreReal, AskedFor, Supported, RepairKey
<1> QED
  BY <1>4, <1>6, <1>10

-----------------------------------------------------------------------------
(* The orders an executor places are of the task it submits, which is at   *)
(* no other executor; and once a task is worked on, it stays so.           *)
LEMMA OrdersOfEntry ==
    ASSUME CoreInv, NEW n \in Nodes, AnyStep(n),
           NEW k \in TaskIds \X Exchanges \X Sides, orders'[k] # orders[k]
    PROVE  xpc[n] = "submit" /\ k[1] = Entry(n).task
BY ExecutorOrders DEF CoreInv, OrderOf

LEMMA OneExecutorEach ==
    ASSUME CoreInv, NEW m \in Nodes, NEW n \in Nodes, m # n, Busy(m), Busy(n)
    PROVE  Entry(m).task # Entry(n).task
<1>1. xlast[m] < Len(execTasks[m]) /\ xlast[n] < Len(execTasks[n]) /\ ExecutionTypeOK /\ SentOnce
  BY DEF CoreInv, CursorInv
<1> QED
  BY <1>1, EntryFacts, SameEntry DEF Entry

LEMMA NotYetWorked ==
    ASSUME CoreInv, NEW n \in Nodes, Busy(n), ~HasLegs(n)
    PROVE  ~Worked(Entry(n).task)
<1>1. ExecutionTypeOK /\ SentOnce /\ CursorInv /\ xlast[n] < Len(execTasks[n]) /\ xlast[n] \in Nat
  BY DEF CoreInv, CursorInv, ExecutionTypeOK, ExecutorTypeOK
<1>2. ASSUME NEW m \in Nodes, NEW i \in 1..xlast[m], execTasks[m][i].task = Entry(n).task
      PROVE  FALSE
  <2>1. xlast[m] \in Nat /\ xlast[m] <= Len(execTasks[m]) /\ execTasks[m] \in Seq(ExecEntry)
    BY <1>1 DEF ExecutionTypeOK, ExecutorTypeOK, BusTypeOK
  <2>2. i \in DOMAIN execTasks[m] /\ i <= xlast[m] /\ i \in Nat
    BY <2>1
  <2>3. m = n /\ i = xlast[n] + 1
    BY <1>1, <1>2, <2>2, SameEntry
  <2> QED
    BY <1>1, <2>2, <2>3
<1>3. ASSUME NEW m \in Nodes, HasLegs(m), Entry(m).task = Entry(n).task
      PROVE  FALSE
  <2>1. Busy(m) /\ m # n
    BY <1>3 DEF HasLegs, Busy
  <2> QED
    BY <1>3, <2>1, OneExecutorEach
<1> QED
  BY <1>2, <1>3 DEF Worked

LEMMA ExecutorWorks ==
    ASSUME CoreInv, NEW n \in Nodes, AnyStep(n), xfail'[n] = xfail[n], NEW t, Worked(t)
    PROVE  Worked(t)'
<1>1. /\ ExecutionTypeOK /\ UNCHANGED execTasks /\ xlast[n] \in Nat /\ xfail[n] \in Nat
      /\ \A m \in Nodes : m # n => xpc'[m] = xpc[m] /\ xlast'[m] = xlast[m]
  BY ExecutorFrame, ExecutorAssumption
     DEF CoreInv, ExecutionTypeOK, ExecutorTypeOK, ExecutorAssumption
<1>2. PICK m \in Nodes : \/ \E i \in 1..xlast[m] : execTasks[m][i].task = t
                         \/ HasLegs(m) /\ Entry(m).task = t
  BY DEF Worked
<1>3. CASE m # n
  BY <1>1, <1>2, <1>3 DEF Worked, HasLegs, Entry
<1>4. CASE m = n
  <2>1. xfail'[n] # xfail[n] + 1
    BY <1>1
  <2>2. \/ Stays(n) /\ (HasLegs(n) => HasLegs(n)')
        \/ xlast'[n] = xlast[n] + 1
    BY <1>1, <2>1, ExecutorLocals DEF Busy, HasLegs
  <2>3. \A i \in 1..xlast[n] : i \in 1..xlast'[n]
    BY <1>1, <2>2 DEF Stays
  <2>4. CASE \E i \in 1..xlast[n] : execTasks[n][i].task = t
    BY <1>1, <2>3, <2>4 DEF Worked
  <2>5. CASE HasLegs(n) /\ Entry(n).task = t
    <3>1. CASE Stays(n) /\ HasLegs(n)'
      <4>1. Entry(n)' = Entry(n)
        BY <1>1, <3>1 DEF Entry, Stays
      <4> QED
        BY <2>5, <3>1, <4>1 DEF Worked
    <3>2. CASE xlast'[n] = xlast[n] + 1
      <4>1. xlast[n] + 1 \in 1..xlast'[n] /\ execTasks'[n][xlast[n] + 1].task = t
        BY <1>1, <2>5, <3>2 DEF Entry
      <4> QED
        BY <4>1 DEF Worked
    <3> QED
      BY <2>2, <2>5, <3>1, <3>2
  <2> QED
    BY <1>2, <1>4, <2>4, <2>5
<1> QED
  BY <1>3, <1>4

(* Its entry is the only one of the task it is at.                         *)
LEMMA AskedForOthers ==
    ASSUME CoreInv, NEW n \in Nodes, AnyStep(n), NEW t, xpc[n] = "plan" => t # Entry(n).task
    PROVE  AskedFor(t)' = AskedFor(t)
<1>1. CASE UNCHANGED repairTasks
  BY <1>1 DEF AskedFor, Supported
<1>2. CASE repairTasks' # repairTasks
  <2>1. PlannedRepair(n).task = Entry(n).task
    BY DEF PlannedRepair
  <2>2. RepairsGrow /\ \A i \in DOMAIN repairTasks' \ DOMAIN repairTasks : repairTasks'[i].task # t
    BY <1>2, <2>1, ExecutorAppends
  <2> QED
    BY <2>2, SupportedStay DEF AskedFor, Supported
<1> QED
  BY <1>1, <1>2

LEMMA ExecutorKeepsClean ==
    ASSUME CoreInv, NEW n \in Nodes, AnyStep(n), xfail'[n] = xfail[n], UnworkedIsClean
    PROVE  UnworkedIsClean'
<1> SUFFICES ASSUME NEW t \in TaskIds, ~Worked(t)'
             PROVE  /\ \A e \in Exchanges, side \in Sides : orders'[<<t, e, side>>] = 0
                    /\ AskedFor(t)' = {}
  BY DEF UnworkedIsClean, NoOrderFor
<1>1. NoOrderFor(t) /\ AskedFor(t) = {} /\ ~Worked(t)
  BY ExecutorWorks DEF UnworkedIsClean
<1>2. HasLegs(n) => t # Entry(n).task
  BY <1>1 DEF Worked
<1>3. \A e \in Exchanges, side \in Sides : orders'[<<t, e, side>>] = orders[<<t, e, side>>]
  BY <1>2, OrdersOfEntry DEF HasLegs
<1> QED
  BY <1>1, <1>2, <1>3, AskedForOthers DEF HasLegs, NoOrderFor

LEMMA OneAndOne ==
    ASSUME NEW b \in Exchanges, NEW s \in Exchanges
    PROVE  <<b>> \o <<>> = <<b>> /\ <<>> \o <<s>> = <<s>> /\ <<b>> \o <<s>> = <<b, s>>
<1>1. <<b>> \o <<>> = <<b>>
  BY <<b>> \in Seq(Exchanges), ConcatEmptySeq
<1>2. <<>> \o <<s>> = <<s>>
  BY <<s>> \in Seq(Exchanges), ConcatEmptySeq
<1>3. <<b>> \o <<s>> = <<b, s>>
  <2>1. <<b>> \o <<s>> = Append(<<b>>, s)
    BY <<b>> \in Seq(Exchanges), AppendIsConcat
  <2> DEFINE one == Append(<<b>>, s)
             two == <<b, s>>
  <2>2. one \in Seq(Exchanges) /\ Len(one) = 2 /\ one[1] = b /\ one[2] = s
    BY <<b>> \in Seq(Exchanges), <<b>>[1] = b, AppendProperties
  <2>3. two \in Seq(Exchanges) /\ Len(two) = 2 /\ two[1] = b /\ two[2] = s
    OBVIOUS
  <2> HIDE DEF one, two
  <2>4. one = two
    BY <2>2, <2>3
  <2> QED
    BY <2>1, <2>4 DEF one, two
<1> QED
  BY <1>1, <1>2, <1>3

(* The entry of a partial open names exactly the legs without an order.    *)
LEMMA PlanNamesLegs ==
    ASSUME CoreInv, NEW n \in Nodes, xpc[n] = "plan", SentLegs(n)
    PROVE  NamesItsLegs(PlannedRepair(n))
<1> DEFINE r == PlannedRepair(n)
           b == Entry(n).buy_exchange
           s == Entry(n).sell_exchange
<1>1. /\ b # s /\ Leg(n, "buy").exchange = b /\ Leg(n, "sell").exchange = s
      /\ FailedSides(n) # {}
  BY DEF SentLegs, SideExchange, Sides
<1>2. /\ r.task = Entry(n).task /\ r.buy_exchange = b /\ r.sell_exchange = s
      /\ r.target_exchanges = TargetExchanges(n)
  BY DEF PlannedRepair
<1>3. \A side \in Sides : Leg(n, side).state = "filled" <=> side \notin FailedSides(n)
  BY DEF CoreInv, LegsInv, HasLegs, LegsFinished, FailedSides
<1>4. \/ FailedSides(n) = {"buy"} /\ TargetExchanges(n) = <<b>>
      \/ FailedSides(n) = {"sell"} /\ TargetExchanges(n) = <<s>>
      \/ FailedSides(n) = {"buy", "sell"} /\ TargetExchanges(n) = <<b, s>>
  <2>1. FailedSides(n) \in {{"buy"}, {"sell"}, {"buy", "sell"}}
    BY <1>1 DEF FailedSides, Sides
  <2>2. <<b>> \o <<>> = <<b>> /\ <<>> \o <<s>> = <<s>> /\ <<b>> \o <<s>> = <<b, s>>
    <3>1. b \in Exchanges /\ s \in Exchanges
      BY <1>1 DEF CoreInv, LegsInv, HasLegs, Sides
    <3> HIDE DEF b, s
    <3> QED
      BY <3>1, OneAndOne
  <2>3. TargetExchanges(n) = (IF "buy" \in FailedSides(n) THEN <<b>> ELSE <<>>)
                                 \o (IF "sell" \in FailedSides(n) THEN <<s>> ELSE <<>>)
    BY <1>1 DEF TargetExchanges
  <2> HIDE DEF b, s
  <2> QED
    BY <2>1, <2>2, <2>3
<1>5. /\ SideExchange(r, "buy") = b /\ SideExchange(r, "sell") = s
      /\ SideExchange(Entry(n), "buy") = b /\ SideExchange(Entry(n), "sell") = s
  BY <1>2 DEF SideExchange
<1>6. \A side \in Sides : Missing(r, side) <=> side \in FailedSides(n)
  <2> HIDE DEF r, b, s
  <2>1. CASE FailedSides(n) = {"buy"} /\ TargetExchanges(n) = <<b>>
    BY <1>1, <1>2, <1>5, <2>1 DEF Missing, Sides
  <2>2. CASE FailedSides(n) = {"sell"} /\ TargetExchanges(n) = <<s>>
    BY <1>1, <1>2, <1>5, <2>2 DEF Missing, Sides
  <2>3. CASE FailedSides(n) = {"buy", "sell"} /\ TargetExchanges(n) = <<b, s>>
    <3>1. 1 \in DOMAIN <<b, s>> /\ 2 \in DOMAIN <<b, s>> /\ <<b, s>>[1] = b /\ <<b, s>>[2] = s
      OBVIOUS
    <3> QED
      BY <1>2, <1>5, <2>3, <3>1 DEF Missing, Sides
  <2> QED
    BY <1>4, <2>1, <2>2, <2>3
<1>7. ASSUME NEW e \in Exchanges, NEW side \in Sides
      PROVE  orders[<<r.task, e, side>>] =
                 IF e = SideExchange(r, side) /\ ~Missing(r, side) THEN 1 ELSE 0
  <2>1. SideExchange(r, side) = SideExchange(Entry(n), side)
    BY <1>5 DEF Sides
  <2>2. Leg(n, side).state = "filled" <=> ~Missing(r, side)
    BY <1>3, <1>6
  <2>3. orders[<<Entry(n).task, e, side>>] =
            IF e = SideExchange(Entry(n), side) /\ Leg(n, side).state = "filled" THEN 1 ELSE 0
    BY DEF SentLegs
  <2> QED
    BY <1>2, <2>1, <2>2, <2>3
<1> QED
  BY <1>1, <1>2, <1>4, <1>7 DEF NamesItsLegs

LEMMA ExecutorKeepsEntries ==
    ASSUME CoreInv, NEW n \in Nodes, AnyStep(n), LegsAsSent, EntriesNameLegs
    PROVE  EntriesNameLegs'
<1>1. /\ repairTasks \in Seq(RepairEntry)
      /\ xpc[n] \in {"submit", "plan"} => AskedFor(Entry(n).task) = {}
  BY DEF CoreInv, ExecutionTypeOK, BusTypeOK, LegsAsSent, SentLegs
<1>2. RepairsGrow
  BY ExecutorAppends
(* An entry that was there keeps its orders, and stays alone.              *)
<1>3. ASSUME NEW i \in DOMAIN repairTasks, NEW r, r = repairTasks[i], Supported(r)
      PROVE  /\ NamesItsLegs(r)'
             /\ \A j \in AskedFor(r.task)' : j = i
  <2>1. NamesItsLegs(r) /\ (\A j \in AskedFor(r.task) : j = i) /\ i \in AskedFor(r.task)
    BY <1>3 DEF EntriesNameLegs, AskedFor
  <2>2. r.task \in TaskIds
    <3>1. repairTasks[i] \in RepairEntry
      BY <1>1, <1>3
    <3> QED
      BY <1>3, <3>1 DEF RepairEntry
  <2>3. \A e \in Exchanges, side \in Sides :
            orders'[<<r.task, e, side>>] = orders[<<r.task, e, side>>]
    BY <1>1, <2>1, <2>2, OrdersOfEntry
  <2>4. AskedFor(r.task)' = AskedFor(r.task)
    BY <1>1, <2>1, AskedForOthers
  <2> QED
    BY <2>1, <2>3, <2>4 DEF NamesItsLegs, Missing, SideExchange
(* A new one is that of the plan, and the first of its task.               *)
<1>4. ASSUME NEW i \in DOMAIN repairTasks' \ DOMAIN repairTasks, NEW r, r = repairTasks'[i]
      PROVE  /\ NamesItsLegs(r)'
             /\ \A j \in AskedFor(r.task)' : j = i
  <2>1. /\ PublishRepair(n) /\ xpc[n] = "plan" /\ r = PlannedRepair(n)
        /\ DOMAIN repairTasks' \ DOMAIN repairTasks = {Len(repairTasks) + 1}
    BY <1>4, ExecutorAppends
  <2>2. UNCHANGED orders /\ r.task = Entry(n).task
    BY <2>1 DEF PublishRepair, orderVars, PlannedRepair
  <2>3. NamesItsLegs(r)
    BY <2>1, PlanNamesLegs DEF LegsAsSent
  <2>4. NamesItsLegs(r)'
    BY <2>2, <2>3 DEF NamesItsLegs, Missing, SideExchange
  <2>5. ASSUME NEW j \in AskedFor(r.task)'
        PROVE  j = i
    <3>1. j \in DOMAIN repairTasks' /\ Supported(repairTasks'[j]) /\ repairTasks'[j].task = r.task
      BY <2>5 DEF AskedFor, Supported
    <3>2. j \notin DOMAIN repairTasks
      BY <1>1, <1>2, <2>1, <2>2, <3>1 DEF RepairsGrow, AskedFor
    <3> QED
      BY <2>1, <3>1, <3>2
  <2> QED
    BY <2>4, <2>5
<1>5. ASSUME NEW i \in DOMAIN repairTasks', Supported(repairTasks'[i])
      PROVE  /\ NamesItsLegs(repairTasks[i])'
             /\ (\A j \in AskedFor(repairTasks[i].task) : j = i)'
  <2>1. PICK r : r = repairTasks'[i]
    OBVIOUS
  <2>2. NamesItsLegs(r)' /\ \A j \in AskedFor(r.task)' : j = i
    BY <1>2, <1>3, <1>4, <1>5, <2>1 DEF RepairsGrow
  <2> QED
    BY <2>1, <2>2 DEF NamesItsLegs, Missing, SideExchange, AskedFor, Supported
<1> QED
  BY <1>5 DEF EntriesNameLegs, Supported

(* The legs on their way have the orders their states say.                 *)
LEMMA ExecutorKeepsOthersLegs ==
    ASSUME CoreInv, NEW n \in Nodes, AnyStep(n), NEW m \in Nodes, m # n, SentLegs(m)
    PROVE  SentLegs(m)'
<1>1. UNCHANGED execTasks /\ xpc'[m] = xpc[m] /\ xlast'[m] = xlast[m] /\ xlegs'[m] = xlegs[m]
  BY ExecutorFrame DEF CoreInv
<1>2. Entry(m)' = Entry(m) /\ (\A side \in Sides : Leg(m, side)' = Leg(m, side))
      /\ FailedSides(m)' = FailedSides(m)
  BY <1>1 DEF Entry, Leg, FailedSides
<1>3. ASSUME xpc[m] \in {"submit", "plan"}
      PROVE  /\ AskedFor(Entry(m).task)' = {}
             /\ \A e \in Exchanges, side \in Sides :
                   orders'[<<Entry(m).task, e, side>>] = orders[<<Entry(m).task, e, side>>]
  <2>1. Busy(m) /\ (xpc[n] \in {"submit", "plan"} => Busy(n))
    BY <1>3 DEF Busy
  <2>2. Entry(m).task \in TaskIds /\ (xpc[n] \in {"submit", "plan"} => Entry(m).task # Entry(n).task)
    BY <2>1, EntryFacts, OneExecutorEach DEF CoreInv, CursorInv
  <2>3. PICK T \in TaskIds : T = Entry(m).task
    BY <2>2
  <2>4. AskedFor(T) = {} /\ AskedFor(T)' = AskedFor(T)
    BY <1>3, <2>2, <2>3, AskedForOthers DEF SentLegs
  <2>5. AskedFor(Entry(m).task)' = {}
    BY <1>2, <2>3, <2>4 DEF AskedFor
  <2> QED
    BY <2>2, <2>5, OrdersOfEntry
<1> QED
  BY <1>1, <1>2, <1>3 DEF SentLegs, SideExchange

LEMMA ChoiceIsAsSent ==
    ASSUME CoreInv, HedgeBounds, NEW n \in Nodes, ChooseLegs(n), UnworkedIsClean, SentLegs(n)
    PROVE  SentLegs(n)'
<1>1. /\ ExecutionTypeOK /\ xpc[n] = "open" /\ xpc'[n] = "submit"
      /\ UNCHANGED <<execTasks, repairTasks, orders, xlast>>
  BY GotoDoes DEF CoreInv, ExecutionTypeOK, ChooseLegs, busVars
<1>2. Entry(n)' = Entry(n) /\ Entry(n).buy_exchange # Entry(n).sell_exchange
  BY <1>1 DEF Entry, SentLegs
<1>3. Busy(n) /\ ~HasLegs(n)
  BY <1>1 DEF Busy, HasLegs
<1>4. Entry(n).task \in TaskIds
  BY <1>1, <1>3, EntryFacts DEF CoreInv, CursorInv
<1>5. NoOrderFor(Entry(n).task) /\ AskedFor(Entry(n).task) = {}
  BY <1>3, <1>4, NotYetWorked DEF UnworkedIsClean
<1>6. \A side \in Sides : /\ Leg(n, side)'.exchange = SideExchange(Entry(n), side)
                          /\ Leg(n, side)'.state = "pending"
  <2>1. PICK buy \in {Entry(n).buy_exchange, Entry(n).sell_exchange},
             sell \in {Entry(n).buy_exchange, Entry(n).sell_exchange} :
            /\ <<buy # Entry(n).buy_exchange, sell # Entry(n).sell_exchange>> \in LegMoves
            /\ xlegs' = [xlegs EXCEPT ![n] =
                   [side \in Sides |-> [exchange |-> IF side = "buy" THEN buy ELSE sell,
                                        state |-> "pending"]]]
    BY DEF ChooseLegs
  <2>2. <<buy # Entry(n).buy_exchange, sell # Entry(n).sell_exchange>> = <<FALSE, FALSE>>
    BY <2>1 DEF HedgeBounds
  <2>3. buy = Entry(n).buy_exchange /\ sell = Entry(n).sell_exchange
    BY <2>2
  <2>4. xlegs'[n] = [side \in Sides |-> [exchange |-> IF side = "buy" THEN buy ELSE sell,
                                         state |-> "pending"]]
    BY <1>1, <2>1 DEF ExecutionTypeOK, ExecutorTypeOK
  <2> QED
    BY <2>3, <2>4 DEF Leg, SideExchange
<1>7. AskedFor(Entry(n).task)' = {}
  BY <1>1, <1>2, <1>5 DEF AskedFor
<1> QED
  BY <1>1, <1>2, <1>5, <1>6, <1>7 DEF SentLegs, SideExchange, NoOrderFor

LEMMA OrderIsOfItsLeg ==
    ASSUME CoreInv, HedgeBounds, NEW n \in Nodes, NEW s \in Sides, NEW outcome \in LegOutcomes,
           FinishLeg(n, s, outcome), SentLegs(n)
    PROVE  SentLegs(n)'
<1>1. /\ ExecutionTypeOK /\ xpc[n] = "submit" /\ xpc'[n] = "submit"
      /\ UNCHANGED <<execTasks, repairTasks, xlast>>
      /\ Leg(n, s).state = "pending"
      /\ orders \in [TaskIds \X Exchanges \X Sides -> Nat]
  BY DEF CoreInv, ExecutionTypeOK, BusTypeOK, FinishLeg, streamVars
<1>2. /\ Entry(n)' = Entry(n) /\ Entry(n).buy_exchange # Entry(n).sell_exchange
      /\ AskedFor(Entry(n).task)' = {}
  BY <1>1 DEF Entry, SentLegs, AskedFor
<1>3. Entry(n).task \in TaskIds
  BY <1>1, EntryFacts DEF CoreInv, CursorInv, Busy
<1>4. /\ Leg(n, s)'.exchange = Leg(n, s).exchange
      /\ Leg(n, s)'.state = IF outcome = "accepted" THEN "filled" ELSE "failed"
      /\ \A other \in Sides : other # s => Leg(n, other)' = Leg(n, other)
  BY <1>1, FinishLegDoes
<1>5. outcome \in {"accepted", "rejected"}
  BY DEF HedgeBounds
<1>6. ASSUME NEW e \in Exchanges, NEW side \in Sides
      PROVE  orders'[<<Entry(n).task, e, side>>] =
                 IF e = SideExchange(Entry(n), side) /\ Leg(n, side)'.state = "filled"
                 THEN 1 ELSE 0
  <2> DEFINE k == <<Entry(n).task, e, side>>
             K == <<Entry(n).task, Leg(n, s).exchange, s>>
  <2>1. orders[k] = IF e = SideExchange(Entry(n), side) /\ Leg(n, side).state = "filled"
                    THEN 1 ELSE 0
    BY <1>1 DEF SentLegs
  <2>2. Leg(n, s).exchange = SideExchange(Entry(n), s)
    BY <1>1 DEF SentLegs
  <2>3. /\ outcome = "rejected" => orders' = orders
        /\ outcome = "accepted" => orders' = [orders EXCEPT ![K] = @ + 1]
    BY DEF FinishLeg
  <2>4. k \in TaskIds \X Exchanges \X Sides
    BY <1>3
  <2>5. k = K <=> side = s /\ e = SideExchange(Entry(n), s)
    BY <2>2
  <2> DEFINE S == TaskIds \X Exchanges \X Sides
  <2>6. orders \in [S -> Nat] /\ k \in S
    BY <1>1, <2>4
  <2> HIDE DEF k, K, S
  <2>7. CASE side # s \/ e # SideExchange(Entry(n), s)
    <3>1. orders'[k] = orders[k]
      BY <1>5, <2>3, <2>5, <2>6, <2>7
    <3> QED
      BY <1>4, <2>1, <2>7, <3>1 DEF k
  <2>8. CASE side = s /\ e = SideExchange(Entry(n), s)
    <3>1. orders[k] = 0 /\ k = K
      BY <1>1, <2>1, <2>5, <2>8
    <3>2. orders'[k] = IF outcome = "accepted" THEN 1 ELSE 0
      BY <1>5, <2>3, <2>6, <3>1
    <3> QED
      BY <1>4, <2>8, <3>2 DEF k
  <2> QED
    BY <2>7, <2>8
<1>7. \A side \in Sides : Leg(n, side)'.exchange = SideExchange(Entry(n), side)
  BY <1>1, <1>4 DEF SentLegs
<1> QED
  BY <1>1, <1>2, <1>6, <1>7 DEF SentLegs, SideExchange

LEMMA ExecutorKeepsOwnLegs ==
    ASSUME CoreInv, HedgeBounds, NEW n \in Nodes, AnyStep(n), xfail'[n] = xfail[n],
           UnworkedIsClean, SentLegs(n)
    PROVE  SentLegs(n)'
<1>1. ExecutionTypeOK /\ xfail'[n] # xfail[n] + 1
  BY ExecutorAssumption DEF CoreInv, ExecutionTypeOK, ExecutorTypeOK, ExecutorAssumption
<1>2. CASE Preflight(n)
  <2>1. /\ xpc'[n] \in {"open", "failing"}
        /\ xpc'[n] = "open" => Entry(n).buy_exchange # Entry(n).sell_exchange
        /\ Entry(n)' = Entry(n)
    BY <1>1, <1>2, GotoDoes DEF Preflight, PreflightOK, ExecutionTypeOK, Entry, busVars, streamVars
  <2> QED
    BY <2>1 DEF SentLegs
<1>3. CASE ChooseLegs(n)
  BY <1>3, ChoiceIsAsSent
<1>4. CASE \E side \in Sides, outcome \in LegOutcomes : FinishLeg(n, side, outcome)
  BY <1>4, OrderIsOfItsLeg
<1>5. CASE CloseSessions(n)
  <2>1. /\ xpc[n] = "submit" /\ xpc'[n] \in {"plan", "record"}
        /\ xpc'[n] = "plan" => ExecutionStatus(n) = "OPEN_PARTIAL"
        /\ UNCHANGED <<execTasks, repairTasks, orders, xlast, xlegs>>
    BY <1>1, <1>5, GotoDoes DEF CloseSessions, ExecutionTypeOK, busVars, streamVars, orderVars
  <2>2. /\ Entry(n)' = Entry(n) /\ (\A side \in Sides : Leg(n, side)' = Leg(n, side))
        /\ FailedSides(n)' = FailedSides(n)
        /\ AskedFor(Entry(n).task)' = AskedFor(Entry(n).task)
    BY <2>1 DEF Entry, Leg, FailedSides, AskedFor
  <2>3. xpc'[n] = "plan" => FailedSides(n) # {}
    BY <2>1 DEF ExecutionStatus
  <2> QED
    BY <2>1, <2>2, <2>3 DEF SentLegs, SideExchange
<1>6. CASE xpc'[n] \notin {"open", "submit", "plan"}
  BY <1>6 DEF SentLegs
<1>7. CASE CheckGuard(n)
  <2>1. xpc'[n] \in {"preflight", "blocked"}
    BY <1>1, <1>7, GotoDoes DEF CheckGuard, ExecutionTypeOK
  <2> QED
    BY <1>6, <2>1
<1>8. CASE PublishRepair(n)
  <2>1. xpc'[n] = "record"
    BY <1>1, <1>8, GotoDoes DEF PublishRepair, ExecutionTypeOK
  <2> QED
    BY <1>6, <2>1
<1> QED
  BY <1>1, <1>2, <1>3, <1>4, <1>5, <1>6, <1>7, <1>8, ExecutorLocals

LEMMA ExecutorKeepsHedge ==
    ASSUME SettlementInv, HedgeBounds, NEW n \in Nodes, AnyStep(n), UNCHANGED repairVars, HedgeInv
    PROVE  HedgeInv'
<1> SUFFICES ASSUME NoFailure'
             PROVE  /\ rsession'
                    /\ UnworkedIsClean' /\ LegsAsSent' /\ EntriesNameLegs'
                    /\ RepairsAsEntries' /\ ResultsAreReal'
  BY DEF HedgeInv
<1>1. CoreInv /\ ExecutionTypeOK /\ TasksTypeOK
  BY DEF SettlementInv, CoreInv, ExecutionTypeOK, BusTypeOK
<1>2. NoFailure /\ rsession' = rsession /\ xfail'[n] = xfail[n]
  BY <1>1, FailuresGrow DEF NoFailure, repairVars
<1>3. /\ rsession /\ UnworkedIsClean /\ LegsAsSent /\ EntriesNameLegs
      /\ RepairsAsEntries /\ ResultsAreReal
  BY <1>2 DEF HedgeInv
<1>4. UnworkedIsClean' /\ EntriesNameLegs'
  BY <1>1, <1>2, <1>3, ExecutorKeepsClean, ExecutorKeepsEntries
<1>5. LegsAsSent'
  BY <1>1, <1>2, <1>3, ExecutorKeepsOthersLegs, ExecutorKeepsOwnLegs DEF LegsAsSent
<1>6. ASSUME NEW t \in DOMAIN tasks', tasks'[t].repair_reason = "repair_succeeded"
      PROVE  t \in DOMAIN tasks /\ tasks[t].repair_reason = "repair_succeeded"
  <2>1. CASE UNCHANGED tasks
    BY <1>6, <2>1
  <2>2. CASE /\ OnlyRowChanges(Entry(n).task)
             /\ \/ RecordResult(n) /\ tasks'[Entry(n).task].repair_reason = RepairReason(n)
                \/ tasks'[Entry(n).task].repair_reason = tasks[Entry(n).task].repair_reason
    <3>1. RepairReason(n) # "repair_succeeded"
      BY DEF RepairReason
    <3> QED
      BY <1>6, <2>2, <3>1 DEF OnlyRowChanges
  <2> QED
    <3>1. RecordResult(n) => ~StartTask(n) /\ ~BlockTask(n) /\ ~FailTask(n)
      BY DEF RecordResult, StartTask, BlockTask, FailTask
    <3>2. \/ UNCHANGED tasks
          \/ /\ OnlyRowChanges(Entry(n).task)
             /\ \/ RecordResult(n) /\ tasks'[Entry(n).task].repair_reason = RepairReason(n)
                \/ tasks'[Entry(n).task].repair_reason = tasks[Entry(n).task].repair_reason
      BY <1>1, <3>1, ExecutorRow
    <3> QED
      BY <2>1, <2>2, <3>2
<1>7. RepairsAsEntries' /\ ResultsAreReal'
  <2>1. OthersStep /\ UNCHANGED repairs
    BY <1>1, ExecutorIsOther, ExecutorFrame
  <2> QED
    BY <1>3, <1>6, <2>1, OthersKeepRepairs
<1> QED
  BY <1>2, <1>3, <1>4, <1>5, <1>7

-----------------------------------------------------------------------------
(* Feed, operators and other producers place no order and add no entry for *)
(* the worker.                                                             *)
LEMMA OutsideKeepsHedge ==
    ASSUME SettlementInv, HedgeBounds, OthersStep, UNCHANGED <<executorVars, orders, repairs>>,
           \A m \in Nodes : \A i \in DOMAIN execTasks[m] : execTasks'[m][i] = execTasks[m][i],
           \A i \in DOMAIN repairTasks' \ DOMAIN repairTasks : ~Supported(repairTasks'[i]),
           \A t \in DOMAIN tasks' : tasks'[t].repair_reason = "repair_succeeded" =>
                t \in DOMAIN tasks /\ tasks[t].repair_reason = "repair_succeeded",
           HedgeInv
    PROVE  HedgeInv'
<1> SUFFICES ASSUME NoFailure'
             PROVE  /\ rsession'
                    /\ UnworkedIsClean' /\ LegsAsSent' /\ EntriesNameLegs'
                    /\ RepairsAsEntries' /\ ResultsAreReal'
  BY DEF HedgeInv
<1>1. /\ CoreInv /\ ExecutionTypeOK /\ CursorInv /\ RepairsGrow
      /\ UNCHANGED <<xpc, xlast, xlegs, xfail, rsession, rfail>>
  BY DEF SettlementInv, CoreInv, OthersStep, executorVars, repairVars
<1>2. NoFailure
  BY <1>1 DEF NoFailure
<1>3. /\ rsession /\ UnworkedIsClean /\ LegsAsSent /\ EntriesNameLegs
      /\ RepairsAsEntries /\ ResultsAreReal
  BY <1>2 DEF HedgeInv
<1>4. \A t : AskedFor(t)' = AskedFor(t)
  BY <1>1, SupportedStay DEF AskedFor, Supported
<1>5. \A m \in Nodes : /\ Busy(m) => Entry(m)' = Entry(m)
                       /\ \A i \in 1..xlast[m] : execTasks'[m][i] = execTasks[m][i]
  <2> TAKE m \in Nodes
  <2>1. execTasks[m] \in Seq(ExecEntry) /\ xlast[m] \in Nat /\ xlast[m] <= Len(execTasks[m])
    BY <1>1 DEF ExecutionTypeOK, BusTypeOK, ExecutorTypeOK
  <2>2. Busy(m) => xlast[m] + 1 \in DOMAIN execTasks[m]
    BY <1>1, <2>1 DEF CursorInv
  <2> QED
    BY <1>1, <2>1, <2>2 DEF Entry
<1>6. UnworkedIsClean'
  <2>1. \A t : Worked(t) => Worked(t)'
    BY <1>1, <1>5 DEF Worked, HasLegs, Busy
  <2> QED
    BY <1>3, <1>4, <2>1 DEF UnworkedIsClean, NoOrderFor
<1>7. LegsAsSent'
  <2> SUFFICES ASSUME NEW m \in Nodes
               PROVE  SentLegs(m)'
    BY DEF LegsAsSent
  <2>1. SentLegs(m)
    BY <1>3 DEF LegsAsSent
  <2>2. CASE Busy(m)
    <3>1. /\ Entry(m)' = Entry(m) /\ (\A side \in Sides : Leg(m, side)' = Leg(m, side))
          /\ FailedSides(m)' = FailedSides(m)
      BY <1>1, <1>5, <2>2 DEF Leg, FailedSides
    <3>2. AskedFor(Entry(m).task)' = AskedFor(Entry(m).task)
      BY <1>4, <3>1 DEF AskedFor
    <3> QED
      BY <1>1, <2>1, <3>1, <3>2 DEF SentLegs, SideExchange
  <2>3. CASE ~Busy(m)
    BY <1>1, <2>3 DEF SentLegs, Busy
  <2> QED
    BY <2>2, <2>3
<1>8. EntriesNameLegs'
  <2> SUFFICES ASSUME NEW i \in DOMAIN repairTasks', Supported(repairTasks'[i])
               PROVE  /\ NamesItsLegs(repairTasks[i])'
                      /\ (\A j \in AskedFor(repairTasks[i].task) : j = i)'
    BY DEF EntriesNameLegs, Supported
  <2>1. i \in DOMAIN repairTasks /\ repairTasks'[i] = repairTasks[i]
    BY <1>1 DEF RepairsGrow
  <2>2. NamesItsLegs(repairTasks[i]) /\ \A j \in AskedFor(repairTasks[i].task) : j = i
    BY <1>3, <2>1 DEF EntriesNameLegs
  <2>3. AskedFor(repairTasks[i].task)' = AskedFor(repairTasks[i].task)
    BY <1>4, <2>1 DEF AskedFor
  <2> QED
    BY <2>1, <2>2, <2>3 DEF NamesItsLegs, Missing, SideExchange
<1>9. RepairsAsEntries' /\ ResultsAreReal'
  BY <1>3, OthersKeepRepairs
<1> QED
  BY <1>1, <1>3, <1>6, <1>7, <1>8, <1>9

LEMMA WorkerKeepsHedge ==
    ASSUME SettlementInv, HedgeBounds, RepairNext, UNCHANGED executorVars, HedgeInv
    PROVE  HedgeInv'
<1> SUFFICES ASSUME NoFailure'
             PROVE  /\ rsession'
                    /\ UnworkedIsClean' /\ LegsAsSent' /\ EntriesNameLegs'
                    /\ RepairsAsEntries' /\ ResultsAreReal'
  BY DEF HedgeInv
<1>1. rfail \in Nat
  BY DEF SettlementInv, RepairTypeOK
<1>2. rfail' = rfail \/ rfail' = rfail + 1
  BY DEF RepairNext, RepairStep, StartRepair, IgnoreRepair, PlaceRepairOrder, RecordRepair,
     CloseRepairSession, RecordFails, FinishRepair, RepairRestart, RepairRaise, DatabaseError,
     RepairCrash
<1>3. NoFailure /\ rfail' = rfail
  BY <1>1, <1>2 DEF NoFailure, executorVars
<1> QED
  BY <1>3, WorkerKeepsLegsSent, WorkerKeepsRepairs DEF HedgeInv

LEMMA HedgeInvStep ==
    ASSUME SettlementInv, HedgeBounds, HedgeInv, [SettlementNext]_settlementVars
    PROVE  HedgeInv'
<1>1. ExecutionTypeOK
  BY DEF SettlementInv, CoreInv
<1>2. ASSUME NEW n \in Nodes, AnyStep(n), UNCHANGED repairVars
      PROVE  HedgeInv'
  BY <1>2, ExecutorKeepsHedge
<1>3. CASE RepairNext /\ UNCHANGED executorVars
  BY <1>3, WorkerKeepsHedge
<1>4. CASE OutsideStep /\ UNCHANGED repairVars
  <2>1. OthersStep /\ UNCHANGED <<repairTasks, orders, repairs, executorVars>>
    BY <1>1, <1>4, FeedIsOther, OutsideStreams DEF OutsideStep
  <2>2. \A m \in Nodes : \A i \in DOMAIN execTasks[m] : execTasks'[m][i] = execTasks[m][i]
    BY <1>1, <1>4, OutsideEntries
  <2>3. ASSUME NEW t \in DOMAIN tasks', tasks'[t].repair_reason = "repair_succeeded"
        PROVE  t \in DOMAIN tasks /\ tasks[t].repair_reason = "repair_succeeded"
    BY <1>1, <1>4, <2>3, OutsideRows DEF None
  <2> QED
    BY <2>1, <2>2, <2>3, OutsideKeepsHedge
<1>5. CASE OtherProducer /\ UNCHANGED <<executorVars, repairVars>>
  <2>1. OthersStep /\ UNCHANGED <<tasks, execTasks, orders, repairs, executorVars>>
    BY <1>5, ProducerIsOther DEF OtherProducer, orderVars
  <2>2. repairTasks \in Seq(RepairEntry)
    BY <1>1 DEF ExecutionTypeOK, BusTypeOK
  <2>3. PICK e \in OtherRepairEntries : repairTasks' = Append(repairTasks, e)
    BY <1>5 DEF OtherProducer
  <2>4. e \in RepairEntry /\ ~Supported(e)
    BY SettlementAssumption DEF SettlementAssumption
  <2>5. \A i \in DOMAIN repairTasks' \ DOMAIN repairTasks : ~Supported(repairTasks'[i])
    BY <2>2, <2>3, <2>4, AppendGrows
  <2> QED
    BY <2>1, <2>5, OutsideKeepsHedge
<1> QED
  BY <1>2, <1>3, <1>4, <1>5 DEF SettlementNext, ExecutorNext, AnyStep, OutsideStep, settlementVars

LEMMA HedgeInvInit == ASSUME SettlementInit PROVE HedgeInv
<1>1. /\ repairTasks = <<>> /\ repairs = NoOrders /\ orders = NoOrders /\ DOMAIN tasks = {}
      /\ rpc = "read" /\ rsession = TRUE
      /\ \A n \in Nodes : xpc[n] = "read"
  BY DEF SettlementInit, BusInit, EmptyBus, TasksInit, RepairInit, ExecutorInit
<1>2. UnworkedIsClean /\ LegsAsSent /\ EntriesNameLegs
  BY <1>1 DEF UnworkedIsClean, NoOrderFor, NoOrders, AskedFor, LegsAsSent, SentLegs,
     EntriesNameLegs
<1>3. RepairsAsEntries /\ ResultsAreReal
  BY <1>1 DEF RepairsAsEntries, ResultsAreReal, NoOrders
<1> QED
  BY <1>1, <1>2, <1>3 DEF HedgeInv

-----------------------------------------------------------------------------
(* What the counts of a task say when its orders are known one by one.     *)
LEMMA OneOrderIn ==
    ASSUME NEW book \in [TaskIds \X Exchanges \X Sides -> Nat], NEW t \in TaskIds,
           NEW side \in Sides, NEW x \in Exchanges,
           \A e \in Exchanges : book[<<t, e, side>>] = IF e = x THEN 1 ELSE 0
    PROVE  Cardinality(OrdersIn(book, t, side)) = 1
<1>1. OrdersIn(book, t, side) = {<<x, 1>>}
  <2>1. PICK f : f = [e \in Exchanges |-> {e} \X (1..book[<<t, e, side>>])]
    OBVIOUS
  <2>2. \A e \in Exchanges : f[e] = IF e = x THEN {<<x, 1>>} ELSE {}
    <3>1. \A e \in Exchanges : e # x => {e} \X (1..book[<<t, e, side>>]) = {}
      OBVIOUS
    <3>2. {x} \X (1..book[<<t, x, side>>]) = {<<x, 1>>}
      OBVIOUS
    <3> QED
      BY <2>1, <3>1, <3>2
  <2>3. OrdersIn(book, t, side) = UNION {f[e] : e \in Exchanges}
    BY <2>1 DEF OrdersIn
  <2>4. UNION {f[e] : e \in Exchanges} = {<<x, 1>>}
    BY ONLY <2>2, x \in Exchanges
  <2> QED
    BY <2>3, <2>4
<1> QED
  BY <1>1, FS_Singleton

LEMMA NoOrderIn ==
    ASSUME NEW book \in [TaskIds \X Exchanges \X Sides -> Nat], NEW t \in TaskIds,
           NEW side \in Sides,
           \A e \in Exchanges : book[<<t, e, side>>] = 0
    PROVE  Cardinality(OrdersIn(book, t, side)) = 0
<1>1. \A e \in Exchanges : {e} \X (1..book[<<t, e, side>>]) = {}
  OBVIOUS
<1>2. OrdersIn(book, t, side) = {}
  BY <1>1 DEF OrdersIn
<1> QED
  BY <1>2, FS_EmptySet

LEMMA HedgeIsBalanced == ASSUME SettlementInv, HedgeInv PROVE OneLegRepairHedges
<1> SUFFICES ASSUME NEW t \in DOMAIN tasks, NoFailure,
                    tasks[t].repair_reason = "repair_succeeded",
                    \A i \in RepairEntriesOf(t) : Len(repairTasks[i].target_exchanges) = 1
             PROVE  Balanced(t)
  BY DEF OneLegRepairHedges
<1> DEFINE S == TaskIds \X Exchanges \X Sides
<1>1. /\ repairTasks \in Seq(RepairEntry) /\ t \in TaskIds
      /\ orders \in [S -> Nat] /\ repairs \in [S -> Nat]
  BY DEF SettlementInv, CoreInv, ExecutionTypeOK, BusTypeOK, TasksTypeOK
<1>2. EntriesNameLegs /\ RepairsAsEntries /\ ResultsAreReal
  BY DEF HedgeInv
<1>3. PICK i \in AskedFor(t) : repairs[RepairKey(repairTasks[i])] = 1
  BY <1>2 DEF ResultsAreReal
<1>4. PICK r : r = repairTasks[i]
  OBVIOUS
<1>5. /\ i \in DOMAIN repairTasks /\ Supported(r) /\ r.task = t /\ r \in RepairEntry
      /\ NamesItsLegs(r) /\ (\A j \in AskedFor(t) : j = i)
      /\ Len(r.target_exchanges) = 1
  BY <1>1, <1>2, <1>3, <1>4 DEF AskedFor, EntriesNameLegs, RepairEntriesOf
<1>6. \A k \in S : k[1] = t => repairs[k] = IF k = RepairKey(r) THEN 1 ELSE 0
  <2> SUFFICES ASSUME NEW k \in S, k[1] = t, repairs[k] # 0
               PROVE  k = RepairKey(r)
    BY <1>1, <1>3, <1>4
  <2>1. PICK j \in DOMAIN repairTasks :
            Supported(repairTasks[j]) /\ k = RepairKey(repairTasks[j])
    BY <1>2 DEF RepairsAsEntries
  <2>2. repairTasks[j].task = t
    BY <2>1 DEF RepairKey
  <2> QED
    BY <1>4, <1>5, <2>1, <2>2 DEF AskedFor
<1> DEFINE b == r.buy_exchange
           s == r.sell_exchange
<1>7. /\ b \in Exchanges /\ s \in Exchanges /\ b # s
      /\ r.target_exchanges = <<b>> \/ r.target_exchanges = <<s>>
  <2>1. Len(<<b, s>>) = 2
    OBVIOUS
  <2> QED
    BY <1>5, <2>1 DEF RepairEntry, NamesItsLegs
(* One side has the order of the executor, the other that of the worker.   *)
<1>8. PICK hit \in Sides, other \in Sides, x \in Exchanges, y \in Exchanges :
          /\ {hit, other} = {"buy", "sell"}
          /\ RepairKey(r) = <<t, x, hit>>
          /\ x = SideExchange(r, hit) /\ y = SideExchange(r, other)
          /\ Missing(r, hit) /\ ~Missing(r, other)
  <2>1. SideExchange(r, "buy") = b /\ SideExchange(r, "sell") = s
    BY DEF SideExchange
  <2>2. CASE r.target_exchanges = <<b>>
    <3>1. RepairKey(r) = <<t, b, "buy">>
      BY <1>5, <2>2 DEF RepairKey
    <3>2. Missing(r, "buy") /\ ~Missing(r, "sell")
      BY <1>7, <2>1, <2>2 DEF Missing
    <3> QED
      BY <1>7, <2>1, <3>1, <3>2 DEF Sides
  <2>3. CASE r.target_exchanges = <<s>>
    <3>1. RepairKey(r) = <<t, s, "sell">>
      BY <1>5, <1>7, <2>3 DEF RepairKey
    <3>2. Missing(r, "sell") /\ ~Missing(r, "buy")
      BY <1>7, <2>1, <2>3 DEF Missing
    <3> QED
      BY <1>7, <2>1, <3>1, <3>2 DEF Sides
  <2> QED
    BY <1>7, <2>2, <2>3
<1>9. hit # other
  BY <1>8
<1>10. /\ \A e \in Exchanges : orders[<<t, e, hit>>] = 0
       /\ \A e \in Exchanges : orders[<<t, e, other>>] = IF e = y THEN 1 ELSE 0
  BY <1>5, <1>8 DEF NamesItsLegs
<1>11. /\ \A e \in Exchanges : repairs[<<t, e, hit>>] = IF e = x THEN 1 ELSE 0
       /\ \A e \in Exchanges : repairs[<<t, e, other>>] = 0
  BY <1>1, <1>6, <1>8, <1>9
<1>12. Placed(t, hit) = 0 + 1 /\ Placed(t, other) = 1 + 0
  BY <1>1, <1>10, <1>11, OneOrderIn, NoOrderIn DEF Placed
<1>13. Placed(t, hit) = Placed(t, other)
  BY <1>12
<1> QED
  BY <1>8, <1>13 DEF Balanced

(* While nothing fails, legs stay on the exchanges of the opportunity and  *)
(* every leg is answered: a task with one failed leg that is recorded as   *)
(* repaired has as many buy as sell orders, for any tasks, executors,      *)
(* entries of other producers and outcomes of the repair orders.           *)
THEOREM RepairsHedge == ASSUME HedgeBounds PROVE SettlementSpec => []OneLegRepairHedges
<1>1. SettlementInit => HedgeInv
  BY HedgeInvInit
<1>2. SettlementInv /\ HedgeInv /\ [SettlementNext]_settlementVars => HedgeInv'
  BY HedgeInvStep
<1>3. SettlementInv /\ HedgeInv => OneLegRepairHedges
  BY HedgeIsBalanced
<1> QED
  BY <1>1, <1>2, <1>3, SettlementInvariant, PTL DEF SettlementSpec

-----------------------------------------------------------------------------
(* What the repair worker acts on came from a published task.              *)
SupportedSent ==
    \A i \in DOMAIN repairTasks : Supported(repairTasks[i]) => Published(repairTasks[i].task)

TradeInv ==
    /\ SupportedSent
    /\ OrdersWereAsked
    /\ RepairsComeLast
    /\ SuccessIsOwned

-----------------------------------------------------------------------------
(* A task that was asked for stays so, and becomes so by its executor only *)
LEMMA AskedForGrows ==
    ASSUME RepairsGrow, NEW t
    PROVE  AskedFor(t) \subseteq AskedFor(t)'
BY DEF RepairsGrow, AskedFor, Supported

LEMMA EntryIsPublished ==
    ASSUME CoreInv, NEW n \in Nodes, xlast[n] < Len(execTasks[n])
    PROVE  Published(Entry(n).task)
<1>1. ExecutionTypeOK
  BY DEF CoreInv
<1> QED
  BY <1>1, EntryFacts DEF Published, Entry

(* which has failed legs then, and is at "record" from there on.           *)
LEMMA AsksOnce ==
    ASSUME CoreInv, NEW n \in Nodes, AnyStep(n), NEW t, AskedFor(t)' # AskedFor(t)
    PROVE  /\ xpc[n] = "plan" /\ xpc'[n] = "record" /\ t = Entry(n).task
           /\ FailedSides(n)' # {} /\ UNCHANGED <<tasks, xlast>>
<1>1. xpc[n] = "plan" /\ t = Entry(n).task
  BY AskedForOthers
<1>2. ~UNCHANGED repairTasks
  BY DEF AskedFor, Supported
<1>3. PublishRepair(n) /\ RepairsGrow
      /\ \A i \in DOMAIN repairTasks' \ DOMAIN repairTasks : repairTasks'[i] = PlannedRepair(n)
  BY <1>2, ExecutorAppends
<1>4. UNCHANGED <<tasks, xlast, xlegs>> /\ xpc'[n] = "record"
  <2>1. ExecutorTypeOK
    BY DEF CoreInv, ExecutionTypeOK
  <2> QED
    BY <1>3, <2>1, GotoDoes DEF PublishRepair
<1>5. Supported(PlannedRepair(n))
  <2>1. PICK i \in DOMAIN repairTasks' \ DOMAIN repairTasks : Supported(repairTasks'[i])
    BY <1>3 DEF RepairsGrow, AskedFor, Supported
  <2> QED
    BY <1>3, <2>1
<1>6. ExecutionStatus(n) = "OPEN_PARTIAL"
  BY <1>5 DEF Supported, PlannedRepair
<1>7. FailedSides(n) # {}
  BY <1>6 DEF ExecutionStatus
<1> QED
  BY <1>1, <1>4, <1>7 DEF FailedSides, Leg

LEMMA PublishedStays ==
    ASSUME \A m \in Nodes : \A i \in DOMAIN execTasks[m] :
               i \in DOMAIN execTasks'[m] /\ execTasks'[m][i] = execTasks[m][i],
           NEW t, Published(t)
    PROVE  Published(t)'
BY DEF Published

LEMMA SupportedSentStep ==
    ASSUME SettlementInv, SupportedSent, [SettlementNext]_settlementVars
    PROVE  SupportedSent'
<1>1. CoreInv /\ ExecutionTypeOK /\ repairTasks \in Seq(RepairEntry)
  BY DEF SettlementInv, CoreInv, ExecutionTypeOK, BusTypeOK
<1>2. ASSUME UNCHANGED repairTasks,
             \A m \in Nodes : \A i \in DOMAIN execTasks[m] :
                 i \in DOMAIN execTasks'[m] /\ execTasks'[m][i] = execTasks[m][i]
      PROVE  SupportedSent'
  BY <1>2, PublishedStays DEF SupportedSent, Supported
<1>3. ASSUME UNCHANGED execTasks, RepairsGrow,
             \A i \in DOMAIN repairTasks' \ DOMAIN repairTasks :
                 Supported(repairTasks'[i]) => Published(repairTasks'[i].task)
      PROVE  SupportedSent'
  <2> SUFFICES ASSUME NEW i \in DOMAIN repairTasks', Supported(repairTasks'[i])
               PROVE  Published(repairTasks'[i].task)
    BY <1>3 DEF SupportedSent, Supported, Published
  <2>1. CASE i \in DOMAIN repairTasks
    <3>1. repairTasks'[i] = repairTasks[i]
      BY <1>3, <2>1 DEF RepairsGrow
    <3> QED
      BY <2>1, <3>1 DEF SupportedSent
  <2> QED
    BY <1>3, <2>1
<1>4. CASE OutsideStep
  BY <1>1, <1>2, <1>4, OutsideStreams, OutsideEntries
<1>5. ASSUME NEW n \in Nodes, AnyStep(n)
      PROVE  SupportedSent'
  <2>1. UNCHANGED execTasks /\ RepairsGrow
    BY <1>1, <1>5, ExecutorFrame, ExecutorAppends
  <2>2. CASE UNCHANGED repairTasks
    BY <1>3, <2>1, <2>2
  <2>3. CASE /\ xpc[n] = "plan"
             /\ \A i \in DOMAIN repairTasks' \ DOMAIN repairTasks :
                   repairTasks'[i] = PlannedRepair(n)
    <3>1. Published(Entry(n).task)
      BY <1>1, <2>3, EntryIsPublished DEF CoreInv, CursorInv, Busy
    <3>2. PlannedRepair(n).task = Entry(n).task
      BY DEF PlannedRepair
    <3> HIDE DEF PlannedRepair
    <3> QED
      BY <1>3, <2>1, <2>3, <3>1, <3>2
  <2> QED
    BY <1>1, <1>5, <2>2, <2>3, ExecutorAppends
<1>6. CASE RepairNext
  BY <1>2, <1>6, WorkerFrame
<1>7. CASE OtherProducer
  <2>1. PICK e \in OtherRepairEntries : repairTasks' = Append(repairTasks, e)
    BY <1>7 DEF OtherProducer
  <2>2. e \in RepairEntry /\ ~Supported(e) /\ UNCHANGED execTasks
    BY <1>7, SettlementAssumption DEF SettlementAssumption, OtherProducer
  <2>3. RepairsGrow /\ \A i \in DOMAIN repairTasks' \ DOMAIN repairTasks : repairTasks'[i] = e
    BY <1>1, <2>1, <2>2, AppendGrows
  <2> QED
    BY <1>3, <2>2, <2>3
<1> QED
  BY <1>4, <1>5, <1>6, <1>7 DEF SettlementNext, ExecutorNext, AnyStep, OutsideStep, settlementVars

(* An order needs an entry on the executor's stream, a repair order one on *)
(* the worker's.                                                           *)
LEMMA OrdersWereAskedStep ==
    ASSUME SettlementInv, OrdersWereAsked, [SettlementNext]_settlementVars
    PROVE  OrdersWereAsked'
<1>1. CoreInv /\ ExecutionTypeOK /\ repairTasks \in Seq(RepairEntry)
  BY DEF SettlementInv, CoreInv, ExecutionTypeOK, BusTypeOK
<1>2. \A t : AskedFor(t) # {} => AskedFor(t)' # {}
  <2>1. RepairsGrow \/ UNCHANGED repairTasks
    BY <1>1, ExecutorAppends, WorkerFrame, OutsideStreams, ProducerIsOther
       DEF SettlementNext, ExecutorNext, AnyStep, OutsideStep, OthersStep, settlementVars
  <2>2. CASE UNCHANGED repairTasks
    BY <2>2 DEF AskedFor, Supported
  <2> QED
    BY <2>1, <2>2, AskedForGrows
<1>3. \A t : Published(t) => Published(t)'
  <2>1. \/ UNCHANGED execTasks
        \/ OutsideStep
    BY <1>1, ExecutorFrame, WorkerFrame
       DEF SettlementNext, ExecutorNext, AnyStep, OutsideStep, OtherProducer, settlementVars
  <2>2. CASE UNCHANGED execTasks
    BY <2>2 DEF Published
  <2>3. CASE OutsideStep
    BY <1>1, <2>3, OutsideEntries, PublishedStays
  <2> QED
    BY <2>1, <2>2, <2>3
<1>4. ASSUME NEW t \in TaskIds, NEW e \in Exchanges, NEW side \in Sides
      PROVE  /\ orders'[<<t, e, side>>] # 0 => Published(t)'
             /\ repairs'[<<t, e, side>>] # 0 => AskedFor(t)' # {}
  <2> DEFINE k == <<t, e, side>>
  <2>1. orders[k] # 0 => Published(t)
    BY DEF OrdersWereAsked
  <2>2. repairs[k] # 0 => AskedFor(t) # {}
    BY DEF OrdersWereAsked
  <2>3. CASE UNCHANGED <<orders, repairs>>
    BY <1>2, <1>3, <2>1, <2>2, <2>3
  <2>4. ASSUME NEW n \in Nodes, AnyStep(n)
        PROVE  /\ orders'[k] # 0 => Published(t)'
               /\ repairs'[k] # 0 => AskedFor(t)' # {}
    <3>1. UNCHANGED repairs
      BY <1>1, <2>4, ExecutorFrame
    <3>2. orders'[k] # orders[k] => xpc[n] = "submit" /\ t = Entry(n).task
      BY <1>1, <2>4, OrdersOfEntry
    <3>3. xpc[n] = "submit" => Published(Entry(n).task)
      BY <1>1, EntryIsPublished DEF CoreInv, CursorInv, Busy
    <3> QED
      BY <1>2, <1>3, <2>1, <2>2, <3>1, <3>2, <3>3
  <2>5. CASE RepairNext
    <3>1. UNCHANGED orders
      BY <2>5, WorkerFrame
    <3>2. repairs'[k] # repairs[k] => RepairBusy /\ t = REntry.task
      BY <2>5, WorkerOrders DEF RepairBusy
    <3>3. RepairBusy => AskedFor(REntry.task) # {}
      BY REntryFacts DEF AskedFor
    <3> QED
      BY <1>2, <1>3, <2>1, <2>2, <3>1, <3>2, <3>3
  <2> QED
    <3>1. OutsideStep => UNCHANGED <<orders, repairs>>
      BY <1>1, OutsideStreams
    <3> QED
      BY <2>3, <2>4, <2>5, <3>1
         DEF SettlementNext, ExecutorNext, AnyStep, OutsideStep, OtherProducer, orderVars,
             settlementVars
<1> QED
  BY <1>4 DEF OrdersWereAsked

LEMMA ProducerAsksNothing ==
    ASSUME SettlementInv, OtherProducer
    PROVE  \A t : AskedFor(t)' = AskedFor(t)
<1>1. repairTasks \in Seq(RepairEntry)
  BY DEF SettlementInv, CoreInv, ExecutionTypeOK, BusTypeOK
<1>2. PICK e \in OtherRepairEntries : repairTasks' = Append(repairTasks, e)
  BY DEF OtherProducer
<1>3. e \in RepairEntry /\ ~Supported(e)
  BY SettlementAssumption DEF SettlementAssumption
<1>4. RepairsGrow /\ \A i \in DOMAIN repairTasks' \ DOMAIN repairTasks : repairTasks'[i] = e
  BY <1>1, <1>2, <1>3, AppendGrows
<1> QED
  BY <1>3, <1>4, SupportedStay DEF AskedFor, Supported

-----------------------------------------------------------------------------
(* A place of the executor that is past stays past as long as it does not  *)
(* fail.                                                                   *)
LEMMA PastStays ==
    ASSUME CoreInv, NEW n \in Nodes, AnyStep(n), NEW m \in Nodes, NEW i \in Nat,
           xfail'[m] = 0, Past(m, i)
    PROVE  Past(m, i)'
<1>1. ExecutionTypeOK /\ xlast[m] \in Nat /\ xfail[m] = 0
  BY FailuresGrow DEF CoreInv, ExecutionTypeOK, ExecutorTypeOK
<1>2. CASE m # n
  <2>1. xpc'[m] = xpc[m] /\ xlast'[m] = xlast[m] /\ xlegs'[m] = xlegs[m]
    BY <1>1, <1>2, ExecutorFrame
  <2> QED
    BY <2>1 DEF Past, FailedSides, Leg
<1>3. CASE m = n
  <2>1. xfail'[n] # xfail[n] + 1
    BY <1>1, <1>3
  <2>2. \/ xlast'[n] = xlast[n] /\ xpc[n] # "record"
        \/ xlast'[n] = xlast[n] + 1
    BY <1>1, <2>1, ExecutorLocals DEF Stays, HasLegs
  <2>3. CASE xlast'[n] = xlast[n] /\ xpc[n] # "record"
    BY <1>3, <2>3 DEF Past
  <2>4. CASE xlast'[n] = xlast[n] + 1
    <3>1. i <= xlast'[n]
      BY <1>1, <1>3, <2>4 DEF Past
    <3> QED
      BY <1>3, <3>1 DEF Past
  <2> QED
    BY <2>2, <2>3, <2>4
<1> QED
  BY <1>2, <1>3

LEMMA ExecutorRepairsLast ==
    ASSUME RecordsInv, RepairsComeLast, NEW n \in Nodes, AnyStep(n)
    PROVE  RepairsComeLast'
<1>1. CoreInv /\ ExecutionTypeOK /\ SentOnce /\ SentHaveRows /\ BusyNotBlocked
  BY DEF RecordsInv, CoreInv
<1> SUFFICES ASSUME NEW m \in Nodes, NEW i \in DOMAIN execTasks[m], NEW t,
                    t = execTasks[m][i].task, xfail'[m] = 0, AskedFor(t)' # {}
             PROVE  Past(m, i)' /\ tasks'[t].status # "BLOCKED"
  <2>1. UNCHANGED execTasks
    BY <1>1, ExecutorFrame
  <2> QED
    BY <2>1 DEF RepairsComeLast, AskedFor
<1>2. xfail[m] = 0 /\ t \in DOMAIN tasks /\ i \in Nat
  <2>1. execTasks[m] \in Seq(ExecEntry)
    BY <1>1 DEF ExecutionTypeOK, BusTypeOK
  <2> QED
    BY <1>1, <2>1, FailuresGrow DEF SentHaveRows
(* It was asked for: then only the executor that recorded it wrote.        *)
<1>3. CASE AskedFor(t) # {}
  <2>1. Past(m, i) /\ tasks[t].status # "BLOCKED"
    BY <1>2, <1>3 DEF RepairsComeLast
  <2>2. Past(m, i)'
    BY <1>1, <1>2, <2>1, PastStays
  <2>3. ASSUME tasks'[t] # tasks[t]
        PROVE  tasks'[t].status # "BLOCKED"
    <3>1. t = Entry(n).task /\ xlast[n] < Len(execTasks[n]) /\ xlast[n] \in Nat
      BY <1>1, <1>2, <2>3, RowWriter DEF ExecutionTypeOK, ExecutorTypeOK
    <3>2. m = n /\ i = xlast[n] + 1
      BY <1>1, <3>1, SameEntry
    <3>3. xpc[n] = "record"
      BY <2>1, <3>1, <3>2 DEF Past
    <3>4. ~BlockTask(n)
      BY <3>3, RowActions
    <3> QED
      BY <1>1, <2>3, <3>1, <3>4, ExecutorRow
  <2> QED
    BY <2>1, <2>2, <2>3
(* Or it is now, by an executor that is not blocked.                       *)
<1>4. CASE AskedFor(t) = {}
  <2>1. /\ xpc[n] = "plan" /\ xpc'[n] = "record" /\ t = Entry(n).task
        /\ FailedSides(n)' # {} /\ UNCHANGED <<tasks, xlast>>
    BY <1>1, <1>4, AsksOnce
  <2>2. xlast[n] < Len(execTasks[n]) /\ tasks[t].status # "BLOCKED"
    BY <1>1, <2>1 DEF RecordsInv, CoreInv, CursorInv, Busy, BusyNotBlocked
  <2>3. m = n /\ i = xlast[n] + 1
    BY <1>1, <2>1, <2>2, SameEntry
  <2> QED
    BY <2>1, <2>2, <2>3 DEF Past
<1> QED
  BY <1>3, <1>4

LEMMA RepairsComeLastStep ==
    ASSUME SettlementInv, RecordsInv, SupportedSent, RepairsComeLast,
           [SettlementNext]_settlementVars
    PROVE  RepairsComeLast'
<1>1. CoreInv /\ ExecutionTypeOK /\ SentHaveRows
  BY DEF SettlementInv, CoreInv
<1>2. CASE RepairNext /\ UNCHANGED executorVars
  <2>1. UNCHANGED <<execTasks, repairTasks, xfail, xlast, xpc, xlegs>>
    BY <1>2, WorkerFrame DEF executorVars
  <2>2. /\ \A t : AskedFor(t)' = AskedFor(t)
        /\ \A m \in Nodes : \A i \in DOMAIN execTasks[m] : Past(m, i) => Past(m, i)'
    BY <2>1 DEF AskedFor, Supported, Past, FailedSides, Leg
  <2>3. \A t \in DOMAIN tasks : tasks[t].status # "BLOCKED" => tasks'[t].status # "BLOCKED"
    BY <1>2, WorkerRow
  <2> QED
    BY <1>1, <2>1, <2>2, <2>3 DEF RepairsComeLast, SentHaveRows
<1>3. CASE OtherProducer /\ UNCHANGED <<executorVars, repairVars>>
  <2>1. UNCHANGED <<tasks, execTasks, xfail, xlast, xpc, xlegs>> /\ RepairsGrow
    BY <1>3, ProducerIsOther DEF OtherProducer, executorVars, OthersStep
  <2>2. \A t : AskedFor(t)' = AskedFor(t)
    BY <1>3, ProducerAsksNothing
  <2>3. \A m \in Nodes : \A i \in DOMAIN execTasks[m] : Past(m, i) => Past(m, i)'
    BY <2>1 DEF Past, FailedSides, Leg
  <2> QED
    BY <2>1, <2>2, <2>3 DEF RepairsComeLast
<1>4. ASSUME NEW n \in Nodes, AnyStep(n)
      PROVE  RepairsComeLast'
  BY <1>4, ExecutorRepairsLast
<1>5. CASE OutsideStep
  <2> SUFFICES ASSUME NEW m \in Nodes, NEW i \in DOMAIN execTasks'[m], NEW t,
                      t = execTasks'[m][i].task, xfail[m] = 0, AskedFor(t) # {}
               PROVE  Past(m, i)' /\ tasks'[t].status # "BLOCKED"
    <3>1. UNCHANGED <<repairTasks, xfail>>
      BY <1>1, <1>5, OutsideStreams DEF OutsideStep, executorVars
    <3> QED
      BY <3>1 DEF RepairsComeLast, AskedFor, Supported
  <2>1. Published(t)
    BY DEF AskedFor, SupportedSent
  <2>2. i \in DOMAIN execTasks[m]
    BY <1>1, <1>5, <2>1, OutsideAppends
  <2>3. t = execTasks[m][i].task /\ t \in DOMAIN tasks
    BY <1>1, <1>5, <2>2, OutsideEntries DEF SentHaveRows
  <2>4. Past(m, i) /\ tasks[t].status # "BLOCKED"
    BY <2>2, <2>3 DEF RepairsComeLast
  <2>5. Past(m, i)'
    BY <1>5, <2>4 DEF OutsideStep, executorVars, Past, FailedSides, Leg
  <2>6. tasks'[t] = tasks[t] \/ tasks'[t].status = "DISPATCHED"
    BY <1>1, <1>5, <2>1, <2>3, OutsideRows
  <2> QED
    BY <2>4, <2>5, <2>6
<1> QED
  BY <1>2, <1>3, <1>4, <1>5 DEF SettlementNext, ExecutorNext, AnyStep, OutsideStep, settlementVars

-----------------------------------------------------------------------------
(* The two ways a task may have succeeded.                                 *)
AskedOnce(t) == \A i, j \in AskedFor(t) : i = j
OwnedByExecutor(t) ==
    AskedFor(t) = {} /\ \E n \in Nodes : \E i \in 1..xlast[n] : execTasks[n][i].task = t
OwnedByWorker(t) ==
    tasks[t].repair_reason = "repair_succeeded" /\ \E i \in AskedFor(t) : Repaired(i)
Owned(t) == tasks[t].status = "SUCCEEDED" => OwnedByExecutor(t) \/ OwnedByWorker(t)

LEMMA SuccessIsOwnedParts ==
    SuccessIsOwned <=>
        (NoFailure => (\A t : AskedOnce(t)) /\ \A t \in DOMAIN tasks : Owned(t))
BY DEF SuccessIsOwned, AskedOnce, AskedFor, Owned, OwnedByExecutor, OwnedByWorker

LEMMA SuccessIsOwnedPartsNext ==
    SuccessIsOwned' <=>
        (NoFailure' => (\A t : AskedOnce(t)') /\ \A t \in DOMAIN tasks' : Owned(t)')
BY DEF SuccessIsOwned, AskedOnce, AskedFor, Owned, OwnedByExecutor, OwnedByWorker

(* The entry of an executor is not behind any cursor, and was asked for    *)
(* only if it has legs to repair and is about to be recorded.              *)
LEMMA EntryNotBehind ==
    ASSUME CoreInv, NEW n \in Nodes, xlast[n] < Len(execTasks[n])
    PROVE  ~OwnedByExecutor(Entry(n).task)
<1> SUFFICES ASSUME NEW m \in Nodes, NEW i \in 1..xlast[m],
                    execTasks[m][i].task = Entry(n).task
             PROVE  FALSE
  BY DEF OwnedByExecutor
<1>1. /\ ExecutionTypeOK /\ SentOnce
      /\ execTasks[m] \in Seq(ExecEntry) /\ xlast[m] \in Nat /\ xlast[m] <= Len(execTasks[m])
  BY DEF CoreInv, ExecutionTypeOK, ExecutorTypeOK, BusTypeOK
<1>2. i \in DOMAIN execTasks[m] /\ i \in Nat /\ i <= xlast[m]
  BY <1>1
<1>3. m = n /\ i = xlast[n] + 1
  BY <1>1, <1>2, SameEntry
<1> QED
  BY <1>1, <1>2, <1>3

LEMMA AskedForAtRecord ==
    ASSUME CoreInv, RepairsComeLast, NEW n \in Nodes, xlast[n] < Len(execTasks[n]),
           xfail[n] = 0, AskedFor(Entry(n).task) # {}
    PROVE  xpc[n] = "record" /\ FailedSides(n) # {}
<1>1. xlast[n] \in Nat /\ xlast[n] + 1 \in DOMAIN execTasks[n]
  BY EntryFacts DEF CoreInv
<1>2. Past(n, xlast[n] + 1)
  BY <1>1 DEF RepairsComeLast, Entry
<1> QED
  BY <1>1, <1>2 DEF Past

LEMMA ExecutorKeepsOwned ==
    ASSUME SettlementInv, TradeInv, NEW n \in Nodes, AnyStep(n), UNCHANGED repairVars
    PROVE  SuccessIsOwned'
<1>1. CoreInv /\ ExecutionTypeOK /\ RepairsComeLast /\ SuccessIsOwned
  BY DEF SettlementInv, CoreInv, TradeInv
<1> SUFFICES ASSUME NoFailure'
             PROVE  (\A t : AskedOnce(t)') /\ \A t \in DOMAIN tasks' : Owned(t)'
  BY SuccessIsOwnedPartsNext
<1>2. NoFailure /\ UNCHANGED <<rlast, rpc>> /\ xfail[n] = 0 /\ xfail'[n] = 0
  BY <1>1, FailuresGrow DEF NoFailure, repairVars
<1>3. (\A t : AskedOnce(t)) /\ \A t \in DOMAIN tasks : Owned(t)
  BY <1>1, <1>2, SuccessIsOwnedParts
<1>4. RepairsGrow /\ \A t : AskedFor(t) \subseteq AskedFor(t)'
  BY <1>1, ExecutorAppends, AskedForGrows
<1>5. xpc[n] = "plan" => AskedFor(Entry(n).task) = {} /\ xlast[n] < Len(execTasks[n])
  BY <1>1, <1>2, AskedForAtRecord DEF CoreInv, CursorInv, Busy
<1>6. ASSUME NEW t
      PROVE  AskedOnce(t)'
  <2>1. CASE AskedFor(t)' = AskedFor(t)
    BY <1>3, <2>1 DEF AskedOnce
  <2>2. CASE AskedFor(t)' # AskedFor(t)
    <3>1. AskedFor(t) = {}
      BY <1>1, <1>5, <2>2, AsksOnce
    <3>2. AskedFor(t)' \cap DOMAIN repairTasks = {}
      BY <1>4, <3>1 DEF RepairsGrow, AskedFor, Supported
    <3>3. AskedFor(t)' \subseteq DOMAIN repairTasks' \ DOMAIN repairTasks
      BY <3>2 DEF AskedFor
    <3>4. UNCHANGED repairTasks \/ DOMAIN repairTasks' \ DOMAIN repairTasks = {Len(repairTasks) + 1}
      BY <1>1, ExecutorAppends
    <3> QED
      BY <3>3, <3>4 DEF AskedOnce
  <2> QED
    BY <2>1, <2>2
<1>7. ASSUME NEW t \in DOMAIN tasks, tasks'[t].status = "SUCCEEDED"
      PROVE  OwnedByExecutor(t)' \/ OwnedByWorker(t)'
  <2>1. xlast[n] \in Nat /\ UNCHANGED execTasks
        /\ (\A m \in Nodes : m # n => xlast'[m] = xlast[m])
    BY <1>1, ExecutorFrame DEF ExecutionTypeOK, ExecutorTypeOK
(* Not written: who owned it, still does.                                  *)
  <2>2. CASE tasks'[t] = tasks[t] /\ OwnedByExecutor(t)
    <3>1. AskedFor(t)' = {}
      <4>1. SUFFICES ASSUME AskedFor(t)' # AskedFor(t)
                     PROVE  FALSE
        BY <2>2 DEF OwnedByExecutor
      <4>2. t = Entry(n).task /\ xlast[n] < Len(execTasks[n])
        BY <1>1, <1>5, <4>1, AsksOnce
      <4> QED
        BY <1>1, <2>2, <4>2, EntryNotBehind
    <3>2. PICK m \in Nodes, i \in Nat : i \in 1..xlast[m] /\ execTasks[m][i].task = t
      BY <2>2 DEF OwnedByExecutor
    <3>3. xlast[m] \in Nat /\ xlast'[m] \in {xlast[m], xlast[m] + 1}
      <4>1. xlast[m] \in Nat
        BY <1>1 DEF ExecutionTypeOK, ExecutorTypeOK
      <4>2. xfail'[n] # xfail[n] + 1
        BY <1>2
      <4>3. xlast'[n] \in {xlast[n], xlast[n] + 1}
        BY <1>1, <4>2, ExecutorLocals DEF Stays
      <4> QED
        BY <2>1, <4>1, <4>3
    <3>4. i \in 1..xlast'[m]
      BY <3>2, <3>3
    <3> QED
      BY <2>1, <3>1, <3>2, <3>4 DEF OwnedByExecutor
  <2>3. CASE tasks'[t] = tasks[t] /\ OwnedByWorker(t)
    <3>1. PICK i \in AskedFor(t) : Repaired(i)
      BY <2>3 DEF OwnedByWorker
    <3>2. i \in AskedFor(t)' /\ Repaired(i)'
      BY <1>2, <1>4, <3>1 DEF Repaired
    <3> QED
      BY <2>3, <3>2 DEF OwnedByWorker
(* Written as a success: by an executor without a failed leg.              *)
  <2>4. CASE tasks'[t] # tasks[t]
    <3>1. t = Entry(n).task /\ xlast[n] < Len(execTasks[n])
      BY <1>1, <2>4, RowWriter
    <3>2. RecordResult(n) /\ xpc[n] = "record"
      BY <1>1, <1>7, <2>4, <3>1, ExecutorRow, RowActions
    <3>3. ExecutionStatus(n) = "OPEN_HEDGED"
      <4> DEFINE lifecycle == IF ExecutionStatus(n) = "OPEN_HEDGED" THEN "SUCCEEDED" ELSE "FAILED"
                 execution == ExecutionStatus(n)
                 failed == FailedExchanges(n)
                 reason == RepairReason(n)
      <4>1. mark_execution_result(t, lifecycle, execution, failed, reason)
        BY <3>1, <3>2 DEF RecordResult
      <4>2. HasLegs(n)
        BY <3>2 DEF HasLegs
      <4>3. /\ lifecycle \in Statuses /\ failed \in SUBSET Exchanges
            /\ execution \in {"OPEN_HEDGED", "OPEN_PARTIAL"}
            /\ reason \in {"fully_hedged", "one_leg_failed"}
        BY <1>1, <4>2, ResultTypes DEF Statuses
      <4>4. TasksTypeOK
        BY <1>1 DEF ExecutionTypeOK, BusTypeOK
      <4> HIDE DEF lifecycle, execution, failed, reason
      <4>5. tasks'[t].status = lifecycle
        BY <4>1, <4>3, <4>4, MarkExecutionResultRow
      <4> QED
        BY <1>7, <4>5 DEF lifecycle, execution
    <3>4. AskedFor(t) = {}
      <4>1. FailedSides(n) = {}
        BY <3>3 DEF ExecutionStatus
      <4> QED
        BY <1>1, <1>2, <3>1, <4>1, AskedForAtRecord
    <3>5. AskedFor(t)' = {} /\ xlast'[n] = xlast[n] + 1
      <4>1. UNCHANGED repairTasks
        BY <3>2 DEF RecordResult, streamVars
      <4>2. xlast'[n] = xlast[n] + 1
        BY <1>1, <3>2, AdvanceDoes DEF RecordResult, ExecutionTypeOK
      <4> QED
        BY <3>4, <4>1, <4>2 DEF AskedFor, Supported
    <3>6. xlast[n] + 1 \in 1..xlast'[n] /\ execTasks'[n][xlast[n] + 1].task = t
      BY <2>1, <3>1, <3>5 DEF Entry
    <3> QED
      BY <3>5, <3>6 DEF OwnedByExecutor
  <2>5. tasks'[t] = tasks[t] => OwnedByExecutor(t) \/ OwnedByWorker(t)
    BY <1>3, <1>7 DEF Owned
  <2> QED
    BY <2>2, <2>3, <2>4, <2>5
<1>8. DOMAIN tasks' = DOMAIN tasks
  BY <1>1, RowWriter
<1> QED
  BY <1>6, <1>7, <1>8 DEF Owned

LEMMA WorkerSuccess ==
    ASSUME SettlementInv, RecordRepair, tasks'[REntry.task].status = "SUCCEEDED"
    PROVE  tasks'[REntry.task].repair_reason = "repair_succeeded" /\ rpc' = "report"
           /\ rlast' = rlast
<1> DEFINE T == REntry.task
           failed == {target_exchange}
<1>1. /\ TasksTypeOK /\ rpc' = "report" /\ rlast' = rlast
      /\ failed \in SUBSET Exchanges /\ {} \in SUBSET Exchanges
      /\ "SUCCEEDED" \in Statuses /\ "FAILED" \in Statuses
  BY REntryFacts
     DEF RecordRepair, RepairBusy, SettlementInv, CoreInv, ExecutionTypeOK, BusTypeOK, Statuses
<1>2. \/ mark_repair_result(T, "SUCCEEDED", "OPEN_HEDGED", {}, "repair_succeeded", None)
      \/ mark_repair_result(T, "FAILED", "OPEN_PARTIAL", failed, "one_leg_failed",
                            "manual_required")
  BY DEF RecordRepair
<1> HIDE DEF T, failed
<1>3. tasks'[T].repair_reason = "repair_succeeded" \/ tasks'[T].status = "FAILED"
  BY <1>1, <1>2, MarkRepairResultRow
<1> QED
  BY <1>1, <1>3 DEF T

LEMMA RepairedStays ==
    ASSUME SettlementInv, RepairNext, rfail' = rfail, NEW i \in Nat, Repaired(i)
    PROVE  Repaired(i)'
<1>1. rlast \in Nat /\ rfail' # rfail + 1
  BY DEF SettlementInv, RepairTypeOK
<1>2. rlast' \in {rlast, rlast + 1}
  BY <1>1 DEF RepairNext, RepairStep, StartRepair, PlaceRepairOrder, CloseRepairSession,
     RecordRepair, RecordFails, FinishRepair, IgnoreRepair, RepairRestart, RepairRaise,
     DatabaseError, RepairCrash
<1>3. rpc = "report" => rlast' = rlast + 1
  BY <1>1 DEF RepairNext, RepairStep, StartRepair, PlaceRepairOrder, CloseRepairSession,
     RecordRepair, RecordFails, FinishRepair, IgnoreRepair, RepairRestart, RepairRaise,
     DatabaseError, RepairCrash
<1>4. CASE i <= rlast
  <2>1. i <= rlast'
    BY <1>1, <1>2, <1>4
  <2> QED
    BY <2>1 DEF Repaired
<1>5. CASE i = rlast + 1 /\ rpc = "report"
  <2>1. i <= rlast'
    BY <1>1, <1>3, <1>5
  <2> QED
    BY <2>1 DEF Repaired
<1> QED
  BY <1>4, <1>5 DEF Repaired

LEMMA WorkerKeepsOwned ==
    ASSUME SettlementInv, SuccessIsOwned, RepairNext, UNCHANGED executorVars
    PROVE  SuccessIsOwned'
<1> SUFFICES ASSUME NoFailure'
             PROVE  (\A t : AskedOnce(t)') /\ \A t \in DOMAIN tasks' : Owned(t)'
  BY SuccessIsOwnedPartsNext
<1>1. rfail \in Nat /\ rlast \in Nat /\ repairTasks \in Seq(RepairEntry)
  BY DEF SettlementInv, RepairTypeOK, CoreInv, ExecutionTypeOK, BusTypeOK
<1>2. rfail' = rfail \/ rfail' = rfail + 1
  BY DEF RepairNext, RepairStep, StartRepair, IgnoreRepair, PlaceRepairOrder, RecordRepair,
     CloseRepairSession, RecordFails, FinishRepair, RepairRestart, RepairRaise, DatabaseError,
     RepairCrash
<1>3. NoFailure /\ rfail' = rfail
  BY <1>1, <1>2 DEF NoFailure, executorVars
<1>4. (\A t : AskedOnce(t)) /\ \A t \in DOMAIN tasks : Owned(t)
  BY <1>3, SuccessIsOwnedParts
<1>5. UNCHANGED <<execTasks, repairTasks, xlast>> /\ DOMAIN tasks' = DOMAIN tasks
  BY WorkerFrame, WorkerRow DEF executorVars
<1>6. \A t : AskedFor(t)' = AskedFor(t)
  BY <1>5 DEF AskedFor, Supported
<1>7. ASSUME NEW t \in DOMAIN tasks, tasks'[t].status = "SUCCEEDED"
      PROVE  OwnedByExecutor(t)' \/ OwnedByWorker(t)'
  <2>1. CASE tasks'[t] = tasks[t] /\ OwnedByExecutor(t)
    BY <1>5, <1>6, <2>1 DEF OwnedByExecutor
  <2>2. CASE tasks'[t] = tasks[t] /\ OwnedByWorker(t)
    <3>1. PICK i \in AskedFor(t) : Repaired(i)
      BY <2>2 DEF OwnedByWorker
    <3>2. i \in Nat
      BY <1>1 DEF AskedFor
    <3>3. Repaired(i)'
      BY <1>3, <3>1, <3>2, RepairedStays
    <3> QED
      BY <1>6, <2>2, <3>1, <3>3 DEF OwnedByWorker
  <2>3. CASE tasks'[t] # tasks[t]
    <3>1. RecordRepair /\ t = REntry.task
      BY <2>3, WorkerRow
    <3>2. PICK i \in AskedFor(t) : i = rlast + 1
      BY <3>1, REntryFacts DEF RecordRepair, RepairBusy, AskedFor
    <3>3. tasks'[t].repair_reason = "repair_succeeded" /\ rpc' = "report" /\ rlast' = rlast
      BY <1>7, <3>1, WorkerSuccess
    <3>4. i \in AskedFor(t)' /\ Repaired(i)'
      BY <1>6, <3>2, <3>3 DEF Repaired
    <3> QED
      BY <3>3, <3>4 DEF OwnedByWorker
  <2>4. tasks'[t] = tasks[t] => OwnedByExecutor(t) \/ OwnedByWorker(t)
    BY <1>4, <1>7 DEF Owned
  <2> QED
    BY <2>1, <2>2, <2>3, <2>4
<1> QED
  BY <1>4, <1>5, <1>6, <1>7 DEF Owned, AskedOnce

(* Feed, operators and other producers make no task succeed.               *)
LEMMA OutsideKeepsOwned ==
    ASSUME SuccessIsOwned, ExecutionTypeOK, UNCHANGED <<xfail, xlast, repairVars>>,
           \A t : AskedFor(t)' = AskedFor(t),
           \A m \in Nodes : \A i \in DOMAIN execTasks[m] : execTasks'[m][i] = execTasks[m][i],
           \A t \in DOMAIN tasks' : tasks'[t].status = "SUCCEEDED" =>
                t \in DOMAIN tasks /\ tasks'[t] = tasks[t]
    PROVE  SuccessIsOwned'
<1> SUFFICES ASSUME NoFailure'
             PROVE  (\A t : AskedOnce(t)') /\ \A t \in DOMAIN tasks' : Owned(t)'
  BY SuccessIsOwnedPartsNext
<1>1. NoFailure /\ UNCHANGED <<rlast, rpc>>
  BY DEF NoFailure, repairVars
<1>2. (\A t : AskedOnce(t)) /\ \A t \in DOMAIN tasks : Owned(t)
  BY <1>1, SuccessIsOwnedParts
<1>3. ASSUME NEW t, OwnedByExecutor(t)
      PROVE  OwnedByExecutor(t)'
  <2>1. PICK m \in Nodes, i \in Nat : i \in 1..xlast[m] /\ execTasks[m][i].task = t
    BY <1>3 DEF OwnedByExecutor
  <2>2. i \in DOMAIN execTasks[m]
    <3>1. execTasks[m] \in Seq(ExecEntry) /\ xlast[m] \in Nat /\ xlast[m] <= Len(execTasks[m])
      BY DEF ExecutionTypeOK, BusTypeOK, ExecutorTypeOK
    <3> QED
      BY <2>1, <3>1
  <2>3. i \in 1..xlast'[m] /\ execTasks'[m][i].task = t
    BY <2>1, <2>2
  <2> QED
    BY <1>3, <2>3 DEF OwnedByExecutor
<1>4. ASSUME NEW t \in DOMAIN tasks', tasks'[t].status = "SUCCEEDED"
      PROVE  OwnedByExecutor(t)' \/ OwnedByWorker(t)'
  <2>1. OwnedByExecutor(t) \/ OwnedByWorker(t)
    BY <1>2, <1>4 DEF Owned
  <2>2. OwnedByWorker(t) => OwnedByWorker(t)'
    BY <1>1, <1>4 DEF OwnedByWorker, Repaired
  <2> QED
    BY <1>3, <2>1, <2>2
<1> QED
  BY <1>2, <1>4 DEF Owned, AskedOnce

LEMMA SuccessIsOwnedStep ==
    ASSUME SettlementInv, TradeInv, [SettlementNext]_settlementVars
    PROVE  SuccessIsOwned'
<1>1. ExecutionTypeOK /\ SuccessIsOwned
  BY DEF SettlementInv, CoreInv, TradeInv
<1>2. ASSUME NEW n \in Nodes, AnyStep(n), UNCHANGED repairVars
      PROVE  SuccessIsOwned'
  BY <1>2, ExecutorKeepsOwned
<1>3. CASE RepairNext /\ UNCHANGED executorVars
  BY <1>1, <1>3, WorkerKeepsOwned
<1>4. CASE OutsideStep /\ UNCHANGED repairVars
  <2>1. UNCHANGED <<repairTasks, xfail, xlast>>
    BY <1>1, <1>4, OutsideStreams DEF OutsideStep, executorVars
  <2>2. \A t : AskedFor(t)' = AskedFor(t)
    BY <2>1 DEF AskedFor, Supported
  <2>3. \A m \in Nodes : \A i \in DOMAIN execTasks[m] : execTasks'[m][i] = execTasks[m][i]
    BY <1>1, <1>4, OutsideEntries
  <2>4. ASSUME NEW t \in DOMAIN tasks', tasks'[t].status = "SUCCEEDED"
        PROVE  t \in DOMAIN tasks /\ tasks'[t] = tasks[t]
    BY <1>1, <1>4, <2>4, OutsideRows
  <2> QED
    BY <1>1, <1>4, <2>1, <2>2, <2>3, <2>4, OutsideKeepsOwned
<1>5. CASE OtherProducer /\ UNCHANGED <<executorVars, repairVars>>
  <2>1. UNCHANGED <<tasks, execTasks, xfail, xlast>>
    BY <1>5 DEF OtherProducer, executorVars
  <2>2. \A t : AskedFor(t)' = AskedFor(t)
    BY <1>5, ProducerAsksNothing
  <2> QED
    BY <1>1, <1>5, <2>1, <2>2, OutsideKeepsOwned
<1> QED
  BY <1>2, <1>3, <1>4, <1>5 DEF SettlementNext, ExecutorNext, AnyStep, OutsideStep, settlementVars

LEMMA TradeInvInit == ASSUME SettlementInit PROVE TradeInv
<1>1. /\ repairTasks = <<>> /\ repairs = NoOrders /\ orders = NoOrders /\ DOMAIN tasks = {}
      /\ execTasks = [n \in Nodes |-> <<>>]
  BY DEF SettlementInit, BusInit, EmptyBus, TasksInit
<1>2. SupportedSent /\ OrdersWereAsked /\ RepairsComeLast
  BY <1>1 DEF SupportedSent, OrdersWereAsked, NoOrders, RepairsComeLast
<1>3. SuccessIsOwned
  BY <1>1 DEF SuccessIsOwned
<1> QED
  BY <1>2, <1>3 DEF TradeInv

LEMMA TradeInvStep ==
    ASSUME SettlementInv, RecordsInv, TradeInv, [SettlementNext]_settlementVars
    PROVE  TradeInv'
<1>1. SupportedSent' /\ OrdersWereAsked'
  BY SupportedSentStep, OrdersWereAskedStep DEF TradeInv
<1>2. RepairsComeLast'
  BY RepairsComeLastStep DEF TradeInv
<1> QED
  BY <1>1, <1>2, SuccessIsOwnedStep DEF TradeInv

LEMMA TradeInvariant == SettlementSpec => []TradeInv
<1>1. SettlementInit => TradeInv
  BY TradeInvInit
<1>2. SettlementInv /\ RecordsInv /\ TradeInv /\ [SettlementNext]_settlementVars => TradeInv'
  BY TradeInvStep
<1> QED
  BY <1>1, <1>2, SettlementInvariant, RecordsInvariant, PTL DEF SettlementSpec

-----------------------------------------------------------------------------
(* A success is written over by a late dispatcher, or by the executor that *)
(* comes to record a partial open after its repair.                        *)
LEMMA SettledStep ==
    ASSUME SettlementInv, TradeInv, [SettlementNext]_settlementVars, NoFailure,
           NEW t \in DOMAIN tasks, tasks[t].status = "SUCCEEDED", tasks'[t] # tasks[t]
    PROVE  \/ ~tasks[t].dispatched_at /\ tasks'[t].dispatched_at
           \/ /\ tasks[t].repair_reason = "repair_succeeded"
              /\ \E n \in Nodes : xpc[n] = "record" /\ Entry(n).task = t
<1>1. /\ CoreInv /\ ExecutionTypeOK /\ RepairsComeLast
      /\ rlast \in Nat /\ AskedOnce(t) /\ (OwnedByExecutor(t) \/ OwnedByWorker(t))
  BY SuccessIsOwnedParts DEF SettlementInv, CoreInv, RepairTypeOK, TradeInv, Owned
<1>2. ASSUME NEW n \in Nodes, AnyStep(n)
      PROVE  /\ tasks[t].repair_reason = "repair_succeeded"
             /\ xpc[n] = "record" /\ Entry(n).task = t
  <2>1. t = Entry(n).task /\ xlast[n] < Len(execTasks[n]) /\ xfail[n] = 0
    BY <1>1, <1>2, RowWriter DEF NoFailure
  <2>2. OwnedByWorker(t)
    BY <1>1, <2>1, EntryNotBehind
  <2>3. xpc[n] = "record"
    BY <1>1, <2>1, <2>2, AskedForAtRecord DEF OwnedByWorker
  <2> QED
    BY <2>1, <2>2, <2>3 DEF OwnedByWorker
<1>3. CASE RepairNext
  <2>1. RecordRepair /\ t = REntry.task
    BY <1>3, WorkerRow
  <2>2. rlast + 1 \in AskedFor(t) /\ rpc = "record"
    BY <2>1, REntryFacts DEF RecordRepair, RepairBusy, AskedFor
  <2>3. PICK i \in AskedFor(t) : Repaired(i)
    BY <1>1, <2>2 DEF OwnedByExecutor, OwnedByWorker
  <2>4. i = rlast + 1
    BY <1>1, <2>2, <2>3 DEF AskedOnce
  <2> QED
    BY <1>1, <2>2, <2>3, <2>4 DEF Repaired
<1>4. CASE OutsideStep
  BY <1>1, <1>4, OutsideRows
<1>5. CASE OtherProducer
  BY <1>5 DEF OtherProducer
<1> QED
  BY <1>2, <1>3, <1>4, <1>5 DEF SettlementNext, ExecutorNext, AnyStep, OutsideStep, settlementVars

(* Executors, repair worker and dispatcher write the rows without asking   *)
(* what they say: while nothing fails, success gets lost in two races      *)
(* only, for any number of executors, tasks, entries and operators.        *)
THEOREM SuccessesSettled == SettlementSpec => SucceededIsSettled
<1>1. SettlementInv /\ TradeInv /\ [SettlementNext]_settlementVars =>
          [\A t \in DOMAIN tasks :
              NoFailure /\ tasks[t].status = "SUCCEEDED" /\ tasks'[t] # tasks[t] =>
                  \/ ~tasks[t].dispatched_at /\ tasks'[t].dispatched_at
                  \/ /\ tasks[t].repair_reason = "repair_succeeded"
                     /\ \E n \in Nodes : xpc[n] = "record" /\ Entry(n).task = t]_tasks
  BY SettledStep
<1> QED
  BY <1>1, SettlementInvariant, TradeInvariant, PTL DEF SettlementSpec, SucceededIsSettled

LEMMA BlockedIsUntraded == ASSUME RecordsInv, TradeInv PROVE BlockedIsOutOfMarket
<1> SUFFICES ASSUME NEW t \in DOMAIN tasks, tasks[t].status = "BLOCKED",
                    \A n \in Nodes : \A i \in DOMAIN execTasks[n] :
                        execTasks[n][i].task = t => xfail[n] = 0,
                    NEW e \in Exchanges, NEW side \in Sides
             PROVE  orders[<<t, e, side>>] = 0 /\ repairs[<<t, e, side>>] = 0
  <2>1. \A n \in Nodes : xfail[n] \in Nat
    BY ExecutorAssumption DEF RecordsInv, CoreInv, ExecutionTypeOK, ExecutorTypeOK,
       ExecutorAssumption
  <2> QED
    BY <2>1 DEF BlockedIsOutOfMarket
<1>1. t \in TaskIds
  BY DEF RecordsInv, CoreInv, ExecutionTypeOK, BusTypeOK, TasksTypeOK
<1>2. CASE Published(t)
  <2>1. PICK n \in Nodes : \E i \in DOMAIN execTasks[n] : execTasks[n][i].task = t
    BY <1>2 DEF Published
  <2>2. PICK i \in DOMAIN execTasks[n] : execTasks[n][i].task = t
    BY <2>1
  <2>3. xfail[n] = 0
    BY <2>2
  <2>4. orders[<<t, e, side>>] = 0
    BY <2>2, <2>3 DEF RecordsInv, BlockedMeansUntraded
  <2>5. AskedFor(t) = {}
    BY <2>2, <2>3 DEF TradeInv, RepairsComeLast
  <2> QED
    BY <1>1, <2>4, <2>5 DEF TradeInv, OrdersWereAsked
<1>3. CASE ~Published(t)
  <2>1. AskedFor(t) = {}
    BY <1>3 DEF TradeInv, SupportedSent, AskedFor
  <2> QED
    BY <1>1, <1>3, <2>1 DEF TradeInv, OrdersWereAsked
<1> QED
  BY <1>2, <1>3

(* A task whose row says BLOCKED has neither orders nor repair orders,     *)
(* unless its own executor failed, whatever happened to the other workers. *)
THEOREM BlockedTasksOutOfMarket == SettlementSpec => []BlockedIsOutOfMarket
<1>1. RecordsInv /\ TradeInv => BlockedIsOutOfMarket
  BY BlockedIsUntraded
<1> QED
  BY <1>1, RecordsInvariant, TradeInvariant, PTL

-----------------------------------------------------------------------------
(* The pipeline: with the dispatcher in place of TaskFeed.                 *)
(* Every step around executors and repair worker is one TaskFeed allows    *)
(* when it may send what the dispatcher sends.                             *)
LEMMA FeedIsSurroundings ==
    ASSUME FeedEntries = ExecEntry, Feed!Surroundings
    PROVE  Surroundings
<1> USE DEF streamVars, adminVars, orderVars, Feed!streamVars, Feed!adminVars, Feed!orderVars
<1>1. CASE Feed!FeedCreate
  BY <1>1 DEF Surroundings, FeedNext, Feed!FeedCreate, FeedCreate, Feed!create_task, create_task,
     NewRow, Feed!NewRow, None, Feed!None
<1>2. CASE Feed!FeedBlock
  BY <1>2 DEF Surroundings, FeedNext, Feed!FeedBlock, FeedBlock, Feed!Published, Published,
     Feed!mark_blocked, mark_blocked
<1>3. CASE Feed!FeedPublish
  BY <1>3 DEF Surroundings, FeedNext, Feed!FeedPublish, FeedPublish, Feed!Published, Published
<1>4. CASE Feed!FeedMarkDispatched
  BY <1>4 DEF Surroundings, FeedNext, Feed!FeedMarkDispatched, FeedMarkDispatched,
     Feed!Published, Published, Feed!mark_dispatched, mark_dispatched
<1>5. CASE Feed!PublishOpportunity
  BY <1>5 DEF Surroundings, Feed!PublishOpportunity, PublishOpportunity
<1>6. CASE Feed!Admin
  BY <1>6 DEF Surroundings, Feed!Admin, Feed!SetLimit, Feed!SetRoute, Feed!ToggleAccount,
     Feed!AdminChange, Admin, SetLimit, SetRoute, ToggleAccount, AdminChange
<1> QED
  BY <1>1, <1>2, <1>3, <1>4, <1>5, <1>6 DEF Feed!Surroundings, Feed!FeedNext

LEMMA DispatcherIsFeed ==
    ASSUME FeederInv, DispatcherNext
    PROVE  Surroundings \/ UNCHANGED busVars
<1>1. DatabaseEnabled /\ FeedEntries = ExecEntry
  BY PipelineAssumption DEF PipelineAssumption
<1>2. [Feed!Surroundings]_busVars
  BY <1>1, FeedStep DEF DispatchNext
<1> QED
  BY <1>1, <1>2, FeedIsSurroundings

LEMMA PipelineSteps ==
    ASSUME FeederInv, [PipelineNext]_pipelineVars
    PROVE  [SettlementNext]_settlementVars
<1>1. CASE DispatcherNext /\ UNCHANGED <<executorVars, repairVars>>
  BY <1>1, DispatcherIsFeed DEF SettlementNext, settlementVars
<1>2. CASE ExecutorNext /\ UNCHANGED <<dispatcherVars, repairVars>>
  BY <1>2 DEF SettlementNext
<1>3. CASE RepairNext /\ UNCHANGED <<dispatcherVars, executorVars>>
  BY <1>3 DEF SettlementNext
<1>4. CASE /\ PublishOpportunity \/ Admin \/ OtherProducer
           /\ UNCHANGED <<dispatcherVars, executorVars, repairVars>>
  BY <1>4 DEF SettlementNext, Surroundings
<1>5. CASE UNCHANGED pipelineVars
  BY <1>5 DEF pipelineVars, settlementVars
<1> QED
  BY <1>1, <1>2, <1>3, <1>4, <1>5 DEF PipelineNext

(* The dispatcher's invariant bears the other writers of its rows: they    *)
(* create none, touch only those that are on a stream, and never clear or  *)
(* set dispatched_at.                                                      *)
LEMMA FeederUnderWriters ==
    ASSUME FeederInv, BusTypeOK', UNCHANGED <<dispatcherVars, opps, execTasks>>,
           DOMAIN tasks' = DOMAIN tasks,
           \A t \in DOMAIN tasks : tasks'[t] # tasks[t] =>
               Published(t) /\ tasks'[t].dispatched_at = tasks[t].dispatched_at
    PROVE  FeederInv'
<1>1. /\ UNCHANGED <<dpc, dlast, dusers, duser, dnode, dbinding, dstrats, damount, dfail>>
      /\ job' = job
  BY DEF dispatcherVars, job, strategy
<1>2. DispatchTypeOK' /\ CursorOK'
  BY <1>1 DEF FeederInv, DispatchTypeOK, DispatcherTypeOK, CursorOK
<1>3. \A t : Published(t)' = Published(t)
  BY DEF Published
<1>4. JobPhase'
  <2> SUFFICES ASSUME DatabaseEnabled
               PROVE  /\ dpc \in {"guard", "blocked", "publish", "mark"} =>
                            job \in DOMAIN tasks /\ ~tasks'[job].dispatched_at
                      /\ dpc \in {"guard", "blocked", "publish"} =>
                            tasks'[job].status = "CREATED" /\ ~Published(job)
                      /\ dpc = "mark" => Published(job)
    BY <1>1, <1>3 DEF JobPhase, Published
  <2>1. JobPhase
    BY DEF FeederInv
  <2> HIDE DEF job, Published
  <2> QED
    BY <2>1 DEF JobPhase
<1>5. NoDatabaseNoRows' /\ AtMostOnePublication' /\ PublishedTaskHasRow'
  BY DEF FeederInv, NoDatabaseNoRows, AtMostOnePublication, PublishedTaskHasRow
<1> QED
  BY <1>2, <1>4, <1>5 DEF FeederInv

PipelineInv ==
    /\ FeederInv
    /\ SettlementInv /\ AttemptsInv
    /\ SupportedSent

LEMMA ExecutorKeepsFeeder ==
    ASSUME PipelineInv, SettlementInv', NEW n \in Nodes, AnyStep(n), UNCHANGED dispatcherVars
    PROVE  FeederInv'
<1>1. CoreInv /\ ExecutionTypeOK /\ FeederInv /\ BusTypeOK'
  BY DEF PipelineInv, SettlementInv, CoreInv, ExecutionTypeOK
<1>2. UNCHANGED <<opps, execTasks>>
  BY <1>1, ExecutorFrame
<1>3. DOMAIN tasks' = DOMAIN tasks
  BY <1>1, RowWriter
<1>4. \A t \in DOMAIN tasks : tasks'[t] # tasks[t] =>
          Published(t) /\ tasks'[t].dispatched_at = tasks[t].dispatched_at
  BY <1>1, RowWriter, EntryIsPublished
<1> QED
  BY <1>1, <1>2, <1>3, <1>4, FeederUnderWriters

LEMMA WorkerKeepsFeeder ==
    ASSUME PipelineInv, SettlementInv', RepairNext, UNCHANGED dispatcherVars
    PROVE  FeederInv'
<1>1. SettlementInv /\ FeederInv /\ SupportedSent /\ BusTypeOK'
  BY DEF PipelineInv, SettlementInv, CoreInv, ExecutionTypeOK
<1>2. UNCHANGED <<opps, execTasks>>
  BY WorkerFrame
<1>3. RecordRepair => Published(REntry.task)
  BY <1>1, REntryFacts DEF RecordRepair, RepairBusy, SupportedSent
<1>4. \A t \in DOMAIN tasks : tasks'[t] # tasks[t] =>
          Published(t) /\ tasks'[t].dispatched_at = tasks[t].dispatched_at
  BY <1>1, <1>3, WorkerRow
<1> QED
  BY <1>1, <1>2, <1>4, WorkerRow, FeederUnderWriters

LEMMA PipelineInvStep ==
    ASSUME PipelineInv, [PipelineNext]_pipelineVars
    PROVE  PipelineInv'
<1>1. FeederInv /\ SettlementInv /\ AttemptsInv /\ SupportedSent
  BY DEF PipelineInv
<1>2. SettlementInv' /\ AttemptsInv' /\ SupportedSent'
  BY <1>1, PipelineSteps, SettlementInvStep, SupportedSentStep
<1>3. FeederInv'
  <2>1. CASE \/ DispatcherNext
             \/ (PublishOpportunity \/ Admin) /\ UNCHANGED dispatcherVars
             \/ UNCHANGED pipelineVars
    <3>1. [DispatchNext]_dispatchVars
      BY <2>1 DEF DispatchNext, dispatchVars, pipelineVars
    <3> QED
      BY <1>1, <3>1, FeederInvNext
  <2>2. CASE ExecutorNext /\ UNCHANGED dispatcherVars
    <3>1. PICK n \in Nodes : AnyStep(n)
      BY <2>2 DEF ExecutorNext, AnyStep
    <3> QED
      BY <1>2, <2>2, <3>1, ExecutorKeepsFeeder
  <2>3. CASE RepairNext /\ UNCHANGED dispatcherVars
    BY <1>2, <2>3, WorkerKeepsFeeder
  <2>4. CASE OtherProducer /\ UNCHANGED dispatcherVars
    <3>1. BusTypeOK' /\ UNCHANGED <<tasks, opps, execTasks>>
      BY <1>2, <2>4 DEF SettlementInv, CoreInv, ExecutionTypeOK, OtherProducer
    <3> QED
      BY <1>1, <2>4, <3>1, FeederUnderWriters
  <2> QED
    BY <2>1, <2>2, <2>3, <2>4 DEF PipelineNext
<1> QED
  BY <1>2, <1>3 DEF PipelineInv

LEMMA PipelineInvInit == ASSUME PipelineInit PROVE PipelineInv
<1>1. FeederInv
  BY DispatchInvInit DEF PipelineInit, DispatchInit, DispatchInv
<1>2. SettlementInv /\ AttemptsInv
  BY SettlementInvInit DEF PipelineInit, SettlementInit
<1>3. SupportedSent
  BY DEF PipelineInit, BusInit, EmptyBus, SupportedSent
<1> QED
  BY <1>1, <1>2, <1>3 DEF PipelineInv

LEMMA PipelineInvariant == PipelineSpec => []PipelineInv
BY PipelineInvInit, PipelineInvStep, PTL DEF PipelineSpec

(* The workers of the pipeline keep what they promise behind TaskFeed,     *)
(* although they write rows the dispatcher still has to mark: for any      *)
(* users, strategies, nodes, entries, outcomes and numbers of failures.    *)
THEOREM PipelineImplementsSettlement == PipelineSpec => ImplementsSettlement
<1>1. PipelineInit => SettlementInit
  BY DEF PipelineInit, SettlementInit
<1>2. PipelineInv /\ [PipelineNext]_pipelineVars => [SettlementNext]_settlementVars
  BY PipelineSteps DEF PipelineInv
<1> QED
  BY <1>1, <1>2, PipelineInvariant, PTL DEF PipelineSpec, ImplementsSettlement, SettlementSpec

(* What the dispatcher promises about the streams holds with the executors *)
(* and the repair worker behind it: a task stands at one place of one node *)
(* stream only, and has its row.                                           *)
THEOREM PipelineStreams == PipelineSpec => [](AtMostOnePublication /\ PublishedTaskHasRow)
<1>1. PipelineInv => AtMostOnePublication /\ PublishedTaskHasRow
  BY DEF PipelineInv, FeederInv
<1> QED
  BY <1>1, PipelineInvariant, PTL

(* A partial open in the table has its repair task, in the whole pipeline. *)
THEOREM PipelinePartialsRepaired == PipelineSpec => []PartialHasRepairTask
<1>1. RecordsInv => PartialHasRepairTask
  BY DEF RecordsInv
<1> QED
  BY <1>1, RecordsInvariant, PipelineImplementsSettlement, PTL DEF ImplementsSettlement

(* And one that is called fully hedged has a buy and a sell order.         *)
THEOREM PipelineHedgesAreReal == PipelineSpec => []FullyHedgedHasBothLegs
<1>1. RecordsInv => FullyHedgedHasBothLegs
  BY DEF RecordsInv
<1> QED
  BY <1>1, RecordsInvariant, PipelineImplementsSettlement, PTL DEF ImplementsSettlement

(* So do the promises about failures: no cursor, of an executor or of the  *)
(* repair worker, passes a task without an outcome, orders repeat only as  *)
(* often as their worker failed, and a task that is blocked has none.      *)
THEOREM PipelineOutcomes ==
    PipelineSpec => [](/\ OutcomeBeforeAck /\ RepairOutcomeBeforeAck
                       /\ ReexecutionNeedsFailure /\ RepairAttemptsCounted
                       /\ BlockedMeansUntraded)
<1>1. RecordsInv => OutcomeBeforeAck /\ ReexecutionNeedsFailure /\ BlockedMeansUntraded
  BY CountedOrders DEF RecordsInv
<1> QED
  BY <1>1, RecordsInvariant, RepairOutcomesBeforeAcks, RepairsAreCounted,
     PipelineImplementsSettlement, PTL DEF ImplementsSettlement

(* Successes get lost in the same two races only, of which the dispatcher  *)
(* is now really one.                                                      *)
THEOREM PipelineSuccessesSettled == PipelineSpec => SucceededIsSettled
BY SuccessesSettled, PipelineImplementsSettlement, PTL DEF ImplementsSettlement

(* And blocked tasks are out of the market.                                *)
THEOREM PipelineBlockedOutOfMarket == PipelineSpec => []BlockedIsOutOfMarket
BY BlockedTasksOutOfMarket, PipelineImplementsSettlement, PTL DEF ImplementsSettlement

-----------------------------------------------------------------------------
(* From the opportunity to the exchange.  The task was made from a message *)
(* of the stream, for a trading user and a strategy of that user's which   *)
(* the message matches; the exchange is one of the message's, and the user *)
(* has an account there.                                                   *)
MadeFrom(u, o, id) ==
    /\ u \in TradingUsers
    /\ \E s \in StrategyConfigs : s.id = id /\ s.user_id = u /\ _matches_strategy(o, s)

AccountAt(u, e) == \E a \in Accounts : a.user = u /\ a.exchange = e

Follows(t, e) ==
    /\ t[2] \in DOMAIN opps
    /\ MadeFrom(t[1], opps[t[2]], t[3])
    /\ e \in {opps[t[2]].buy_exchange, opps[t[2]].sell_exchange}
    /\ AccountAt(t[1], e)

(* The same at every station on the way: the dispatcher's loops, the node  *)
(* streams, the legs, the repair stream and the orders.                    *)
LoopsFollow ==
    /\ dusers \subseteq TradingUsers
    /\ dpc \notin {"read", "down", "user"} =>
          \A id \in dstrats : MadeFrom(duser, opportunity, id)
EntriesFollow ==
    \A n \in Nodes : \A i \in DOMAIN execTasks[n] :
        LET e == execTasks[n][i]
        IN  Follows(e.task, e.buy_exchange) /\ Follows(e.task, e.sell_exchange)
LegsFollow ==
    \A n \in Nodes : HasLegs(n) =>
        \A side \in Sides : Follows(Entry(n).task, Leg(n, side).exchange)
RepairsFollow ==
    \A i \in DOMAIN repairTasks :
        Supported(repairTasks[i]) =>
            Follows(repairTasks[i].task, repairTasks[i].target_exchanges[1])
OrdersFollow ==
    \A k \in TaskIds \X Exchanges \X Sides : orders[k] # 0 \/ repairs[k] # 0 => Follows(k[1], k[2])

FollowsInv ==
    /\ BindingInv
    /\ LoopsFollow /\ EntriesFollow /\ LegsFollow /\ RepairsFollow /\ OrdersFollow

(* Messages stay where they are on stream:spot_opps.                       *)
OppsGrow == \A m \in DOMAIN opps : m \in DOMAIN opps' /\ opps'[m] = opps[m]

LEMMA FollowsStay ==
    ASSUME OppsGrow, NEW t, NEW e, Follows(t, e)
    PROVE  Follows(t, e)'
BY DEF OppsGrow, Follows, MadeFrom

LEMMA PipelineOppsGrow ==
    ASSUME PipelineInv, [PipelineNext]_pipelineVars
    PROVE  OppsGrow
<1>1. FeederInv /\ ExecutionTypeOK
  BY DEF PipelineInv, SettlementInv, CoreInv
<1>2. CASE \/ DispatcherNext
           \/ (PublishOpportunity \/ Admin) /\ UNCHANGED dispatcherVars
           \/ UNCHANGED pipelineVars
  <2>1. [DispatchNext]_dispatchVars
    BY <1>2 DEF DispatchNext, dispatchVars, pipelineVars
  <2> QED
    BY <1>1, <2>1, StreamsGrow DEF OppsGrow
<1>3. CASE ExecutorNext
  <2>1. PICK n \in Nodes : AnyStep(n)
    BY <1>3 DEF ExecutorNext, AnyStep
  <2> QED
    BY <1>1, <2>1, ExecutorFrame DEF OppsGrow
<1>4. CASE RepairNext \/ OtherProducer
  <2>1. UNCHANGED opps
    BY <1>4, WorkerFrame DEF OtherProducer
  <2> QED
    BY <2>1 DEF OppsGrow
<1> QED
  BY <1>2, <1>3, <1>4 DEF PipelineNext

(* The dispatcher: a user in hand trades, and so do those still to come;   *)
(* the strategies in hand match the message in hand.                       *)
LEMMA LoopsKeepFollowing ==
    ASSUME FeederInv, LoopsFollow, OppsGrow, [DispatchNext]_dispatchVars
    PROVE  LoopsFollow'
<1>0. DatabaseEnabled
  BY PipelineAssumption DEF PipelineAssumption
<1>1. /\ opps \in Seq(Opportunities) /\ dlast \in Nat
      /\ dpc \notin {"read", "down"} => dlast + 1 \in DOMAIN opps
  BY DEF FeederInv, DispatchTypeOK, BusTypeOK, DispatcherTypeOK, CursorOK
<1>2. dpc \notin {"read", "down"} /\ dlast' = dlast => opportunity' = opportunity
  BY <1>1 DEF opportunity, OppsGrow
<1>3. CASE ReadOpportunity
  BY <1>0, <1>3 DEF ReadOpportunity, LoopsFollow, _resolve_candidate_user_ids,
     list_dispatchable_user_ids
<1>4. CASE SkipUser \/ UserDone \/ AckOpportunity \/ DispatcherRestart
  BY <1>4 DEF SkipUser, UserDone, AckOpportunity, DispatcherRestart, LoopsFollow
<1>5. CASE DuplicateTask \/ DispatcherCrash
  BY <1>5 DEF DuplicateTask, DispatcherCrash, Die, LoopsFollow
<1>6. CASE TakeUser
  <2> DEFINE u == First(dusers)
  <2>1. /\ duser' = u /\ dusers' = dusers \ {u} /\ dlast' = dlast /\ dpc = "user" /\ dusers # {}
        /\ dstrats' = _iter_matching_strategies(u, opportunity)
    BY <1>6 DEF TakeUser
  <2>2. u \in TradingUsers
    <3>1. dusers \subseteq Nat
      BY BusAssumption DEF BusAssumption, FeederInv, DispatchTypeOK, DispatcherTypeOK
    <3>2. u \in dusers
      BY <2>1, <3>1, LeastExists
    <3> QED
      BY <3>2 DEF LoopsFollow
  <2> HIDE DEF u
  <2>3. \A id \in dstrats' : MadeFrom(u, opportunity, id)
    BY <1>0, <2>1, <2>2 DEF _iter_matching_strategies, StrategiesOf, MadeFrom
  <2>4. opportunity' = opportunity
    BY <1>2, <2>1
  <2> QED
    BY <2>1, <2>3, <2>4 DEF LoopsFollow, MadeFrom
<1>7. CASE \/ CreateTask \/ EvaluateGuard \/ MarkBlocked \/ PublishTask \/ MarkDispatched
           \/ UNCHANGED dispatcherVars
  <2>1. /\ dlast' = dlast /\ duser' = duser /\ dusers' = dusers /\ dstrats' \subseteq dstrats
        /\ dpc' \notin {"read", "down", "user"} => dpc \notin {"read", "down", "user"}
    BY <1>7 DEF CreateTask, EvaluateGuard, MarkBlocked, PublishTask, MarkDispatched, dispatcherVars
  <2> QED
    BY <1>2, <2>1 DEF LoopsFollow, MadeFrom
<1> QED
  BY <1>3, <1>4, <1>5, <1>6, <1>7 DEF DispatchNext, DispatcherNext, DispatcherStep, dispatchVars

LEMMA EntriesKeepFollowing ==
    ASSUME FeederInv, BindingInv, LoopsFollow, EntriesFollow, OppsGrow,
           [DispatchNext]_dispatchVars
    PROVE  EntriesFollow'
<1> SUFFICES ASSUME NEW n \in Nodes, NEW i \in DOMAIN execTasks'[n],
                    NEW e, e = execTasks'[n][i]
             PROVE  Follows(e.task, e.buy_exchange)' /\ Follows(e.task, e.sell_exchange)'
  BY DEF EntriesFollow, Follows
<1>1. CASE i \in DOMAIN execTasks[n] /\ e = execTasks[n][i]
  BY <1>1, FollowsStay DEF EntriesFollow
<1>2. CASE PublishTask /\ e = NewEntry
  <2>1. DatabaseEnabled /\ dpc = "publish"
    BY <1>2, PipelineAssumption DEF PipelineAssumption, PublishTask
  <2>2. /\ OwnAccounts(duser, opportunity, dbinding)
        /\ MadeFrom(duser, opportunity, strategy)
        /\ dlast + 1 \in DOMAIN opps /\ opportunity = opps[dlast + 1]
    <3>1. dlast \in Nat /\ opps \in Seq(Opportunities) /\ dlast < Len(opps)
      BY <2>1 DEF FeederInv, DispatchTypeOK, BusTypeOK, DispatcherTypeOK, CursorOK
    <3>2. strategy \in dstrats
      BY <2>1, JobType DEF FeederInv, CursorOK
    <3> QED
      BY <2>1, <3>1, <3>2 DEF BindingInv, LoopsFollow, opportunity
  <2>3. /\ e.task = <<duser, dlast + 1, strategy>>
        /\ e.buy_exchange = opportunity.buy_exchange
        /\ e.sell_exchange = opportunity.sell_exchange
    BY <1>2 DEF NewEntry, job
  <2>4. /\ AccountAt(duser, opportunity.buy_exchange)
        /\ AccountAt(duser, opportunity.sell_exchange)
    BY <2>2 DEF OwnAccounts, AccountAt
  <2>5. Follows(e.task, e.buy_exchange) /\ Follows(e.task, e.sell_exchange)
    BY <2>2, <2>3, <2>4 DEF Follows
  <2> QED
    BY <2>5, FollowsStay
<1> QED
  BY <1>1, <1>2, StreamsGrow, PublishedEntries

LEMMA OthersKeepLoops ==
    ASSUME BindingInv, LoopsFollow, EntriesFollow, UNCHANGED <<dispatcherVars, opps, execTasks>>
    PROVE  BindingInv' /\ LoopsFollow' /\ EntriesFollow'
<1>1. UNCHANGED <<dpc, dlast, dusers, duser, dbinding, dstrats>> /\ opportunity' = opportunity
  BY DEF dispatcherVars, opportunity
<1>2. BindingInv'
  BY <1>1 DEF BindingInv
<1>3. LoopsFollow'
  BY <1>1 DEF LoopsFollow, MadeFrom
<1>4. EntriesFollow'
  <2>1. \A t, e : Follows(t, e)' <=> Follows(t, e)
    BY DEF Follows, MadeFrom, AccountAt
  <2> QED
    BY <2>1 DEF EntriesFollow
<1> QED
  BY <1>2, <1>3, <1>4

(* The executor: legs are put on exchanges of the entry, orders where the  *)
(* legs are, and the targets of a repair are exchanges of failed legs.     *)
LEMMA LegsKeepFollowing ==
    ASSUME CoreInv, EntriesFollow, LegsFollow, OppsGrow, NEW n \in Nodes, AnyStep(n)
    PROVE  LegsFollow'
<1>1. ExecutionTypeOK /\ CursorInv
  BY DEF CoreInv
<1>2. /\ UNCHANGED execTasks
      /\ \A m \in Nodes : m # n => /\ xpc'[m] = xpc[m] /\ xlast'[m] = xlast[m]
                                   /\ xlegs'[m] = xlegs[m]
  BY <1>1, ExecutorFrame
<1> SUFFICES ASSUME NEW m \in Nodes, HasLegs(m)', NEW side \in Sides
             PROVE  Follows(Entry(m).task, Leg(m, side).exchange)'
  BY DEF LegsFollow
<1>3. ASSUME HasLegs(m), xlast'[m] = xlast[m], Leg(m, side)'.exchange = Leg(m, side).exchange
      PROVE  Follows(Entry(m).task, Leg(m, side).exchange)'
  <2>1. Entry(m)' = Entry(m)
    BY <1>2, <1>3 DEF Entry
  <2>2. Follows(Entry(m).task, Leg(m, side).exchange)
    BY <1>3 DEF LegsFollow
  <2> QED
    BY <1>3, <2>1, <2>2 DEF Follows, MadeFrom, OppsGrow
<1>4. CASE m # n
  BY <1>2, <1>3, <1>4 DEF HasLegs, Leg
<1>5. CASE m = n
  <2>1. CASE ChooseLegs(n)
    <3>1. xlast[n] < Len(execTasks[n]) /\ xlast' = xlast /\ UNCHANGED opps
      BY <1>1, <2>1 DEF CursorInv, Busy, ChooseLegs, busVars
    <3>2. PICK buy \in {Entry(n).buy_exchange, Entry(n).sell_exchange},
               sell \in {Entry(n).buy_exchange, Entry(n).sell_exchange} :
              xlegs' = [xlegs EXCEPT ![n] =
                           [s \in Sides |-> [exchange |-> IF s = "buy" THEN buy ELSE sell,
                                             state |-> "pending"]]]
      BY <2>1 DEF ChooseLegs
    <3>3. xlegs'[n] = [s \in Sides |-> [exchange |-> IF s = "buy" THEN buy ELSE sell,
                                        state |-> "pending"]]
      BY <1>1, <3>2 DEF ExecutionTypeOK, ExecutorTypeOK
    <3>4. Leg(n, side)'.exchange \in {Entry(n).buy_exchange, Entry(n).sell_exchange}
      BY <3>3 DEF Leg
    <3>5. /\ Follows(Entry(n).task, Entry(n).buy_exchange)
          /\ Follows(Entry(n).task, Entry(n).sell_exchange)
      BY <1>1, <3>1, EntryFacts DEF EntriesFollow, Entry
    <3>6. Entry(n)' = Entry(n)
      BY <1>2, <3>1 DEF Entry
    <3> QED
      BY <1>5, <3>1, <3>4, <3>5, <3>6 DEF Follows, MadeFrom
  <2>2. CASE \E s \in Sides, outcome \in LegOutcomes : FinishLeg(n, s, outcome)
    <3>1. PICK s \in Sides, outcome \in LegOutcomes : FinishLeg(n, s, outcome)
      BY <2>2
    <3>2. HasLegs(n) /\ xlast' = xlast
      BY <3>1 DEF FinishLeg, HasLegs
    <3>3. Leg(n, side)'.exchange = Leg(n, side).exchange
      BY <1>1, <3>1, FinishLegDoes
    <3> QED
      BY <1>3, <1>5, <3>2, <3>3
  <2>3. CASE CloseSessions(n) \/ PublishRepair(n)
    <3>1. HasLegs(n) /\ UNCHANGED <<xlast, xlegs>>
      BY <2>3 DEF CloseSessions, PublishRepair, HasLegs
    <3> QED
      BY <1>3, <1>5, <3>1 DEF Leg
  <2> QED
    BY <1>1, <1>5, <2>1, <2>2, <2>3, ExecutorLocals DEF HasLegs
<1> QED
  BY <1>4, <1>5

LEMMA TargetIsLeg ==
    ASSUME CoreInv, NEW n \in Nodes, HasLegs(n), TargetExchanges(n) # <<>>
    PROVE  \E side \in Sides : TargetExchanges(n)[1] = Leg(n, side).exchange
<1> DEFINE b == Leg(n, "buy").exchange
           s == Leg(n, "sell").exchange
<1>1. b \in Exchanges /\ s \in Exchanges
  BY DEF CoreInv, LegsInv, Sides
<1>2. TargetExchanges(n) = (IF "buy" \in FailedSides(n) THEN <<b>> ELSE <<>>)
                               \o (IF "sell" \in FailedSides(n) THEN <<s>> ELSE <<>>)
  BY DEF TargetExchanges
<1> HIDE DEF b, s
<1>3. /\ <<b>> \o <<>> = <<b>> /\ <<>> \o <<s>> = <<s>> /\ <<b>> \o <<s>> = <<b, s>>
      /\ <<>> \o <<>> = <<>>
  <2>1. <<>> \in Seq(Exchanges)
    OBVIOUS
  <2> QED
    BY <1>1, <2>1, OneAndOne, ConcatEmptySeq
<1>4. TargetExchanges(n) \in {<<b>>, <<s>>, <<b, s>>}
  BY <1>2, <1>3
<1>5. TargetExchanges(n)[1] = b \/ TargetExchanges(n)[1] = s
  BY <1>4
<1> QED
  BY <1>5 DEF b, s, Sides

LEMMA RepairsKeepFollowing ==
    ASSUME PipelineInv, LegsFollow, RepairsFollow, OppsGrow, [PipelineNext]_pipelineVars
    PROVE  RepairsFollow'
<1>1. CoreInv /\ ExecutionTypeOK /\ FeederInv /\ repairTasks \in Seq(RepairEntry)
  BY DEF PipelineInv, SettlementInv, CoreInv, ExecutionTypeOK, BusTypeOK
<1>2. ASSUME RepairsGrow,
             \A i \in DOMAIN repairTasks' \ DOMAIN repairTasks :
                 Supported(repairTasks'[i]) =>
                     Follows(repairTasks'[i].task, repairTasks'[i].target_exchanges[1])
      PROVE  RepairsFollow'
  <2> SUFFICES ASSUME NEW i \in DOMAIN repairTasks',
                      NEW e, e = repairTasks'[i], Supported(e)
               PROVE  Follows(e.task, e.target_exchanges[1])'
    BY DEF RepairsFollow, Follows
  <2>1. Follows(e.task, e.target_exchanges[1])
    BY <1>2 DEF RepairsGrow, RepairsFollow
  <2> QED
    BY <2>1, FollowsStay
<1>3. CASE UNCHANGED repairTasks
  BY <1>1, <1>2, <1>3 DEF RepairsGrow
<1>4. ASSUME NEW n \in Nodes, AnyStep(n), ~UNCHANGED repairTasks
      PROVE  RepairsFollow'
  <2>1. /\ xpc[n] = "plan" /\ RepairsGrow
        /\ \A i \in DOMAIN repairTasks' \ DOMAIN repairTasks : repairTasks'[i] = PlannedRepair(n)
    BY <1>1, <1>4, ExecutorAppends
  <2>2. HasLegs(n)
    BY <2>1 DEF HasLegs
  <2>3. /\ PlannedRepair(n).task = Entry(n).task
        /\ PlannedRepair(n).target_exchanges = TargetExchanges(n)
    BY DEF PlannedRepair
  <2>4. TargetExchanges(n) # <<>> => Follows(Entry(n).task, TargetExchanges(n)[1])
    BY <1>1, <2>2, TargetIsLeg DEF LegsFollow
  <2> HIDE DEF PlannedRepair
  <2>5. Supported(PlannedRepair(n)) =>
            Follows(PlannedRepair(n).task, PlannedRepair(n).target_exchanges[1])
    BY <2>3, <2>4 DEF Supported
  <2> QED
    BY <1>2, <2>1, <2>5
<1>5. CASE OtherProducer
  <2>1. PICK e \in OtherRepairEntries : repairTasks' = Append(repairTasks, e)
    BY <1>5 DEF OtherProducer
  <2>2. e \in RepairEntry /\ ~Supported(e)
    BY SettlementAssumption DEF SettlementAssumption
  <2>3. RepairsGrow /\ \A i \in DOMAIN repairTasks' \ DOMAIN repairTasks : repairTasks'[i] = e
    BY <1>1, <2>1, <2>2, AppendGrows
  <2> QED
    BY <1>2, <2>2, <2>3
<1>6. CASE (DispatcherNext \/ PublishOpportunity \/ Admin) /\ UNCHANGED executorVars
  <2>1. OutsideStep
    BY <1>1, <1>6, DispatcherIsFeed DEF OutsideStep, Surroundings
  <2> QED
    BY <1>1, <1>3, <2>1, OutsideStreams
<1>7. CASE RepairNext \/ UNCHANGED pipelineVars
  <2>1. UNCHANGED repairTasks
    BY <1>7, WorkerFrame DEF pipelineVars, busVars, streamVars
  <2> QED
    BY <1>3, <2>1
<1> QED
  BY <1>3, <1>4, <1>5, <1>6, <1>7 DEF PipelineNext, ExecutorNext, AnyStep

(* An order is placed where a leg or a repair task says.                   *)
LEMMA OrdersKeepFollowing ==
    ASSUME PipelineInv, LegsFollow, RepairsFollow, OrdersFollow, OppsGrow,
           [PipelineNext]_pipelineVars
    PROVE  OrdersFollow'
<1>1. SettlementInv /\ CoreInv /\ ExecutionTypeOK /\ FeederInv
  BY DEF PipelineInv, SettlementInv, CoreInv
<1> SUFFICES ASSUME NEW k \in TaskIds \X Exchanges \X Sides, orders'[k] # 0 \/ repairs'[k] # 0
             PROVE  Follows(k[1], k[2])'
  BY DEF OrdersFollow, Follows, MadeFrom
<1>2. CASE orders'[k] = orders[k] /\ repairs'[k] = repairs[k]
  BY <1>2, FollowsStay DEF OrdersFollow
<1>3. ASSUME NEW n \in Nodes, AnyStep(n)
      PROVE  Follows(k[1], k[2])'
  <2>1. UNCHANGED repairs
    BY <1>1, <1>3, ExecutorFrame
  <2>2. ASSUME NEW side \in Sides, k = OrderOf(n, side), xpc[n] = "submit"
        PROVE  Follows(k[1], k[2])
    BY <2>2 DEF OrderOf, LegsFollow, HasLegs
  <2>3. orders'[k] = orders[k] \/ \E side \in Sides : k = OrderOf(n, side) /\ xpc[n] = "submit"
    BY <1>1, <1>3, ExecutorOrders
  <2> QED
    BY <1>2, <2>1, <2>2, <2>3, FollowsStay
<1>4. CASE RepairNext
  <2>1. UNCHANGED orders
    BY <1>4, WorkerFrame
  <2>2. CASE rpc = "order" /\ k[1] = REntry.task /\ k[2] = target_exchange
    <3>1. RepairBusy
      BY <2>2 DEF RepairBusy
    <3>2. Follows(REntry.task, target_exchange)
      BY <1>1, <3>1, REntryFacts DEF RepairsFollow, target_exchange
    <3> QED
      BY <2>2, <3>2, FollowsStay
  <2> QED
    BY <1>1, <1>2, <1>4, <2>1, <2>2, WorkerOrders
<1>5. CASE (DispatcherNext \/ PublishOpportunity \/ Admin) /\ UNCHANGED executorVars
  <2>1. OutsideStep
    BY <1>1, <1>5, DispatcherIsFeed DEF OutsideStep, Surroundings
  <2> QED
    BY <1>1, <1>2, <2>1, OutsideStreams
<1>6. CASE OtherProducer \/ UNCHANGED pipelineVars
  BY <1>2, <1>6 DEF OtherProducer, orderVars, pipelineVars, busVars
<1> QED
  BY <1>3, <1>4, <1>5, <1>6 DEF PipelineNext, ExecutorNext, AnyStep

LEMMA OthersKeepLegs ==
    ASSUME LegsFollow, OppsGrow, UNCHANGED executorVars,
           \A m \in Nodes : HasLegs(m) => Entry(m)' = Entry(m)
    PROVE  LegsFollow'
<1> SUFFICES ASSUME NEW m \in Nodes, HasLegs(m)', NEW side \in Sides
             PROVE  Follows(Entry(m).task, Leg(m, side).exchange)'
  BY DEF LegsFollow
<1>1. HasLegs(m) /\ Leg(m, side)' = Leg(m, side)
  BY DEF HasLegs, Leg, executorVars
<1>2. Follows(Entry(m).task, Leg(m, side).exchange)
  BY <1>1 DEF LegsFollow
<1> QED
  BY <1>1, <1>2 DEF Follows, MadeFrom, OppsGrow

LEMMA FollowsInvStep ==
    ASSUME PipelineInv, FollowsInv, [PipelineNext]_pipelineVars
    PROVE  FollowsInv'
<1>1. /\ FeederInv /\ CoreInv /\ ExecutionTypeOK /\ OppsGrow
      /\ BindingInv /\ LoopsFollow /\ EntriesFollow /\ LegsFollow
  BY PipelineOppsGrow DEF PipelineInv, SettlementInv, CoreInv, FollowsInv
<1>2. RepairsFollow' /\ OrdersFollow'
  BY <1>1, RepairsKeepFollowing, OrdersKeepFollowing DEF FollowsInv
<1>3. BindingInv' /\ LoopsFollow' /\ EntriesFollow' /\ LegsFollow'
  <2>1. CASE \/ DispatcherNext /\ UNCHANGED executorVars
             \/ (PublishOpportunity \/ Admin) /\ UNCHANGED <<dispatcherVars, executorVars>>
             \/ UNCHANGED pipelineVars
    <3>1. [DispatchNext]_dispatchVars
      BY <2>1 DEF DispatchNext, dispatchVars, pipelineVars
    <3>2. OutsideStep
      BY <1>1, <2>1, DispatcherIsFeed DEF OutsideStep, Surroundings, pipelineVars
    <3> QED
      BY <1>1, <3>1, <3>2, BindingInvNext, LoopsKeepFollowing, EntriesKeepFollowing,
         OutsideKeepsLegs, OthersKeepLegs DEF OutsideStep
  <2>2. CASE ExecutorNext /\ UNCHANGED dispatcherVars
    <3>1. PICK n \in Nodes : AnyStep(n)
      BY <2>2 DEF ExecutorNext, AnyStep
    <3>2. UNCHANGED <<dispatcherVars, opps, execTasks>>
      BY <1>1, <2>2, <3>1, ExecutorFrame
    <3> QED
      BY <1>1, <3>1, <3>2, OthersKeepLoops, LegsKeepFollowing
  <2>3. CASE (RepairNext \/ OtherProducer) /\ UNCHANGED <<dispatcherVars, executorVars>>
    <3>1. UNCHANGED <<dispatcherVars, opps, execTasks>>
      BY <2>3, WorkerFrame DEF OtherProducer
    <3>2. \A m \in Nodes : Entry(m)' = Entry(m)
      BY <2>3, <3>1 DEF Entry, executorVars
    <3> QED
      BY <1>1, <2>3, <3>1, <3>2, OthersKeepLoops, OthersKeepLegs
  <2> QED
    BY <2>1, <2>2, <2>3 DEF PipelineNext
<1> QED
  BY <1>2, <1>3 DEF FollowsInv

LEMMA FollowsInvInit == ASSUME PipelineInit PROVE FollowsInv
<1>1. dpc = "read" /\ dusers = {} /\ \A n \in Nodes : execTasks[n] = <<>>
  BY DEF PipelineInit, BusInit, EmptyBus, DispatcherInit
<1>2. BindingInv /\ LoopsFollow
  BY <1>1 DEF BindingInv, LoopsFollow
<1>3. EntriesFollow /\ LegsFollow /\ RepairsFollow /\ OrdersFollow
  BY DEF PipelineInit, BusInit, EmptyBus, NoOrders, ExecutorInit, EntriesFollow, LegsFollow,
     HasLegs, RepairsFollow, OrdersFollow
<1> QED
  BY <1>2, <1>3 DEF FollowsInv

LEMMA FollowsInvariant == PipelineSpec => []FollowsInv
<1>1. PipelineInit => FollowsInv
  BY FollowsInvInit
<1>2. PipelineInv /\ FollowsInv /\ [PipelineNext]_pipelineVars => FollowsInv'
  BY FollowsInvStep
<1> QED
  BY <1>1, <1>2, PipelineInvariant, PTL DEF PipelineSpec

(* From the opportunity to the exchange, for any users, accounts, routes,  *)
(* strategies, nodes, crashes and retries: an order of a task is on one of *)
(* the two exchanges of the message the task was made from, for a trading  *)
(* user with an account there, under a strategy of that user which the     *)
(* message matches.                                                        *)
THEOREM OrdersFollowOpportunities == PipelineSpec => []OrderFollowsOpportunity
<1>1. PipelineInv /\ FollowsInv => OrderFollowsOpportunity
  <2> SUFFICES ASSUME PipelineInv, FollowsInv, NEW t \in TaskIds, NEW e \in Exchanges,
                      NEW side \in Sides, orders[<<t, e, side>>] + repairs[<<t, e, side>>] > 0
               PROVE  Follows(t, e)
    BY DEF OrderFollowsOpportunity, Follows, MadeFrom, AccountAt
  <2>1. <<t, e, side>> \in TaskIds \X Exchanges \X Sides
    OBVIOUS
  <2>2. orders[<<t, e, side>>] # 0 \/ repairs[<<t, e, side>>] # 0
    OBVIOUS
  <2> QED
    BY <2>1, <2>2 DEF FollowsInv, OrdersFollow
<1> QED
  BY <1>1, PipelineInvariant, FollowsInvariant, PTL

-----------------------------------------------------------------------------
(* The fan-out in the pipeline.  Executors and repair worker take rows out *)
(* of CREATED and put none into it; nothing else the dispatcher goes by is *)
(* theirs.                                                                 *)
LEMMA FanOutUnderWriters ==
    ASSUME FanOutInv, SettledInv,
           UNCHANGED <<dispatcherVars, opps, execTasks, limit, routes, enabled, changes>>,
           DOMAIN tasks' = DOMAIN tasks,
           \A t \in DOMAIN tasks : tasks'[t] # tasks[t] => tasks'[t].status # "CREATED"
    PROVE  FanOutInv' /\ SettledInv'
<1>1. /\ UNCHANGED <<dpc, dlast, dusers, duser, dnode, dstrats, dfail>>
      /\ strategy' = strategy /\ job' = job
  BY DEF dispatcherVars, job, strategy
<1>2. Candidates' = Candidates
  BY DEF Candidates, _resolve_candidate_user_ids, list_dispatchable_user_ids, AccountsOf
<1>3. \A u, m : Wanted(u, m)' = Wanted(u, m)
  BY DEF Wanted, Servable, BindingFor, AccountsOf
<1>4. \A u, m, s : Fanned(u, m, s)' = Fanned(u, m, s)
  BY DEF Fanned
<1>5. \A u, s : Ahead(u, s)' = Ahead(u, s)
  BY <1>1 DEF Ahead
<1>6. \A t : Created(t)' => Created(t)
  BY DEF Created
<1> HIDE DEF Candidates, Wanted, Fanned, Ahead, Created, strategy, job
<1>7. FanOutInv'
  BY <1>1, <1>2, <1>3, <1>4, <1>5 DEF FanOutInv
<1>8. OnlyJobCreated'
  BY <1>1, <1>6 DEF SettledInv, OnlyJobCreated
<1>9. RowsAreWanted'
  BY <1>1, <1>2, <1>3 DEF SettledInv, RowsAreWanted, NameOf
<1>10. TornAreAhead'
  BY <1>1, <1>5, <1>6 DEF SettledInv, TornAreAhead
<1> QED
  BY <1>7, <1>8, <1>9, <1>10 DEF SettledInv

LEMMA PipelineFanOutStep ==
    ASSUME PipelineInv, FanOutInv, SettledInv, [PipelineNext]_pipelineVars
    PROVE  FanOutInv' /\ SettledInv'
<1>1. FeederInv /\ SettlementInv /\ CoreInv /\ ExecutionTypeOK
  BY DEF PipelineInv, SettlementInv, CoreInv
<1>2. CASE \/ DispatcherNext
           \/ (PublishOpportunity \/ Admin) /\ UNCHANGED dispatcherVars
           \/ UNCHANGED pipelineVars
  <2>1. [DispatchNext]_dispatchVars
    BY <1>2 DEF DispatchNext, dispatchVars, pipelineVars
  <2> QED
    BY <1>1, <2>1, FanOutInvNext, OnlyJobCreatedNext, RowsAreWantedNext, TornAreAheadNext
       DEF SettledInv
<1>3. CASE ExecutorNext /\ UNCHANGED dispatcherVars
  <2>1. PICK n \in Nodes : AnyStep(n)
    BY <1>3 DEF ExecutorNext, AnyStep
  <2>2. UNCHANGED <<opps, execTasks, limit, routes, enabled, changes>>
    BY <1>1, <2>1, ExecutorFrame
  <2> QED
    BY <1>1, <1>3, <2>1, <2>2, RowWriter, FanOutUnderWriters
<1>4. CASE RepairNext /\ UNCHANGED dispatcherVars
  <2>1. UNCHANGED <<opps, execTasks, limit, routes, enabled, changes>>
    BY <1>4, WorkerFrame
  <2> QED
    BY <1>1, <1>4, <2>1, WorkerRow, FanOutUnderWriters
<1>5. CASE OtherProducer /\ UNCHANGED dispatcherVars
  <2>1. UNCHANGED <<tasks, opps, execTasks, limit, routes, enabled, changes>>
    BY <1>5 DEF OtherProducer, adminVars
  <2> QED
    BY <1>5, <2>1, FanOutUnderWriters
<1> QED
  BY <1>2, <1>3, <1>4, <1>5 DEF PipelineNext

(* In the pipeline, too, a message behind the dispatcher's cursor was      *)
(* handed to every node it is for, and left no task half-way: as long as   *)
(* operators change nothing, or for the second nothing failed, and         *)
(* whatever executors and repair worker do with the rows meanwhile.        *)
THEOREM PipelineFansOut == PipelineSpec => [](AckedMessageFannedOut /\ AckedTasksSettled)
<1>1. PipelineInit => FanOutInv /\ SettledInv
  BY DEF PipelineInit, BusInit, EmptyBus, DispatcherInit, TasksInit, FanOutInv, SettledInv,
         OnlyJobCreated, RowsAreWanted, TornAreAhead
<1>2. PipelineInv /\ FanOutInv /\ SettledInv /\ [PipelineNext]_pipelineVars
          => FanOutInv' /\ SettledInv'
  BY PipelineFanOutStep
<1>3. PipelineInv /\ FanOutInv /\ SettledInv => AckedMessageFannedOut /\ AckedTasksSettled
  BY BehindIsFannedOut, BehindIsSettled DEF PipelineInv
<1> QED
  BY <1>1, <1>2, <1>3, PipelineInvariant, PTL DEF PipelineSpec

(* The accounts of a task on a stream are its user's own, in the pipeline. *)
THEOREM PipelineBindingsAreOwn == PipelineSpec => []BoundAccountsBelongToUser
<1>1. FollowsInv => BoundAccountsBelongToUser
  BY DEF FollowsInv, BindingInv, OwnAccounts, BoundAccountsBelongToUser
<1> QED
  BY <1>1, FollowsInvariant, PTL

(* The hedge after a repair, in the pipeline.                              *)
THEOREM PipelineRepairsHedge == ASSUME HedgeBounds PROVE PipelineSpec => []OneLegRepairHedges
<1>1. SettlementSpec => []OneLegRepairHedges
  BY RepairsHedge
<1> QED
  BY <1>1, PipelineImplementsSettlement, PTL DEF ImplementsSettlement
=============================================================================
