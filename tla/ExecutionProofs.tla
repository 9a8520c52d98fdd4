-------------------------- MODULE ExecutionProofs --------------------------
(***************************************************************************)
(* Proofs about the executors under TaskFeed, for any nodes, tasks,        *)
(* exchanges, accounts, moves and outcomes of the legs, and for any number *)
(* of failures and operator changes.                                       *)
(***************************************************************************)
EXTENDS Execution, TaskRepositoryProofs, TLAPS

-----------------------------------------------------------------------------
(* The streams: what is sent has a row, and is sent to one place only.     *)
SentHaveRows ==
    \A n \in Nodes : \A i \in DOMAIN execTasks[n] : execTasks[n][i].task \in DOMAIN tasks

SentOnce ==
    \A m, n \in Nodes : \A i \in DOMAIN execTasks[m], j \in DOMAIN execTasks[n] :
        execTasks[m][i].task = execTasks[n][j].task => m = n /\ i = j

(* A busy executor is at an entry, whose row is not BLOCKED until it says  *)
(* so itself.                                                              *)
Busy(n) == xpc[n] \notin {"read", "down"}
CursorInv == \A n \in Nodes : Busy(n) => xlast[n] < Len(execTasks[n])
BusyNotBlocked == \A n \in Nodes : Busy(n) => tasks[Entry(n).task].status # "BLOCKED"

(* The legs on their way, and what is known of them afterwards.            *)
HasLegs(n) == xpc[n] \in {"submit", "plan", "record"}
OrderOf(n, side) == <<Entry(n).task, Leg(n, side).exchange, side>>
LegsInv ==
    \A n \in Nodes : HasLegs(n) =>
        /\ \A side \in Sides : /\ Leg(n, side).exchange \in Exchanges
                               /\ Leg(n, side).state \in {"pending", "filled", "failed"}
                               /\ Leg(n, side).state = "filled" => orders[OrderOf(n, side)] > 0
        /\ xpc[n] # "submit" => LegsFinished(n)

(* A partial open that is about to be recorded has its repair task.        *)
HasRepairTask(t) == \E i \in DOMAIN repairTasks : repairTasks[i].task = t
RepairFirst ==
    \A n \in Nodes : xpc[n] = "record" /\ FailedSides(n) # {} => HasRepairTask(Entry(n).task)

(* Every order belongs to a pass over an entry, and a pass that did not    *)
(* get to move the cursor was ended by a failure.                          *)
NoOrderFor(t) == \A e \in Exchanges, side \in Sides : orders[<<t, e, side>>] = 0
Finished(n, side) == HasLegs(n) /\ Leg(n, side).state \in {"filled", "failed"}
Tries(n, i, side) == IF i <= xlast[n] \/ (i = xlast[n] + 1 /\ Finished(n, side)) THEN 1 ELSE 0
OrdersCounted ==
    /\ \A t \in TaskIds : ~Published(t) => NoOrderFor(t)
    /\ \A n \in Nodes : \A i \in DOMAIN execTasks[n] : \A e \in Exchanges, side \in Sides :
          orders[<<execTasks[n][i].task, e, side>>] <= xfail[n] + Tries(n, i, side)

(* While nobody has failed, a succeeded task is behind a cursor.           *)
NobodyFailed == \A n \in Nodes : xfail[n] = 0
SucceededIsBehind ==
    NobodyFailed =>
        \A t \in DOMAIN tasks : tasks[t].status = "SUCCEEDED" =>
            \E n \in Nodes : \E i \in 1..xlast[n] : execTasks[n][i].task = t

(* What holds of cursors, streams and legs, and of the outcomes in the     *)
(* table, whoever else writes the rows as well.                            *)
CoreInv ==
    /\ ExecutionTypeOK
    /\ SentHaveRows /\ SentOnce
    /\ CursorInv
    /\ LegsInv

RecordsInv ==
    /\ CoreInv
    /\ RepairFirst
    /\ OrdersCounted
    /\ OutcomeBeforeAck
    /\ PartialHasRepairTask
    /\ FullyHedgedHasBothLegs
    /\ BusyNotBlocked
    /\ BlockedMeansUntraded

(* And what needs that nobody else writes an outcome.                      *)
ExecutionInv ==
    /\ RecordsInv
    /\ SucceededIsBehind

-----------------------------------------------------------------------------
(* The entry of a busy executor.                                           *)
LEMMA EntryFacts ==
    ASSUME ExecutionTypeOK, NEW n \in Nodes, xlast[n] < Len(execTasks[n])
    PROVE  /\ xlast[n] \in Nat /\ xlast[n] + 1 \in DOMAIN execTasks[n]
           /\ Entry(n) \in ExecEntry /\ Entry(n).task \in TaskIds
<1>1. execTasks[n] \in Seq(ExecEntry) /\ xlast[n] \in Nat
  BY DEF ExecutionTypeOK, BusTypeOK, ExecutorTypeOK
<1>2. xlast[n] + 1 \in DOMAIN execTasks[n] /\ Entry(n) \in ExecEntry
  BY <1>1 DEF Entry
<1> QED
  BY <1>1, <1>2 DEF ExecEntry

(* What the parts of an action do to the variables they write.             *)
LEMMA GotoDoes ==
    ASSUME ExecutorTypeOK, NEW n \in Nodes, NEW label, Goto(n, label)
    PROVE  xpc'[n] = label /\ \A m \in Nodes : m # n => xpc'[m] = xpc[m]
BY DEF ExecutorTypeOK, Goto

LEMMA EndIterationDoes ==
    ASSUME ExecutorTypeOK, NEW n \in Nodes, NEW label, EndIteration(n, label)
    PROVE  /\ xpc'[n] = label /\ xlegs'[n] = NoLegs
           /\ \A m \in Nodes : m # n => xpc'[m] = xpc[m] /\ xlegs'[m] = xlegs[m]
BY DEF ExecutorTypeOK, EndIteration, Goto

LEMMA AdvanceDoes ==
    ASSUME ExecutorTypeOK, NEW n \in Nodes, Advance(n)
    PROVE  xlast'[n] = xlast[n] + 1 /\ \A m \in Nodes : m # n => xlast'[m] = xlast[m]
BY DEF ExecutorTypeOK, Advance

LEMMA FailureDoes ==
    ASSUME ExecutorTypeOK, NEW n \in Nodes, xfail' = [xfail EXCEPT ![n] = @ + 1]
    PROVE  /\ xfail[n] \in Nat
           /\ xfail'[n] = xfail[n] + 1 /\ \A m \in Nodes : m # n => xfail'[m] = xfail[m]
BY ExecutorAssumption DEF ExecutorTypeOK, ExecutorAssumption

LEMMA FinishLegDoes ==
    ASSUME ExecutionTypeOK, NEW n \in Nodes, NEW side \in Sides, NEW outcome,
           FinishLeg(n, side, outcome)
    PROVE  /\ Leg(n, side)'.exchange = Leg(n, side).exchange
           /\ Leg(n, side)'.state = IF outcome = "accepted" THEN "filled" ELSE "failed"
           /\ Leg(n, side)' \in [exchange : Exchanges \cup {NoExchange}, state : LegStates]
           /\ \A other \in Sides : other # side => Leg(n, other)' = Leg(n, other)
           /\ \A m \in Nodes : m # n => xlegs'[m] = xlegs[m]
           /\ xlegs' \in [Nodes -> [Sides -> [exchange : Exchanges \cup {NoExchange},
                                              state : LegStates]]]
<1>1. xlegs \in [Nodes -> [Sides -> [exchange : Exchanges \cup {NoExchange}, state : LegStates]]]
  BY DEF ExecutionTypeOK, ExecutorTypeOK
<1>2. xlegs' = [xlegs EXCEPT ![n][side].state = IF outcome = "accepted" THEN "filled" ELSE "failed"]
  BY DEF FinishLeg
<1>3. (IF outcome = "accepted" THEN "filled" ELSE "failed") \in LegStates
  BY DEF LegStates
<1>4. xlegs[n][side] \in [exchange : Exchanges \cup {NoExchange}, state : LegStates]
  BY <1>1
<1>5. xlegs'[n][side] = [xlegs[n][side] EXCEPT !.state = IF outcome = "accepted" THEN "filled" ELSE "failed"]
  BY <1>1, <1>2
<1>6. /\ \A other \in Sides : other # side => xlegs'[n][other] = xlegs[n][other]
      /\ \A m \in Nodes : m # n => xlegs'[m] = xlegs[m]
  BY <1>1, <1>2
<1>7. xlegs' \in [Nodes -> [Sides -> [exchange : Exchanges \cup {NoExchange}, state : LegStates]]]
  BY <1>1, <1>2, <1>3
<1> QED
  BY <1>3, <1>4, <1>5, <1>6, <1>7 DEF Leg

(* An executor writes its own state, one row, and the orders of its entry; *)
(* what is on a stream stays there.                                        *)
AnyStep(n) == ExecutorStep(n) \/ Raise(n) \/ ExecutorCrash(n)

LEMMA ExecutorFrame ==
    ASSUME ExecutionTypeOK, NEW n \in Nodes, AnyStep(n)
    PROVE  /\ UNCHANGED <<opps, execTasks, limit, routes, enabled, changes, repairs>>
           /\ \A m \in Nodes : m # n => /\ xpc'[m] = xpc[m] /\ xlast'[m] = xlast[m]
                                        /\ xlegs'[m] = xlegs[m] /\ xfail'[m] = xfail[m]
<1> USE GotoDoes, EndIterationDoes, AdvanceDoes, FailureDoes DEF streamVars, adminVars,
        orderVars, busVars, ExecutionTypeOK
<1>1. CASE StartTask(n) \/ CheckGuard(n) \/ Preflight(n)
  BY <1>1 DEF StartTask, CheckGuard, Preflight
<1>2. CASE BlockTask(n) \/ RecordResult(n) \/ FailTask(n)
  BY <1>2 DEF BlockTask, RecordResult, FailTask
<1>3. CASE ChooseLegs(n)
  <2>1. \A m \in Nodes : m # n => xlegs'[m] = xlegs[m]
    BY <1>3 DEF ChooseLegs, ExecutorTypeOK
  <2> QED
    BY <1>3, <2>1 DEF ChooseLegs
<1>4. CASE \E side \in Sides, outcome \in LegOutcomes : FinishLeg(n, side, outcome)
  BY <1>4, FinishLegDoes DEF FinishLeg
<1>5. CASE CloseSessions(n) \/ PublishRepair(n) \/ ExecutorRestart(n)
  BY <1>5 DEF CloseSessions, PublishRepair, ExecutorRestart
<1>6. CASE Raise(n)
  BY <1>6 DEF Raise
<1>7. CASE ExecutorCrash(n)
  <2>1. \A m \in Nodes : m # n => xlast'[m] = xlast[m]
    BY <1>7 DEF ExecutorCrash, ExecutorTypeOK
  <2> QED
    BY <1>7, <2>1 DEF ExecutorCrash
<1> QED
  BY <1>1, <1>2, <1>3, <1>4, <1>5, <1>6, <1>7 DEF AnyStep, ExecutorStep

-----------------------------------------------------------------------------
(* Types.                                                                  *)
LEMMA ResultTypes ==
    ASSUME CoreInv, NEW n \in Nodes, HasLegs(n)
    PROVE  /\ FailedExchanges(n) \subseteq Exchanges
           /\ TargetExchanges(n) \in Seq(Exchanges)
           /\ ExecutionStatus(n) \in {"OPEN_HEDGED", "OPEN_PARTIAL"}
           /\ RepairReason(n) \in {"fully_hedged", "one_leg_failed"}
           /\ ExecutionStatus(n) = "OPEN_PARTIAL" <=> FailedSides(n) # {}
           /\ RepairReason(n) = "fully_hedged" <=> FailedSides(n) = {}
<1>1. \A side \in Sides : Leg(n, side).exchange \in Exchanges
  BY DEF CoreInv, LegsInv
<1>2. FailedExchanges(n) \subseteq Exchanges
  BY <1>1 DEF FailedExchanges, FailedSides
<1>3. TargetExchanges(n) \in Seq(Exchanges)
  <2>1. Leg(n, "buy").exchange \in Exchanges /\ Leg(n, "sell").exchange \in Exchanges
    BY <1>1 DEF Sides
  <2> QED
    BY <2>1 DEF TargetExchanges
<1> QED
  BY <1>2, <1>3 DEF ExecutionStatus, RepairReason

(* The row an executor writes, and nothing else of the table.              *)
LEMMA ExecutorRow ==
    ASSUME CoreInv, NEW n \in Nodes, AnyStep(n)
    PROVE  \/ /\ UNCHANGED tasks
              /\ ~StartTask(n) /\ ~BlockTask(n) /\ ~RecordResult(n) /\ ~FailTask(n)
           \/ /\ OnlyRowChanges(Entry(n).task)
              /\ tasks'[Entry(n).task].dispatched_at = tasks[Entry(n).task].dispatched_at
              /\ \/ /\ StartTask(n)
                    /\ tasks'[Entry(n).task].status = "EXECUTING"
                    /\ tasks'[Entry(n).task].finished_at = tasks[Entry(n).task].finished_at
                 \/ /\ BlockTask(n)
                    /\ tasks'[Entry(n).task].status = "BLOCKED"
                    /\ tasks'[Entry(n).task].finished_at
                 \/ /\ FailTask(n)
                    /\ tasks'[Entry(n).task].status = "FAILED"
                    /\ tasks'[Entry(n).task].finished_at
                 \/ /\ RecordResult(n)
                    /\ tasks'[Entry(n).task].status \in {"SUCCEEDED", "FAILED"}
                    /\ tasks'[Entry(n).task].finished_at
                    /\ tasks'[Entry(n).task].execution_status = ExecutionStatus(n)
                    /\ tasks'[Entry(n).task].repair_reason = RepairReason(n)
              /\ \/ RecordResult(n)
                 \/ /\ tasks'[Entry(n).task].execution_status = tasks[Entry(n).task].execution_status
                    /\ tasks'[Entry(n).task].repair_reason = tasks[Entry(n).task].repair_reason
<1> DEFINE T == Entry(n).task
<1>1. TasksTypeOK
  BY DEF CoreInv, ExecutionTypeOK, BusTypeOK
<1>2. CASE StartTask(n)
  BY <1>1, <1>2, MarkExecutingRow DEF StartTask
<1>3. CASE BlockTask(n)
  BY <1>1, <1>3, MarkBlockedRow DEF BlockTask
<1>4. CASE FailTask(n)
  BY <1>1, <1>4, MarkFailedRow DEF FailTask
<1>5. CASE RecordResult(n)
  <2>1. HasLegs(n)
    BY <1>5 DEF RecordResult, HasLegs
  <2> DEFINE lifecycle == IF ExecutionStatus(n) = "OPEN_HEDGED" THEN "SUCCEEDED" ELSE "FAILED"
  <2>2. lifecycle \in Statuses /\ lifecycle \in {"SUCCEEDED", "FAILED"}
    BY DEF Statuses
  <2>3. mark_execution_result(T, lifecycle, ExecutionStatus(n), FailedExchanges(n), RepairReason(n))
    BY <1>5 DEF RecordResult
  <2> HIDE DEF lifecycle, T
  <2>4. /\ OnlyRowChanges(T)
        /\ tasks'[T].status = lifecycle
        /\ tasks'[T].finished_at
        /\ tasks'[T].dispatched_at = tasks[T].dispatched_at
        /\ tasks'[T].execution_status = ExecutionStatus(n)
        /\ tasks'[T].repair_reason = RepairReason(n)
    <3> DEFINE execution == ExecutionStatus(n)
               failed == FailedExchanges(n)
               reason == RepairReason(n)
    <3>1. /\ execution \in {"OPEN_HEDGED", "OPEN_PARTIAL"}
          /\ failed \in SUBSET Exchanges
          /\ reason \in {"fully_hedged", "one_leg_failed"}
      BY <2>1, ResultTypes
    <3>2. mark_execution_result(T, lifecycle, execution, failed, reason)
      BY <2>3
    <3> HIDE DEF execution, failed, reason
    <3>3. /\ OnlyRowChanges(T)
          /\ tasks'[T].status = lifecycle
          /\ tasks'[T].finished_at
          /\ tasks'[T].dispatched_at = tasks[T].dispatched_at
          /\ tasks'[T].execution_status = execution
          /\ tasks'[T].repair_reason = reason
      BY <1>1, <2>2, <3>1, <3>2, MarkExecutionResultRow
    <3> QED
      BY <3>3 DEF execution, reason
  <2> USE DEF T
  <2> QED
    BY <1>5, <2>2, <2>4
<1>6. CASE ~StartTask(n) /\ ~BlockTask(n) /\ ~RecordResult(n) /\ ~FailTask(n)
  BY <1>6 DEF AnyStep, ExecutorStep, CheckGuard, Preflight, ChooseLegs, FinishLeg, CloseSessions,
     PublishRepair, ExecutorRestart, Raise, ExecutorCrash, busVars
<1> QED
  BY <1>2, <1>3, <1>4, <1>5, <1>6

(* Orders are only added, and only to the entry's task, by its leg.        *)
LEMMA ExecutorOrders ==
    ASSUME ExecutionTypeOK, NEW n \in Nodes, AnyStep(n)
    PROVE  /\ orders' \in [TaskIds \X Exchanges \X Sides -> Nat]
           /\ \A k \in TaskIds \X Exchanges \X Sides :
                 \/ orders'[k] = orders[k]
                 \/ /\ orders'[k] = orders[k] + 1
                    /\ \E side \in Sides : /\ k = OrderOf(n, side)
                                           /\ xpc[n] = "submit" /\ Leg(n, side).state = "pending"
                                           /\ Leg(n, side)'.state \in {"filled", "failed"}
                                           /\ \E outcome : FinishLeg(n, side, outcome)
<1>1. orders \in [TaskIds \X Exchanges \X Sides -> Nat]
  BY DEF ExecutionTypeOK, BusTypeOK
<1>2. CASE \E side \in Sides, outcome \in LegOutcomes : FinishLeg(n, side, outcome)
  <2>1. PICK side \in Sides, outcome \in LegOutcomes : FinishLeg(n, side, outcome)
    BY <1>2
  <2>2. \/ UNCHANGED orders
        \/ orders' = [orders EXCEPT ![OrderOf(n, side)] = @ + 1]
    BY <2>1 DEF FinishLeg, OrderOf
  <2>3. /\ xpc[n] = "submit" /\ Leg(n, side).state = "pending"
        /\ Leg(n, side)'.state \in {"filled", "failed"}
    BY <2>1, FinishLegDoes DEF FinishLeg
  <2>4. CASE UNCHANGED orders
    BY <1>1, <2>4
  <2>5. CASE orders' = [orders EXCEPT ![OrderOf(n, side)] = @ + 1]
    <3> DEFINE K == OrderOf(n, side)
    <3> HIDE DEF K
    <3>1. orders' = [orders EXCEPT ![K] = @ + 1]
      BY <2>5 DEF K
    <3>2. orders' \in [TaskIds \X Exchanges \X Sides -> Nat]
      <4> DEFINE S == TaskIds \X Exchanges \X Sides
      <4> HIDE DEF S
      <4>1. orders \in [S -> Nat]
        BY <1>1 DEF S
      <4>2. orders' = [k \in S |-> IF k = K THEN orders[k] + 1 ELSE orders[k]]
        BY <4>1, <3>1
      <4>3. \A k \in S : (IF k = K THEN orders[k] + 1 ELSE orders[k]) \in Nat
        BY <4>1
      <4> QED
        BY <4>2, <4>3 DEF S
    <3>3. \A k \in TaskIds \X Exchanges \X Sides :
              orders'[k] = orders[k] \/ (k = K /\ orders'[k] = orders[k] + 1)
      BY <1>1, <3>1
    <3> QED
      BY <2>1, <2>3, <3>2, <3>3 DEF K
  <2> QED
    BY <2>2, <2>4, <2>5
<1>3. CASE ~ \E side \in Sides, outcome \in LegOutcomes : FinishLeg(n, side, outcome)
  <2>1. UNCHANGED orders
    BY <1>3 DEF AnyStep, ExecutorStep, StartTask, CheckGuard, BlockTask, Preflight, ChooseLegs,
       CloseSessions, PublishRepair, RecordResult, FailTask, ExecutorRestart, Raise,
       ExecutorCrash, busVars, orderVars
  <2> QED
    BY <1>1, <2>1
<1> QED
  BY <1>2, <1>3

(* What an executor does to its own locals.                                *)
Stays(n) == xlast'[n] = xlast[n] /\ xfail'[n] = xfail[n]
LegsStay(n) == \A side \in Sides : Leg(n, side)' = Leg(n, side)

LEMMA ExecutorLocals ==
    ASSUME ExecutionTypeOK, NEW n \in Nodes, AnyStep(n)
    PROVE  \/ StartTask(n) /\ Stays(n) /\ xlast[n] < Len(execTasks[n]) /\ xpc'[n] = "guard"
              /\ xpc[n] = "read"
           \/ /\ CheckGuard(n) \/ Preflight(n)
              /\ Stays(n) /\ Busy(n) /\ ~HasLegs(n)
              /\ xpc'[n] \in {"preflight", "blocked", "open", "failing"}
           \/ ChooseLegs(n) /\ Stays(n) /\ xpc[n] = "open" /\ xpc'[n] = "submit"
           \/ /\ \E side \in Sides, outcome \in LegOutcomes : FinishLeg(n, side, outcome)
              /\ Stays(n) /\ xpc[n] = "submit" /\ xpc'[n] = "submit"
           \/ /\ CloseSessions(n) \/ PublishRepair(n)
              /\ Stays(n) /\ LegsStay(n) /\ xpc[n] \in {"submit", "plan"}
              /\ xpc'[n] \in {"plan", "record"}
           \/ /\ \/ BlockTask(n) /\ xpc[n] = "blocked"
                 \/ RecordResult(n) /\ xpc[n] = "record"
              /\ xlast'[n] = xlast[n] + 1 /\ xfail'[n] = xfail[n] /\ xpc'[n] = "read"
           \/ /\ Raise(n) /\ xlast'[n] = xlast[n] /\ xfail'[n] = xfail[n] + 1
              /\ Busy(n) /\ xpc'[n] = "failing"
           \/ FailTask(n) /\ Stays(n) /\ xpc[n] = "failing" /\ xpc'[n] = "read"
           \/ ExecutorCrash(n) /\ xlast'[n] = 0 /\ xfail'[n] = xfail[n] + 1 /\ xpc'[n] = "down"
           \/ ExecutorRestart(n) /\ Stays(n) /\ xpc[n] = "down" /\ xpc'[n] = "read"
<1> USE GotoDoes, EndIterationDoes, AdvanceDoes, FailureDoes DEF ExecutionTypeOK, Stays
<1>1. CASE StartTask(n)
  BY <1>1 DEF StartTask
<1>2. CASE CheckGuard(n) \/ Preflight(n)
  <2>1. xpc'[n] \in {"preflight", "blocked", "open", "failing"}
    BY <1>2 DEF CheckGuard, Preflight
  <2> QED
    BY <1>2, <2>1 DEF CheckGuard, Preflight, Busy, HasLegs
<1>3. CASE ChooseLegs(n)
  BY <1>3 DEF ChooseLegs
<1>4. CASE \E side \in Sides, outcome \in LegOutcomes : FinishLeg(n, side, outcome)
  BY <1>4 DEF FinishLeg
<1>5. CASE CloseSessions(n) \/ PublishRepair(n)
  <2>1. xpc'[n] \in {"plan", "record"}
    BY <1>5 DEF CloseSessions, PublishRepair
  <2> QED
    BY <1>5, <2>1 DEF CloseSessions, PublishRepair, LegsStay, Leg
<1>6. CASE BlockTask(n)
  BY <1>6 DEF BlockTask
<1>11. CASE RecordResult(n)
  BY <1>11 DEF RecordResult
<1>7. CASE Raise(n)
  BY <1>7 DEF Raise, Busy
<1>8. CASE FailTask(n)
  BY <1>8 DEF FailTask
<1>9. CASE ExecutorCrash(n)
  <2>1. xlast'[n] = 0
    BY <1>9 DEF ExecutorCrash, ExecutorTypeOK
  <2> QED
    BY <1>9, <2>1 DEF ExecutorCrash
<1>10. CASE ExecutorRestart(n)
  BY <1>10 DEF ExecutorRestart
<1> QED
  BY <1>1, <1>2, <1>3, <1>4, <1>5, <1>6, <1>11, <1>7, <1>8, <1>9, <1>10 DEF AnyStep, ExecutorStep

(* A row is only written by an executor that is at the task's entry.       *)
LEMMA RowWriter ==
    ASSUME CoreInv, NEW n \in Nodes, AnyStep(n)
    PROVE  /\ DOMAIN tasks' = DOMAIN tasks
           /\ \A t \in DOMAIN tasks :
                 /\ tasks'[t] # tasks[t] => /\ t = Entry(n).task
                                            /\ xlast[n] < Len(execTasks[n])
                                            /\ tasks'[t].dispatched_at = tasks[t].dispatched_at
                                            /\ tasks'[t].status # "CREATED"
                 /\ tasks[t].finished_at => tasks'[t].finished_at
           /\ TasksTypeOK'
<1>1. TasksTypeOK
  BY DEF CoreInv, ExecutionTypeOK, BusTypeOK
<1>2. CASE UNCHANGED tasks
  BY <1>1, <1>2 DEF TasksTypeOK
<1>3. CASE tasks' # tasks
  <2>1. /\ OnlyRowChanges(Entry(n).task)
        /\ tasks'[Entry(n).task].dispatched_at = tasks[Entry(n).task].dispatched_at
        /\ tasks'[Entry(n).task].status # "CREATED"
        /\ \/ tasks'[Entry(n).task].finished_at
           \/ tasks'[Entry(n).task].finished_at = tasks[Entry(n).task].finished_at
        /\ StartTask(n) \/ BlockTask(n) \/ RecordResult(n) \/ FailTask(n)
    BY <1>3, ExecutorRow
  <2>2. xlast[n] < Len(execTasks[n])
    BY <2>1 DEF StartTask, BlockTask, RecordResult, FailTask, CoreInv, CursorInv, Busy
  <2> QED
    BY <2>1, <2>2 DEF OnlyRowChanges
<1> QED
  BY <1>2, <1>3

(* Two entries of the same task are one entry.                             *)
LEMMA SameEntry ==
    ASSUME ExecutionTypeOK, SentOnce, NEW m \in Nodes, NEW n \in Nodes,
           xlast[n] < Len(execTasks[n]), NEW i \in DOMAIN execTasks[m],
           execTasks[m][i].task = Entry(n).task
    PROVE  m = n /\ i = xlast[n] + 1
BY EntryFacts DEF SentOnce, Entry

(* Repair tasks are only added, for the entry's task.                      *)
LEMMA ExecutorRepairs ==
    ASSUME CoreInv, NEW n \in Nodes, AnyStep(n)
    PROVE  /\ repairTasks' \in Seq(RepairEntry)
           /\ \A t : HasRepairTask(t) => HasRepairTask(t)'
           /\ PublishRepair(n) => HasRepairTask(Entry(n).task)'
<1>1. repairTasks \in Seq(RepairEntry)
  BY DEF CoreInv, ExecutionTypeOK, BusTypeOK
<1>2. CASE PublishRepair(n)
  <2> DEFINE r == [task |-> Entry(n).task,
                   buy_exchange |-> Entry(n).buy_exchange,
                   sell_exchange |-> Entry(n).sell_exchange,
                   execution_status |-> ExecutionStatus(n),
                   repair_action |-> "AUTO_HEDGE_REPAIRING",
                   target_exchanges |-> TargetExchanges(n)]
  <2>1. xpc[n] = "plan" /\ repairTasks' = Append(repairTasks, r)
    BY <1>2 DEF PublishRepair
  <2>2. xlast[n] < Len(execTasks[n])
    BY <2>1 DEF CoreInv, CursorInv, Busy
  <2>3. Entry(n) \in ExecEntry
    BY <2>2, EntryFacts DEF CoreInv
  <2>4. /\ TargetExchanges(n) \in Seq(Exchanges)
        /\ ExecutionStatus(n) \in {"OPEN_HEDGED", "OPEN_PARTIAL"}
    BY <2>1, ResultTypes DEF HasLegs
  <2>5. r \in RepairEntry
    BY <2>3, <2>4 DEF RepairEntry, ExecEntry
  <2>6. r.task = Entry(n).task
    OBVIOUS
  <2> HIDE DEF r
  <2>7. /\ repairTasks' \in Seq(RepairEntry)
        /\ Len(repairTasks') = Len(repairTasks) + 1
        /\ repairTasks'[Len(repairTasks) + 1] = r
        /\ \A i \in DOMAIN repairTasks : i \in DOMAIN repairTasks' /\ repairTasks'[i] = repairTasks[i]
    BY <1>1, <2>1, <2>5
  <2>8. Len(repairTasks) + 1 \in DOMAIN repairTasks'
    BY <1>1, <2>7
  <2>9. \A t : HasRepairTask(t) => HasRepairTask(t)'
    BY <2>7 DEF HasRepairTask
  <2>10. \E i \in DOMAIN repairTasks' : repairTasks'[i].task = Entry(n).task
    BY <2>6, <2>7, <2>8
  <2>11. Entry(n).task' = Entry(n).task
    BY <1>2 DEF PublishRepair, Entry
  <2> QED
    BY <2>7, <2>9, <2>10, <2>11 DEF HasRepairTask
<1>3. CASE ~PublishRepair(n)
  <2>1. UNCHANGED repairTasks
    BY <1>3 DEF AnyStep, ExecutorStep, StartTask, CheckGuard, BlockTask, Preflight, ChooseLegs,
       FinishLeg, CloseSessions, RecordResult, FailTask, ExecutorRestart, Raise, ExecutorCrash,
       busVars, streamVars
  <2> QED
    BY <1>1, <1>3, <2>1 DEF HasRepairTask
<1> QED
  BY <1>2, <1>3

(* The types are kept.                                                     *)
LEMMA ExecutorTypesKept ==
    ASSUME CoreInv, NEW n \in Nodes, AnyStep(n)
    PROVE  ExecutionTypeOK'
<1>1. ExecutionTypeOK /\ CursorInv
  BY DEF CoreInv
<1>2. BusTypeOK'
  <2>1. TasksTypeOK' /\ repairTasks' \in Seq(RepairEntry)
    BY RowWriter, ExecutorRepairs
  <2>2. orders' \in [TaskIds \X Exchanges \X Sides -> Nat]
    BY <1>1, ExecutorOrders
  <2>3. UNCHANGED <<opps, execTasks, limit, routes, enabled, changes, repairs>>
    BY <1>1, ExecutorFrame
  <2> QED
    BY <1>1, <2>1, <2>2, <2>3 DEF ExecutionTypeOK, BusTypeOK
<1>3. /\ xpc' \in [Nodes -> {"read", "guard", "preflight", "open", "submit", "plan",
                             "record", "blocked", "failing", "down"}]
      /\ xlast' \in [Nodes -> Nat]
      /\ xfail' \in [Nodes -> 0..MaxExecutorFailures]
  <2> USE <1>1, ExecutorAssumption DEF ExecutionTypeOK, ExecutorTypeOK, ExecutorAssumption,
          EndIteration, Goto, Advance, busVars
  <2>1. CASE StartTask(n) \/ CheckGuard(n) \/ Preflight(n)
    BY <2>1 DEF StartTask, CheckGuard, Preflight
  <2>2. CASE BlockTask(n)
    BY <2>2 DEF BlockTask
  <2>3. CASE RecordResult(n)
    BY <2>3 DEF RecordResult
  <2>4. CASE FailTask(n) \/ ChooseLegs(n) \/ ExecutorRestart(n)
    BY <2>4 DEF FailTask, ChooseLegs, ExecutorRestart
  <2>5. CASE \E side \in Sides, outcome \in LegOutcomes : FinishLeg(n, side, outcome)
    BY <2>5 DEF FinishLeg
  <2>6. CASE CloseSessions(n) \/ PublishRepair(n)
    BY <2>6 DEF CloseSessions, PublishRepair
  <2>7. CASE Raise(n)
    BY <2>7 DEF Raise
  <2>8. CASE ExecutorCrash(n)
    BY <2>8 DEF ExecutorCrash
  <2> QED
    BY <2>1, <2>2, <2>3, <2>4, <2>5, <2>6, <2>7, <2>8 DEF AnyStep, ExecutorStep
<1>4. xamount' \in [Nodes -> 0..MaxNotional]
  <2>1. xamount \in [Nodes -> 0..MaxNotional] /\ limit \in 0..MaxNotional /\ MaxNotional \in Nat
    BY <1>1, BusAssumption DEF ExecutionTypeOK, ExecutorTypeOK, BusTypeOK, BusAssumption
  <2>2. CASE CheckGuard(n)
    <3>1. xlast[n] < Len(execTasks[n])
      BY <1>1, <2>2 DEF CursorInv, Busy, CheckGuard
    <3>2. Entry(n) \in ExecEntry
      BY <1>1, <3>1, EntryFacts
    <3>3. Entry(n).target_quote_amount \in 1..MaxNotional
      BY <3>2 DEF ExecEntry
    <3>4. ApprovedNotional(Entry(n).target_quote_amount) \in 0..MaxNotional
      BY <2>1, <3>3 DEF ApprovedNotional
    <3> QED
      BY <2>1, <2>2, <3>4 DEF CheckGuard
  <2>3. CASE ~CheckGuard(n)
    <3>1. UNCHANGED xamount \/ xamount' = [xamount EXCEPT ![n] = 0]
      BY <2>3 DEF AnyStep, ExecutorStep, StartTask, BlockTask, Preflight, ChooseLegs, FinishLeg,
         CloseSessions, PublishRepair, RecordResult, FailTask, ExecutorRestart, Raise,
         ExecutorCrash, EndIteration
    <3> QED
      BY <2>1, <3>1
  <2> QED
    BY <2>2, <2>3
<1>5. xlegs' \in [Nodes -> [Sides -> [exchange : Exchanges \cup {NoExchange}, state : LegStates]]]
  <2>1. xlegs \in [Nodes -> [Sides -> [exchange : Exchanges \cup {NoExchange}, state : LegStates]]]
    BY <1>1 DEF ExecutionTypeOK, ExecutorTypeOK
  <2>2. CASE ChooseLegs(n)
    <3>1. xlast[n] < Len(execTasks[n])
      BY <1>1, <2>2 DEF CursorInv, Busy, ChooseLegs
    <3>2. Entry(n) \in ExecEntry
      BY <1>1, <3>1, EntryFacts
    <3>3. PICK buy \in {Entry(n).buy_exchange, Entry(n).sell_exchange},
               sell \in {Entry(n).buy_exchange, Entry(n).sell_exchange} :
              xlegs' = [xlegs EXCEPT ![n] =
                           [side \in Sides |-> [exchange |-> IF side = "buy" THEN buy ELSE sell,
                                                state |-> "pending"]]]
      BY <2>2 DEF ChooseLegs
    <3>4. buy \in Exchanges /\ sell \in Exchanges
      BY <3>2 DEF ExecEntry
    <3>5. [side \in Sides |-> [exchange |-> IF side = "buy" THEN buy ELSE sell,
                               state |-> "pending"]]
             \in [Sides -> [exchange : Exchanges \cup {NoExchange}, state : LegStates]]
      BY <3>4 DEF LegStates
    <3> QED
      BY <2>1, <3>3, <3>5
  <2>3. CASE \E side \in Sides, outcome \in LegOutcomes : FinishLeg(n, side, outcome)
    BY <1>1, <2>3, FinishLegDoes
  <2>4. CASE /\ ~ChooseLegs(n)
             /\ ~ \E side \in Sides, outcome \in LegOutcomes : FinishLeg(n, side, outcome)
    <3>1. UNCHANGED xlegs \/ xlegs' = [xlegs EXCEPT ![n] = NoLegs]
      BY <2>4 DEF AnyStep, ExecutorStep, StartTask, CheckGuard, BlockTask, Preflight,
         CloseSessions, PublishRepair, RecordResult, FailTask, ExecutorRestart, Raise,
         ExecutorCrash, EndIteration
    <3>2. NoLegs \in [Sides -> [exchange : Exchanges \cup {NoExchange}, state : LegStates]]
      BY DEF NoLegs, LegStates
    <3> QED
      BY <2>1, <3>1, <3>2
  <2> QED
    BY <2>2, <2>3, <2>4
<1>6. \A m \in Nodes : xlast'[m] <= Len(execTasks'[m])
  <2>1. UNCHANGED execTasks /\ \A m \in Nodes : m # n => xlast'[m] = xlast[m]
    BY <1>1, ExecutorFrame
  <2>2. \A m \in Nodes : xlast[m] \in Nat /\ xlast[m] <= Len(execTasks[m]) /\ Len(execTasks[m]) \in Nat
    BY <1>1 DEF ExecutionTypeOK, ExecutorTypeOK, BusTypeOK
  <2>3. \/ xlast'[n] \in {xlast[n], 0}
        \/ xlast'[n] = xlast[n] + 1 /\ xpc[n] \in {"blocked", "record"}
    BY <1>1, ExecutorLocals DEF Stays
  <2>4. xlast'[n] <= Len(execTasks[n])
    BY <1>1, <2>2, <2>3 DEF CursorInv, Busy
  <2> QED
    BY <2>1, <2>2, <2>4
<1> QED
  BY <1>2, <1>3, <1>4, <1>5, <1>6 DEF ExecutionTypeOK, ExecutorTypeOK

-----------------------------------------------------------------------------
(* A step of an executor keeps each conjunct of the invariant.             *)
LEMMA ExecutorKeepsCursor ==
    ASSUME CoreInv, NEW n \in Nodes, AnyStep(n)
    PROVE  /\ SentHaveRows' /\ SentOnce' /\ CursorInv'
           /\ Busy(n)' => /\ xlast'[n] = xlast[n] /\ xlast[n] < Len(execTasks[n])
                          /\ Busy(n) \/ StartTask(n)
                          /\ ~BlockTask(n) /\ ~RecordResult(n) /\ ~FailTask(n)
<1>1. ExecutionTypeOK /\ SentHaveRows /\ SentOnce /\ CursorInv
  BY DEF CoreInv
<1>2. /\ UNCHANGED execTasks
      /\ \A m \in Nodes : m # n => xpc'[m] = xpc[m] /\ xlast'[m] = xlast[m]
  BY <1>1, ExecutorFrame
<1>3. DOMAIN tasks' = DOMAIN tasks
  BY RowWriter
<1>4. SentHaveRows' /\ SentOnce'
  BY <1>1, <1>2, <1>3 DEF SentHaveRows, SentOnce
<1>5. Busy(n)' => /\ xlast'[n] = xlast[n] /\ xlast[n] < Len(execTasks[n])
                  /\ Busy(n) \/ StartTask(n)
                  /\ ~BlockTask(n) /\ ~RecordResult(n) /\ ~FailTask(n)
  <2> SUFFICES ASSUME Busy(n)'
               PROVE  /\ xlast'[n] = xlast[n] /\ xlast[n] < Len(execTasks[n])
                      /\ Busy(n) \/ StartTask(n)
                      /\ ~BlockTask(n) /\ ~RecordResult(n) /\ ~FailTask(n)
    OBVIOUS
  <2>1. xpc'[n] \notin {"read", "down"}
    BY DEF Busy
  <2>2. xlast'[n] = xlast[n] /\ (xlast[n] < Len(execTasks[n]) \/ Busy(n)) /\ (Busy(n) \/ StartTask(n))
    BY <1>1, <2>1, ExecutorLocals DEF Stays, Busy
  <2>3. ~BlockTask(n) /\ ~RecordResult(n) /\ ~FailTask(n)
    BY <1>1, <2>1, EndIterationDoes DEF BlockTask, RecordResult, FailTask, ExecutionTypeOK
  <2> QED
    BY <1>1, <2>2, <2>3 DEF CursorInv
<1>6. CursorInv'
  <2> SUFFICES ASSUME NEW m \in Nodes, Busy(m)'
               PROVE  xlast'[m] < Len(execTasks'[m])
    BY DEF CursorInv
  <2>1. CASE m = n
    BY <1>2, <1>5, <2>1
  <2>2. CASE m # n
    BY <1>1, <1>2, <2>2 DEF CursorInv, Busy
  <2> QED
    BY <2>1, <2>2
<1> QED
  BY <1>4, <1>5, <1>6

LEMMA ExecutorKeepsUnblocked ==
    ASSUME RecordsInv, NEW n \in Nodes, AnyStep(n)
    PROVE  BusyNotBlocked'
<1>0. CoreInv
  BY DEF RecordsInv
<1>1. ExecutionTypeOK /\ SentHaveRows /\ SentOnce /\ CursorInv /\ BusyNotBlocked
  BY DEF RecordsInv, CoreInv
<1>2. /\ UNCHANGED execTasks
      /\ \A m \in Nodes : m # n => xpc'[m] = xpc[m] /\ xlast'[m] = xlast[m]
  BY <1>1, ExecutorFrame
<1>5. Busy(n)' => /\ xlast'[n] = xlast[n] /\ xlast[n] < Len(execTasks[n])
                  /\ Busy(n) \/ StartTask(n)
                  /\ ~BlockTask(n) /\ ~RecordResult(n) /\ ~FailTask(n)
  BY <1>0, ExecutorKeepsCursor
<1>7. BusyNotBlocked'
  <2> SUFFICES ASSUME NEW m \in Nodes, Busy(m)'
               PROVE  (tasks[Entry(m).task].status # "BLOCKED")'
    BY DEF BusyNotBlocked
  <2>1. Entry(m)' = Entry(m) /\ xlast[m] < Len(execTasks[m])
    <3>1. CASE m = n
      BY <1>2, <1>5, <3>1 DEF Entry
    <3>2. CASE m # n
      BY <1>1, <1>2, <3>2 DEF Entry, CursorInv, Busy
    <3> QED
      BY <3>1, <3>2
  <2>2. Entry(m).task \in DOMAIN tasks /\ xlast[m] + 1 \in DOMAIN execTasks[m]
    BY <1>1, <2>1, EntryFacts DEF SentHaveRows, Entry
  <2>3. CASE m # n
    <3>1. Busy(m) /\ tasks[Entry(m).task].status # "BLOCKED"
      BY <1>1, <1>2, <2>3 DEF Busy, BusyNotBlocked
    <3>2. tasks'[Entry(m).task] = tasks[Entry(m).task]
      <4> SUFFICES ASSUME tasks'[Entry(m).task] # tasks[Entry(m).task]
                   PROVE  FALSE
        OBVIOUS
      <4>1. Entry(m).task = Entry(n).task /\ xlast[n] < Len(execTasks[n])
        BY <1>0, <2>2, RowWriter
      <4> QED
        BY <1>1, <2>2, <2>3, <4>1, SameEntry DEF Entry
    <3> QED
      BY <2>1, <3>1, <3>2
  <2>4. CASE m = n
    <3>1. CASE StartTask(n)
      <4>1. tasks'[Entry(n).task].status = "EXECUTING"
        BY <1>1, <3>1, MarkExecutingRow DEF StartTask, ExecutionTypeOK, BusTypeOK
      <4> QED
        BY <2>1, <2>4, <4>1
    <3>2. CASE ~StartTask(n)
      <4>1. UNCHANGED tasks /\ Busy(n)
        BY <1>0, <1>5, <2>4, <3>2, ExecutorRow
      <4> QED
        BY <1>1, <2>1, <2>4, <4>1 DEF BusyNotBlocked
    <3> QED
      BY <3>1, <3>2
  <2> QED
    BY <2>3, <2>4
<1> QED
  BY <1>7

LEMMA ExecutorKeepsLegs ==
    ASSUME CoreInv, NEW n \in Nodes, AnyStep(n)
    PROVE  LegsInv'
<1>1. ExecutionTypeOK /\ CursorInv /\ LegsInv
  BY DEF CoreInv
<1>2. /\ UNCHANGED execTasks
      /\ \A m \in Nodes : m # n => /\ xpc'[m] = xpc[m] /\ xlast'[m] = xlast[m]
                                   /\ xlegs'[m] = xlegs[m]
  BY <1>1, ExecutorFrame
<1>3. \A k \in TaskIds \X Exchanges \X Sides : orders[k] > 0 => orders'[k] > 0
  <2>1. orders \in [TaskIds \X Exchanges \X Sides -> Nat]
    BY <1>1 DEF ExecutionTypeOK, BusTypeOK
  <2>2. \A k \in TaskIds \X Exchanges \X Sides : orders'[k] = orders[k] \/ orders'[k] = orders[k] + 1
    BY <1>1, ExecutorOrders
  <2> QED
    BY <2>1, <2>2
<1>4. ASSUME NEW m \in Nodes, HasLegs(m), xlegs'[m] = xlegs[m], xlast'[m] = xlast[m]
      PROVE  \A side \in Sides : /\ (Leg(m, side).exchange \in Exchanges)'
                                 /\ (Leg(m, side).state \in {"pending", "filled", "failed"})'
                                 /\ (Leg(m, side).state = "filled" => orders[OrderOf(m, side)] > 0)'
  <2>1. Entry(m)' = Entry(m) /\ \A side \in Sides : Leg(m, side)' = Leg(m, side)
    BY <1>2, <1>4 DEF Entry, Leg
  <2>2. xlast[m] < Len(execTasks[m])
    BY <1>1, <1>4 DEF CursorInv, Busy, HasLegs
  <2>3. Entry(m).task \in TaskIds
    BY <1>1, <2>2, EntryFacts
  <2>4. \A side \in Sides : OrderOf(m, side)' = OrderOf(m, side)
    BY <2>1 DEF OrderOf
  <2>5. \A side \in Sides : Leg(m, side).exchange \in Exchanges
    BY <1>1, <1>4 DEF LegsInv
  <2>6. \A side \in Sides : OrderOf(m, side) \in TaskIds \X Exchanges \X Sides
    BY <2>3, <2>5 DEF OrderOf
  <2> QED
    BY <1>1, <1>3, <1>4, <2>1, <2>4, <2>5, <2>6 DEF LegsInv
<1>5. LegsInv'
  <2> SUFFICES ASSUME NEW m \in Nodes, HasLegs(m)'
               PROVE  (/\ \A side \in Sides :
                             /\ Leg(m, side).exchange \in Exchanges
                             /\ Leg(m, side).state \in {"pending", "filled", "failed"}
                             /\ Leg(m, side).state = "filled" => orders[OrderOf(m, side)] > 0
                       /\ xpc[m] # "submit" => LegsFinished(m))'
    BY DEF LegsInv
  <2>1. CASE m # n
    <3>1. HasLegs(m) /\ (xpc[m] # "submit" => LegsFinished(m)) /\ (LegsFinished(m) => LegsFinished(m)')
      BY <1>1, <1>2, <2>1 DEF HasLegs, LegsInv, LegsFinished, Leg
    <3> QED
      BY <1>2, <1>4, <2>1, <3>1
  <2>2. CASE m = n
    <3>1. CASE ChooseLegs(n)
      <4>1. xlast[n] < Len(execTasks[n])
        BY <1>1, <3>1 DEF CursorInv, Busy, ChooseLegs
      <4>2. Entry(n) \in ExecEntry
        BY <1>1, <4>1, EntryFacts
      <4>3. PICK buy \in {Entry(n).buy_exchange, Entry(n).sell_exchange},
                 sell \in {Entry(n).buy_exchange, Entry(n).sell_exchange} :
                xlegs' = [xlegs EXCEPT ![n] =
                             [side \in Sides |-> [exchange |-> IF side = "buy" THEN buy ELSE sell,
                                                  state |-> "pending"]]]
        BY <3>1 DEF ChooseLegs
      <4>4. buy \in Exchanges /\ sell \in Exchanges
        BY <4>2 DEF ExecEntry
      <4>5. xlegs'[n] = [side \in Sides |-> [exchange |-> IF side = "buy" THEN buy ELSE sell,
                                             state |-> "pending"]]
        BY <1>1, <4>3 DEF ExecutionTypeOK, ExecutorTypeOK
      <4>6. \A side \in Sides : Leg(n, side)'.exchange \in Exchanges /\ Leg(n, side)'.state = "pending"
        BY <4>4, <4>5 DEF Leg
      <4>7. xpc'[n] = "submit"
        BY <1>1, <3>1, GotoDoes DEF ChooseLegs, ExecutionTypeOK
      <4> QED
        BY <2>2, <4>6, <4>7
    <3>2. CASE \E side \in Sides, outcome \in LegOutcomes : FinishLeg(n, side, outcome)
      <4>1. PICK s \in Sides, outcome \in LegOutcomes : FinishLeg(n, s, outcome)
        BY <3>2
      <4>2. /\ xpc[n] = "submit" /\ xpc'[n] = "submit" /\ xlast'[n] = xlast[n]
            /\ Leg(n, s).state = "pending"
        BY <4>1 DEF FinishLeg
      <4>3. xlast[n] < Len(execTasks[n])
        BY <1>1, <4>2 DEF CursorInv, Busy
      <4>4. Entry(n)' = Entry(n) /\ Entry(n).task \in TaskIds
        BY <1>1, <1>2, <4>2, <4>3, EntryFacts DEF Entry
      <4>5. \A side \in Sides : /\ Leg(n, side).exchange \in Exchanges
                                /\ Leg(n, side).state \in {"pending", "filled", "failed"}
                                /\ Leg(n, side).state = "filled" => orders[OrderOf(n, side)] > 0
        BY <1>1, <4>2 DEF LegsInv, HasLegs
      <4>6. /\ Leg(n, s)'.exchange = Leg(n, s).exchange
            /\ Leg(n, s)'.state = IF outcome = "accepted" THEN "filled" ELSE "failed"
            /\ \A other \in Sides : other # s => Leg(n, other)' = Leg(n, other)
        BY <1>1, <4>1, FinishLegDoes
      <4>7. \A side \in Sides : OrderOf(n, side)' = OrderOf(n, side)
        BY <4>4, <4>6 DEF OrderOf
      <4>8. \A side \in Sides : OrderOf(n, side) \in TaskIds \X Exchanges \X Sides
        BY <4>4, <4>5 DEF OrderOf
      <4>9. outcome = "accepted" => orders'[OrderOf(n, s)] > 0
        <5>1. outcome = "accepted" => orders' = [orders EXCEPT ![OrderOf(n, s)] = @ + 1]
          BY <4>1 DEF FinishLeg, OrderOf
        <5>2. orders \in [TaskIds \X Exchanges \X Sides -> Nat]
          BY <1>1 DEF ExecutionTypeOK, BusTypeOK
        <5>3. orders[OrderOf(n, s)] \in Nat
          BY <4>8, <5>2
        <5> QED
          BY <4>8, <5>1, <5>2, <5>3
      <4>10. \A side \in Sides : /\ Leg(n, side)'.exchange \in Exchanges
                                 /\ Leg(n, side)'.state \in {"pending", "filled", "failed"}
        BY <4>5, <4>6
      <4>11. \A side \in Sides : Leg(n, side)'.state = "filled" => orders'[OrderOf(n, side)] > 0
        BY <1>3, <4>5, <4>6, <4>8, <4>9
      <4> QED
        BY <2>2, <4>2, <4>7, <4>10, <4>11
    <3>3. CASE CloseSessions(n) \/ PublishRepair(n)
      <4>1. /\ xpc[n] \in {"submit", "plan"} /\ xlegs' = xlegs /\ xlast' = xlast /\ HasLegs(n)
        BY <3>3 DEF CloseSessions, PublishRepair, HasLegs
      <4>2. LegsFinished(n)
        BY <1>1, <3>3 DEF CloseSessions, PublishRepair, LegsInv, HasLegs
      <4>3. LegsFinished(n)'
        BY <4>1, <4>2 DEF LegsFinished, Leg
      <4> QED
        BY <1>4, <2>2, <4>1, <4>3
    <3> QED
      BY <1>1, <2>2, <3>1, <3>2, <3>3, ExecutorLocals DEF HasLegs
  <2> QED
    BY <2>1, <2>2
<1> QED
  BY <1>5

LEMMA ExecutorKeepsRepairFirst ==
    ASSUME RecordsInv, NEW n \in Nodes, AnyStep(n)
    PROVE  RepairFirst'
<1>0. CoreInv
  BY DEF RecordsInv
<1>1. ExecutionTypeOK /\ CursorInv /\ LegsInv /\ RepairFirst
  BY DEF RecordsInv, CoreInv
<1>2. /\ UNCHANGED execTasks
      /\ \A m \in Nodes : m # n => /\ xpc'[m] = xpc[m] /\ xlast'[m] = xlast[m]
                                   /\ xlegs'[m] = xlegs[m]
  BY <1>1, ExecutorFrame
<1>6. RepairFirst'
  <2> SUFFICES ASSUME NEW m \in Nodes, (xpc[m] = "record" /\ FailedSides(m) # {})'
               PROVE  HasRepairTask(Entry(m).task)'
    BY DEF RepairFirst
  <2>1. CASE m # n
    <3>1. /\ xpc[m] = "record" /\ FailedSides(m) # {} /\ Entry(m)' = Entry(m)
      BY <1>2, <2>1 DEF FailedSides, Leg, Entry
    <3>2. HasRepairTask(Entry(m).task)
      BY <1>1, <3>1 DEF RepairFirst
    <3> QED
      BY <1>0, <3>1, <3>2, ExecutorRepairs DEF HasRepairTask
  <2>2. CASE m = n
    <3>1. PublishRepair(n) \/ CloseSessions(n)
      BY <1>1, <2>2, ExecutorLocals
    <3>2. CASE PublishRepair(n)
      BY <1>0, <2>2, <3>2, ExecutorRepairs
    <3>3. CASE CloseSessions(n)
      <4>1. xpc'[n] = "record" /\ xlegs' = xlegs /\ FailedSides(n) # {}
        BY <2>2, <3>3 DEF CloseSessions, FailedSides, Leg
      <4>2. ExecutionStatus(n) = "OPEN_PARTIAL"
        BY <4>1 DEF ExecutionStatus
      <4> QED
        BY <1>1, <3>3, <4>1, <4>2, GotoDoes DEF CloseSessions, ExecutionTypeOK
    <3> QED
      BY <3>1, <3>2, <3>3
  <2> QED
    BY <2>1, <2>2
<1> QED
  BY <1>6

LEMMA ExecutorKeepsOrders ==
    ASSUME RecordsInv, NEW n \in Nodes, AnyStep(n)
    PROVE  OrdersCounted'
<1>0. CoreInv
  BY DEF RecordsInv
<1>1. ExecutionTypeOK /\ CursorInv /\ SentOnce /\ OrdersCounted
  BY DEF RecordsInv, CoreInv
<1>2. /\ UNCHANGED execTasks
      /\ \A m \in Nodes : m # n => /\ xpc'[m] = xpc[m] /\ xlast'[m] = xlast[m]
                                   /\ xlegs'[m] = xlegs[m] /\ xfail'[m] = xfail[m]
  BY <1>1, ExecutorFrame
<1>3. orders \in [TaskIds \X Exchanges \X Sides -> Nat]
  BY <1>1 DEF ExecutionTypeOK, BusTypeOK
<1>4. ASSUME NEW k \in TaskIds \X Exchanges \X Sides, orders'[k] # orders[k]
      PROVE  /\ orders'[k] = orders[k] + 1
             /\ xlast[n] < Len(execTasks[n])
             /\ \E side \in Sides :
                   /\ k = OrderOf(n, side)
                   /\ xpc[n] = "submit" /\ Leg(n, side).state = "pending"
                   /\ xpc'[n] = "submit" /\ Leg(n, side)'.state \in {"filled", "failed"}
                   /\ Stays(n)
  <2>1. PICK side \in Sides : /\ orders'[k] = orders[k] + 1
                              /\ k = OrderOf(n, side)
                              /\ xpc[n] = "submit" /\ Leg(n, side).state = "pending"
                              /\ Leg(n, side)'.state \in {"filled", "failed"}
                              /\ \E outcome : FinishLeg(n, side, outcome)
    BY <1>1, <1>4, ExecutorOrders
  <2>2. xpc'[n] = "submit" /\ Stays(n)
    BY <2>1 DEF FinishLeg, Stays
  <2>3. xlast[n] < Len(execTasks[n])
    BY <1>1, <2>1 DEF CursorInv, Busy
  <2> QED
    BY <2>1, <2>2, <2>3
<1>5. \A t \in TaskIds : ~Published(t)' => NoOrderFor(t)'
  <2> SUFFICES ASSUME NEW t \in TaskIds, ~Published(t)', NEW e \in Exchanges, NEW side \in Sides
               PROVE  orders'[<<t, e, side>>] = 0
    BY DEF NoOrderFor
  <2>1. ~Published(t)
    BY <1>2 DEF Published
  <2>2. orders[<<t, e, side>>] = 0
    BY <1>1, <2>1 DEF OrdersCounted, NoOrderFor
  <2>3. orders'[<<t, e, side>>] = orders[<<t, e, side>>]
    <3> SUFFICES ASSUME orders'[<<t, e, side>>] # orders[<<t, e, side>>]
                 PROVE  FALSE
      OBVIOUS
    <3>1. t = Entry(n).task /\ xlast[n] < Len(execTasks[n])
      BY <1>4 DEF OrderOf
    <3>2. xlast[n] + 1 \in DOMAIN execTasks[n]
      BY <1>1, <3>1, EntryFacts
    <3> QED
      BY <2>1, <3>1, <3>2 DEF Published, Entry
  <2> QED
    BY <2>2, <2>3
<1>6. ASSUME NEW m \in Nodes, NEW i \in DOMAIN execTasks[m], NEW e \in Exchanges, NEW side \in Sides
      PROVE  (orders[<<execTasks[m][i].task, e, side>>] <= xfail[m] + Tries(m, i, side))'
  <2> DEFINE k == <<execTasks[m][i].task, e, side>>
  <2>1. /\ execTasks[m][i].task \in TaskIds /\ k \in TaskIds \X Exchanges \X Sides
        /\ i \in Nat
    <3>1. execTasks[m] \in Seq(ExecEntry)
      BY <1>1 DEF ExecutionTypeOK, BusTypeOK
    <3>2. execTasks[m][i] \in ExecEntry /\ i \in Nat
      BY <3>1
    <3> QED
      BY <3>2 DEF ExecEntry
  <2>2. /\ orders[k] \in Nat /\ xfail[m] \in Nat /\ xlast[m] \in Nat
        /\ xfail[n] \in Nat /\ xlast[n] \in Nat
    BY <1>1, <1>3, <2>1, ExecutorAssumption
       DEF ExecutionTypeOK, ExecutorTypeOK, ExecutorAssumption
  <2>3. orders[k] <= xfail[m] + Tries(m, i, side)
    BY <1>1 DEF OrdersCounted
  <2>4. Tries(m, i, side) \in {0, 1} /\ Tries(m, i, side)' \in {0, 1}
    BY DEF Tries
  <2>5. execTasks'[m][i].task = execTasks[m][i].task
    BY <1>2
  <2>6. CASE orders'[k] # orders[k]
    <3>1. PICK s \in Sides : /\ orders'[k] = orders[k] + 1
                             /\ xlast[n] < Len(execTasks[n])
                             /\ k = OrderOf(n, s)
                             /\ xpc[n] = "submit" /\ Leg(n, s).state = "pending"
                             /\ xpc'[n] = "submit" /\ Leg(n, s)'.state \in {"filled", "failed"}
                             /\ Stays(n)
      BY <1>4, <2>1, <2>6
    <3>2. side = s /\ execTasks[m][i].task = Entry(n).task
      BY <3>1 DEF OrderOf
    <3>3. m = n /\ i = xlast[n] + 1
      BY <1>1, <3>1, <3>2, SameEntry
    <3>4. Tries(m, i, side) = 0
      BY <2>2, <3>1, <3>2, <3>3 DEF Tries, Finished
    <3>5. Tries(m, i, side)' = 1
      BY <2>2, <3>1, <3>2, <3>3 DEF Tries, Finished, HasLegs, Stays
    <3> QED
      BY <2>2, <2>3, <2>5, <3>1, <3>3, <3>4, <3>5 DEF Stays
  <2>7. CASE orders'[k] = orders[k]
    <3>1. xfail[m] + Tries(m, i, side) <= xfail'[m] + Tries(m, i, side)'
      <4>1. CASE m # n
        BY <1>2, <2>2, <2>4, <4>1 DEF Tries, Finished, HasLegs, Leg
      <4>2. CASE m = n /\ xfail'[n] = xfail[n] + 1
        BY <2>2, <2>4, <4>2
      <4>3. CASE m = n /\ xfail'[n] = xfail[n] /\ xlast'[n] = xlast[n] + 1
        BY <2>1, <2>2, <2>4, <4>3 DEF Tries
      <4>4. CASE m = n /\ Stays(n)
        <5>1. Finished(n, side) => Finished(n, side)'
          <6> SUFFICES ASSUME Finished(n, side)
                       PROVE  Finished(n, side)'
            OBVIOUS
          <6>1. CASE \E s \in Sides, outcome \in LegOutcomes : FinishLeg(n, s, outcome)
            <7>1. PICK s \in Sides, outcome \in LegOutcomes : FinishLeg(n, s, outcome)
              BY <6>1
            <7>2. /\ xpc'[n] = "submit"
                  /\ Leg(n, side)'.state \in {"filled", "failed"}
              <8>1. /\ Leg(n, s)'.state \in {"filled", "failed"}
                    /\ \A other \in Sides : other # s => Leg(n, other)' = Leg(n, other)
                BY <1>1, <7>1, FinishLegDoes
              <8> QED
                BY <7>1, <8>1 DEF Finished, FinishLeg
            <7> QED
              BY <7>2 DEF Finished, HasLegs
          <6>2. CASE CloseSessions(n) \/ PublishRepair(n)
            <7>1. LegsStay(n) /\ xpc'[n] \in {"plan", "record"}
              <8>1. xlegs' = xlegs
                BY <6>2 DEF CloseSessions, PublishRepair
              <8>2. xpc'[n] \in {"plan", "record"}
                BY <1>1, <6>2, GotoDoes DEF CloseSessions, PublishRepair, ExecutionTypeOK
              <8> QED
                BY <8>1, <8>2 DEF LegsStay, Leg
            <7> QED
              BY <7>1 DEF Finished, HasLegs, LegsStay
          <6> QED
            BY <1>1, <2>2, <4>4, <6>1, <6>2, ExecutorLocals
               DEF Finished, HasLegs, Stays, FailTask, StartTask
        <5>2. Tries(n, i, side) <= Tries(n, i, side)'
          BY <2>1, <2>2, <4>4, <5>1 DEF Tries, Stays
        <5> QED
          BY <2>2, <2>4, <4>4, <5>2 DEF Stays
      <4> QED
        BY <1>1, <4>1, <4>2, <4>3, <4>4, ExecutorLocals
    <3> HIDE DEF k
    <3>2. orders'[k] <= xfail'[m] + Tries(m, i, side)'
      <4>1. xfail'[m] \in Nat
        BY <1>0, <1>2, <2>2, <1>1, ExecutorTypesKept, ExecutorAssumption
           DEF ExecutionTypeOK, ExecutorTypeOK, ExecutorAssumption
      <4> QED
        BY <2>2, <2>3, <2>4, <2>7, <3>1, <4>1
    <3> QED
      BY <2>5, <3>2 DEF k
  <2> QED
    BY <2>6, <2>7
<1> QED
  BY <1>2, <1>5, <1>6 DEF OrdersCounted

(* Once failed, always failed.                                             *)
LEMMA FailuresGrow ==
    ASSUME ExecutionTypeOK, NEW n \in Nodes, AnyStep(n)
    PROVE  \A m \in Nodes : xfail'[m] = 0 => xfail[m] = 0
<1>1. xfail[n] \in Nat
  BY ExecutorAssumption DEF ExecutionTypeOK, ExecutorTypeOK, ExecutorAssumption
<1>2. xfail'[n] = xfail[n] \/ xfail'[n] = xfail[n] + 1
  BY ExecutorLocals DEF Stays
<1> QED
  BY <1>1, <1>2, ExecutorFrame

LEMMA ExecutorKeepsSucceeded ==
    ASSUME ExecutionInv, NEW n \in Nodes, AnyStep(n)
    PROVE  SucceededIsBehind'
<1>0. CoreInv
  BY DEF ExecutionInv, RecordsInv
<1>1. ExecutionTypeOK /\ SucceededIsBehind /\ CursorInv
  BY DEF ExecutionInv, RecordsInv, CoreInv
<1> SUFFICES ASSUME NobodyFailed', NEW t \in DOMAIN tasks', tasks'[t].status = "SUCCEEDED"
             PROVE  \E m \in Nodes : \E i \in 1..xlast'[m] : execTasks'[m][i].task = t
  BY DEF SucceededIsBehind
<1>2. NobodyFailed /\ xfail'[n] = 0 /\ xfail[n] = 0
  BY <1>1, FailuresGrow DEF NobodyFailed
<1>3. UNCHANGED execTasks /\ t \in DOMAIN tasks
  BY <1>0, <1>1, ExecutorFrame, RowWriter
<1>4. \A m \in Nodes : xlast[m] \in Nat
  BY <1>1 DEF ExecutionTypeOK, ExecutorTypeOK
<1>5. xlast'[n] = xlast[n] \/ xlast'[n] = xlast[n] + 1
  BY <1>1, <1>2, ExecutorLocals DEF Stays
<1>6. \A m \in Nodes : 1..xlast[m] \subseteq 1..xlast'[m]
  BY <1>1, <1>4, <1>5, ExecutorFrame
<1>7. CASE tasks[t].status = "SUCCEEDED"
  BY <1>1, <1>2, <1>3, <1>6, <1>7 DEF SucceededIsBehind
<1>8. CASE tasks[t].status # "SUCCEEDED"
  <2>1. t = Entry(n).task /\ RecordResult(n)
    BY <1>0, <1>3, <1>8, ExecutorRow, RowWriter
  <2>2. xlast'[n] = xlast[n] + 1
    BY <1>1, <2>1, AdvanceDoes DEF RecordResult, ExecutionTypeOK
  <2>3. execTasks'[n][xlast[n] + 1].task = t /\ xlast[n] + 1 \in 1..xlast'[n]
    BY <1>3, <1>4, <2>1, <2>2 DEF Entry
  <2> QED
    BY <2>3
<1> QED
  BY <1>7, <1>8

(* The actions that write a row are taken at different labels.             *)
LEMMA RowActions ==
    ASSUME NEW n \in Nodes
    PROVE  /\ StartTask(n) => xpc[n] = "read"
           /\ BlockTask(n) => xpc[n] = "blocked"
           /\ FailTask(n) => xpc[n] = "failing"
           /\ RecordResult(n) => xpc[n] = "record"
BY DEF StartTask, BlockTask, FailTask, RecordResult

LEMMA ExecutorKeepsRecords ==
    ASSUME RecordsInv, NEW n \in Nodes, AnyStep(n)
    PROVE  OutcomeBeforeAck' /\ PartialHasRepairTask' /\ FullyHedgedHasBothLegs'
<1>0. CoreInv
  BY DEF RecordsInv
<1>1. /\ ExecutionTypeOK /\ SentHaveRows /\ LegsInv /\ RepairFirst
      /\ OutcomeBeforeAck /\ PartialHasRepairTask /\ FullyHedgedHasBothLegs
  BY DEF RecordsInv, CoreInv
<1>2. /\ UNCHANGED execTasks
      /\ \A m \in Nodes : m # n => xlast'[m] = xlast[m]
  BY <1>1, ExecutorFrame
<1>3. DOMAIN tasks' = DOMAIN tasks /\ DOMAIN tasks \subseteq TaskIds
  BY <1>0, <1>1, RowWriter DEF ExecutionTypeOK, BusTypeOK, TasksTypeOK
<1>4. orders \in [TaskIds \X Exchanges \X Sides -> Nat]
  BY <1>1 DEF ExecutionTypeOK, BusTypeOK
<1>5. \A m \in Nodes : xlast[m] \in Nat /\ xlast[m] <= Len(execTasks[m])
                       /\ execTasks[m] \in Seq(ExecEntry)
  BY <1>1 DEF ExecutionTypeOK, ExecutorTypeOK, BusTypeOK
<1>6. OutcomeBeforeAck'
  <2> SUFFICES ASSUME NEW m \in Nodes, NEW i \in 1..xlast'[m]
               PROVE  tasks'[execTasks[m][i].task].finished_at
    BY <1>2 DEF OutcomeBeforeAck
  <2>1. CASE i \in 1..xlast[m]
    <3>1. tasks[execTasks[m][i].task].finished_at
      BY <1>1, <2>1 DEF OutcomeBeforeAck
    <3>2. i \in DOMAIN execTasks[m]
      BY <1>5, <2>1
    <3>3. execTasks[m][i].task \in DOMAIN tasks
      BY <1>1, <3>2 DEF SentHaveRows
    <3> QED
      BY <1>0, <3>1, <3>3, RowWriter
  <2>2. CASE i \notin 1..xlast[m]
    <3>1. m = n /\ xlast'[n] = xlast[n] + 1 /\ (BlockTask(n) \/ RecordResult(n))
      <4>1. m = n
        BY <1>2, <2>2
      <4> QED
        BY <1>1, <1>5, <2>2, <4>1, ExecutorLocals DEF Stays
    <3>2. i = xlast[n] + 1
      BY <1>5, <2>2, <3>1
    <3>3. tasks'[Entry(n).task].finished_at
      BY <1>0, <3>1, ExecutorRow, RowActions
    <3> QED
      BY <3>1, <3>2, <3>3 DEF Entry
  <2> QED
    BY <2>1, <2>2
<1>7. PartialHasRepairTask'
  <2> SUFFICES ASSUME NEW t \in DOMAIN tasks', tasks'[t].execution_status = "OPEN_PARTIAL"
               PROVE  HasRepairTask(t)'
    BY DEF PartialHasRepairTask, HasRepairTask
  <2>1. CASE tasks[t].execution_status = "OPEN_PARTIAL"
    <3>1. HasRepairTask(t)
      BY <1>1, <1>3, <2>1 DEF PartialHasRepairTask, HasRepairTask
    <3> QED
      BY <1>0, <3>1, ExecutorRepairs
  <2>2. CASE tasks[t].execution_status # "OPEN_PARTIAL"
    <3>1. t = Entry(n).task /\ RecordResult(n) /\ tasks'[t].execution_status = ExecutionStatus(n)
      BY <1>0, <1>3, <2>2, ExecutorRow, RowWriter, RowActions
    <3>2. xpc[n] = "record" /\ HasLegs(n)
      BY <3>1 DEF RecordResult, HasLegs
    <3>3. FailedSides(n) # {}
      BY <1>0, <3>1, <3>2, ResultTypes
    <3>4. HasRepairTask(t)
      BY <1>1, <3>1, <3>2, <3>3 DEF RepairFirst
    <3> QED
      BY <1>0, <3>4, ExecutorRepairs
  <2> QED
    BY <2>1, <2>2
<1>8. FullyHedgedHasBothLegs'
  <2> SUFFICES ASSUME NEW t \in DOMAIN tasks', tasks'[t].repair_reason = "fully_hedged",
                      NEW side \in Sides
               PROVE  \E e \in Exchanges : orders'[<<t, e, side>>] > 0
    BY DEF FullyHedgedHasBothLegs
  <2>1. \E e \in Exchanges : orders[<<t, e, side>>] > 0
    <3>1. CASE tasks[t].repair_reason = "fully_hedged"
      BY <1>1, <1>3, <3>1 DEF FullyHedgedHasBothLegs
    <3>2. CASE tasks[t].repair_reason # "fully_hedged"
      <4>1. t = Entry(n).task /\ RecordResult(n) /\ tasks'[t].repair_reason = RepairReason(n)
        BY <1>0, <1>3, <3>2, ExecutorRow, RowWriter, RowActions
      <4>2. xpc[n] = "record" /\ HasLegs(n)
        BY <4>1 DEF RecordResult, HasLegs
      <4>3. FailedSides(n) = {}
        BY <1>0, <4>1, <4>2, ResultTypes
      <4>4. LegsFinished(n) /\ Leg(n, side).exchange \in Exchanges
            /\ (Leg(n, side).state = "filled" => orders[OrderOf(n, side)] > 0)
        BY <1>1, <4>2 DEF LegsInv
      <4>5. Leg(n, side).state = "filled"
        BY <4>3, <4>4 DEF LegsFinished, FailedSides
      <4> QED
        BY <4>1, <4>4, <4>5 DEF OrderOf
    <3> QED
      BY <3>1, <3>2
  <2>2. PICK e \in Exchanges : orders[<<t, e, side>>] > 0
    BY <2>1
  <2>3. <<t, e, side>> \in TaskIds \X Exchanges \X Sides
    BY <1>3
  <2>4. orders'[<<t, e, side>>] = orders[<<t, e, side>>]
        \/ orders'[<<t, e, side>>] = orders[<<t, e, side>>] + 1
    BY <1>1, <2>3, ExecutorOrders
  <2>5. orders[<<t, e, side>>] \in Nat
    BY <1>4, <2>3
  <2> QED
    BY <2>2, <2>4, <2>5
<1> QED
  BY <1>6, <1>7, <1>8

LEMMA ExecutorKeepsUntraded ==
    ASSUME RecordsInv, NEW n \in Nodes, AnyStep(n)
    PROVE  BlockedMeansUntraded'
<1>0. CoreInv
  BY DEF RecordsInv
<1>1. /\ ExecutionTypeOK /\ SentHaveRows /\ SentOnce /\ BusyNotBlocked
      /\ OrdersCounted /\ BlockedMeansUntraded
  BY DEF RecordsInv, CoreInv
<1>2. /\ UNCHANGED execTasks
      /\ \A m \in Nodes : m # n => xlast'[m] = xlast[m]
  BY <1>1, ExecutorFrame
<1>3. DOMAIN tasks' = DOMAIN tasks /\ DOMAIN tasks \subseteq TaskIds
  BY <1>0, <1>1, RowWriter DEF ExecutionTypeOK, BusTypeOK, TasksTypeOK
<1>4. orders \in [TaskIds \X Exchanges \X Sides -> Nat]
  BY <1>1 DEF ExecutionTypeOK, BusTypeOK
<1>5. \A m \in Nodes : xlast[m] \in Nat /\ xlast[m] <= Len(execTasks[m])
                       /\ execTasks[m] \in Seq(ExecEntry)
  BY <1>1 DEF ExecutionTypeOK, ExecutorTypeOK, BusTypeOK
<1>6. BlockedMeansUntraded'
  <2> SUFFICES ASSUME NEW m \in Nodes, NEW i \in DOMAIN execTasks[m],
                      xfail'[m] = 0, tasks'[execTasks[m][i].task].status = "BLOCKED",
                      NEW e \in Exchanges, NEW side \in Sides
               PROVE  orders'[<<execTasks[m][i].task, e, side>>] = 0
    BY <1>2 DEF BlockedMeansUntraded
  <2> DEFINE t == execTasks[m][i].task
             k == <<t, e, side>>
  <2>1. t \in DOMAIN tasks /\ k \in TaskIds \X Exchanges \X Sides /\ i \in Nat
    BY <1>1, <1>3, <1>5 DEF SentHaveRows
  <2>2. xfail[m] = 0
    BY <1>1, FailuresGrow
  <2>3. CASE tasks[t].status = "BLOCKED"
    <3>1. orders[k] = 0
      BY <1>1, <2>2, <2>3 DEF BlockedMeansUntraded
    <3>2. orders'[k] = orders[k]
      <4> SUFFICES ASSUME orders'[k] # orders[k]
                   PROVE  FALSE
        OBVIOUS
      <4>1. t = Entry(n).task /\ xpc[n] = "submit"
        BY <1>1, <2>1, ExecutorOrders DEF OrderOf
      <4> QED
        BY <1>1, <2>3, <4>1 DEF BusyNotBlocked, Busy
    <3> QED
      BY <3>1, <3>2
  <2>4. CASE tasks[t].status # "BLOCKED"
    <3>1. t = Entry(n).task /\ BlockTask(n) /\ xlast[n] < Len(execTasks[n])
      <4>1. tasks'[t] # tasks[t]
        BY <2>4
      <4>2. t = Entry(n).task /\ xlast[n] < Len(execTasks[n])
        BY <1>0, <2>1, <4>1, RowWriter
      <4> QED
        BY <1>0, <4>1, <4>2, ExecutorRow
    <3>2. m = n /\ i = xlast[n] + 1
      BY <1>1, <3>1, SameEntry
    <3>3. xpc[n] = "blocked" /\ UNCHANGED orders
      BY <3>1 DEF BlockTask, orderVars
    <3>4. orders[k] <= xfail[m] + Tries(m, i, side)
      BY <1>1 DEF OrdersCounted
    <3>5. Tries(m, i, side) = 0
      BY <1>5, <3>2, <3>3 DEF Tries, Finished, HasLegs
    <3>6. orders[k] \in Nat
      BY <1>4, <2>1
    <3> QED
      BY <2>2, <3>3, <3>4, <3>5, <3>6
  <2> QED
    BY <2>3, <2>4
<1> QED
  BY <1>6

-----------------------------------------------------------------------------
(* The feed, the scanner and the operators: what they do to the rows and   *)
(* the streams.                                                            *)
OutsideStep == (Surroundings \/ UNCHANGED busVars) /\ UNCHANGED executorVars

LEMMA OutsideRows ==
    ASSUME ExecutionTypeOK, OutsideStep
    PROVE  /\ TasksTypeOK' /\ DOMAIN tasks \subseteq DOMAIN tasks'
           /\ \A t \in DOMAIN tasks' \ DOMAIN tasks :
                 /\ tasks'[t].status = "CREATED"
                 /\ tasks'[t].execution_status = None /\ tasks'[t].repair_reason = None
           /\ \A t \in DOMAIN tasks :
                 /\ tasks'[t].execution_status = tasks[t].execution_status
                 /\ tasks'[t].repair_reason = tasks[t].repair_reason
                 /\ tasks[t].finished_at => tasks'[t].finished_at
                 /\ \/ tasks'[t] = tasks[t]
                    \/ /\ tasks[t].status = "CREATED" /\ tasks'[t].status = "BLOCKED"
                       /\ ~Published(t) /\ UNCHANGED execTasks
                    \/ /\ tasks'[t].status = "DISPATCHED"
                       /\ ~tasks[t].dispatched_at /\ tasks'[t].dispatched_at
<1>1. TasksTypeOK
  BY DEF ExecutionTypeOK, BusTypeOK
<1>2. CASE FeedCreate
  <2>1. PICK t \in TaskIds : create_task(t)
    BY <1>2 DEF FeedCreate
  <2> QED
    BY <1>1, <2>1, CreateTaskRow
<1>3. CASE FeedBlock
  <2>1. PICK t \in DOMAIN tasks : tasks[t].status = "CREATED" /\ ~Published(t) /\ mark_blocked(t)
    BY <1>3 DEF FeedBlock
  <2>2. UNCHANGED execTasks
    BY <1>3 DEF FeedBlock, streamVars
  <2> QED
    BY <1>1, <2>1, <2>2, MarkBlockedRow DEF OnlyRowChanges
<1>4. CASE FeedMarkDispatched
  <2>1. PICK t \in DOMAIN tasks : Published(t) /\ ~tasks[t].dispatched_at /\ mark_dispatched(t)
    BY <1>4 DEF FeedMarkDispatched
  <2> QED
    BY <1>1, <2>1, MarkDispatchedRow DEF OnlyRowChanges
<1>5. CASE FeedPublish \/ PublishOpportunity \/ Admin \/ UNCHANGED busVars
  <2>1. UNCHANGED tasks
    BY <1>5 DEF FeedPublish, PublishOpportunity, Admin, SetLimit, SetRoute, ToggleAccount, AdminChange, busVars
  <2> QED
    BY <1>1, <2>1 DEF TasksTypeOK
<1> QED
  BY <1>2, <1>3, <1>4, <1>5 DEF OutsideStep, Surroundings, FeedNext

LEMMA OutsideStreams ==
    ASSUME ExecutionTypeOK, OutsideStep
    PROVE  /\ UNCHANGED <<repairTasks, orders, repairs>>
           /\ opps' \in Seq(Opportunities)
           /\ execTasks' \in [Nodes -> Seq(ExecEntry)]
           /\ \/ UNCHANGED execTasks
              \/ \E n \in Nodes, e \in ExecEntry :
                    /\ UNCHANGED tasks
                    /\ e.task \in DOMAIN tasks /\ tasks[e.task].status = "CREATED"
                    /\ ~Published(e.task)
                    /\ execTasks' = [execTasks EXCEPT ![n] = Append(@, e)]
<1>1. execTasks \in [Nodes -> Seq(ExecEntry)] /\ opps \in Seq(Opportunities)
  BY DEF ExecutionTypeOK, BusTypeOK
<1>2. CASE FeedPublish
  <2>1. PICK n \in Nodes, e \in FeedEntries :
            /\ e.task \in DOMAIN tasks /\ tasks[e.task].status = "CREATED"
            /\ ~Published(e.task)
            /\ execTasks' = [execTasks EXCEPT ![n] = Append(@, e)]
    BY <1>2 DEF FeedPublish
  <2>2. e \in ExecEntry
    BY FeedAssumption DEF FeedAssumption
  <2>3. execTasks' \in [Nodes -> Seq(ExecEntry)]
    BY <1>1, <2>1, <2>2
  <2>4. UNCHANGED <<tasks, repairTasks, opps, orders, repairs>>
    BY <1>2 DEF FeedPublish, orderVars
  <2> QED
    BY <1>1, <2>1, <2>2, <2>3, <2>4
<1>3. CASE FeedCreate \/ FeedBlock \/ FeedMarkDispatched \/ Admin \/ UNCHANGED busVars
  <2>1. UNCHANGED <<execTasks, repairTasks, opps, orders, repairs>>
    BY <1>3 DEF FeedCreate, FeedBlock, FeedMarkDispatched, Admin, SetLimit, SetRoute,
       ToggleAccount, AdminChange, busVars, streamVars, orderVars
  <2> QED
    BY <1>1, <2>1
<1>4. CASE PublishOpportunity
  <2>1. UNCHANGED <<execTasks, repairTasks, orders, repairs>>
    BY <1>4 DEF PublishOpportunity, orderVars
  <2>2. PICK o \in Opportunities : opps' = Append(opps, o)
    BY <1>4 DEF PublishOpportunity
  <2> QED
    BY <1>1, <2>1, <2>2
<1> QED
  BY <1>2, <1>3, <1>4 DEF OutsideStep, Surroundings, FeedNext

(* What is on a stream stays there.                                        *)
LEMMA OutsideEntries ==
    ASSUME ExecutionTypeOK, OutsideStep
    PROVE  \A m \in Nodes : /\ Len(execTasks[m]) <= Len(execTasks'[m])
                            /\ \A i \in DOMAIN execTasks[m] : /\ i \in DOMAIN execTasks'[m]
                                                              /\ execTasks'[m][i] = execTasks[m][i]
<1>1. execTasks \in [Nodes -> Seq(ExecEntry)]
  BY DEF ExecutionTypeOK, BusTypeOK
<1>2. CASE UNCHANGED execTasks
  BY <1>1, <1>2
<1>3. ASSUME NEW n \in Nodes, NEW e \in ExecEntry,
             execTasks' = [execTasks EXCEPT ![n] = Append(@, e)],
             NEW m \in Nodes
      PROVE  /\ Len(execTasks[m]) <= Len(execTasks'[m])
             /\ \A i \in DOMAIN execTasks[m] : /\ i \in DOMAIN execTasks'[m]
                                               /\ execTasks'[m][i] = execTasks[m][i]
  <2>1. execTasks'[m] = execTasks[m] \/ execTasks'[m] = Append(execTasks[m], e)
    BY <1>1, <1>3
  <2> DEFINE s == execTasks[m]
  <2>2. s \in Seq(ExecEntry)
    BY <1>1
  <2> HIDE DEF s
  <2>3. /\ Len(s) \in Nat /\ Len(Append(s, e)) = Len(s) + 1
        /\ \A i \in DOMAIN s : i \in DOMAIN Append(s, e) /\ Append(s, e)[i] = s[i]
    BY ONLY <2>2
  <2>4. CASE execTasks'[m] = s
    BY <2>3, <2>4 DEF s
  <2>5. CASE execTasks'[m] = Append(s, e)
    BY <2>3, <2>5 DEF s
  <2> QED
    BY <2>1, <2>4, <2>5 DEF s
<1> QED
  BY <1>2, <1>3, OutsideStreams

LEMMA OutsideTypes ==
    ASSUME ExecutionTypeOK, OutsideStep
    PROVE  ExecutionTypeOK'
<1>1. /\ limit' \in 0..MaxNotional /\ routes' \in [Users -> Nodes \cup {NoNode}]
      /\ enabled' \subseteq Accounts /\ changes' \in 0..MaxAdminChanges
  <2> USE BusAssumption DEF ExecutionTypeOK, BusTypeOK, BusAssumption, AdminChange
  <2>1. CASE SetLimit
    BY <2>1 DEF SetLimit
  <2>2. CASE SetRoute
    BY <2>2 DEF SetRoute
  <2>3. CASE ToggleAccount
    BY <2>3 DEF ToggleAccount
  <2>4. CASE FeedNext \/ PublishOpportunity \/ UNCHANGED busVars
    BY <2>4 DEF PublishOpportunity, FeedNext, FeedCreate, FeedBlock, FeedPublish, FeedMarkDispatched, adminVars, busVars
  <2> QED
    BY <2>1, <2>2, <2>3, <2>4 DEF OutsideStep, Surroundings, Admin
<1>2. BusTypeOK'
  BY <1>1, OutsideRows, OutsideStreams DEF ExecutionTypeOK, BusTypeOK
<1>3. ExecutorTypeOK'
  <2>1. \A m \in Nodes : xlast[m] <= Len(execTasks'[m])
    <3>1. \A m \in Nodes : xlast[m] \in Nat /\ xlast[m] <= Len(execTasks[m])
      BY DEF ExecutionTypeOK, ExecutorTypeOK
    <3>2. \A m \in Nodes : Len(execTasks[m]) \in Nat /\ Len(execTasks'[m]) \in Nat
      BY OutsideStreams DEF ExecutionTypeOK, BusTypeOK
    <3> QED
      BY <3>1, <3>2, OutsideEntries
  <2>2. UNCHANGED <<xpc, xlast, xamount, xlegs, xfail>>
    BY DEF OutsideStep, executorVars
  <2> QED
    BY <2>1, <2>2 DEF ExecutionTypeOK, ExecutorTypeOK
<1> QED
  BY <1>2, <1>3 DEF ExecutionTypeOK

LEMMA OutsideKeepsCursor ==
    ASSUME CoreInv, OutsideStep
    PROVE  SentHaveRows' /\ SentOnce' /\ CursorInv'
<1>1. ExecutionTypeOK /\ SentHaveRows /\ SentOnce /\ CursorInv
  BY DEF CoreInv
<1>2. UNCHANGED <<xpc, xlast, xamount, xlegs, xfail>>
  BY DEF OutsideStep, executorVars
<1>3. SentHaveRows' /\ SentOnce'
  <2>1. CASE UNCHANGED execTasks
    BY <1>1, <2>1, OutsideRows DEF SentHaveRows, SentOnce
  <2>2. ASSUME NEW n \in Nodes, NEW e \in ExecEntry,
               e.task \in DOMAIN tasks, ~Published(e.task), UNCHANGED tasks,
               execTasks' = [execTasks EXCEPT ![n] = Append(@, e)]
        PROVE  SentHaveRows' /\ SentOnce'
    <3>1. \A m \in Nodes : execTasks[m] \in Seq(ExecEntry)
      BY <1>1 DEF ExecutionTypeOK, BusTypeOK
    <3>2. \A m \in Nodes : m # n => execTasks'[m] = execTasks[m]
      BY <2>2
    <3>3. execTasks'[n] = Append(execTasks[n], e)
      BY <1>1, <2>2 DEF ExecutionTypeOK, BusTypeOK
    <3>4. \A m \in Nodes : \A i \in DOMAIN execTasks'[m] :
              \/ i \in DOMAIN execTasks[m] /\ execTasks'[m][i] = execTasks[m][i]
              \/ m = n /\ i = Len(execTasks[n]) + 1 /\ execTasks'[m][i] = e
      <4>1. ASSUME NEW i \in DOMAIN execTasks'[n]
            PROVE  \/ i \in DOMAIN execTasks[n] /\ execTasks'[n][i] = execTasks[n][i]
                   \/ i = Len(execTasks[n]) + 1 /\ execTasks'[n][i] = e
        <5> DEFINE s == execTasks[n]
        <5>1. s \in Seq(ExecEntry) /\ execTasks'[n] = Append(s, e)
          BY <3>1, <3>3
        <5> HIDE DEF s
        <5>2. \A j \in DOMAIN Append(s, e) : \/ j \in DOMAIN s /\ Append(s, e)[j] = s[j]
                                             \/ j = Len(s) + 1 /\ Append(s, e)[j] = e
          BY ONLY <5>1
        <5> QED
          BY <5>1, <5>2 DEF s
      <4> QED
        BY <3>2, <4>1
    <3>5. SentHaveRows'
      BY <1>1, <2>2, <3>4 DEF SentHaveRows
    <3>6. SentOnce'
      BY <1>1, <2>2, <3>4 DEF SentOnce, Published
    <3> QED
      BY <3>5, <3>6
  <2> QED
    BY <1>1, <2>1, <2>2, OutsideStreams
<1>4. CursorInv'
  <2>1. \A m \in Nodes : /\ Len(execTasks[m]) <= Len(execTasks'[m]) /\ xlast[m] \in Nat
                         /\ Len(execTasks[m]) \in Nat /\ Len(execTasks'[m]) \in Nat
    <3>1. /\ execTasks \in [Nodes -> Seq(ExecEntry)] /\ execTasks' \in [Nodes -> Seq(ExecEntry)]
          /\ xlast \in [Nodes -> Nat]
      BY <1>1, OutsideStreams DEF ExecutionTypeOK, BusTypeOK, ExecutorTypeOK
    <3>2. \A m \in Nodes : Len(execTasks[m]) <= Len(execTasks'[m])
      BY <1>1, OutsideEntries
    <3> QED
      BY <3>1, <3>2
  <2> QED
    BY <1>1, <1>2, <2>1 DEF CursorInv, Busy
<1> QED
  BY <1>3, <1>4

LEMMA OutsideKeepsUnblocked ==
    ASSUME RecordsInv, OutsideStep
    PROVE  BusyNotBlocked'
<1>1. ExecutionTypeOK /\ SentHaveRows /\ SentOnce /\ CursorInv /\ BusyNotBlocked
  BY DEF RecordsInv, CoreInv
<1>2. UNCHANGED <<xpc, xlast, xamount, xlegs, xfail>>
  BY DEF OutsideStep, executorVars
<1>5. BusyNotBlocked'
  <2> SUFFICES ASSUME NEW m \in Nodes, Busy(m)
               PROVE  Entry(m)' = Entry(m) /\ tasks'[Entry(m).task].status # "BLOCKED"
    BY <1>2 DEF BusyNotBlocked, Busy
  <2>1. xlast[m] < Len(execTasks[m])
    BY <1>1 DEF CursorInv
  <2>2. xlast[m] + 1 \in DOMAIN execTasks[m]
    BY <1>1, <2>1, EntryFacts
  <2>3. Entry(m)' = Entry(m) /\ Entry(m).task \in DOMAIN tasks /\ Published(Entry(m).task)
    BY <1>1, <1>2, <2>2, OutsideEntries DEF Entry, SentHaveRows, Published
  <2>4. tasks[Entry(m).task].status # "BLOCKED"
    BY <1>1 DEF BusyNotBlocked
  <2>5. tasks'[Entry(m).task] = tasks[Entry(m).task] \/ tasks'[Entry(m).task].status = "DISPATCHED"
    BY <1>1, <2>3, OutsideRows
  <2> QED
    BY <2>3, <2>4, <2>5
<1> QED
  BY <1>5

LEMMA OutsideKeepsLegs ==
    ASSUME CoreInv, OutsideStep
    PROVE  /\ LegsInv'
           /\ \A m \in Nodes : HasLegs(m) => Entry(m)' = Entry(m)
<1>1. ExecutionTypeOK /\ CursorInv /\ LegsInv
  BY DEF CoreInv
<1>2. UNCHANGED <<xpc, xlast, xamount, xlegs, xfail, orders, repairTasks>>
  BY <1>1, OutsideStreams DEF OutsideStep, executorVars
<1>3. ASSUME NEW m \in Nodes, HasLegs(m)
      PROVE  Entry(m)' = Entry(m)
  <2>1. xlast[m] < Len(execTasks[m])
    BY <1>1, <1>3 DEF CursorInv, Busy, HasLegs
  <2>2. xlast[m] + 1 \in DOMAIN execTasks[m]
    BY <1>1, <2>1, EntryFacts
  <2> QED
    BY <1>1, <1>2, <2>2, OutsideEntries DEF Entry
<1>4. LegsInv'
  <2> SUFFICES ASSUME NEW m \in Nodes, HasLegs(m)
               PROVE  (/\ \A side \in Sides :
                             /\ Leg(m, side).exchange \in Exchanges
                             /\ Leg(m, side).state \in {"pending", "filled", "failed"}
                             /\ Leg(m, side).state = "filled" => orders[OrderOf(m, side)] > 0
                       /\ xpc[m] # "submit" => LegsFinished(m))'
    BY <1>2 DEF LegsInv, HasLegs
  <2>1. \A side \in Sides : Leg(m, side)' = Leg(m, side) /\ OrderOf(m, side)' = OrderOf(m, side)
    BY <1>2, <1>3 DEF Leg, OrderOf
  <2>2. xpc[m] # "submit" => LegsFinished(m)'
    BY <1>1, <1>2 DEF LegsInv, LegsFinished, Leg
  <2> QED
    BY <1>1, <1>2, <2>1, <2>2 DEF LegsInv
<1> QED
  BY <1>3, <1>4

LEMMA OutsideKeepsRepairFirst ==
    ASSUME RecordsInv, OutsideStep
    PROVE  RepairFirst'
<1>1. CoreInv /\ ExecutionTypeOK /\ RepairFirst
  BY DEF RecordsInv, CoreInv
<1>2. UNCHANGED <<xpc, xlast, xamount, xlegs, xfail, orders, repairTasks>>
  BY <1>1, OutsideStreams DEF OutsideStep, executorVars
<1>3. \A m \in Nodes : HasLegs(m) => Entry(m)' = Entry(m)
  BY <1>1, OutsideKeepsLegs
<1>5. RepairFirst'
  <2> SUFFICES ASSUME NEW m \in Nodes, xpc[m] = "record", FailedSides(m) # {}
               PROVE  HasRepairTask(Entry(m).task)'
    BY <1>2 DEF RepairFirst, FailedSides, Leg
  <2> QED
    BY <1>1, <1>2, <1>3 DEF RepairFirst, HasRepairTask, HasLegs
<1> QED
  BY <1>5

(* What is new on a stream is a task no executor has seen.                 *)
LEMMA OutsideAppends ==
    ASSUME ExecutionTypeOK, OutsideStep,
           NEW m \in Nodes, NEW i \in DOMAIN execTasks'[m], i \notin DOMAIN execTasks[m]
    PROVE  /\ execTasks'[m][i].task \in TaskIds
           /\ ~Published(execTasks'[m][i].task)
           /\ tasks'[execTasks'[m][i].task].status = "CREATED"
<1>1. PICK n \in Nodes, e \in ExecEntry :
          /\ UNCHANGED tasks
          /\ e.task \in DOMAIN tasks /\ tasks[e.task].status = "CREATED"
          /\ ~Published(e.task)
          /\ execTasks' = [execTasks EXCEPT ![n] = Append(@, e)]
  BY OutsideStreams
<1>2. execTasks \in [Nodes -> Seq(ExecEntry)]
  BY DEF ExecutionTypeOK, BusTypeOK
<1>3. m = n /\ execTasks'[m] = Append(execTasks[m], e)
  BY <1>1, <1>2
<1>4. execTasks'[m][i] = e
  BY <1>2, <1>3
<1> QED
  BY <1>1, <1>4 DEF ExecEntry

LEMMA OutsideKeepsOrders ==
    ASSUME RecordsInv, OutsideStep
    PROVE  OrdersCounted'
<1>1. ExecutionTypeOK /\ SentHaveRows /\ OrdersCounted
  BY DEF RecordsInv, CoreInv
<1>2. UNCHANGED <<xpc, xlast, xamount, xlegs, xfail, orders, repairTasks>>
  BY <1>1, OutsideStreams DEF OutsideStep, executorVars
<1>3. ExecutionTypeOK'
  BY <1>1, OutsideTypes
<1>4. \A t \in TaskIds : ~Published(t)' => ~Published(t)
  BY <1>1, OutsideEntries DEF Published
<1>5. \A t \in TaskIds : ~Published(t)' => NoOrderFor(t)'
  BY <1>1, <1>2, <1>4 DEF OrdersCounted, NoOrderFor
<1>7. ASSUME NEW m \in Nodes, NEW i \in DOMAIN execTasks'[m], NEW e \in Exchanges, NEW side \in Sides
      PROVE  (orders[<<execTasks[m][i].task, e, side>>] <= xfail[m] + Tries(m, i, side))'
  <2>1. Tries(m, i, side)' = Tries(m, i, side) /\ Tries(m, i, side) \in {0, 1}
    BY <1>2 DEF Tries, Finished, HasLegs, Leg
  <2>2. xfail[m] \in Nat
    BY <1>1, ExecutorAssumption DEF ExecutionTypeOK, ExecutorTypeOK, ExecutorAssumption
  <2>3. CASE i \in DOMAIN execTasks[m]
    <3>1. execTasks'[m][i] = execTasks[m][i]
      BY <1>1, <2>3, OutsideEntries
    <3>2. orders[<<execTasks[m][i].task, e, side>>] <= xfail[m] + Tries(m, i, side)
      BY <1>1, <2>3 DEF OrdersCounted
    <3> QED
      BY <1>2, <2>1, <3>1, <3>2
  <2>4. CASE i \notin DOMAIN execTasks[m]
    <3>1. orders[<<execTasks'[m][i].task, e, side>>] = 0
      BY <1>1, <2>4, OutsideAppends DEF OrdersCounted, NoOrderFor
    <3> QED
      BY <1>2, <2>1, <2>2, <3>1
  <2> QED
    BY <2>3, <2>4
<1>8. OrdersCounted'
  BY <1>5, <1>7 DEF OrdersCounted
<1> QED
  BY <1>8

LEMMA OutsideKeepsUntraded ==
    ASSUME RecordsInv, OutsideStep
    PROVE  BlockedMeansUntraded'
<1>1. ExecutionTypeOK /\ SentHaveRows /\ BlockedMeansUntraded
  BY DEF RecordsInv, CoreInv
<1>2. UNCHANGED <<xfail, orders>>
  BY <1>1, OutsideStreams DEF OutsideStep, executorVars
<1>3. BlockedMeansUntraded'
  <2> SUFFICES ASSUME NEW m \in Nodes, NEW i \in DOMAIN execTasks'[m],
                      xfail[m] = 0, tasks'[execTasks'[m][i].task].status = "BLOCKED",
                      NEW e \in Exchanges, NEW side \in Sides
               PROVE  orders[<<execTasks'[m][i].task, e, side>>] = 0
    BY <1>2 DEF BlockedMeansUntraded
  <2>1. i \in DOMAIN execTasks[m]
    BY <1>1, OutsideAppends
  <2>2. execTasks'[m][i] = execTasks[m][i]
    BY <1>1, <2>1, OutsideEntries
  <2> DEFINE t == execTasks[m][i].task
  <2>3. t \in DOMAIN tasks /\ Published(t)
    BY <1>1, <2>1 DEF SentHaveRows, Published
  <2>4. tasks[t].status = "BLOCKED"
    BY <1>1, <2>2, <2>3, OutsideRows
  <2> QED
    BY <1>1, <2>1, <2>2, <2>4 DEF BlockedMeansUntraded
<1> QED
  BY <1>3

LEMMA OutsideKeepsRecords ==
    ASSUME RecordsInv, OutsideStep
    PROVE  OutcomeBeforeAck' /\ PartialHasRepairTask' /\ FullyHedgedHasBothLegs'
<1>1. /\ ExecutionTypeOK /\ SentHaveRows /\ OutcomeBeforeAck /\ PartialHasRepairTask
      /\ FullyHedgedHasBothLegs
  BY DEF RecordsInv, CoreInv
<1>2. UNCHANGED <<xpc, xlast, xamount, xlegs, xfail, orders, repairTasks>>
  BY <1>1, OutsideStreams DEF OutsideStep, executorVars
<1>3. \A m \in Nodes : \A i \in 1..xlast[m] : i \in DOMAIN execTasks[m]
  BY <1>1 DEF ExecutionTypeOK, ExecutorTypeOK, BusTypeOK
<1>4. \A m \in Nodes : \A i \in 1..xlast[m] : execTasks'[m][i] = execTasks[m][i]
  BY <1>1, <1>3, OutsideEntries
<1>5. OutcomeBeforeAck'
  <2> SUFFICES ASSUME NEW m \in Nodes, NEW i \in 1..xlast[m]
               PROVE  tasks'[execTasks[m][i].task].finished_at
    BY <1>2, <1>4 DEF OutcomeBeforeAck
  <2>1. tasks[execTasks[m][i].task].finished_at
    BY <1>1 DEF OutcomeBeforeAck
  <2>2. execTasks[m][i].task \in DOMAIN tasks
    BY <1>1, <1>3 DEF SentHaveRows
  <2> QED
    BY <1>1, <2>1, <2>2, OutsideRows
<1>6. PartialHasRepairTask'
  BY <1>1, <1>2, OutsideRows DEF PartialHasRepairTask, None
<1>7. FullyHedgedHasBothLegs'
  BY <1>1, <1>2, OutsideRows DEF FullyHedgedHasBothLegs, None
<1> QED
  BY <1>5, <1>6, <1>7

LEMMA OutsideKeepsSucceeded ==
    ASSUME ExecutionInv, OutsideStep
    PROVE  SucceededIsBehind'
<1>1. ExecutionTypeOK /\ SucceededIsBehind
  BY DEF ExecutionInv, RecordsInv, CoreInv
<1>2. UNCHANGED <<xlast, xfail>>
  BY DEF OutsideStep, executorVars
<1>3. \A m \in Nodes : \A i \in 1..xlast[m] : i \in DOMAIN execTasks[m]
  BY <1>1 DEF ExecutionTypeOK, ExecutorTypeOK, BusTypeOK
<1>4. \A m \in Nodes : \A i \in 1..xlast[m] : execTasks'[m][i] = execTasks[m][i]
  BY <1>1, <1>3, OutsideEntries
<1>5. SucceededIsBehind'
  <2> SUFFICES ASSUME NobodyFailed, NEW t \in DOMAIN tasks', tasks'[t].status = "SUCCEEDED"
               PROVE  \E m \in Nodes : \E i \in 1..xlast[m] : execTasks'[m][i].task = t
    BY <1>2 DEF SucceededIsBehind, NobodyFailed
  <2>1. t \in DOMAIN tasks /\ tasks[t].status = "SUCCEEDED"
    <3>1. t \in DOMAIN tasks
      BY <1>1, OutsideRows
    <3> QED
      BY <1>1, <3>1, OutsideRows
  <2> QED
    BY <1>1, <1>4, <2>1 DEF SucceededIsBehind
<1> QED
  BY <1>5

-----------------------------------------------------------------------------
(* The invariant holds initially and in every step.                        *)
LEMMA ExecutionInvInit == ASSUME ExecutionInit PROVE ExecutionInv
<1> USE DEF ExecutionInit, BusInit, EmptyBus, ExecutorInit
<1>1. TasksTypeOK /\ DOMAIN tasks = {}
  BY DEF TasksInit, TasksTypeOK
<1>2. NoOrders \in [TaskIds \X Exchanges \X Sides -> Nat]
  BY DEF NoOrders
<1>3. BusTypeOK
  BY <1>1, <1>2, BusAssumption DEF BusTypeOK, BusAssumption
<1>4. NoLegs \in [Sides -> [exchange : Exchanges \cup {NoExchange}, state : LegStates]]
  BY DEF NoLegs, LegStates
<1>5. ExecutorTypeOK
  BY <1>4, BusAssumption, ExecutorAssumption DEF ExecutorTypeOK, BusAssumption, ExecutorAssumption
<1>6. \A n \in Nodes : xpc[n] = "read" /\ xlast[n] = 0 /\ execTasks[n] = <<>>
  OBVIOUS
<1>7. SentHaveRows /\ SentOnce /\ CursorInv /\ BusyNotBlocked /\ LegsInv /\ RepairFirst
  BY <1>6 DEF SentHaveRows, SentOnce, CursorInv, BusyNotBlocked, Busy, LegsInv, HasLegs, RepairFirst
<1>8. OrdersCounted
  <2>1. \A t \in TaskIds : NoOrderFor(t)
    BY DEF NoOrderFor, NoOrders
  <2> QED
    BY <1>6, <2>1 DEF OrdersCounted
<1>9. SucceededIsBehind /\ PartialHasRepairTask /\ FullyHedgedHasBothLegs
  BY <1>1 DEF SucceededIsBehind, PartialHasRepairTask, FullyHedgedHasBothLegs
<1>10. OutcomeBeforeAck /\ BlockedMeansUntraded
  BY <1>6 DEF OutcomeBeforeAck, BlockedMeansUntraded
<1> QED
  BY <1>3, <1>5, <1>7, <1>8, <1>9, <1>10 DEF ExecutionInv, RecordsInv, CoreInv, ExecutionTypeOK

LEMMA StepKinds ==
    ASSUME [ExecutionNext]_executionVars
    PROVE  (\E n \in Nodes : AnyStep(n)) \/ OutsideStep
BY DEF ExecutionNext, ExecutorNext, AnyStep, OutsideStep, executionVars

LEMMA ExecutorKeepsCore ==
    ASSUME CoreInv, NEW n \in Nodes, AnyStep(n)
    PROVE  CoreInv'
BY ExecutorTypesKept, ExecutorKeepsCursor, ExecutorKeepsLegs DEF CoreInv

LEMMA OutsideKeepsCore ==
    ASSUME CoreInv, OutsideStep
    PROVE  CoreInv'
<1>1. ExecutionTypeOK
  BY DEF CoreInv
<1> QED
  BY <1>1, OutsideTypes, OutsideKeepsCursor, OutsideKeepsLegs DEF CoreInv

LEMMA ExecutorKeepsRecordsInv ==
    ASSUME RecordsInv, NEW n \in Nodes, AnyStep(n)
    PROVE  RecordsInv'
BY ExecutorKeepsCore, ExecutorKeepsRepairFirst, ExecutorKeepsOrders, ExecutorKeepsRecords,
   ExecutorKeepsUnblocked, ExecutorKeepsUntraded DEF RecordsInv

LEMMA OutsideKeepsRecordsInv ==
    ASSUME RecordsInv, OutsideStep
    PROVE  RecordsInv'
BY OutsideKeepsCore, OutsideKeepsRepairFirst, OutsideKeepsOrders, OutsideKeepsRecords,
   OutsideKeepsUnblocked, OutsideKeepsUntraded DEF RecordsInv

LEMMA ExecutionInvStep ==
    ASSUME ExecutionInv, [ExecutionNext]_executionVars
    PROVE  ExecutionInv'
<1>1. RecordsInv
  BY DEF ExecutionInv
<1>2. ASSUME NEW n \in Nodes, AnyStep(n)
      PROVE  ExecutionInv'
  BY <1>1, <1>2, ExecutorKeepsRecordsInv, ExecutorKeepsSucceeded DEF ExecutionInv
<1>3. CASE OutsideStep
  BY <1>1, <1>3, OutsideKeepsRecordsInv, OutsideKeepsSucceeded DEF ExecutionInv
<1> QED
  BY <1>2, <1>3, StepKinds

LEMMA ExecutionInvariant == ExecutionSpec => []ExecutionInv
BY ExecutionInvInit, ExecutionInvStep, PTL DEF ExecutionSpec

(* While nobody has failed, only a late mark_dispatched writes the row of  *)
(* a succeeded task.                                                       *)
LEMMA SucceededStep ==
    ASSUME ExecutionInv, [ExecutionNext]_executionVars
    PROVE  \A t \in DOMAIN tasks :
              tasks[t].status = "SUCCEEDED" /\ tasks'[t] # tasks[t] =>
                 \/ \E n \in Nodes : xfail[n] > 0
                 \/ ~tasks[t].dispatched_at /\ tasks'[t].dispatched_at
<1> SUFFICES ASSUME NEW t \in DOMAIN tasks, tasks[t].status = "SUCCEEDED", tasks'[t] # tasks[t],
                    ~ \E n \in Nodes : xfail[n] > 0
             PROVE  ~tasks[t].dispatched_at /\ tasks'[t].dispatched_at
  OBVIOUS
<1>1. CoreInv /\ ExecutionTypeOK /\ SucceededIsBehind /\ SentOnce
  BY DEF ExecutionInv, RecordsInv, CoreInv
<1>2. \A m \in Nodes : xfail[m] \in Nat /\ xlast[m] \in Nat /\ xlast[m] <= Len(execTasks[m])
                       /\ execTasks[m] \in Seq(ExecEntry)
  BY <1>1, ExecutorAssumption
     DEF ExecutionTypeOK, ExecutorTypeOK, BusTypeOK, ExecutorAssumption
<1>3. NobodyFailed
  BY <1>2 DEF NobodyFailed
<1>4. PICK m \in Nodes : \E i \in 1..xlast[m] : execTasks[m][i].task = t
  BY <1>1, <1>3 DEF SucceededIsBehind
<1>7. PICK i \in 1..xlast[m] : execTasks[m][i].task = t
  BY <1>4
<1>5. CASE OutsideStep
  BY <1>1, <1>5, OutsideRows
<1>6. ASSUME NEW n \in Nodes, AnyStep(n)
      PROVE  FALSE
  <2>1. t = Entry(n).task /\ xlast[n] < Len(execTasks[n])
    BY <1>1, <1>6, RowWriter
  <2>2. i \in DOMAIN execTasks[m]
    BY <1>2
  <2>3. m = n /\ i = xlast[n] + 1
    BY <1>1, <1>7, <2>1, <2>2, SameEntry
  <2> QED
    BY <1>2, <2>3
<1> QED
  BY <1>5, <1>6, StepKinds

-----------------------------------------------------------------------------
(* Every variable of the executors and of the bus keeps its type: cursors  *)
(* stay within their stream, and no notional above the limit is approved.  *)
THEOREM ExecutorTypes == ExecutionSpec => []ExecutionTypeOK
<1>1. ExecutionInv => ExecutionTypeOK
  BY DEF ExecutionInv, RecordsInv, CoreInv
<1> QED
  BY <1>1, ExecutionInvariant, PTL

(* No executor moves its cursor past a task whose outcome is not in the    *)
(* table, whatever fails and whoever writes the row in between.            *)
THEOREM OutcomesBeforeAcks == ExecutionSpec => []OutcomeBeforeAck
<1>1. ExecutionInv => OutcomeBeforeAck
  BY DEF ExecutionInv, RecordsInv
<1> QED
  BY <1>1, ExecutionInvariant, PTL

(* No partial open is recorded without a repair task on the stream.        *)
THEOREM PartialOpensAreRepaired == ExecutionSpec => []PartialHasRepairTask
<1>1. ExecutionInv => PartialHasRepairTask
  BY DEF ExecutionInv, RecordsInv
<1> QED
  BY <1>1, ExecutionInvariant, PTL

(* "Fully hedged" in the table means a buy and a sell order on exchanges.  *)
THEOREM HedgesAreReal == ExecutionSpec => []FullyHedgedHasBothLegs
<1>1. ExecutionInv => FullyHedgedHasBothLegs
  BY DEF ExecutionInv, RecordsInv
<1> QED
  BY <1>1, ExecutionInvariant, PTL

(* The count, applied to the entries of a stream.                          *)
LEMMA CountedOrders == ASSUME RecordsInv PROVE ReexecutionNeedsFailure
<1> SUFFICES ASSUME NEW n \in Nodes, NEW i \in DOMAIN execTasks[n],
                    NEW e \in Exchanges, NEW side \in Sides
             PROVE  orders[<<execTasks[n][i].task, e, side>>] <= 1 + xfail[n]
  BY DEF ReexecutionNeedsFailure
<1>1. orders[<<execTasks[n][i].task, e, side>>] <= xfail[n] + Tries(n, i, side)
  BY DEF RecordsInv, OrdersCounted
<1>2. Tries(n, i, side) \in {0, 1}
  BY DEF Tries
<1>3. execTasks[n] \in Seq(ExecEntry) /\ xfail[n] \in Nat
  BY ExecutorAssumption DEF RecordsInv, CoreInv, ExecutionTypeOK, BusTypeOK, ExecutorTypeOK,
     ExecutorAssumption
<1>4. execTasks[n][i].task \in TaskIds
  <2>1. execTasks[n][i] \in ExecEntry
    BY <1>3
  <2> QED
    BY <2>1 DEF ExecEntry
<1>5. orders[<<execTasks[n][i].task, e, side>>] \in Nat
  BY <1>4 DEF RecordsInv, CoreInv, ExecutionTypeOK, BusTypeOK
<1> QED
  BY <1>1, <1>2, <1>3, <1>5

(* Per exchange and side a task has at most one order more than its        *)
(* executor had failures.                                                  *)
THEOREM OrdersNeedFailures == ExecutionSpec => []ReexecutionNeedsFailure
<1>1. ExecutionInv => ReexecutionNeedsFailure
  BY CountedOrders DEF ExecutionInv
<1> QED
  BY <1>1, ExecutionInvariant, PTL

(* A blocked task of an executor that has not failed was never traded.     *)
THEOREM BlockedTasksUntraded == ExecutionSpec => []BlockedMeansUntraded
<1>1. ExecutionInv => BlockedMeansUntraded
  BY DEF ExecutionInv, RecordsInv
<1> QED
  BY <1>1, ExecutionInvariant, PTL

(* Until an executor fails, the row of a succeeded task is final but for a *)
(* late mark_dispatched.                                                   *)
THEOREM SucceededRowsFinal == ExecutionSpec => SucceededIsFinal
<1>1. ASSUME ExecutionInv, [ExecutionNext]_executionVars
      PROVE  [\A t \in DOMAIN tasks :
                 tasks[t].status = "SUCCEEDED" /\ tasks'[t] # tasks[t] =>
                    \/ \E n \in Nodes : xfail[n] > 0
                    \/ ~tasks[t].dispatched_at /\ tasks'[t].dispatched_at]_tasks
  BY <1>1, SucceededStep
<1> QED
  BY <1>1, ExecutionInvariant, PTL DEF ExecutionSpec, SucceededIsFinal
=============================================================================
