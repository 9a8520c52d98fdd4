------------------------------ MODULE Execution ------------------------------
(***************************************************************************)
(* The executors, fed by anything that keeps the dispatcher's promise      *)
(* (TaskFeed), while the scanner publishes and operators change limits,    *)
(* routes and accounts at any time.                                        *)
(***************************************************************************)
EXTENDS Executor, TaskFeed

executionVars == <<busVars, executorVars>>

ExecutionInit == BusInit /\ ExecutorInit

ExecutionNext ==
    \/ ExecutorNext
    \/ Surroundings /\ UNCHANGED executorVars

ExecutionSpec == ExecutionInit /\ [][ExecutionNext]_executionVars

(* Every executor keeps running and is restarted; an error never has to    *)
(* happen, and nobody has to send or change anything.                      *)
ExecutionFairSpec ==
    ExecutionSpec /\ \A n \in Nodes : WF_executionVars(ExecutorStep(n))

-----------------------------------------------------------------------------
ExecutionTypeOK == BusTypeOK /\ ExecutorTypeOK

(* The outcome is recorded before the cursor moves: finished_at of every   *)
(* message behind last_id is set, whatever late mark_dispatched came in    *)
(* between, so no task is acknowledged and lost.                           *)
OutcomeBeforeAck ==
    \A n \in Nodes : \A i \in 1..xlast[n] :
        tasks[execTasks[n][i].task].finished_at

(* A task whose open is recorded as partial has a repair task: the XADD    *)
(* comes first, so a crash between the two cannot lose the repair.         *)
PartialHasRepairTask ==
    \A t \in DOMAIN tasks :
        tasks[t].execution_status = "OPEN_PARTIAL" =>
            \E i \in DOMAIN repairTasks : repairTasks[i].task = t

(* "Fully hedged" is recorded by the executor only when a buy and a sell   *)
(* order of the task are on an exchange.                                   *)
FullyHedgedHasBothLegs ==
    \A t \in DOMAIN tasks :
        tasks[t].repair_reason = "fully_hedged" =>
            \A side \in Sides : \E e \in Exchanges : orders[<<t, e, side>>] > 0

(* A task is executed again only after a failure: per exchange and side it *)
(* has at most one order more than its executor had failures.              *)
ReexecutionNeedsFailure ==
    \A n \in Nodes : \A i \in DOMAIN execTasks[n] :
        \A e \in Exchanges, side \in Sides :
            orders[<<execTasks[n][i].task, e, side>>] <= 1 + xfail[n]

(* BLOCKED means that no order was placed, for every task whose executor   *)
(* has not failed: the guard runs before the first order.                  *)
BlockedMeansUntraded ==
    \A n \in Nodes : \A i \in DOMAIN execTasks[n] :
        LET t == execTasks[n][i].task
        IN  xfail[n] = 0 /\ tasks[t].status = "BLOCKED" =>
                \A e \in Exchanges, side \in Sides : orders[<<t, e, side>>] = 0

(* The row of a succeeded task is final as long as no executor has failed, *)
(* but for one writer: a dispatcher that is late with mark_dispatched.     *)
SucceededIsFinal ==
    [][\A t \in DOMAIN tasks :
          tasks[t].status = "SUCCEEDED" /\ tasks'[t] # tasks[t] =>
              \/ \E n \in Nodes : xfail[n] > 0
              \/ ~tasks[t].dispatched_at /\ tasks'[t].dispatched_at]_tasks

(* Every executor ends up behind its last message for good once operators  *)
(* leave every account enabled: failures and limits cannot stop it.  (A    *)
(* message whose bound account is disabled stays in front of the others.)  *)
BacklogDrained ==
    <>[](enabled = Accounts) => \A n \in Nodes : <>[](xlast[n] = Len(execTasks[n]))
=============================================================================
