----------------------------- MODULE Settlement -----------------------------
(***************************************************************************)
(* The executors and the repair worker together, fed by anything that      *)
(* keeps the dispatcher's promise (TaskFeed), with scanner and operators   *)
(* at work.  They share the repair stream and the task row, which both of  *)
(* them overwrite.                                                         *)
(***************************************************************************)
EXTENDS Executor, Repair, TaskFeed

CONSTANT
    OtherRepairEntries   \* entries the worker must not act on

ASSUME SettlementAssumption ==
    /\ OtherRepairEntries \subseteq RepairEntry
    /\ \A e \in OtherRepairEntries : ~Supported(e)

settlementVars == <<busVars, executorVars, repairVars>>

SettlementInit == BusInit /\ ExecutorInit /\ RepairInit

(* The stream is open to any producer: the worker tells by the fields.     *)
OtherProducer ==
    /\ \E e \in OtherRepairEntries :
          /\ \A i \in DOMAIN repairTasks : repairTasks[i] # e
          /\ repairTasks' = Append(repairTasks, e)
    /\ UNCHANGED <<tasks, opps, execTasks, adminVars, orderVars>>

SettlementNext ==
    \/ ExecutorNext /\ UNCHANGED repairVars
    \/ RepairNext /\ UNCHANGED executorVars
    \/ (Surroundings \/ OtherProducer) /\ UNCHANGED <<executorVars, repairVars>>

SettlementSpec == SettlementInit /\ [][SettlementNext]_settlementVars

(* Executors and repair worker keep running and are restarted.             *)
SettlementFairSpec ==
    /\ SettlementSpec
    /\ \A n \in Nodes : WF_settlementVars(ExecutorStep(n) /\ UNCHANGED repairVars)
    /\ WF_settlementVars(RepairStep /\ UNCHANGED executorVars)

-----------------------------------------------------------------------------
NoFailure == rfail = 0 /\ \A n \in Nodes : xfail[n] = 0

(* The orders of a task on one side, each with its exchange and number,    *)
(* and how many there are of the executor and of the repair worker.        *)
OrdersIn(book, t, side) == UNION {{e} \X (1..book[<<t, e, side>>]) : e \in Exchanges}
Placed(t, side) ==
    Cardinality(OrdersIn(orders, t, side)) + Cardinality(OrdersIn(repairs, t, side))

Balanced(t) == Placed(t, "buy") = Placed(t, "sell")

RepairEntriesOf(t) == {i \in DOMAIN repairTasks : repairTasks[i].task = t}

-----------------------------------------------------------------------------
SettlementTypeOK == BusTypeOK /\ ExecutorTypeOK /\ RepairTypeOK

(* An entry is behind the cursor only when its outcome was recorded: also  *)
(* when the executor died between publishing it and recording its own.     *)
RepairOutcomeBeforeAck ==
    \A i \in 1..rlast :
        Supported(repairTasks[i]) => tasks[repairTasks[i].task].finished_at

(* The first repair of a task that had one failed leg restores the hedge:  *)
(* a task called repaired has as many buy as sell orders.  True without    *)
(* failures, with legs that stay where the opportunity put them, and with  *)
(* exchanges that answer.                                                  *)
OneLegRepairHedges ==
    \A t \in DOMAIN tasks :
        (/\ NoFailure
         /\ tasks[t].repair_reason = "repair_succeeded"
         /\ \A i \in RepairEntriesOf(t) : Len(repairTasks[i].target_exchanges) = 1)
            => Balanced(t)

(* "Retry only once": a repair order is placed once per entry, and once    *)
(* more per entry for every failure of the worker at most.  Refuted by one *)
(* write that fails.                                                       *)
RepairAttemptsBounded ==
    \A t \in TaskIds, e \in Exchanges, side \in Sides :
        repairs[<<t, e, side>>] <= Cardinality(RepairEntriesOf(t)) * (1 + rfail)

(* Nothing but a write that fails repeats orders without end.              *)
RepairAttemptsCounted == ~rspoilt => RepairAttemptsBounded

(* Three workers write a row without asking what it says, and yet, while   *)
(* nothing fails, success is overwritten by two late writers only: a       *)
(* dispatcher's mark_dispatched, and the executor whose partial open was   *)
(* repaired before it came to record it.                                   *)
SucceededIsSettled ==
    [][\A t \in DOMAIN tasks :
          NoFailure /\ tasks[t].status = "SUCCEEDED" /\ tasks'[t] # tasks[t] =>
              \/ ~tasks[t].dispatched_at /\ tasks'[t].dispatched_at
              \/ /\ tasks[t].repair_reason = "repair_succeeded"
                 /\ \E n \in Nodes : xpc[n] = "record" /\ Entry(n).task = t]_tasks

(* A task that is called BLOCKED has no order on any exchange, neither of  *)
(* an executor nor of the repair worker, whoever blocked it and however    *)
(* often the repair worker failed: unless the executor of its node failed  *)
(* and asked the guard once more.                                          *)
BlockedIsOutOfMarket ==
    \A t \in DOMAIN tasks :
        tasks[t].status = "BLOCKED" =>
            \/ \E n \in Nodes : /\ xfail[n] > 0
                               /\ \E i \in DOMAIN execTasks[n] : execTasks[n][i].task = t
            \/ \A e \in Exchanges, side \in Sides :
                  orders[<<t, e, side>>] = 0 /\ repairs[<<t, e, side>>] = 0

(* The repair worker ends up behind its last entry for good, unless its    *)
(* database session is dead and it tries the same entry for ever.          *)
RepairsDrained == <>[]rsession => <>[](rlast = Len(repairTasks))

-----------------------------------------------------------------------------
(* The inductive invariant behind the two.  An order is of a task that was *)
(* sent, a repair order of one that has an entry on the repair stream ...  *)
AskedFor(t) == {i \in DOMAIN repairTasks : Supported(repairTasks[i]) /\ repairTasks[i].task = t}

OrdersWereAsked ==
    \A t \in TaskIds, e \in Exchanges, side \in Sides :
        /\ orders[<<t, e, side>>] # 0 => Published(t)
        /\ repairs[<<t, e, side>>] # 0 => AskedFor(t) # {}

(* ... which its executor put there before it records the partial open.    *)
Past(n, i) == i <= xlast[n] \/ (i = xlast[n] + 1 /\ xpc[n] = "record" /\ FailedSides(n) # {})
RepairsComeLast ==
    \A n \in Nodes : \A i \in DOMAIN execTasks[n] :
        xfail[n] = 0 /\ AskedFor(execTasks[n][i].task) # {} =>
            Past(n, i) /\ tasks[execTasks[n][i].task].status # "BLOCKED"

(* A task has one entry there, and a success was recorded by its executor, *)
(* which had no leg to repair, or by the worker, which is done with it.    *)
Repaired(i) == i <= rlast \/ (i = rlast + 1 /\ rpc = "report")
SuccessIsOwned ==
    NoFailure =>
        /\ \A i, j \in DOMAIN repairTasks :
              /\ Supported(repairTasks[i]) /\ Supported(repairTasks[j])
              /\ repairTasks[i].task = repairTasks[j].task
              => i = j
        /\ \A t \in DOMAIN tasks : tasks[t].status = "SUCCEEDED" =>
              \/ /\ AskedFor(t) = {}
                 /\ \E n \in Nodes : \E i \in 1..xlast[n] : execTasks[n][i].task = t
              \/ /\ tasks[t].repair_reason = "repair_succeeded"
                 /\ \E i \in AskedFor(t) : Repaired(i)

-----------------------------------------------------------------------------
(* What the design documents say, and a run refutes.                       *)
(* "Repair succeeded: the task moves towards repaired/hedged", "repair     *)
(* success and failure can be told apart in the task": what the worker     *)
(* recorded stays, in particular while nothing fails.                      *)
RepairedStaysRepaired ==
    [][\A t \in DOMAIN tasks :
          tasks[t].repair_reason = "repair_succeeded"
              => tasks'[t].repair_reason = "repair_succeeded"]_tasks
=============================================================================
