------------------------------- MODULE Repair -------------------------------
(***************************************************************************)
(* RedisRepairTaskConsumer with RuntimeRepairExecutionService: one process *)
(* that reads the repair stream, places one market order for the first     *)
(* target exchange of an entry and records the outcome.                    *)
(*                                                                         *)
(* The cursor moves last, after the row and after both events, so an       *)
(* exception anywhere (also in the closing of the session or in the alert) *)
(* has the same entry repaired again.  The worker has one database session *)
(* for its whole life and never rolls it back: a write that fails once     *)
(* (database is locked) leaves a session that fails every later write.     *)
(***************************************************************************)
EXTENDS TaskBus

CONSTANTS
    RepairOutcomes,     \* bound: how the repair order may end
    DatabaseErrors,     \* bound: whether a write to the table may fail
    MaxRepairFailures,  \* bound: failures of the repair worker
    MaxRepairOrders     \* bound: repair orders are counted up to here

ASSUME RepairAssumption ==
    /\ RepairOutcomes \subseteq {"accepted", "rejected", "unanswered"}
    /\ DatabaseErrors \in BOOLEAN
    /\ MaxRepairFailures \in Nat
    /\ MaxRepairOrders \in Nat

VARIABLES
    rpc,      \* what run() does next
    rlast,    \* last_id
    rresult,  \* status of the RuntimeRepairResult
    rsession, \* whether the database session still works
    rspoilt,  \* history: a write has failed
    rfail     \* failures so far

repairVars == <<rpc, rlast, rresult, rsession, rspoilt, rfail>>

RepairTypeOK ==
    /\ rpc \in {"read", "order", "close", "record", "report", "down"}
    /\ rlast \in 0..Len(repairTasks)
    /\ rresult \in {None, "REPAIRED", "MANUAL_REQUIRED"}
    /\ rsession \in BOOLEAN
    /\ rspoilt \in BOOLEAN
    /\ rfail \in 0..MaxRepairFailures

RepairInit == /\ rpc = "read"
              /\ rlast = 0
              /\ rresult = None
              /\ rsession = TRUE
              /\ rspoilt = FALSE
              /\ rfail = 0

-----------------------------------------------------------------------------
REntry == repairTasks[rlast + 1]

Supported(e) == /\ e.repair_action = "AUTO_HEDGE_REPAIRING"
                /\ e.execution_status = "OPEN_PARTIAL"
                /\ e.target_exchanges # <<>>

(* Only the first failed leg is looked at, and its side is that of the     *)
(* opportunity, not of the leg that failed.                                *)
target_exchange == REntry.target_exchanges[1]
repair_side_Reversed ==            \* mutant: the sides are swapped
    IF target_exchange = REntry.buy_exchange THEN "sell" ELSE "buy"
repair_side == IF target_exchange = REntry.buy_exchange THEN "buy" ELSE "sell"

(* XREAD; the session is opened outside of any try of the service.         *)
StartRepair ==
    /\ rpc = "read"
    /\ rlast < Len(repairTasks)
    /\ Supported(REntry)
    /\ rpc' = "order"
    /\ UNCHANGED <<busVars, rlast, rresult, rsession, rspoilt, rfail>>

(* Mutant: an entry that is not supported is not acknowledged.             *)
IgnoreRepair_Stay ==
    /\ rpc = "read"
    /\ rlast < Len(repairTasks)
    /\ ~Supported(REntry)
    /\ UNCHANGED <<busVars, repairVars>>

IgnoreRepair ==
    /\ rpc = "read"
    /\ rlast < Len(repairTasks)
    /\ ~Supported(REntry)
    /\ rlast' = rlast + 1
    /\ UNCHANGED <<busVars, rpc, rresult, rsession, rspoilt, rfail>>

(* fetch_ticker and create_order: any exception means MANUAL_REQUIRED,     *)
(* also when the order reached the exchange.                               *)
PlaceRepairOrder(outcome) ==
    /\ rpc = "order"
    /\ rpc' = "close"
    /\ rresult' = IF outcome = "accepted" THEN "REPAIRED" ELSE "MANUAL_REQUIRED"
    /\ repairs' = IF outcome = "rejected" THEN repairs
                  ELSE [repairs EXCEPT ![<<REntry.task, target_exchange, repair_side>>] =
                           IF @ < MaxRepairOrders THEN @ + 1 ELSE @]
    /\ UNCHANGED <<tasks, streamVars, adminVars, orders, rlast, rsession, rspoilt, rfail>>

CloseRepairSession ==
    /\ rpc = "close"
    /\ rpc' = "record"
    /\ UNCHANGED <<busVars, rlast, rresult, rsession, rspoilt, rfail>>

(* mark_repair_result: success writes both legs off as filled.             *)
RecordRepair ==
    /\ rpc = "record"
    /\ rsession
    /\ IF rresult = "REPAIRED"
       THEN mark_repair_result(REntry.task, "SUCCEEDED", "OPEN_HEDGED", {},
                               "repair_succeeded", None)
       ELSE mark_repair_result(REntry.task, "FAILED", "OPEN_PARTIAL", {target_exchange},
                               "one_leg_failed", "manual_required")
    /\ rpc' = "report"
    /\ UNCHANGED <<streamVars, adminVars, orderVars, rlast, rresult, rsession, rspoilt, rfail>>

(* The write fails, now or because it failed before: an exception like any *)
(* other, and the entry is read, and its order placed, once more.          *)
RecordFails ==
    /\ rpc = "record"
    /\ ~rsession
    /\ rpc' = "read"
    /\ rresult' = None
    /\ UNCHANGED <<busVars, rlast, rsession, rspoilt, rfail>>

DatabaseError ==
    /\ DatabaseErrors
    /\ rpc = "record"
    /\ rsession
    /\ rfail < MaxRepairFailures
    /\ rfail' = rfail + 1
    /\ rsession' = FALSE
    /\ rspoilt' = TRUE
    /\ UNCHANGED <<busVars, rpc, rlast, rresult>>

(* Mutant: the repaired entry is not acknowledged.                         *)
FinishRepair_Stay ==
    /\ rpc = "report"
    /\ rpc' = "read"
    /\ rresult' = None
    /\ UNCHANGED <<busVars, rlast, rsession, rspoilt, rfail>>

(* repair.task.finished and repair.task.processed, then the cursor.        *)
FinishRepair ==
    /\ rpc = "report"
    /\ rpc' = "read"
    /\ rlast' = rlast + 1
    /\ rresult' = None
    /\ UNCHANGED <<busVars, rsession, rspoilt, rfail>>

(* Mutant: the except branch moves the cursor.                             *)
RepairRaise_Skip ==
    /\ rpc \in {"order", "close", "report"}
    /\ rfail < MaxRepairFailures
    /\ rfail' = rfail + 1
    /\ rpc' = "read"
    /\ rlast' = rlast + 1
    /\ rresult' = None
    /\ UNCHANGED <<busVars, rsession, rspoilt>>

(* An exception before the order (session), after it (closing) or in the   *)
(* alert for a failed repair: repair.task.failed, and the entry is read    *)
(* again.                                                                  *)
RepairRaise ==
    /\ rpc \in {"order", "close", "report"}
    /\ rpc = "report" => rresult = "MANUAL_REQUIRED"
    /\ rfail < MaxRepairFailures
    /\ rfail' = rfail + 1
    /\ rpc' = "read"
    /\ rresult' = None
    /\ UNCHANGED <<busVars, rlast, rsession, rspoilt>>

(* A kill, or a notifier that fails in the except branch.                  *)
RepairCrash ==
    /\ rpc # "down"
    /\ rfail < MaxRepairFailures
    /\ rfail' = rfail + 1
    /\ rpc' = "down"
    /\ rlast' = 0
    /\ rresult' = None
    /\ rsession' = TRUE
    /\ UNCHANGED <<busVars, rspoilt>>

RepairRestart ==
    /\ rpc = "down"
    /\ rpc' = "read"
    /\ UNCHANGED <<busVars, rlast, rresult, rsession, rspoilt, rfail>>

RepairStep ==
    \/ StartRepair \/ IgnoreRepair
    \/ \E outcome \in RepairOutcomes : PlaceRepairOrder(outcome)
    \/ CloseRepairSession \/ RecordRepair \/ RecordFails \/ FinishRepair
    \/ RepairRestart

RepairNext == RepairStep \/ RepairRaise \/ DatabaseError \/ RepairCrash
=============================================================================
