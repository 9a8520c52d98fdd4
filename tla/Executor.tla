------------------------------ MODULE Executor ------------------------------
(***************************************************************************)
(* RedisExecutionTaskConsumer with RuntimeTradeExecutionService,           *)
(* TradeExecutor and RiskManager: one process per node that reads the      *)
(* node's task stream, places the two legs of a task on the exchanges and  *)
(* records the outcome in the task table.                                  *)
(*                                                                         *)
(* Each action is what the coroutine does between two effects another      *)
(* process or an exchange can see.  An exception in the try block, before  *)
(* or after orders were placed, is reported and marked FAILED, and the     *)
(* cursor stays: the same message is read again.  A crash loses the cursor *)
(* altogether, and the whole stream is read again from "0-0".              *)
(***************************************************************************)
EXTENDS TaskBus

CONSTANTS
    ExecutorRegion,      \* settings.worker_region of the executors
    LegMoves,            \* bound: how live prices may move the legs (see ChooseLegs)
    LegOutcomes,         \* bound: how create_order may end
    MaxExecutorFailures  \* bound: failures per executor

ASSUME ExecutorAssumption ==
    /\ LegMoves \subseteq BOOLEAN \X BOOLEAN
    /\ LegOutcomes \subseteq {"accepted", "rejected", "unanswered"}
    /\ MaxExecutorFailures \in Nat

VARIABLES
    xpc,      \* what run() does next, per node
    xlast,    \* last_id
    xamount,  \* the notional the guard approved
    xlegs,    \* the two legs of execute_open: exchange and state
    xfail     \* failures so far

executorVars == <<xpc, xlast, xamount, xlegs, xfail>>

NoExchange == "no_exchange"
NoLegs == [side \in Sides |-> [exchange |-> NoExchange, state |-> "none"]]
LegStates == {"none", "pending", "filled", "failed"}

ExecutorTypeOK ==
    /\ xpc \in [Nodes -> {"read", "guard", "preflight", "open", "submit", "plan",
                          "record", "blocked", "failing", "down"}]
    /\ xlast \in [Nodes -> Nat]
    /\ \A n \in Nodes : xlast[n] <= Len(execTasks[n])
    /\ xamount \in [Nodes -> 0..MaxNotional]
    /\ xlegs \in [Nodes -> [Sides -> [exchange : Exchanges \cup {NoExchange},
                                      state : LegStates]]]
    /\ xfail \in [Nodes -> 0..MaxExecutorFailures]

ExecutorInit ==
    /\ xpc = [n \in Nodes |-> "read"]
    /\ xlast = [n \in Nodes |-> 0]
    /\ xamount = [n \in Nodes |-> 0]
    /\ xlegs = [n \in Nodes |-> NoLegs]
    /\ xfail = [n \in Nodes |-> 0]

-----------------------------------------------------------------------------
(* The entry under the cursor, and what execute_open made of its legs.     *)
Entry(n) == execTasks[n][xlast[n] + 1]
Leg(n, side) == xlegs[n][side]
FailedSides(n) == {side \in Sides : Leg(n, side).state = "failed"}
FailedExchanges(n) == {Leg(n, side).exchange : side \in FailedSides(n)}

(* failed_exchanges keeps the order of open_legs: buy before sell.         *)
TargetExchanges(n) ==
    (IF "buy" \in FailedSides(n) THEN <<Leg(n, "buy").exchange>> ELSE <<>>)
        \o (IF "sell" \in FailedSides(n) THEN <<Leg(n, "sell").exchange>> ELSE <<>>)

(* Mutant: one filled leg is enough.                                       *)
ExecutionStatus_AnyLeg(n) ==
    IF FailedSides(n) # Sides THEN "OPEN_HEDGED" ELSE "OPEN_PARTIAL"

ExecutionStatus(n) == IF FailedSides(n) = {} THEN "OPEN_HEDGED" ELSE "OPEN_PARTIAL"

(* RiskManager.build_repair_plan                                           *)
RepairReason(n) ==
    IF ExecutionStatus(n) = "OPEN_PARTIAL" THEN "one_leg_failed" ELSE "fully_hedged"

Goto(n, label) == xpc' = [xpc EXCEPT ![n] = label]

(* The executor's locals do not outlive the iteration of the loop.         *)
EndIteration(n, label) ==
    /\ Goto(n, label)
    /\ xamount' = [xamount EXCEPT ![n] = 0]
    /\ xlegs' = [xlegs EXCEPT ![n] = NoLegs]

Advance(n) == xlast' = [xlast EXCEPT ![n] = @ + 1]

-----------------------------------------------------------------------------
(* XREAD count=1 after last_id, then mark_executing in the same step.      *)
StartTask(n) ==
    /\ xpc[n] = "read"
    /\ xlast[n] < Len(execTasks[n])
    /\ mark_executing(Entry(n).task)
    /\ Goto(n, "guard")
    /\ UNCHANGED <<streamVars, adminVars, orderVars, xlast, xamount, xlegs, xfail>>

(* The second control check, on the notional the payload asks for.         *)
CheckGuard(n) ==
    /\ xpc[n] = "guard"
    /\ LET approved == ApprovedNotional(Entry(n).target_quote_amount)
       IN  /\ Goto(n, IF approved > 0 THEN "preflight" ELSE "blocked")
           /\ xamount' = [xamount EXCEPT ![n] = approved]
    /\ UNCHANGED <<busVars, xlast, xlegs, xfail>>

(* Mutant: the blocked message is not acknowledged.                        *)
BlockTask_Stay(n) ==
    /\ xpc[n] = "blocked"
    /\ mark_blocked(Entry(n).task)
    /\ EndIteration(n, "read")
    /\ UNCHANGED <<streamVars, adminVars, orderVars, xlast, xfail>>

(* mark_blocked, then the cursor moves.                                    *)
BlockTask(n) ==
    /\ xpc[n] = "blocked"
    /\ mark_blocked(Entry(n).task)
    /\ Advance(n)
    /\ EndIteration(n, "read")
    /\ UNCHANGED <<streamVars, adminVars, orderVars, xfail>>

(* _resolve_execution_accounts and ExecutorPreflightValidator: the bound   *)
(* accounts must still be enabled and eligible here, and the legs differ.  *)
PreflightOK(n) ==
    LET e == Entry(n)
    IN  /\ e.buy_exchange # e.sell_exchange
        /\ xamount[n] > 0
        /\ resolve_bound_accounts({a \in enabled : a.user = e.task[1]},
                                  e.buy_exchange, e.sell_exchange,
                                  [buy_account |-> e.buy_account,
                                   sell_account |-> e.sell_account],
                                  ExecutorRegion)

Preflight(n) ==
    /\ xpc[n] = "preflight"
    /\ Goto(n, IF PreflightOK(n) THEN "open" ELSE "failing")
    /\ UNCHANGED <<busVars, xlast, xamount, xlegs, xfail>>

(* Sessions are opened and the live tickers are read: the exchange with    *)
(* the lowest ask gets the buy leg and the one with the highest bid the    *)
(* sell leg, whichever way round the opportunity had them.  A pair in      *)
(* LegMoves says whether the buy and the sell leg changed exchange.        *)
ChooseLegs(n) ==
    /\ xpc[n] = "open"
    /\ \E buy, sell \in {Entry(n).buy_exchange, Entry(n).sell_exchange} :
          /\ <<buy # Entry(n).buy_exchange, sell # Entry(n).sell_exchange>> \in LegMoves
          /\ xlegs' = [xlegs EXCEPT ![n] =
                 [side \in Sides |->
                     [exchange |-> IF side = "buy" THEN buy ELSE sell,
                      state |-> "pending"]]]
    /\ Goto(n, "submit")
    /\ UNCHANGED <<busVars, xlast, xamount, xfail>>

(* asyncio.gather: the two create_order calls finish in any order.  One    *)
(* that raises may have placed its order all the same (a lost response).   *)
FinishLeg(n, side, outcome) ==
    /\ xpc[n] = "submit"
    /\ Leg(n, side).state = "pending"
    /\ xlegs' = [xlegs EXCEPT ![n][side].state =
                    IF outcome = "accepted" THEN "filled" ELSE "failed"]
    /\ orders' = IF outcome = "rejected" THEN orders
                 ELSE [orders EXCEPT ![<<Entry(n).task, Leg(n, side).exchange, side>>] = @ + 1]
    /\ UNCHANGED <<tasks, streamVars, adminVars, repairs, xpc, xlast, xamount, xfail>>

LegsFinished(n) == \A side \in Sides : Leg(n, side).state \in {"filled", "failed"}

(* Mutant: no repair task for a partial open.                              *)
CloseSessions_NoRepair(n) ==
    /\ xpc[n] = "submit"
    /\ LegsFinished(n)
    /\ Goto(n, "record")
    /\ UNCHANGED <<busVars, xlast, xamount, xlegs, xfail>>

(* gather returns when both legs have; finally closes the adapters, and    *)
(* the result goes to the consumer.                                        *)
CloseSessions(n) ==
    /\ xpc[n] = "submit"
    /\ LegsFinished(n)
    /\ Goto(n, IF ExecutionStatus(n) = "OPEN_PARTIAL" THEN "plan" ELSE "record")
    /\ UNCHANGED <<busVars, xlast, xamount, xlegs, xfail>>

(* The repair task is on its stream before the outcome is in the table.    *)
PublishRepair(n) ==
    /\ xpc[n] = "plan"
    /\ repairTasks' = Append(repairTasks,
           [task |-> Entry(n).task,
            buy_exchange |-> Entry(n).buy_exchange,
            sell_exchange |-> Entry(n).sell_exchange,
            execution_status |-> ExecutionStatus(n),
            repair_action |-> "AUTO_HEDGE_REPAIRING",
            target_exchanges |-> TargetExchanges(n)])
    /\ Goto(n, "record")
    /\ UNCHANGED <<tasks, opps, execTasks, adminVars, orderVars,
                   xlast, xamount, xlegs, xfail>>

(* Mutant: the executed message is not acknowledged.                       *)
RecordResult_Stay(n) ==
    /\ xpc[n] = "record"
    /\ mark_execution_result(Entry(n).task, "SUCCEEDED", ExecutionStatus(n),
                             FailedExchanges(n), RepairReason(n))
    /\ EndIteration(n, "read")
    /\ UNCHANGED <<streamVars, adminVars, orderVars, xlast, xfail>>

(* mark_execution_result, then the cursor moves.                           *)
RecordResult(n) ==
    /\ xpc[n] = "record"
    /\ mark_execution_result(Entry(n).task,
           IF ExecutionStatus(n) = "OPEN_HEDGED" THEN "SUCCEEDED" ELSE "FAILED",
           ExecutionStatus(n), FailedExchanges(n), RepairReason(n))
    /\ Advance(n)
    /\ EndIteration(n, "read")
    /\ UNCHANGED <<streamVars, adminVars, orderVars, xfail>>

-----------------------------------------------------------------------------
(* An exception: the control store, a session, a ticker, the closing of an *)
(* adapter (after the legs) or the XADD of the repair task fails.          *)
Raise(n) ==
    /\ xpc[n] \in {"guard", "preflight", "open", "submit", "plan"}
    /\ xpc[n] = "submit" => LegsFinished(n)
    /\ xfail[n] < MaxExecutorFailures
    /\ xfail' = [xfail EXCEPT ![n] = @ + 1]
    /\ Goto(n, "failing")
    /\ UNCHANGED <<busVars, xlast, xamount, xlegs>>

(* The except branch: failed event, mark_failed; last_id stays.            *)
FailTask(n) ==
    /\ xpc[n] = "failing"
    /\ mark_failed(Entry(n).task)
    /\ EndIteration(n, "read")
    /\ UNCHANGED <<streamVars, adminVars, orderVars, xlast, xfail>>

(* A kill, a database error (the session stays unusable, so mark_failed    *)
(* raises too) or a notifier error in the except branch ends the process.  *)
(* Orders in flight may or may not have reached the exchange.              *)
ExecutorCrash(n) ==
    /\ xpc[n] # "down"
    /\ xfail[n] < MaxExecutorFailures
    /\ xfail' = [xfail EXCEPT ![n] = @ + 1]
    /\ EndIteration(n, "down")
    /\ xlast' = [xlast EXCEPT ![n] = 0]
    /\ UNCHANGED busVars

(* systemd: Restart=always, with last_id = "0-0".                          *)
ExecutorRestart(n) ==
    /\ xpc[n] = "down"
    /\ Goto(n, "read")
    /\ UNCHANGED <<busVars, xlast, xamount, xlegs, xfail>>

ExecutorStep(n) ==
    \/ StartTask(n) \/ CheckGuard(n) \/ BlockTask(n) \/ Preflight(n)
    \/ ChooseLegs(n)
    \/ \E side \in Sides, outcome \in LegOutcomes : FinishLeg(n, side, outcome)
    \/ CloseSessions(n) \/ PublishRepair(n) \/ RecordResult(n)
    \/ FailTask(n) \/ ExecutorRestart(n)

ExecutorNext == \E n \in Nodes : ExecutorStep(n) \/ Raise(n) \/ ExecutorCrash(n)
=============================================================================
