------------------------------ MODULE Pipeline ------------------------------
(***************************************************************************)
(* The workers a task passes through, on one bus: the dispatcher, the      *)
(* executors and the repair worker, between the scanner, the operators and *)
(* other producers on the repair stream.  Executors and repair worker      *)
(* write rows the dispatcher is not done with yet: it still has its        *)
(* mark_dispatched to make when the XADD has woken an executor up.         *)
(***************************************************************************)
EXTENDS Dispatcher, Execution, Settlement

(* There are tasks to execute, and every well-formed one may be sent.      *)
ASSUME PipelineAssumption == DatabaseEnabled /\ FeedEntries = ExecEntry

pipelineVars == <<busVars, dispatcherVars, executorVars, repairVars>>

PipelineInit == BusInit /\ DispatcherInit /\ ExecutorInit /\ RepairInit

PipelineNext ==
    \/ DispatcherNext /\ UNCHANGED <<executorVars, repairVars>>
    \/ ExecutorNext /\ UNCHANGED <<dispatcherVars, repairVars>>
    \/ RepairNext /\ UNCHANGED <<dispatcherVars, executorVars>>
    \/ (PublishOpportunity \/ Admin \/ OtherProducer)
          /\ UNCHANGED <<dispatcherVars, executorVars, repairVars>>

PipelineSpec == PipelineInit /\ [][PipelineNext]_pipelineVars

-----------------------------------------------------------------------------
(* From the opportunity to the exchange: whoever crashed, retried or read  *)
(* a stream again, an order of a task is on one of the two exchanges of    *)
(* the opportunity the task was made from, which matches the strategy it   *)
(* was made for, and the user trades and has an account there.             *)
OrderFollowsOpportunity ==
    \A t \in TaskIds, e \in Exchanges, side \in Sides :
        orders[<<t, e, side>>] + repairs[<<t, e, side>>] > 0 =>
            /\ t[1] \in TradingUsers
            /\ t[2] \in DOMAIN opps
            /\ e \in {opps[t[2]].buy_exchange, opps[t[2]].sell_exchange}
            /\ \E s \in StrategyConfigs : /\ s.id = t[3] /\ s.user_id = t[1]
                                          /\ _matches_strategy(opps[t[2]], s)
            /\ \E a \in Accounts : a.user = t[1] /\ a.exchange = e

(* With this dispatcher in front, executors and repair worker behave as    *)
(* they do behind TaskFeed: what holds under TaskFeed holds here, although *)
(* they write the rows of tasks it has not marked yet.                     *)
ImplementsSettlement == SettlementSpec
=============================================================================
