------------------------------ MODULE TaskFeed ------------------------------
(***************************************************************************)
(* What the dispatcher promises the rest of the pipeline, and no more: a   *)
(* row is created once, a task goes to one node stream at most once and    *)
(* only while its row is CREATED, a blocked task is never sent, and        *)
(* mark_dispatched follows the XADD at some later time, once, or never.    *)
(* Nothing is said of which tasks, in which order or for which user.       *)
(*                                                                         *)
(* Dispatcher implements this (DispatchRefinement), and the executor is    *)
(* checked against it (Execution).                                         *)
(***************************************************************************)
EXTENDS TaskBus

CONSTANT
    FeedEntries   \* the entries that may be sent

ASSUME FeedAssumption == FeedEntries \subseteq ExecEntry

FeedCreate ==
    /\ \E t \in TaskIds : create_task(t)
    /\ UNCHANGED <<streamVars, adminVars, orderVars>>

FeedBlock ==
    /\ \E t \in DOMAIN tasks : /\ tasks[t].status = "CREATED"
                               /\ ~Published(t)
                               /\ mark_blocked(t)
    /\ UNCHANGED <<streamVars, adminVars, orderVars>>

FeedPublish ==
    /\ \E n \in Nodes, e \in FeedEntries :
          /\ e.task \in DOMAIN tasks
          /\ tasks[e.task].status = "CREATED"
          /\ ~Published(e.task)
          /\ execTasks' = [execTasks EXCEPT ![n] = Append(@, e)]
    /\ UNCHANGED <<tasks, opps, repairTasks, adminVars, orderVars>>

FeedMarkDispatched ==
    /\ \E t \in DOMAIN tasks : /\ Published(t)
                               /\ ~tasks[t].dispatched_at
                               /\ mark_dispatched(t)
    /\ UNCHANGED <<streamVars, adminVars, orderVars>>

FeedNext == FeedCreate \/ FeedBlock \/ FeedPublish \/ FeedMarkDispatched

(* Everything around the executors and the repair worker.                  *)
Surroundings == FeedNext \/ PublishOpportunity \/ Admin

FeedSpec == BusInit /\ [][Surroundings]_busVars
=============================================================================
