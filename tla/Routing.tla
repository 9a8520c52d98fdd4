------------------------------- MODULE Routing -------------------------------
(***************************************************************************)
(* The route store in front of the dispatcher that looks routes up: a      *)
(* dispatcher process first syncs the default routes and only then reads   *)
(* its stream, at every start; an error of the sync ends it like any other. *)
(***************************************************************************)
EXTENDS Dispatcher, RouteStore

routingVars == <<dispatchVars, storeVars>>

(* No dispatcher has been started yet.                                     *)
RoutingInit ==
    /\ RouteInit
    /\ dpc = "down"
    /\ dlast = 0 /\ dusers = {} /\ duser = NoUser /\ dnode = NoNode
    /\ dbinding = NoBinding /\ dstrats = {} /\ damount = 0 /\ dfail = 0

(* WorkerApp.run: the worker is built and run after the sync.              *)
StartDispatcher ==
    \/ dpc = "down" /\ StartSync /\ UNCHANGED dispatcherVars
    \/ SyncStep /\ UNCHANGED dispatcherVars
    \/ SyncDone /\ DispatcherRestart

RunDispatcher == dpc # "down" /\ DispatcherStep /\ UNCHANGED storeVars

RoutingNext ==
    \/ StartDispatcher
    \/ RunDispatcher
    \/ SyncFails /\ UNCHANGED dispatcherVars
    \/ DispatcherCrash /\ UNCHANGED storeVars
    \/ (RouteAdminStep \/ BackfillStep) /\ UNCHANGED dispatcherVars
    \/ PublishOpportunity /\ UNCHANGED <<dispatcherVars, storeVars>>

RoutingSpec == RoutingInit /\ [][RoutingNext]_routingVars

(* systemd starts the dispatcher again and again, and it keeps running.    *)
RoutingFairSpec ==
    /\ RoutingSpec
    /\ WF_routingVars(StartDispatcher)
    /\ WF_routingVars(RunDispatcher)

-----------------------------------------------------------------------------
(* While no request touches them, routes are stable and known in time: a   *)
(* user with a default or an older route has one when a message is done    *)
(* with, and all its tasks are on that node and on no other, however often *)
(* the dispatcher starts anew.                                             *)
UntouchedUsersServed ==
    asks = 0 =>
        \A u \in _resolve_candidate_user_ids, m \in 1..dlast :
            u \in DOMAIN DefaultRoutes \/ routes[u] # NoNode =>
                /\ routes[u] # NoNode
                /\ Servable(u, opps[m]) =>
                      \A s \in _iter_matching_strategies(u, opps[m]) :
                          {n \in Nodes : \E i \in DOMAIN execTasks[n] :
                                            execTasks[n][i].task = <<u, m, s>>} = {routes[u]}

-----------------------------------------------------------------------------
(* The inductive invariant behind it.  While the sync runs no dispatcher   *)
(* does, and a dead one remembers nothing.                                 *)
StartsInOrder ==
    /\ dpc # "down" => spc = "off"
    /\ dpc = "down" => dlast = 0

(* Before the first request, the sync writes only routes there were not,   *)
(* and comes to every default before a dispatcher runs.                    *)
SyncInv ==
    /\ \A h \in Handlers : pending[h] = NoCall
    /\ spc = "set" => routes[suser] = NoNode
    /\ \A u \in DOMAIN DefaultRoutes :
          \/ routes[u] # NoNode
          \/ dpc = "down" /\ (spc = "off" \/ u \in sleft \/ (spc = "set" /\ suser = u))

(* A task stands on the node of its user's route.                          *)
TasksFollowRoutes ==
    \A n \in Nodes : \A i \in DOMAIN execTasks[n] :
        execTasks[n][i].task[1] \in Users /\ routes[execTasks[n][i].task[1]] = n
=============================================================================
