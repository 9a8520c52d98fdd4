----------------------------- MODULE RouteStore -----------------------------
(***************************************************************************)
(* UserNodeRouteStore (app/runtime/redis_flow.py) under its three writers: *)
(* the requests of route-admin, sync_default_routes of a dispatcher that   *)
(* starts, and the backfill-index command.                                 *)
(*                                                                         *)
(* A route is a Redis key (TaskBus's routes) and a member of one index     *)
(* set.  The dispatcher's lookup goes by the key alone, list_routes by the *)
(* index.  Put is SET then SADD, delete is SREM then DEL, none of it is    *)
(* atomic, and an error of the second call answers 503 and undoes nothing. *)
(***************************************************************************)
EXTENDS TaskBus

CONSTANTS
    DefaultRoutes,     \* settings.user_node_routes: user -> node
    Handlers,          \* requests route-admin may have in flight together
    MaxRouteRequests,  \* bound: requests
    MaxRouteErrors,    \* bound: calls that fail, processes that are killed
    MaxBackfills       \* bound: runs of backfill-index

ASSUME RouteAssumption ==
    /\ DOMAIN DefaultRoutes \subseteq Users
    /\ DefaultRoutes \in [DOMAIN DefaultRoutes -> Nodes]
    /\ NoNode \notin Nodes
    /\ MaxRouteRequests \in Nat
    /\ MaxRouteErrors \in Nat
    /\ MaxBackfills \in Nat

NobodyYet == 0
NoCall == [call |-> "none"]
Calls == [call : {"sadd"}, user : Users, node : Nodes, alone : BOOLEAN]
            \cup [call : {"del"}, user : Users, node : {NoNode}, alone : BOOLEAN]

VARIABLES
    indexed,    \* route:user_node:index
    pending,    \* the second call each handler has still to make
    spc,        \* sync_default_routes: what it does next
    sleft,      \* default users it has not come to yet
    suser,      \* the user it found without a route
    bpc,        \* backfill_route_index: what it does next
    bindex,     \* current_index
    bleft,      \* users whose key SCAN has not come to yet
    bbatch,     \* the ids of the last batch still to be looked at
    buser,      \* the user to be indexed
    asks,       \* requests so far
    rerrors,    \* errors so far
    backfills,  \* runs of backfill-index so far
    torn,       \* history: users on whom a second call failed
    ordered,    \* history: the node of a finished put, until the next request
    raced,      \* history: users put while the sync had them in hand
    bstable     \* history: routes nobody has touched since the backfill began

handlerVars == <<pending, asks>>
syncVars == <<spc, sleft, suser>>
backfillVars == <<bpc, bindex, bleft, bbatch, buser, backfills>>
historyVars == <<torn, ordered, raced, bstable>>
storeVars == <<indexed, handlerVars, syncVars, backfillVars, rerrors, historyVars>>
routeVars == <<routes, storeVars>>
otherBusVars == <<tasks, streamVars, limit, enabled, changes, orderVars>>

RouteTypeOK ==
    /\ routes \in [Users -> Nodes \cup {NoNode}]
    /\ indexed \subseteq Users
    /\ pending \in [Handlers -> Calls \cup {NoCall}]
    /\ spc \in {"off", "get", "set", "sadd"}
    /\ sleft \subseteq DOMAIN DefaultRoutes
    /\ suser \in DOMAIN DefaultRoutes \cup {NobodyYet}
    /\ bpc \in {"off", "scan", "sadd"}
    /\ bindex \subseteq Users /\ bleft \subseteq Users /\ bbatch \subseteq Users
    /\ buser \in Users \cup {NobodyYet}
    /\ asks \in 0..MaxRouteRequests
    /\ rerrors \in 0..MaxRouteErrors
    /\ backfills \in 0..MaxBackfills
    /\ torn \subseteq Users /\ raced \subseteq Users /\ bstable \subseteq Users
    /\ ordered \in [Users -> Nodes \cup {NoNode}]

(* Routes written before there was an index are in no index.               *)
RouteInit ==
    /\ EmptyBus
    /\ routes \in [Users -> Nodes \cup {NoNode}]
    /\ indexed = {}
    /\ pending = [h \in Handlers |-> NoCall]
    /\ spc = "off" /\ sleft = {} /\ suser = NobodyYet
    /\ bpc = "off" /\ bindex = {} /\ bleft = {} /\ bbatch = {} /\ buser = NobodyYet
    /\ asks = 0 /\ rerrors = 0 /\ backfills = 0
    /\ torn = {u \in Users : routes[u] # NoNode}
    /\ ordered = [u \in Users |-> NoNode]
    /\ raced = {}
    /\ bstable = {}

-----------------------------------------------------------------------------
(* route-admin.                                                            *)
OnUser(u) == {h \in Handlers : pending[h] # NoCall /\ pending[h].user = u}
InHand(u) == spc = "set" /\ suser = u

(* The first call of a request on u.  Requests that meet on a user are     *)
(* marked, for the history.                                                *)
Ask(h, u, call, node) ==
    /\ pending[h] = NoCall
    /\ asks < MaxRouteRequests
    /\ asks' = asks + 1
    /\ pending' = [g \in Handlers |->
          IF g = h THEN [call |-> call, user |-> u, node |-> node, alone |-> OnUser(u) = {}]
          ELSE IF g \in OnUser(u) THEN [pending[g] EXCEPT !.alone = FALSE]
          ELSE pending[g]]
    /\ ordered' = [ordered EXCEPT ![u] = NoNode]
    /\ bstable' = bstable \ {u}
    /\ UNCHANGED <<otherBusVars, syncVars, backfillVars, rerrors, torn>>

(* set_user_node: SET, whatever the key held.                              *)
PutRoute(h, u, n) ==
    /\ Ask(h, u, "sadd", n)
    /\ routes' = [routes EXCEPT ![u] = n]
    /\ raced' = IF InHand(u) THEN raced \cup {u} ELSE raced \ {u}
    /\ UNCHANGED indexed

(* delete_user_node: SREM first.                                           *)
DeleteRoute(h, u) ==
    /\ Ask(h, u, "del", NoNode)
    /\ indexed' = indexed \ {u}
    /\ UNCHANGED <<routes, raced>>

Answer(h) ==
    /\ pending' = [pending EXCEPT ![h] = NoCall]
    /\ UNCHANGED <<otherBusVars, asks, syncVars, backfillVars, raced, bstable>>

(* Mutant: the SADD is forgotten.                                          *)
FinishPut_NotIndexed(h) ==
    /\ pending[h] # NoCall
    /\ pending[h].call = "sadd"
    /\ torn' = torn \ {pending[h].user}
    /\ Answer(h)
    /\ UNCHANGED <<routes, indexed, ordered, rerrors>>

(* SADD, and the answer 200.                                               *)
FinishPut(h) ==
    /\ pending[h] # NoCall
    /\ pending[h].call = "sadd"
    /\ LET u == pending[h].user
       IN  /\ indexed' = indexed \cup {u}
           /\ torn' = torn \ {u}
           /\ ordered' = IF pending[h].alone
                         THEN [ordered EXCEPT ![u] = pending[h].node] ELSE ordered
    /\ Answer(h)
    /\ UNCHANGED <<routes, rerrors>>

(* DEL, and the answer 200.                                                *)
FinishDelete(h) ==
    /\ pending[h] # NoCall
    /\ pending[h].call = "del"
    /\ LET u == pending[h].user
       IN  /\ routes' = [routes EXCEPT ![u] = NoNode]
           /\ torn' = torn \ {u}
    /\ Answer(h)
    /\ UNCHANGED <<indexed, ordered, rerrors>>

(* The second call raises without having been carried out (if it was, the  *)
(* stores are as after a request that ended well): 503.                    *)
RequestFails(h) ==
    /\ pending[h] # NoCall
    /\ rerrors < MaxRouteErrors
    /\ rerrors' = rerrors + 1
    /\ torn' = torn \cup {pending[h].user}
    /\ Answer(h)
    /\ UNCHANGED <<routes, indexed, ordered>>

RouteAdminStep ==
    \E h \in Handlers :
       \/ \E u \in Users : DeleteRoute(h, u) \/ \E n \in Nodes : PutRoute(h, u, n)
       \/ FinishPut(h) \/ FinishDelete(h) \/ RequestFails(h)

-----------------------------------------------------------------------------
(* sync_default_routes: one GET per user of the settings, in any order, and *)
(* set_user_node for those who have none.                                  *)
SyncFrame == UNCHANGED <<otherBusVars, handlerVars, backfillVars, ordered, raced, bstable>>

StartSync ==
    /\ spc = "off"
    /\ spc' = "get"
    /\ sleft' = DOMAIN DefaultRoutes
    /\ SyncFrame
    /\ UNCHANGED <<routes, indexed, suser, rerrors, torn>>

(* Mutant: sync_routes, which does not ask.                                *)
SyncGet_DontAsk ==
    /\ spc = "get"
    /\ \E u \in sleft :
          /\ sleft' = sleft \ {u}
          /\ spc' = "set" /\ suser' = u
    /\ SyncFrame
    /\ UNCHANGED <<routes, indexed, rerrors, torn>>

SyncGet ==
    /\ spc = "get"
    /\ \E u \in sleft :
          /\ sleft' = sleft \ {u}
          /\ IF routes[u] = NoNode THEN spc' = "set" /\ suser' = u
             ELSE UNCHANGED <<spc, suser>>
    /\ SyncFrame
    /\ UNCHANGED <<routes, indexed, rerrors, torn>>

SyncSet ==
    /\ spc = "set"
    /\ routes' = [routes EXCEPT ![suser] = DefaultRoutes[suser]]
    /\ spc' = "sadd"
    /\ SyncFrame
    /\ UNCHANGED <<indexed, sleft, suser, rerrors, torn>>

SyncIndex ==
    /\ spc = "sadd"
    /\ indexed' = indexed \cup {suser}
    /\ torn' = torn \ {suser}
    /\ spc' = "get" /\ suser' = NobodyYet
    /\ SyncFrame
    /\ UNCHANGED <<routes, sleft, rerrors>>

SyncDone_Early ==   \* mutant: the dispatcher does not wait for the sync
    /\ spc = "get"
    /\ spc' = "off"
    /\ sleft' = {}
    /\ SyncFrame
    /\ UNCHANGED <<routes, indexed, suser, rerrors, torn>>

SyncDone ==
    /\ spc = "get"
    /\ sleft = {}
    /\ spc' = "off"
    /\ SyncFrame
    /\ UNCHANGED <<routes, indexed, sleft, suser, rerrors, torn>>

(* Any error ends the process, with the user in hand half written.         *)
SyncFails ==
    /\ spc # "off"
    /\ rerrors < MaxRouteErrors
    /\ rerrors' = rerrors + 1
    /\ torn' = IF spc = "sadd" THEN torn \cup {suser} ELSE torn
    /\ spc' = "off" /\ sleft' = {} /\ suser' = NobodyYet
    /\ SyncFrame
    /\ UNCHANGED <<routes, indexed>>

SyncStep == SyncGet \/ SyncSet \/ SyncIndex
-----------------------------------------------------------------------------
(* backfill_route_index without --dry-run, which writes nothing: SMEMBERS, *)
(* then SCAN in batches, and GET and SADD for each id of a batch.  SCAN    *)
(* comes to every place once and returns the keys there are by then.       *)
BackfillFrame == UNCHANGED <<otherBusVars, handlerVars, syncVars, routes, ordered, raced>>

StartBackfill ==
    /\ bpc = "off"
    /\ backfills < MaxBackfills
    /\ backfills' = backfills + 1
    /\ bpc' = "scan"
    /\ bindex' = indexed
    /\ bleft' = Users
    /\ bstable' = {u \in Users : routes[u] # NoNode /\ OnUser(u) = {}}
    /\ BackfillFrame
    /\ UNCHANGED <<indexed, bbatch, buser, rerrors, torn>>

ScanBatch ==
    /\ bpc = "scan"
    /\ bbatch = {}
    /\ \E S \in SUBSET bleft :
          /\ S # {}
          /\ bleft' = bleft \ S
          /\ bbatch' = {u \in S : routes[u] # NoNode}
    /\ BackfillFrame
    /\ UNCHANGED <<indexed, bpc, bindex, buser, backfills, rerrors, torn, bstable>>

(* A key that is gone by now is skipped, an indexed one counted.           *)
LookAtRoute ==
    /\ bpc = "scan"
    /\ \E u \in bbatch :
          /\ bbatch' = bbatch \ {u}
          /\ IF routes[u] # NoNode /\ u \notin bindex
             THEN bpc' = "sadd" /\ buser' = u
             ELSE UNCHANGED <<bpc, buser>>
    /\ BackfillFrame
    /\ UNCHANGED <<indexed, bindex, bleft, backfills, rerrors, torn, bstable>>

BackfillRoute ==
    /\ bpc = "sadd"
    /\ indexed' = indexed \cup {buser}
    /\ bindex' = bindex \cup {buser}
    /\ bpc' = "scan" /\ buser' = NobodyYet
    /\ BackfillFrame
    /\ UNCHANGED <<bleft, bbatch, backfills, rerrors, torn, bstable>>

(* The report.  What the operators left alone has been put right.          *)
BackfillDone ==
    /\ bpc = "scan"
    /\ bbatch = {} /\ bleft = {}
    /\ bpc' = "off"
    /\ bindex' = {}
    /\ torn' = torn \ bstable
    /\ bstable' = {}
    /\ BackfillFrame
    /\ UNCHANGED <<indexed, bleft, bbatch, buser, backfills, rerrors>>

BackfillFails ==
    /\ bpc # "off"
    /\ rerrors < MaxRouteErrors
    /\ rerrors' = rerrors + 1
    /\ bpc' = "off" /\ bindex' = {} /\ bleft' = {} /\ bbatch' = {} /\ buser' = NobodyYet
    /\ bstable' = {}
    /\ BackfillFrame
    /\ UNCHANGED <<indexed, backfills, torn>>

BackfillStep ==
    \/ StartBackfill \/ ScanBatch \/ LookAtRoute \/ BackfillRoute
    \/ BackfillDone \/ BackfillFails

-----------------------------------------------------------------------------
RouteNext ==
    \/ RouteAdminStep
    \/ StartSync \/ SyncStep \/ SyncDone \/ SyncFails
    \/ BackfillStep

RouteSpec == RouteInit /\ [][RouteNext]_<<busVars, storeVars>>

(* A call on u's route is still to come.                                   *)
InFlight(u) == OnUser(u) # {} \/ (spc = "sadd" /\ suser = u)

(* A route the dispatcher goes by is one the operators see: it is in the   *)
(* index unless a call on it is under way or has failed, and a failure is  *)
(* mended by the next request, the next sync or a backfill nobody disturbs. *)
UsedRouteIsListed ==
    \A u \in Users : routes[u] # NoNode => u \in indexed \cup torn \/ InFlight(u)

(* A put that was answered 200 stands until the next request on the user,  *)
(* however often dispatchers start with their default routes: except when  *)
(* the put came between such a dispatcher's GET and its SET.               *)
OperatorRouteKept ==
    \A u \in Users : ordered[u] # NoNode /\ u \notin raced => routes[u] = ordered[u]

-----------------------------------------------------------------------------
(* The inductive invariant behind the two.  A finished put, and one under  *)
(* way that is alone, is still in the key, and no sync is about to set it, *)
(* unless they raced.                                                      *)
OrdersHold ==
    \A u \in Users :
       /\ ordered[u] # NoNode => OnUser(u) = {} /\ (u \notin raced => ~InHand(u))
       /\ \A h \in OnUser(u) : pending[h].alone =>
             /\ OnUser(u) = {h}
             /\ pending[h].call = "sadd" /\ u \notin raced =>
                   routes[u] = pending[h].node /\ ~InHand(u)

(* The backfill still comes to a route it found unlisted.                  *)
BackfillComes ==
    /\ bpc = "sadd" => buser \in Users
    /\ bpc = "off" => bstable = {}
    /\ \A u \in bstable :
          /\ routes[u] # NoNode /\ OnUser(u) = {}
          /\ \/ u \in indexed
             \/ u \notin bindex /\ (u \in bleft \cup bbatch \/ (bpc = "sadd" /\ buser = u))

(* Types, and what the writers of a route know of each other.              *)
RouteInv ==
    /\ RouteTypeOK
    /\ spc \in {"set", "sadd"} => suser \in DOMAIN DefaultRoutes
    /\ UsedRouteIsListed
    /\ OperatorRouteKept
    /\ OrdersHold
    /\ BackfillComes

=============================================================================
