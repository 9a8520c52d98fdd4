---------------------------- MODULE RoutingProofs ----------------------------
(***************************************************************************)
(* Proofs about RouteStore and Routing, for any users, nodes, routes and   *)
(* handlers, and any number of requests, errors and backfills.             *)
(***************************************************************************)
EXTENDS Routing, DispatcherProofs

SyncHasUser == spc \in {"set", "sadd"} => suser \in DOMAIN DefaultRoutes

LEMMA RouteInvParts ==
    RouteInv <=> /\ RouteTypeOK /\ SyncHasUser /\ UsedRouteIsListed
                 /\ OperatorRouteKept /\ OrdersHold /\ BackfillComes
BY DEF RouteInv, SyncHasUser

LEMMA CallsDiffer == \A c \in Calls : c # NoCall
<1> SUFFICES ASSUME NEW c \in Calls
             PROVE  c # NoCall
  OBVIOUS
<1>1. c.call \in {"sadd", "del"} /\ NoCall.call = "none"
  BY DEF Calls, NoCall
<1> QED
  BY <1>1

LEMMA PendingIsCall ==
    ASSUME RouteTypeOK, NEW h \in Handlers, pending[h] # NoCall
    PROVE  /\ pending[h] \in Calls
           /\ pending[h].user \in Users
           /\ pending[h].node \in Nodes \cup {NoNode}
           /\ pending[h].alone \in BOOLEAN
           /\ pending[h].call \in {"sadd", "del"}
           /\ pending[h].call = "sadd" => pending[h].node # NoNode
<1>1. pending[h] \in Calls
  BY DEF RouteTypeOK
<1> QED
  BY <1>1, RouteAssumption DEF Calls, RouteAssumption

-----------------------------------------------------------------------------
(* What the first call of a request does to the calls under way.           *)
LEMMA AskPending ==
    ASSUME RouteTypeOK, NEW h \in Handlers, NEW u \in Users,
           NEW call \in {"sadd", "del"}, NEW node,
           IF call = "sadd" THEN node \in Nodes ELSE node = NoNode,
           Ask(h, u, call, node)
    PROVE  /\ pending' \in [Handlers -> Calls \cup {NoCall}]
           /\ \A v \in Users \ {u} : OnUser(v)' = OnUser(v)
           /\ \A v \in Users \ {u} : \A g \in OnUser(v) : pending'[g] = pending[g]
           /\ OnUser(u)' = OnUser(u) \cup {h}
           /\ \A g \in OnUser(u) : pending'[g].alone = FALSE
           /\ pending'[h] = [call |-> call, user |-> u, node |-> node,
                             alone |-> OnUser(u) = {}]
           /\ pending'[h].alone => OnUser(u) = {}
           /\ h \notin OnUser(u)
<1> DEFINE new == [call |-> call, user |-> u, node |-> node, alone |-> OnUser(u) = {}]
<1>1. new \in Calls
  <2>1. (OnUser(u) = {}) \in BOOLEAN
    OBVIOUS
  <2> QED
    BY <2>1 DEF Calls
<1>2. new # NoCall /\ new.user = u
  BY <1>1, CallsDiffer
<1>3. pending[h] = NoCall /\ h \notin OnUser(u)
  BY DEF Ask, OnUser
<1>4. \A g \in OnUser(u) :
        /\ [pending[g] EXCEPT !.alone = FALSE] \in Calls
        /\ [pending[g] EXCEPT !.alone = FALSE].user = u
        /\ [pending[g] EXCEPT !.alone = FALSE].alone = FALSE
  <2> SUFFICES ASSUME NEW g \in OnUser(u)
               PROVE  /\ [pending[g] EXCEPT !.alone = FALSE] \in Calls
                      /\ [pending[g] EXCEPT !.alone = FALSE].user = u
                      /\ [pending[g] EXCEPT !.alone = FALSE].alone = FALSE
    OBVIOUS
  <2>1. g \in Handlers /\ pending[g] # NoCall /\ pending[g].user = u
    BY DEF OnUser
  <2>2. pending[g] \in Calls
    BY <2>1, PendingIsCall
  <2> QED
    BY <2>1, <2>2 DEF Calls
<1>5. \A g \in Handlers :
        pending'[g] = IF g = h THEN new
                      ELSE IF g \in OnUser(u) THEN [pending[g] EXCEPT !.alone = FALSE]
                      ELSE pending[g]
  BY DEF Ask
<1>6. DOMAIN pending' = Handlers /\ pending' = [g \in Handlers |-> pending'[g]]
  BY DEF Ask
<1> HIDE DEF new
<1>7. \A g \in Handlers : pending'[g] \in Calls \cup {NoCall}
  BY <1>1, <1>4, <1>5 DEF RouteTypeOK
<1>8. pending' \in [Handlers -> Calls \cup {NoCall}]
  BY <1>6, <1>7
<1>9. \A g \in Handlers : \A v \in Users :
         v # u => (pending'[g] # NoCall /\ pending'[g].user = v
                      <=> pending[g] # NoCall /\ pending[g].user = v)
  BY <1>2, <1>3, <1>4, <1>5, CallsDiffer DEF OnUser
<1>10. \A v \in Users \ {u} : OnUser(v)' = OnUser(v)
  BY <1>9 DEF OnUser
<1>11. \A v \in Users \ {u} : \A g \in OnUser(v) : pending'[g] = pending[g]
  BY <1>3, <1>5 DEF OnUser
<1>12. \A g \in Handlers : pending'[g] # NoCall /\ pending'[g].user = u
                              <=> g = h \/ g \in OnUser(u)
  BY <1>2, <1>3, <1>4, <1>5, CallsDiffer DEF OnUser
<1>13. OnUser(u)' = OnUser(u) \cup {h}
  BY <1>12 DEF OnUser
<1>14. \A g \in OnUser(u) : pending'[g].alone = FALSE
  BY <1>3, <1>4, <1>5 DEF OnUser
<1>15. new.alone => OnUser(u) = {}
  <2>1. CASE OnUser(u) = {}
    BY <2>1
  <2>2. CASE OnUser(u) # {}
    <3>1. new = [call |-> call, user |-> u, node |-> node, alone |-> FALSE]
      BY <2>2, Zenon DEF new
    <3> QED
      BY <3>1
  <2> QED
    BY <2>1, <2>2
<1> QED
  BY <1>3, <1>5, <1>8, <1>10, <1>11, <1>13, <1>14, <1>15 DEF new

(* What the end of a request does to them.                                 *)
LEMMA AnswerPending ==
    ASSUME RouteTypeOK, NEW h \in Handlers, pending[h] # NoCall, Answer(h)
    PROVE  /\ pending' \in [Handlers -> Calls \cup {NoCall}]
           /\ \A v \in Users : OnUser(v)' = OnUser(v) \ {h}
           /\ \A v \in Users : \A g \in OnUser(v)' : pending'[g] = pending[g]
<1>1. pending' = [pending EXCEPT ![h] = NoCall]
  BY DEF Answer
<1>2. pending \in [Handlers -> Calls \cup {NoCall}]
  BY DEF RouteTypeOK
<1>3. pending' \in [Handlers -> Calls \cup {NoCall}]
  BY <1>1, <1>2
<1>4. \A v \in Users : OnUser(v)' = OnUser(v) \ {h}
  BY <1>1, <1>2 DEF OnUser
<1>5. \A v \in Users : \A g \in OnUser(v)' : pending'[g] = pending[g]
  BY <1>1, <1>2, <1>4 DEF OnUser
<1> QED
  BY <1>3, <1>4, <1>5

-----------------------------------------------------------------------------
LEMMA PutStep ==
    ASSUME RouteInv, NEW h \in Handlers, NEW u \in Users, NEW n \in Nodes, PutRoute(h, u, n)
    PROVE  RouteInv'
<1> USE RouteAssumption DEF RouteAssumption
<1>1. Ask(h, u, "sadd", n) /\ routes' = [routes EXCEPT ![u] = n] /\ indexed' = indexed
      /\ raced' = IF InHand(u) THEN raced \cup {u} ELSE raced \ {u}
  BY DEF PutRoute
<1>2. UNCHANGED <<syncVars, backfillVars, rerrors, torn>>
      /\ asks' = asks + 1 /\ asks < MaxRouteRequests
      /\ ordered' = [ordered EXCEPT ![u] = NoNode] /\ bstable' = bstable \ {u}
  BY <1>1 DEF Ask
<1>3. RouteTypeOK
  BY DEF RouteInv
<1>4. /\ pending' \in [Handlers -> Calls \cup {NoCall}]
      /\ \A v \in Users \ {u} : OnUser(v)' = OnUser(v)
      /\ \A v \in Users \ {u} : \A g \in OnUser(v) : pending'[g] = pending[g]
      /\ OnUser(u)' = OnUser(u) \cup {h}
      /\ \A g \in OnUser(u) : pending'[g].alone = FALSE
      /\ pending'[h] = [call |-> "sadd", user |-> u, node |-> n, alone |-> OnUser(u) = {}]
      /\ pending'[h].alone => OnUser(u) = {}
      /\ h \notin OnUser(u)
  BY <1>1, <1>3, AskPending
<1>5. RouteTypeOK'
  BY <1>1, <1>2, <1>3, <1>4 DEF RouteTypeOK, syncVars, backfillVars
<1>6. SyncHasUser'
  BY <1>2 DEF RouteInv, SyncHasUser, syncVars
<1>7. UsedRouteIsListed'
  BY <1>1, <1>2, <1>3, <1>4 DEF RouteInv, RouteTypeOK, UsedRouteIsListed, InFlight, syncVars
<1>8. OperatorRouteKept'
  BY <1>1, <1>2, <1>3 DEF RouteInv, RouteTypeOK, OperatorRouteKept
<1>9. OrdersHold'
  <2> SUFFICES ASSUME NEW v \in Users
               PROVE  /\ ordered'[v] # NoNode => OnUser(v)' = {} /\ (v \notin raced' => ~InHand(v)')
                      /\ \A g \in OnUser(v)' : pending'[g].alone =>
                            /\ OnUser(v)' = {g}
                            /\ pending'[g].call = "sadd" /\ v \notin raced' =>
                                  routes'[v] = pending'[g].node /\ ~InHand(v)'
    BY DEF OrdersHold
  <2>1. InHand(v)' <=> InHand(v)
    BY <1>2 DEF InHand, syncVars
  <2>2. CASE v # u
    <3>1. OnUser(v)' = OnUser(v) /\ \A g \in OnUser(v) : pending'[g] = pending[g]
      BY <1>4, <2>2
    <3>2. ordered'[v] = ordered[v] /\ routes'[v] = routes[v] /\ (v \in raced' <=> v \in raced)
      BY <1>1, <1>2, <1>3, <2>2 DEF RouteTypeOK
    <3> QED
      BY <2>1, <3>1, <3>2 DEF RouteInv, OrdersHold
  <2>3. CASE v = u
    <3>1. ordered'[u] = NoNode /\ routes'[u] = n
      BY <1>1, <1>2, <1>3 DEF RouteTypeOK
    <3>2. u \notin raced' => ~InHand(u)'
      BY <1>1, <2>1, <2>3
    <3>3. \A g \in OnUser(u)' : pending'[g].alone => g = h /\ OnUser(u) = {}
      BY <1>4
    <3> QED
      BY <1>4, <2>3, <3>1, <3>2, <3>3
  <2> QED
    BY <2>2, <2>3
<1>10. BackfillComes'
  BY <1>1, <1>2, <1>3, <1>4 DEF RouteInv, RouteTypeOK, BackfillComes, backfillVars
<1> QED
  BY <1>5, <1>6, <1>7, <1>8, <1>9, <1>10 DEF RouteInv, SyncHasUser

LEMMA DeleteStep ==
    ASSUME RouteInv, NEW h \in Handlers, NEW u \in Users, DeleteRoute(h, u)
    PROVE  RouteInv'
<1> USE RouteAssumption DEF RouteAssumption
<1>1. Ask(h, u, "del", NoNode) /\ indexed' = indexed \ {u} /\ UNCHANGED <<routes, raced>>
  BY DEF DeleteRoute
<1>2. UNCHANGED <<syncVars, backfillVars, rerrors, torn>>
      /\ asks' = asks + 1 /\ asks < MaxRouteRequests
      /\ ordered' = [ordered EXCEPT ![u] = NoNode] /\ bstable' = bstable \ {u}
  BY <1>1 DEF Ask
<1>3. RouteTypeOK
  BY DEF RouteInv
<1>4. /\ pending' \in [Handlers -> Calls \cup {NoCall}]
      /\ \A v \in Users \ {u} : OnUser(v)' = OnUser(v)
      /\ \A v \in Users \ {u} : \A g \in OnUser(v) : pending'[g] = pending[g]
      /\ OnUser(u)' = OnUser(u) \cup {h}
      /\ \A g \in OnUser(u) : pending'[g].alone = FALSE
      /\ pending'[h] = [call |-> "del", user |-> u, node |-> NoNode, alone |-> OnUser(u) = {}]
      /\ pending'[h].alone => OnUser(u) = {}
      /\ h \notin OnUser(u)
  BY <1>1, <1>3, AskPending
<1>5. RouteTypeOK'
  BY <1>1, <1>2, <1>3, <1>4 DEF RouteTypeOK, syncVars, backfillVars
<1>6. SyncHasUser'
  BY <1>2 DEF RouteInv, SyncHasUser, syncVars
<1>7. UsedRouteIsListed'
  BY <1>1, <1>2, <1>3, <1>4 DEF RouteInv, RouteTypeOK, UsedRouteIsListed, InFlight, syncVars
<1>8. OperatorRouteKept'
  BY <1>1, <1>2, <1>3 DEF RouteInv, RouteTypeOK, OperatorRouteKept
<1>9. OrdersHold'
  <2> SUFFICES ASSUME NEW v \in Users
               PROVE  /\ ordered'[v] # NoNode => OnUser(v)' = {} /\ (v \notin raced' => ~InHand(v)')
                      /\ \A g \in OnUser(v)' : pending'[g].alone =>
                            /\ OnUser(v)' = {g}
                            /\ pending'[g].call = "sadd" /\ v \notin raced' =>
                                  routes'[v] = pending'[g].node /\ ~InHand(v)'
    BY DEF OrdersHold
  <2>1. (InHand(v)' <=> InHand(v)) /\ routes' = routes /\ raced' = raced
    BY <1>1, <1>2 DEF InHand, syncVars
  <2>2. CASE v # u
    <3>1. OnUser(v)' = OnUser(v) /\ \A g \in OnUser(v) : pending'[g] = pending[g]
      BY <1>4, <2>2
    <3>2. ordered'[v] = ordered[v]
      BY <1>2, <1>3, <2>2 DEF RouteTypeOK
    <3> QED
      BY <2>1, <3>1, <3>2 DEF RouteInv, OrdersHold
  <2>3. CASE v = u
    <3>1. ordered'[u] = NoNode
      BY <1>2, <1>3 DEF RouteTypeOK
    <3>2. \A g \in OnUser(u)' : pending'[g].alone => g = h /\ OnUser(u) = {}
      BY <1>4
    <3> QED
      BY <1>4, <2>3, <3>1, <3>2
  <2> QED
    BY <2>2, <2>3
<1>10. BackfillComes'
  BY <1>1, <1>2, <1>3, <1>4 DEF RouteInv, RouteTypeOK, BackfillComes, backfillVars
<1> QED
  BY <1>5, <1>6, <1>7, <1>8, <1>9, <1>10 DEF RouteInv, SyncHasUser

LEMMA FinishPutStep ==
    ASSUME RouteInv, NEW h \in Handlers, FinishPut(h)
    PROVE  RouteInv'
<1> USE RouteAssumption DEF RouteAssumption
<1> DEFINE u == pending[h].user
<1>1. /\ pending[h] # NoCall /\ pending[h].call = "sadd"
      /\ indexed' = indexed \cup {u} /\ torn' = torn \ {u}
      /\ ordered' = IF pending[h].alone
                    THEN [ordered EXCEPT ![u] = pending[h].node] ELSE ordered
      /\ Answer(h) /\ UNCHANGED <<routes, rerrors>>
  BY DEF FinishPut
<1>2. UNCHANGED <<asks, syncVars, backfillVars, raced, bstable>>
  BY <1>1 DEF Answer
<1>3. RouteTypeOK
  BY DEF RouteInv
<1>4. /\ pending' \in [Handlers -> Calls \cup {NoCall}]
      /\ \A v \in Users : OnUser(v)' = OnUser(v) \ {h}
      /\ \A v \in Users : \A g \in OnUser(v)' : pending'[g] = pending[g]
  BY <1>1, <1>3, AnswerPending
<1>5. u \in Users /\ pending[h].node \in Nodes \cup {NoNode} /\ pending[h].alone \in BOOLEAN
      /\ h \in OnUser(u)
  BY <1>1, <1>3, PendingIsCall DEF OnUser
<1>51. \A v \in Users \ {u} : h \notin OnUser(v)
  BY DEF OnUser
<1> HIDE DEF u
<1>6. RouteTypeOK'
  BY <1>1, <1>2, <1>3, <1>4, <1>5 DEF RouteTypeOK, syncVars, backfillVars
<1>7. SyncHasUser'
  BY <1>2 DEF RouteInv, SyncHasUser, syncVars
<1>8. UsedRouteIsListed'
  BY <1>1, <1>2, <1>3, <1>4, <1>5, <1>51 DEF RouteInv, RouteTypeOK, UsedRouteIsListed, InFlight, syncVars
<1>9. OperatorRouteKept'
  <2>1. pending[h].alone /\ u \notin raced => routes[u] = pending[h].node
    BY <1>1, <1>5 DEF RouteInv, OrdersHold
  <2> QED
    BY <1>1, <1>2, <1>3, <1>5, <2>1 DEF RouteInv, RouteTypeOK, OperatorRouteKept
<1>10. OrdersHold'
  <2> SUFFICES ASSUME NEW v \in Users
               PROVE  /\ ordered'[v] # NoNode => OnUser(v)' = {} /\ (v \notin raced' => ~InHand(v)')
                      /\ \A g \in OnUser(v)' : pending'[g].alone =>
                            /\ OnUser(v)' = {g}
                            /\ pending'[g].call = "sadd" /\ v \notin raced' =>
                                  routes'[v] = pending'[g].node /\ ~InHand(v)'
    BY DEF OrdersHold
  <2>1. (InHand(v)' <=> InHand(v)) /\ routes' = routes /\ raced' = raced
    BY <1>1, <1>2 DEF InHand, syncVars
  <2>2. OnUser(v)' = OnUser(v) \ {h} /\ \A g \in OnUser(v)' : pending'[g] = pending[g]
    BY <1>4
  <2>3. /\ ordered[v] # NoNode => OnUser(v) = {} /\ (v \notin raced => ~InHand(v))
        /\ \A g \in OnUser(v) : pending[g].alone =>
              /\ OnUser(v) = {g}
              /\ pending[g].call = "sadd" /\ v \notin raced =>
                    routes[v] = pending[g].node /\ ~InHand(v)
    BY DEF RouteInv, OrdersHold
  <2>4. \A g \in OnUser(v)' : pending'[g].alone => OnUser(v)' = {g}
    BY <2>2, <2>3
  <2>5. ordered'[v] # NoNode => OnUser(v)' = {} /\ (v \notin raced' => ~InHand(v)')
    <3>1. CASE pending[h].alone /\ v = u
      BY <1>1, <1>5, <2>1, <2>2, <2>3, <3>1
    <3>2. CASE ~(pending[h].alone /\ v = u)
      <4>1. ordered'[v] = ordered[v]
        BY <1>1, <1>3, <1>5, <3>2 DEF RouteTypeOK
      <4> QED
        BY <2>1, <2>2, <2>3, <4>1
    <3> QED
      BY <3>1, <3>2
  <2> QED
    BY <2>1, <2>2, <2>3, <2>4, <2>5
<1>11. BackfillComes'
  BY <1>1, <1>2, <1>3, <1>4 DEF RouteInv, RouteTypeOK, BackfillComes, backfillVars
<1> QED
  BY <1>6, <1>7, <1>8, <1>9, <1>10, <1>11 DEF RouteInv, SyncHasUser

LEMMA FinishDeleteStep ==
    ASSUME RouteInv, NEW h \in Handlers, FinishDelete(h)
    PROVE  RouteInv'
<1> USE RouteAssumption DEF RouteAssumption
<1> DEFINE u == pending[h].user
<1>1. /\ pending[h] # NoCall /\ pending[h].call = "del"
      /\ routes' = [routes EXCEPT ![u] = NoNode] /\ torn' = torn \ {u}
      /\ Answer(h) /\ UNCHANGED <<indexed, ordered, rerrors>>
  BY DEF FinishDelete
<1>2. UNCHANGED <<asks, syncVars, backfillVars, raced, bstable>>
  BY <1>1 DEF Answer
<1>3. RouteTypeOK
  BY DEF RouteInv
<1>4. /\ pending' \in [Handlers -> Calls \cup {NoCall}]
      /\ \A v \in Users : OnUser(v)' = OnUser(v) \ {h}
      /\ \A v \in Users : \A g \in OnUser(v)' : pending'[g] = pending[g]
  BY <1>1, <1>3, AnswerPending
<1>5. u \in Users /\ h \in OnUser(u)
  BY <1>1, <1>3, PendingIsCall DEF OnUser
<1>6. \A v \in Users \ {u} : h \notin OnUser(v)
  BY DEF OnUser
<1>7. ordered[u] = NoNode /\ u \notin bstable
  BY <1>5 DEF RouteInv, OrdersHold, BackfillComes
<1>8. \A v \in Users : /\ v # u => routes'[v] = routes[v]
                       /\ v = u => routes'[v] = NoNode
  BY <1>1, <1>3, <1>5 DEF RouteTypeOK
<1> HIDE DEF u
<1>9. RouteTypeOK'
  BY <1>1, <1>2, <1>3, <1>4, <1>5 DEF RouteTypeOK, syncVars, backfillVars
<1>10. SyncHasUser'
  BY <1>2 DEF RouteInv, SyncHasUser, syncVars
<1>11. UsedRouteIsListed'
  BY <1>1, <1>2, <1>3, <1>4, <1>5, <1>6, <1>8
     DEF RouteInv, RouteTypeOK, UsedRouteIsListed, InFlight, syncVars
<1>12. OperatorRouteKept'
  BY <1>1, <1>2, <1>3, <1>7, <1>8 DEF RouteInv, RouteTypeOK, OperatorRouteKept
<1>13. OrdersHold'
  <2> SUFFICES ASSUME NEW v \in Users
               PROVE  /\ ordered'[v] # NoNode => OnUser(v)' = {} /\ (v \notin raced' => ~InHand(v)')
                      /\ \A g \in OnUser(v)' : pending'[g].alone =>
                            /\ OnUser(v)' = {g}
                            /\ pending'[g].call = "sadd" /\ v \notin raced' =>
                                  routes'[v] = pending'[g].node /\ ~InHand(v)'
    BY DEF OrdersHold
  <2>1. (InHand(v)' <=> InHand(v)) /\ ordered' = ordered /\ raced' = raced
    BY <1>1, <1>2 DEF InHand, syncVars
  <2>2. OnUser(v)' = OnUser(v) \ {h} /\ \A g \in OnUser(v)' : pending'[g] = pending[g]
    BY <1>4
  <2>3. /\ ordered[v] # NoNode => OnUser(v) = {} /\ (v \notin raced => ~InHand(v))
        /\ \A g \in OnUser(v) : pending[g].alone =>
              /\ OnUser(v) = {g}
              /\ pending[g].call = "sadd" /\ v \notin raced =>
                    routes[v] = pending[g].node /\ ~InHand(v)
    BY DEF RouteInv, OrdersHold
  <2>4. \A g \in OnUser(v)' : pending'[g].alone => OnUser(v) = {g} /\ OnUser(v)' = {g}
    BY <2>2, <2>3
  <2>5. \A g \in OnUser(v)' : pending'[g].alone => v # u
    BY <1>5, <2>2, <2>4
  <2> QED
    BY <1>8, <2>1, <2>2, <2>3, <2>4, <2>5
<1>14. BackfillComes'
  BY <1>1, <1>2, <1>3, <1>4, <1>7, <1>8 DEF RouteInv, RouteTypeOK, BackfillComes, backfillVars
<1> QED
  BY <1>9, <1>10, <1>11, <1>12, <1>13, <1>14 DEF RouteInv, SyncHasUser

LEMMA RequestFailsStep ==
    ASSUME RouteInv, NEW h \in Handlers, RequestFails(h)
    PROVE  RouteInv'
<1> USE RouteAssumption DEF RouteAssumption
<1> DEFINE u == pending[h].user
<1>1. /\ pending[h] # NoCall /\ torn' = torn \cup {u}
      /\ rerrors < MaxRouteErrors /\ rerrors' = rerrors + 1
      /\ Answer(h) /\ UNCHANGED <<routes, indexed, ordered>>
  BY DEF RequestFails
<1>2. UNCHANGED <<asks, syncVars, backfillVars, raced, bstable>>
  BY <1>1 DEF Answer
<1>3. RouteTypeOK
  BY DEF RouteInv
<1>4. /\ pending' \in [Handlers -> Calls \cup {NoCall}]
      /\ \A v \in Users : OnUser(v)' = OnUser(v) \ {h}
      /\ \A v \in Users : \A g \in OnUser(v)' : pending'[g] = pending[g]
  BY <1>1, <1>3, AnswerPending
<1>5. u \in Users /\ h \in OnUser(u) /\ \A v \in Users \ {u} : h \notin OnUser(v)
  BY <1>1, <1>3, PendingIsCall DEF OnUser
<1> HIDE DEF u
<1>6. RouteTypeOK'
  BY <1>1, <1>2, <1>3, <1>4, <1>5 DEF RouteTypeOK, syncVars, backfillVars
<1>7. SyncHasUser'
  BY <1>2 DEF RouteInv, SyncHasUser, syncVars
<1>8. UsedRouteIsListed'
  BY <1>1, <1>2, <1>3, <1>4, <1>5
     DEF RouteInv, RouteTypeOK, UsedRouteIsListed, InFlight, syncVars
<1>9. OperatorRouteKept'
  BY <1>1, <1>2 DEF RouteInv, OperatorRouteKept
<1>10. OrdersHold'
  <2> SUFFICES ASSUME NEW v \in Users
               PROVE  /\ ordered'[v] # NoNode => OnUser(v)' = {} /\ (v \notin raced' => ~InHand(v)')
                      /\ \A g \in OnUser(v)' : pending'[g].alone =>
                            /\ OnUser(v)' = {g}
                            /\ pending'[g].call = "sadd" /\ v \notin raced' =>
                                  routes'[v] = pending'[g].node /\ ~InHand(v)'
    BY DEF OrdersHold
  <2>1. (InHand(v)' <=> InHand(v)) /\ ordered' = ordered /\ raced' = raced /\ routes' = routes
    BY <1>1, <1>2 DEF InHand, syncVars
  <2>2. OnUser(v)' = OnUser(v) \ {h} /\ \A g \in OnUser(v)' : pending'[g] = pending[g]
    BY <1>4
  <2>3. /\ ordered[v] # NoNode => OnUser(v) = {} /\ (v \notin raced => ~InHand(v))
        /\ \A g \in OnUser(v) : pending[g].alone =>
              /\ OnUser(v) = {g}
              /\ pending[g].call = "sadd" /\ v \notin raced =>
                    routes[v] = pending[g].node /\ ~InHand(v)
    BY DEF RouteInv, OrdersHold
  <2>4. \A g \in OnUser(v)' : pending'[g].alone => OnUser(v)' = {g}
    BY <2>2, <2>3
  <2> QED
    BY <2>1, <2>2, <2>3, <2>4
<1>11. BackfillComes'
  BY <1>1, <1>2, <1>3, <1>4 DEF RouteInv, RouteTypeOK, BackfillComes, backfillVars
<1> QED
  BY <1>6, <1>7, <1>8, <1>9, <1>10, <1>11 DEF RouteInv, SyncHasUser

-----------------------------------------------------------------------------
(* The steps of the sync leave every call of route-admin alone.            *)
LEMMA SyncSteps ==
    ASSUME RouteInv, StartSync \/ SyncStep \/ SyncDone \/ SyncFails
    PROVE  RouteInv'
<1> USE RouteAssumption DEF RouteAssumption
<1>1. UNCHANGED <<handlerVars, backfillVars, ordered, raced, bstable>>
  BY DEF StartSync, SyncStep, SyncGet, SyncSet, SyncIndex, SyncDone, SyncFails, SyncFrame
<1>2. \A v \in Users : OnUser(v)' = OnUser(v)
  BY <1>1 DEF OnUser, handlerVars
<1>3. RouteTypeOK
  BY DEF RouteInv
<1>4. CASE StartSync
  <2>1. RouteTypeOK'
    BY <1>1, <1>3, <1>4 DEF RouteTypeOK, StartSync, handlerVars, backfillVars
  <2>2. UsedRouteIsListed' /\ OperatorRouteKept' /\ SyncHasUser'
    BY <1>1, <1>2, <1>4 DEF RouteInv, StartSync, UsedRouteIsListed, InFlight, OperatorRouteKept, SyncHasUser
  <2>3. OrdersHold'
    BY <1>1, <1>2, <1>4 DEF RouteInv, StartSync, OrdersHold, handlerVars, InHand
  <2>4. BackfillComes'
    BY <1>1, <1>2, <1>3, <1>4 DEF RouteInv, RouteTypeOK, StartSync, BackfillComes, backfillVars
  <2> QED
    BY <2>1, <2>2, <2>3, <2>4 DEF RouteInv, SyncHasUser
<1>5. CASE SyncGet
  <2>1. PICK u \in sleft : /\ sleft' = sleft \ {u}
                           /\ IF routes[u] = NoNode THEN spc' = "set" /\ suser' = u
                              ELSE UNCHANGED <<spc, suser>>
    BY <1>5 DEF SyncGet
  <2>2. spc = "get" /\ UNCHANGED <<routes, indexed, rerrors, torn>>
    BY <1>5 DEF SyncGet
  <2>3. u \in DOMAIN DefaultRoutes /\ u \in Users
    BY <1>3 DEF RouteTypeOK
  <2>4. RouteTypeOK'
    BY <1>1, <1>3, <2>1, <2>2, <2>3 DEF RouteTypeOK, handlerVars, backfillVars
  <2>5. SyncHasUser'
    BY <2>1, <2>2, <2>3 DEF SyncHasUser
  <2>6. UsedRouteIsListed'
    BY <1>2, <2>1, <2>2 DEF RouteInv, UsedRouteIsListed, InFlight
  <2>7. OperatorRouteKept'
    BY <1>1, <2>2 DEF RouteInv, OperatorRouteKept
  <2>8. OrdersHold'
    <3>1. \A v \in Users : InHand(v)' => v = u /\ routes[v] = NoNode
      BY <2>1, <2>2 DEF InHand
    <3>2. \A v \in Users : \A g \in OnUser(v) : pending[g].node # NoNode \/ pending[g].call = "del"
      <4> SUFFICES ASSUME NEW v \in Users, NEW g \in OnUser(v)
                   PROVE  pending[g].node # NoNode \/ pending[g].call = "del"
        OBVIOUS
      <4> QED
        BY <1>3, PendingIsCall DEF OnUser
    <3> QED
      BY <1>1, <1>2, <1>3, <2>2, <3>1, <3>2
         DEF RouteInv, OrdersHold, OperatorRouteKept, handlerVars, RouteTypeOK
  <2>9. BackfillComes'
    BY <1>1, <1>2, <1>3, <2>2 DEF RouteInv, RouteTypeOK, BackfillComes, backfillVars
  <2> QED
    BY <2>4, <2>5, <2>6, <2>7, <2>8, <2>9 DEF RouteInv, SyncHasUser
<1>6. CASE SyncSet
  <2>1. spc = "set" /\ spc' = "sadd" /\ routes' = [routes EXCEPT ![suser] = DefaultRoutes[suser]]
        /\ UNCHANGED <<indexed, sleft, suser, rerrors, torn>>
    BY <1>6 DEF SyncSet
  <2>2. suser \in DOMAIN DefaultRoutes /\ suser \in Users /\ DefaultRoutes[suser] \in Nodes
    BY <2>1 DEF RouteInv
  <2>3. InHand(suser) /\ \A v \in Users : ~InHand(v)'
    BY <2>1 DEF InHand
  <2>4. \A v \in Users : v # suser => routes'[v] = routes[v]
    BY <1>3, <2>1, <2>2 DEF RouteTypeOK
  <2>5. RouteTypeOK'
    BY <1>1, <1>3, <2>1, <2>2 DEF RouteTypeOK, handlerVars, backfillVars
  <2>6. SyncHasUser'
    BY <2>1, <2>2 DEF SyncHasUser
  <2>7. UsedRouteIsListed'
    BY <1>2, <2>1, <2>2, <2>4 DEF RouteInv, UsedRouteIsListed, InFlight
  <2>8. OperatorRouteKept'
    BY <1>1, <2>2, <2>3, <2>4 DEF RouteInv, OperatorRouteKept, OrdersHold
  <2>9. OrdersHold'
    BY <1>1, <1>2, <2>2, <2>3, <2>4 DEF RouteInv, OrdersHold, handlerVars
  <2>10. BackfillComes'
    BY <1>1, <1>2, <1>3, <2>1, <2>2, <2>4 DEF RouteInv, BackfillComes, backfillVars, RouteTypeOK
  <2> QED
    BY <2>5, <2>6, <2>7, <2>8, <2>9, <2>10 DEF RouteInv, SyncHasUser
<1>7. CASE SyncIndex
  <2>1. spc = "sadd" /\ spc' = "get" /\ suser' = NobodyYet /\ indexed' = indexed \cup {suser}
        /\ torn' = torn \ {suser} /\ UNCHANGED <<routes, sleft, rerrors>>
    BY <1>7 DEF SyncIndex
  <2>2. suser \in DOMAIN DefaultRoutes /\ suser \in Users
    BY <2>1 DEF RouteInv
  <2>3. RouteTypeOK'
    BY <1>1, <1>3, <2>1, <2>2 DEF RouteTypeOK, handlerVars, backfillVars
  <2>4. UsedRouteIsListed'
    BY <1>2, <2>1, <2>2 DEF RouteInv, UsedRouteIsListed, InFlight
  <2>5. OperatorRouteKept' /\ SyncHasUser'
    BY <1>1, <2>1 DEF RouteInv, OperatorRouteKept, SyncHasUser
  <2>6. OrdersHold'
    BY <1>1, <1>2, <2>1 DEF RouteInv, OrdersHold, handlerVars, InHand
  <2>7. BackfillComes'
    BY <1>1, <1>2, <1>3, <2>1 DEF RouteInv, RouteTypeOK, BackfillComes, backfillVars
  <2> QED
    BY <2>3, <2>4, <2>5, <2>6, <2>7 DEF RouteInv, SyncHasUser
<1>8. CASE SyncDone
  <2>1. RouteTypeOK'
    BY <1>1, <1>3, <1>8 DEF RouteTypeOK, SyncDone, handlerVars, backfillVars
  <2>2. UsedRouteIsListed' /\ OperatorRouteKept' /\ SyncHasUser'
    BY <1>1, <1>2, <1>8 DEF RouteInv, SyncDone, UsedRouteIsListed, InFlight, OperatorRouteKept, SyncHasUser
  <2>3. OrdersHold'
    BY <1>1, <1>2, <1>8 DEF RouteInv, SyncDone, OrdersHold, handlerVars, InHand
  <2>4. BackfillComes'
    BY <1>1, <1>2, <1>3, <1>8 DEF RouteInv, RouteTypeOK, SyncDone, BackfillComes, backfillVars
  <2> QED
    BY <2>1, <2>2, <2>3, <2>4 DEF RouteInv, SyncHasUser
<1>9. CASE SyncFails
  <2>1. spc # "off" /\ spc' = "off" /\ sleft' = {} /\ suser' = NobodyYet
        /\ torn' = (IF spc = "sadd" THEN torn \cup {suser} ELSE torn)
        /\ rerrors < MaxRouteErrors /\ rerrors' = rerrors + 1 /\ UNCHANGED <<routes, indexed>>
    BY <1>9 DEF SyncFails
  <2>2. spc = "sadd" => suser \in Users
    BY DEF RouteInv
  <2>3. RouteTypeOK'
    BY <1>1, <1>3, <2>1, <2>2 DEF RouteTypeOK, handlerVars, backfillVars
  <2>4. UsedRouteIsListed'
    BY <1>2, <2>1, <2>2 DEF RouteInv, UsedRouteIsListed, InFlight
  <2>5. OperatorRouteKept' /\ SyncHasUser'
    BY <1>1, <2>1 DEF RouteInv, OperatorRouteKept, SyncHasUser
  <2>6. OrdersHold'
    BY <1>1, <1>2, <2>1 DEF RouteInv, OrdersHold, handlerVars, InHand
  <2>7. BackfillComes'
    BY <1>1, <1>2, <1>3, <2>1 DEF RouteInv, RouteTypeOK, BackfillComes, backfillVars
  <2> QED
    BY <2>3, <2>4, <2>5, <2>6, <2>7 DEF RouteInv, SyncHasUser
<1> QED
  BY <1>4, <1>5, <1>6, <1>7, <1>8, <1>9 DEF SyncStep

(* The steps of backfill-index leave requests, sync and routes alone.      *)
LEMMA BackfillSteps ==
    ASSUME RouteInv, BackfillStep
    PROVE  RouteInv'
<1> USE RouteAssumption DEF RouteAssumption
<1>1. UNCHANGED <<handlerVars, syncVars, routes, ordered, raced>>
  BY DEF BackfillStep, StartBackfill, ScanBatch, LookAtRoute, BackfillRoute, BackfillDone,
         BackfillFails, BackfillFrame
<1>2. \A v \in Users : OnUser(v)' = OnUser(v) /\ (InHand(v)' <=> InHand(v))
  BY <1>1 DEF OnUser, InHand, handlerVars, syncVars
<1>3. RouteTypeOK
  BY DEF RouteInv
<1>4. SyncHasUser' /\ OperatorRouteKept'
  BY <1>1 DEF RouteInv, SyncHasUser, OperatorRouteKept, syncVars
<1>5. OrdersHold'
  BY <1>1, <1>2 DEF RouteInv, OrdersHold, handlerVars
<1>6. \A v \in Users : InFlight(v)' <=> InFlight(v)
  BY <1>1, <1>2 DEF InFlight, syncVars
<1>7. CASE StartBackfill
  <2>1. RouteTypeOK'
    BY <1>1, <1>3, <1>7 DEF RouteTypeOK, StartBackfill, handlerVars, syncVars
  <2>2. UsedRouteIsListed'
    BY <1>1, <1>6, <1>7 DEF RouteInv, UsedRouteIsListed, StartBackfill
  <2>3. BackfillComes'
    BY <1>1, <1>2, <1>3, <1>7 DEF BackfillComes, StartBackfill
  <2> QED
    BY <1>4, <1>5, <2>1, <2>2, <2>3 DEF RouteInv, SyncHasUser
<1>8. CASE ScanBatch
  <2>1. PICK S \in SUBSET bleft : /\ bleft' = bleft \ S
                                  /\ bbatch' = {u \in S : routes[u] # NoNode}
    BY <1>8 DEF ScanBatch
  <2>2. bpc = "scan" /\ bbatch = {} /\ UNCHANGED <<indexed, bpc, bindex, buser, backfills, rerrors, torn, bstable>>
    BY <1>8 DEF ScanBatch
  <2>3. RouteTypeOK'
    BY <1>1, <1>3, <2>1, <2>2 DEF RouteTypeOK, handlerVars, syncVars
  <2>4. UsedRouteIsListed'
    BY <1>1, <1>6, <2>2 DEF RouteInv, UsedRouteIsListed
  <2>5. BackfillComes'
    BY <1>1, <1>2, <1>3, <2>1, <2>2 DEF RouteInv, RouteTypeOK, BackfillComes
  <2> QED
    BY <1>4, <1>5, <2>3, <2>4, <2>5 DEF RouteInv, SyncHasUser
<1>9. CASE LookAtRoute
  <2>1. PICK u \in bbatch : /\ bbatch' = bbatch \ {u}
                            /\ IF routes[u] # NoNode /\ u \notin bindex
                               THEN bpc' = "sadd" /\ buser' = u
                               ELSE UNCHANGED <<bpc, buser>>
    BY <1>9 DEF LookAtRoute
  <2>2. bpc = "scan" /\ UNCHANGED <<indexed, bindex, bleft, backfills, rerrors, torn, bstable>>
    BY <1>9 DEF LookAtRoute
  <2>3. RouteTypeOK'
    BY <1>1, <1>3, <2>1, <2>2 DEF RouteTypeOK, handlerVars, syncVars
  <2>4. UsedRouteIsListed'
    BY <1>1, <1>6, <2>2 DEF RouteInv, UsedRouteIsListed
  <2>5. BackfillComes'
    BY <1>1, <1>2, <1>3, <2>1, <2>2 DEF RouteInv, RouteTypeOK, BackfillComes
  <2> QED
    BY <1>4, <1>5, <2>3, <2>4, <2>5 DEF RouteInv, SyncHasUser
<1>10. CASE BackfillRoute
  <2>1. bpc = "sadd" /\ indexed' = indexed \cup {buser} /\ bindex' = bindex \cup {buser}
        /\ bpc' = "scan" /\ buser' = NobodyYet
        /\ UNCHANGED <<bleft, bbatch, backfills, rerrors, torn, bstable>>
    BY <1>10 DEF BackfillRoute
  <2>2. buser \in Users
    BY <2>1 DEF RouteInv, BackfillComes
  <2>3. RouteTypeOK'
    BY <1>1, <1>3, <2>1, <2>2 DEF RouteTypeOK, handlerVars, syncVars
  <2>4. UsedRouteIsListed'
    BY <1>1, <1>6, <2>1 DEF RouteInv, UsedRouteIsListed
  <2>5. BackfillComes'
    BY <1>1, <1>2, <1>3, <2>1, <2>2 DEF RouteInv, RouteTypeOK, BackfillComes
  <2> QED
    BY <1>4, <1>5, <2>3, <2>4, <2>5 DEF RouteInv, SyncHasUser
<1>11. CASE BackfillDone
  <2>1. bpc = "scan" /\ bbatch = {} /\ bleft = {} /\ bpc' = "off" /\ bindex' = {}
        /\ torn' = torn \ bstable /\ bstable' = {}
        /\ UNCHANGED <<indexed, bleft, bbatch, buser, backfills, rerrors>>
    BY <1>11 DEF BackfillDone
  <2>2. RouteTypeOK'
    BY <1>1, <1>3, <2>1 DEF RouteTypeOK, handlerVars, syncVars
  <2>3. \A u \in bstable : u \in indexed
    BY <2>1 DEF RouteInv, BackfillComes
  <2>4. UsedRouteIsListed'
    BY <1>1, <1>6, <2>1, <2>3 DEF RouteInv, UsedRouteIsListed
  <2>5. BackfillComes'
    BY <2>1 DEF BackfillComes
  <2> QED
    BY <1>4, <1>5, <2>2, <2>4, <2>5 DEF RouteInv, SyncHasUser
<1>12. CASE BackfillFails
  <2>1. RouteTypeOK'
    BY <1>1, <1>3, <1>12 DEF RouteTypeOK, BackfillFails, handlerVars, syncVars
  <2>2. UsedRouteIsListed'
    BY <1>1, <1>6, <1>12 DEF RouteInv, UsedRouteIsListed, BackfillFails
  <2>3. BackfillComes'
    BY <1>12 DEF BackfillComes, BackfillFails
  <2> QED
    BY <1>4, <1>5, <2>1, <2>2, <2>3 DEF RouteInv, SyncHasUser
<1> QED
  BY <1>7, <1>8, <1>9, <1>10, <1>11, <1>12 DEF BackfillStep

-----------------------------------------------------------------------------
LEMMA RouteInitial == RouteInit => RouteInv
<1> USE RouteAssumption DEF RouteAssumption
<1> SUFFICES ASSUME RouteInit
             PROVE  RouteInv
  OBVIOUS
<1>1. \A v \in Users : OnUser(v) = {}
  BY DEF RouteInit, OnUser
<1>2. RouteTypeOK
  BY DEF RouteInit, RouteTypeOK
<1> QED
  BY <1>1, <1>2 DEF RouteInit, RouteInv, UsedRouteIsListed, OperatorRouteKept, OrdersHold,
                    BackfillComes

LEMMA RouteStutter ==
    ASSUME RouteInv, UNCHANGED routeVars
    PROVE  RouteInv'
<1>1. UNCHANGED <<routes, indexed, pending, asks, spc, sleft, suser, bpc, bindex, bleft, bbatch,
                  buser, backfills, rerrors, torn, ordered, raced, bstable>>
  BY DEF routeVars, storeVars, handlerVars, syncVars, backfillVars, historyVars
<1>2. \A v \in Users : OnUser(v)' = OnUser(v)
  BY <1>1 DEF OnUser
<1>3. RouteTypeOK'
  BY <1>1 DEF RouteInv, RouteTypeOK
<1>4. UsedRouteIsListed' /\ OperatorRouteKept' /\ SyncHasUser'
  BY <1>1, <1>2 DEF RouteInv, UsedRouteIsListed, InFlight, OperatorRouteKept, SyncHasUser
<1>5. OrdersHold'
  BY <1>1, <1>2 DEF RouteInv, OrdersHold, InHand
<1>6. BackfillComes'
  BY <1>1, <1>2 DEF RouteInv, RouteTypeOK, BackfillComes
<1> QED
  BY <1>3, <1>4, <1>5, <1>6 DEF RouteInv, SyncHasUser

LEMMA RouteInductive == RouteInv /\ [RouteNext]_<<busVars, storeVars>> => RouteInv'
<1> SUFFICES ASSUME RouteInv, [RouteNext]_<<busVars, storeVars>>
             PROVE  RouteInv'
  OBVIOUS
<1>1. CASE RouteAdminStep
  <2>1. PICK h \in Handlers :
           \/ \E u \in Users : DeleteRoute(h, u) \/ \E n \in Nodes : PutRoute(h, u, n)
           \/ FinishPut(h) \/ FinishDelete(h) \/ RequestFails(h)
    BY <1>1 DEF RouteAdminStep
  <2>2. CASE \E u \in Users : DeleteRoute(h, u) \/ \E n \in Nodes : PutRoute(h, u, n)
    BY <2>2, PutStep, DeleteStep
  <2> QED
    BY <2>1, <2>2, FinishPutStep, FinishDeleteStep, RequestFailsStep
<1>2. CASE StartSync \/ SyncStep \/ SyncDone \/ SyncFails
  BY <1>2, SyncSteps
<1>3. CASE BackfillStep
  BY <1>3, BackfillSteps
<1>4. CASE UNCHANGED <<busVars, storeVars>>
  BY <1>4, RouteStutter DEF busVars, routeVars
<1> QED
  BY <1>1, <1>2, <1>3, <1>4 DEF RouteNext

(* The writers of the route store keep the invariant they share.           *)
THEOREM RouteInvariant == RouteSpec => []RouteInv
BY RouteInitial, RouteInductive, PTL DEF RouteSpec

(* Whatever the interleaving and the failures, a route the dispatcher goes *)
(* by is listed by route-admin, or a call on it is under way or failed.    *)
THEOREM UsedRoutesListed == RouteSpec => []UsedRouteIsListed
<1>1. RouteInv => UsedRouteIsListed
  BY DEF RouteInv
<1> QED
  BY <1>1, RouteInvariant, PTL

(* However many dispatchers sync their default routes, a put that was      *)
(* answered 200 stands, unless it came between a GET and a SET of a sync.  *)
THEOREM OperatorRoutesKept == RouteSpec => []OperatorRouteKept
<1>1. RouteInv => OperatorRouteKept
  BY DEF RouteInv
<1> QED
  BY <1>1, RouteInvariant, PTL

-----------------------------------------------------------------------------
(* The dispatcher behind the route store.  What the dispatcher and the     *)
(* scanner do leaves every route and every control setting alone.          *)
LEMMA RunKeepsAdmin ==
    ASSUME DispatcherNext \/ PublishOpportunity
    PROVE  UNCHANGED adminVars
<1>1. CASE ReadOpportunity \/ SkipUser \/ TakeUser \/ UserDone \/ EvaluateGuard
           \/ AckOpportunity \/ DispatcherRestart \/ DuplicateTask \/ DispatcherCrash
  BY <1>1 DEF ReadOpportunity, SkipUser, TakeUser, UserDone, EvaluateGuard,
              AckOpportunity, DispatcherRestart, DuplicateTask, DispatcherCrash, Die,
              busVars, adminVars
<1>2. CASE CreateTask \/ MarkBlocked \/ PublishTask \/ MarkDispatched \/ PublishOpportunity
  BY <1>2 DEF CreateTask, MarkBlocked, PublishTask, MarkDispatched, PublishOpportunity
<1> QED
  BY <1>1, <1>2 DEF DispatcherNext, DispatcherStep

(* What the writers of routes do leaves everything else alone.             *)
LEMMA WritersKeepBus ==
    ASSUME RouteNext
    PROVE  UNCHANGED otherBusVars
<1>1. CASE RouteAdminStep
  BY <1>1 DEF RouteAdminStep, DeleteRoute, PutRoute, FinishPut, FinishDelete, RequestFails,
              Ask, Answer
<1>2. CASE StartSync \/ SyncStep \/ SyncDone \/ SyncFails
  BY <1>2 DEF StartSync, SyncStep, SyncGet, SyncSet, SyncIndex, SyncDone, SyncFails, SyncFrame
<1>3. CASE BackfillStep
  BY <1>3 DEF BackfillStep, StartBackfill, ScanBatch, LookAtRoute, BackfillRoute,
              BackfillDone, BackfillFails, BackfillFrame
<1> QED
  BY <1>1, <1>2, <1>3 DEF RouteNext

(* Every step is one of the dispatcher or its scanner, or one of a writer  *)
(* of routes; the sync's last step is also the dispatcher's start.         *)
RunStep == (DispatcherNext \/ (PublishOpportunity /\ UNCHANGED dispatcherVars)) /\ UNCHANGED storeVars
WriteStep == RouteNext /\ UNCHANGED dispatcherVars
StartStep == SyncDone /\ DispatcherRestart

LEMMA RoutingSteps ==
    ASSUME [RoutingNext]_routingVars
    PROVE  \/ RunStep /\ ~DispatcherRestart
           \/ WriteStep /\ (spc = "off" => dpc = "down" \/ spc' = "off")
           \/ StartStep
           \/ UNCHANGED routingVars
<1>1. RunDispatcher => RunStep /\ ~DispatcherRestart
  BY DEF RunDispatcher, RunStep, DispatcherNext, DispatcherRestart
<1>2. DispatcherCrash => ~DispatcherRestart
  BY DEF DispatcherCrash, DispatcherRestart
<1>3. PublishOpportunity /\ UNCHANGED dispatcherVars => ~DispatcherRestart
  BY DEF DispatcherRestart, dispatcherVars
<1>4. SyncStep \/ SyncFails => spc # "off"
  BY DEF SyncStep, SyncGet, SyncSet, SyncIndex, SyncFails
<1>5. RouteAdminStep \/ BackfillStep => spc' = spc
  BY DEF RouteAdminStep, DeleteRoute, PutRoute, FinishPut, FinishDelete, RequestFails, Ask,
         Answer, syncVars, BackfillStep, StartBackfill, ScanBatch, LookAtRoute, BackfillRoute,
         BackfillDone, BackfillFails, BackfillFrame
<1>6. CASE StartDispatcher
  BY <1>4, <1>6 DEF StartDispatcher, StartStep, WriteStep, RouteNext
<1>7. CASE RunDispatcher \/ (DispatcherCrash /\ UNCHANGED storeVars)
           \/ (PublishOpportunity /\ UNCHANGED <<dispatcherVars, storeVars>>)
  BY <1>1, <1>2, <1>3, <1>7 DEF RunStep, DispatcherNext
<1>8. CASE (SyncFails \/ RouteAdminStep \/ BackfillStep) /\ UNCHANGED dispatcherVars
  BY <1>4, <1>5, <1>8 DEF WriteStep, RouteNext
<1> QED
  BY <1>6, <1>7, <1>8 DEF RoutingNext

(* A writer of routes cannot hurt the dispatcher's invariant, as long as   *)
(* routes stay nodes.                                                      *)
LEMMA WriteKeepsDispatch ==
    ASSUME DispatchInv, UNCHANGED <<otherBusVars, dispatcherVars>>,
           routes' \in [Users -> Nodes \cup {NoNode}]
    PROVE  DispatchInv'
<1>1. /\ UNCHANGED <<tasks, opps, execTasks, repairTasks, limit, enabled, changes, orders, repairs>>
      /\ UNCHANGED <<dpc, dlast, dusers, duser, dnode, dbinding, dstrats, damount, dfail>>
      /\ job' = job
  BY DEF otherBusVars, streamVars, orderVars, dispatcherVars, job, strategy
<1>2. BusTypeOK' /\ DispatcherTypeOK'
  BY <1>1 DEF DispatchInv, FeederInv, DispatchTypeOK, BusTypeOK, DispatcherTypeOK, TasksTypeOK
<1>3. CursorOK'
  BY <1>1 DEF DispatchInv, FeederInv, CursorOK
<1>4. JobPhase'
  BY <1>1 DEF DispatchInv, FeederInv, JobPhase, Published
<1>5. FeederInv'
  BY <1>1, <1>2, <1>3, <1>4, SharedStateUntouched DEF DispatchInv, FeederInv, DispatchTypeOK
<1> QED
  BY <1>1, <1>5 DEF DispatchInv, BlockedTaskNeverPublished

(* Each of the two keeps its invariant with the other in front or behind.  *)
LEMMA BothInvNext ==
    ASSUME RouteInv, DispatchInv, [RoutingNext]_routingVars
    PROVE  RouteInv' /\ DispatchInv'
<1>1. CASE RunStep
  <2>1. UNCHANGED adminVars /\ UNCHANGED storeVars
    BY <1>1, RunKeepsAdmin DEF RunStep
  <2>2. RouteInv'
    BY <2>1, RouteStutter DEF routeVars, adminVars
  <2>3. DispatchInv'
    BY <1>1, DispatchInvNext DEF RunStep, DispatchNext
  <2> QED
    BY <2>2, <2>3
<1>2. CASE WriteStep
  <2>1. RouteInv'
    BY <1>2, RouteInductive DEF WriteStep
  <2>2. DispatchInv'
    BY <1>2, <2>1, WritersKeepBus, WriteKeepsDispatch DEF WriteStep, RouteInv, RouteTypeOK
  <2> QED
    BY <2>1, <2>2
<1>3. CASE StartStep
  <2>1. RouteInv'
    BY <1>3, RouteInductive DEF StartStep, RouteNext
  <2>2. DispatchInv'
    BY <1>3, DispatchInvNext DEF StartStep, DispatchNext, DispatcherNext, DispatcherStep
  <2> QED
    BY <2>1, <2>2
<1>4. CASE UNCHANGED routingVars
  <2>1. RouteInv'
    BY <1>4, RouteStutter DEF routingVars, routeVars, dispatchVars, busVars
  <2>2. DispatchInv'
    BY <1>4, DispatchInvNext DEF routingVars
  <2> QED
    BY <2>1, <2>2
<1> QED
  BY <1>1, <1>2, <1>3, <1>4, RoutingSteps

LEMMA BothInvInit == RoutingInit => RouteInv /\ DispatchInv
<1> SUFFICES ASSUME RoutingInit
             PROVE  RouteInv /\ DispatchInv
  OBVIOUS
<1>1. RouteInv
  BY RouteInitial DEF RoutingInit
<1>2. DispatchInv
  BY IdleDispatchInv DEF RoutingInit, RouteInit
<1> QED
  BY <1>1, <1>2

(* What was shown of the route store holds with a dispatcher that syncs    *)
(* its defaults at every start ...                                         *)
THEOREM RoutesWithDispatcher == RoutingSpec => []UsedRouteIsListed /\ []OperatorRouteKept
<1>1. RouteInv => UsedRouteIsListed /\ OperatorRouteKept
  BY DEF RouteInv
<1> QED
  BY <1>1, BothInvInit, BothInvNext, PTL DEF RoutingSpec

(* ... and what was shown of the dispatcher with routes that requests, the *)
(* sync and a backfill write while it runs.                                *)
THEOREM DispatcherWithRoutes == RoutingSpec => []DispatchInv
  BY BothInvInit, BothInvNext, PTL DEF RoutingSpec

-----------------------------------------------------------------------------
(* Users nobody touches.                                                   *)
ServedInv ==
    /\ changes = 0
    /\ StartsInOrder
    /\ asks = 0 => FanOutInv /\ SyncInv /\ TasksFollowRoutes

(* A step of the dispatcher on its own: one of the specification it was    *)
(* proved correct under.                                                   *)
LEMMA RunServes ==
    ASSUME RouteInv, FeederInv, ServedInv, RunStep, ~DispatcherRestart
    PROVE  ServedInv'
<1>1. UNCHANGED <<limit, routes, enabled, changes, pending, asks, spc, sleft, suser>>
  BY RunKeepsAdmin DEF RunStep, adminVars, storeVars, handlerVars, syncVars
<1>2. [DispatchNext]_dispatchVars
  BY DEF RunStep, DispatchNext
<1>3. (dpc' # "down" => dpc # "down") /\ (dpc' = "down" => dlast' = 0)
  BY DEF RunStep, DispatcherNext, DispatcherStep, ServedInv, StartsInOrder, ReadOpportunity,
         SkipUser, TakeUser, UserDone, CreateTask, DuplicateTask, EvaluateGuard, MarkBlocked,
         PublishTask, MarkDispatched, AckOpportunity, DispatcherRestart, DispatcherCrash, Die,
         dispatcherVars
<1>4. StartsInOrder'
  BY <1>1, <1>3 DEF ServedInv, StartsInOrder
<1>5. ASSUME asks = 0
      PROVE  FanOutInv' /\ SyncInv' /\ TasksFollowRoutes'
  <2>1. FanOutInv /\ SyncInv /\ TasksFollowRoutes
    BY <1>5 DEF ServedInv
  <2>2. FanOutInv'
    BY <1>2, <2>1, FanOutInvNext
  <2>3. SyncInv'
    <3>1. dpc = "down" => dpc' = "down"
      BY <1>3 DEF RunStep, DispatcherNext, DispatcherStep, DispatcherRestart,
         ReadOpportunity, SkipUser, TakeUser, UserDone, CreateTask, DuplicateTask,
         EvaluateGuard, MarkBlocked, PublishTask, MarkDispatched, AckOpportunity,
         DispatcherCrash, dispatcherVars
    <3> QED
      BY <1>1, <2>1, <3>1 DEF SyncInv
  <2>4. TasksFollowRoutes'
    <3>1. CASE PublishTask
      <4>1. dnode = routes[duser] /\ dnode \in Nodes /\ duser \in Users
        BY <2>1, <3>1 DEF ServedInv, FanOutInv, PublishTask, FeederInv, CursorOK
      <4>2. NewEntry.task[1] = duser
        BY DEF NewEntry, job
      <4>3. \A n \in Nodes : \A i \in DOMAIN execTasks'[n] :
               \/ i \in DOMAIN execTasks[n] /\ execTasks'[n][i] = execTasks[n][i]
               \/ n = dnode /\ execTasks'[n][i] = NewEntry
        BY <3>1, PublishedEntries
      <4> QED
        BY <1>1, <2>1, <4>1, <4>2, <4>3 DEF TasksFollowRoutes
    <3>2. CASE execTasks' = execTasks
      BY <1>1, <2>1, <3>2 DEF TasksFollowRoutes
    <3> QED
      BY <1>2, <3>1, <3>2, StreamsGrow
  <2> QED
    BY <2>2, <2>3, <2>4
<1> QED
  BY <1>1, <1>4, <1>5 DEF ServedInv

(* A writer of routes: only the sync writes any before the first request,  *)
(* and while it does the dispatcher is down.                               *)
LEMMA WriteServes ==
    ASSUME RouteInv, FeederInv, ServedInv, WriteStep, spc = "off" => dpc = "down" \/ spc' = "off"
    PROVE  ServedInv'
<1>1. UNCHANGED <<otherBusVars, dispatcherVars>>
  BY WritersKeepBus DEF WriteStep
<1>2. UNCHANGED <<limit, enabled, changes, execTasks, opps, dpc, dlast, dusers, duser, dnode, dstrats>>
  BY <1>1 DEF otherBusVars, streamVars, dispatcherVars
<1>3. StartsInOrder'
  BY <1>2 DEF ServedInv, StartsInOrder
<1>4. ASSUME asks' = 0
      PROVE  FanOutInv' /\ SyncInv' /\ TasksFollowRoutes'
  <2>1. asks = 0 /\ FanOutInv /\ SyncInv /\ TasksFollowRoutes /\ ~RouteAdminStep
    <3>1. asks \in Nat
      BY RouteAssumption DEF RouteInv, RouteTypeOK, RouteAssumption
    <3>2. \A h, u, call, node : Ask(h, u, call, node) => asks' # 0
      BY <3>1 DEF Ask
    <3>3. CASE RouteAdminStep
      <4>1. asks = 0
        BY <1>4, <3>2, <3>3 DEF RouteAdminStep, DeleteRoute, PutRoute, FinishPut, FinishDelete,
           RequestFails, Answer
      <4> QED
        BY <1>4, <3>2, <3>3, <4>1 DEF RouteAdminStep, DeleteRoute, PutRoute, FinishPut,
           FinishDelete, RequestFails, ServedInv, SyncInv
    <3>4. CASE ~RouteAdminStep
      <4>1. asks' = asks
        BY <3>4 DEF WriteStep, RouteNext, handlerVars, StartSync, SyncStep, SyncGet, SyncSet,
           SyncIndex, SyncDone, SyncFails, SyncFrame, BackfillStep, StartBackfill, ScanBatch,
           LookAtRoute, BackfillRoute, BackfillDone, BackfillFails, BackfillFrame
      <4> QED
        BY <1>4, <3>4, <4>1 DEF ServedInv
    <3> QED
      BY <3>3, <3>4
  <2>2. ASSUME routes' = routes
        PROVE  FanOutInv' /\ TasksFollowRoutes'
    <3>1. UNCHANGED dispatchVars
      BY <1>1, <2>2 DEF dispatchVars, busVars, otherBusVars, streamVars, orderVars
    <3>2. FanOutInv'
      BY <2>1, <3>1, FanOutInvNext
    <3> QED
      BY <1>2, <2>1, <2>2, <3>2 DEF TasksFollowRoutes
  <2>3. CASE BackfillStep
    <3>1. UNCHANGED <<handlerVars, syncVars, routes>>
      BY <2>3 DEF BackfillStep, StartBackfill, ScanBatch, LookAtRoute, BackfillRoute,
         BackfillDone, BackfillFails, BackfillFrame
    <3> QED
      BY <1>2, <2>1, <2>2, <3>1 DEF SyncInv, handlerVars, syncVars
  <2>4. CASE SyncSet
    <3>1. /\ spc = "set" /\ spc' = "sadd" /\ suser' = suser /\ sleft' = sleft
          /\ routes' = [routes EXCEPT ![suser] = DefaultRoutes[suser]]
          /\ pending' = pending
      BY <2>4 DEF SyncSet, SyncFrame, handlerVars
    <3>2. suser \in Users /\ routes[suser] = NoNode /\ DefaultRoutes[suser] \in Nodes
          /\ dpc = "down" /\ dlast = 0 /\ changes = 0 /\ limit = MaxNotional
      BY <2>1, <3>1, RouteAssumption DEF RouteInv, RouteAssumption, SyncInv, ServedInv,
         StartsInOrder, FanOutInv
    <3>3. /\ routes'[suser] # NoNode
          /\ \A u \in Users : u # suser => routes'[u] = routes[u]
      BY <3>1, <3>2, RouteAssumption DEF RouteInv, RouteTypeOK, RouteAssumption
    <3>4. FanOutInv'
      BY <1>2, <3>2 DEF FanOutInv
    <3>5. SyncInv'
      BY <1>2, <2>1, <3>1, <3>2, <3>3, RouteAssumption DEF SyncInv, RouteAssumption
    <3>6. TasksFollowRoutes'
      BY <1>2, <2>1, <3>2, <3>3, RouteAssumption DEF TasksFollowRoutes, RouteAssumption
    <3> QED
      BY <3>4, <3>5, <3>6
  <2>5. CASE StartSync \/ SyncGet \/ SyncIndex \/ SyncDone \/ SyncFails
    <3>1. routes' = routes /\ pending' = pending
      BY <2>5 DEF StartSync, SyncGet, SyncIndex, SyncDone, SyncFails, SyncFrame, handlerVars
    <3>2. spc # "off" \/ spc' # "off" => dpc = "down"
      BY DEF ServedInv, StartsInOrder
    <3>3. spc' = "set" => routes[suser'] = NoNode
      BY <2>5 DEF StartSync, SyncGet, SyncIndex, SyncDone, SyncFails, RouteInv, RouteTypeOK
    <3>4. ASSUME NEW u \in DOMAIN DefaultRoutes, routes[u] = NoNode
          PROVE  dpc = "down" /\ (spc' = "off" \/ u \in sleft' \/ (spc' = "set" /\ suser' = u))
      <4>1. dpc = "down" /\ (spc = "off" \/ u \in sleft \/ (spc = "set" /\ suser = u))
        BY <2>1, <3>4 DEF SyncInv
      <4> QED
        BY <2>5, <3>4, <4>1 DEF StartSync, SyncGet, SyncIndex, SyncDone, SyncFails
    <3>5. SyncInv'
      BY <1>2, <2>1, <3>1, <3>3, <3>4 DEF SyncInv
    <3> QED
      BY <2>2, <3>1, <3>5
  <2> QED
    BY <2>1, <2>3, <2>4, <2>5 DEF WriteStep, RouteNext, SyncStep
<1> QED
  BY <1>2, <1>3, <1>4 DEF ServedInv

(* The sync has come to every default when the dispatcher starts.          *)
LEMMA StartServes ==
    ASSUME RouteInv, FeederInv, ServedInv, StartStep
    PROVE  ServedInv'
<1>1. /\ spc = "get" /\ sleft = {} /\ spc' = "off" /\ dpc = "down" /\ dpc' = "read"
      /\ UNCHANGED <<pending, asks, changes, execTasks, routes, dlast, suser>>
  BY DEF StartStep, SyncDone, SyncFrame, DispatcherRestart, handlerVars, busVars
<1>2. [DispatchNext]_dispatchVars
  BY DEF StartStep, DispatchNext, DispatcherNext, DispatcherStep
<1>3. StartsInOrder'
  BY <1>1 DEF StartsInOrder
<1>4. asks = 0 => FanOutInv'
  BY <1>2, FanOutInvNext DEF ServedInv
<1>5. asks = 0 => SyncInv' /\ TasksFollowRoutes'
  BY <1>1 DEF ServedInv, SyncInv, TasksFollowRoutes
<1> QED
  BY <1>1, <1>3, <1>4, <1>5 DEF ServedInv

LEMMA ServedInvNext ==
    RouteInv /\ FeederInv /\ ServedInv /\ [RoutingNext]_routingVars => ServedInv'
<1> SUFFICES ASSUME RouteInv, FeederInv, ServedInv, [RoutingNext]_routingVars
             PROVE  ServedInv'
  OBVIOUS
<1>1. CASE UNCHANGED routingVars
  <2>1. UNCHANGED <<changes, execTasks, routes, pending, asks, spc, sleft, suser, dpc, dlast>>
    BY <1>1 DEF routingVars, dispatchVars, busVars, dispatcherVars, storeVars, handlerVars, syncVars
  <2>2. FanOutInv => FanOutInv'
    BY <1>1, FanOutInvNext DEF routingVars
  <2>3. SyncInv => SyncInv'
    BY <2>1 DEF SyncInv
  <2>4. TasksFollowRoutes => TasksFollowRoutes'
    BY <2>1 DEF TasksFollowRoutes
  <2> QED
    BY <2>1, <2>2, <2>3, <2>4 DEF ServedInv, StartsInOrder
<1> QED
  BY <1>1, RoutingSteps, RunServes, WriteServes, StartServes

(* With a database or without, a user whom no request touches is routed    *)
(* before a message is done with, and has its tasks on that node alone.    *)
THEOREM UntouchedUsersAreServed == RoutingSpec => []UntouchedUsersServed
<1>1. RoutingInit => ServedInv
  <2> SUFFICES ASSUME RoutingInit
               PROVE  ServedInv
    OBVIOUS
  <2>1. changes = 0 /\ dpc = "down" /\ dlast = 0 /\ spc = "off" /\ limit = MaxNotional
        /\ execTasks = [n \in Nodes |-> <<>>] /\ pending = [h \in Handlers |-> NoCall]
    BY DEF RoutingInit, RouteInit, EmptyBus
  <2> QED
    BY <2>1 DEF ServedInv, StartsInOrder, FanOutInv, SyncInv, TasksFollowRoutes
<1>2. RouteInv /\ FeederInv /\ ServedInv => UntouchedUsersServed
  <2> SUFFICES ASSUME RouteInv, FeederInv, ServedInv, asks = 0,
                      NEW u \in _resolve_candidate_user_ids, NEW m \in 1..dlast,
                      u \in DOMAIN DefaultRoutes \/ routes[u] # NoNode
               PROVE  /\ routes[u] # NoNode
                      /\ Servable(u, opps[m]) =>
                            \A s \in _iter_matching_strategies(u, opps[m]) :
                               {n \in Nodes : \E i \in DOMAIN execTasks[n] :
                                   execTasks[n][i].task = <<u, m, s>>} = {routes[u]}
    BY DEF UntouchedUsersServed
  <2>1. dpc # "down"
    BY DEF ServedInv, StartsInOrder
  <2>2. routes[u] # NoNode
    BY <2>1 DEF ServedInv, SyncInv
  <2>3. ASSUME Servable(u, opps[m]), NEW s \in _iter_matching_strategies(u, opps[m])
        PROVE  {n \in Nodes : \E i \in DOMAIN execTasks[n] :
                   execTasks[n][i].task = <<u, m, s>>} = {routes[u]}
    <3>1. u \in Candidates /\ s \in Wanted(u, m)
      BY <2>3 DEF Candidates, Wanted
    <3>2. Fanned(u, m, s)
      BY <3>1 DEF ServedInv, FanOutInv
    <3>3. routes[u] \in Nodes
      BY <3>1, WantedAreRouted
    <3>4. ASSUME NEW n \in Nodes, NEW i \in DOMAIN execTasks[n],
                 execTasks[n][i].task = <<u, m, s>>
          PROVE  n = routes[u]
      BY <3>4 DEF ServedInv, TasksFollowRoutes
    <3> QED
      BY <3>2, <3>3, <3>4 DEF Fanned
  <2> QED
    BY <2>2, <2>3
<1>3. DispatchInv => FeederInv
  BY DEF DispatchInv
<1> QED
  BY <1>1, <1>2, <1>3, BothInvInit, BothInvNext, ServedInvNext, PTL DEF RoutingSpec
=============================================================================
