-------------------------- MODULE DispatcherProofs --------------------------
(***************************************************************************)
(* Proofs about Dispatcher, for any users, nodes, accounts, strategies,    *)
(* opportunities, and for any number of crashes and operator changes.      *)
(***************************************************************************)
EXTENDS DispatchRefinement, TaskRepositoryProofs, WellFoundedInduction, TLAPS

(* First picks the least element: what the repositories' ORDER BY id does. *)
LEMMA LeastExists ==
    ASSUME NEW S \in SUBSET Nat, S # {}
    PROVE  /\ First(S) \in S
           /\ \A y \in S : First(S) <= y
<1>1. \E x \in S : \A y \in S : ~(<<y, x>> \in OpToRel(<, Nat))
  BY NatLessThanWellFounded, WFMin, Zenon
<1>2. \A x, y \in S : y < x => <<y, x>> \in OpToRel(<, Nat)
  BY DEF OpToRel
<1>3. \E x \in S : \A y \in S : ~(y < x)
  BY <1>1, <1>2, Zenon
<1>4. \E x \in S : \A y \in S : x <= y
  BY <1>3
<1> QED
  BY <1>4 DEF First

(* The account with the least id is one of the candidates.                 *)
LEMMA LowestIdExists ==
    ASSUME NEW S \in SUBSET Accounts, S # {}
    PROVE  LowestId(S) \in S
<1> DEFINE Ids == {a.id : a \in S}
<1>1. Ids \in SUBSET Nat /\ Ids # {}
  BY DispatcherAssumption DEF DispatcherAssumption
<1>2. First(Ids) \in Ids /\ \A y \in Ids : First(Ids) <= y
  BY <1>1, LeastExists
<1>3. PICK a \in S : a.id = First(Ids)
  BY <1>2
<1>4. \A b \in S : a.id <= b.id
  BY <1>2, <1>3
<1> QED
  BY <1>4 DEF LowestId

(* Whatever accounts a user has, the binding names existing accounts or    *)
(* none at all.                                                            *)
LEMMA BindingType ==
    ASSUME NEW u, NEW o, enabled \subseteq Accounts
    PROVE  BindingFor(u, o) \in [buy_account : AccountIds, sell_account : AccountIds]
<1> DEFINE buyers == _iter_eligible_accounts_for_exchange(AccountsOf(u), o.buy_exchange,
                                                          DispatcherRegion)
           sellers == _iter_eligible_accounts_for_exchange(AccountsOf(u), o.sell_exchange,
                                                           DispatcherRegion)
<1>1. buyers \subseteq Accounts /\ sellers \subseteq Accounts
  BY DEF _iter_eligible_accounts_for_exchange, AccountsOf
<1>2. NoBinding \in [buy_account : AccountIds, sell_account : AccountIds]
  BY DEF NoBinding, AccountIds
<1>3. CASE ~DatabaseEnabled
  BY <1>2, <1>3 DEF BindingFor
<1>4. CASE DatabaseEnabled /\ (buyers = {} \/ sellers = {})
  BY <1>2, <1>4 DEF BindingFor, _select_bound_accounts
<1>5. CASE DatabaseEnabled /\ buyers # {} /\ sellers # {}
  <2>1. LowestId(buyers) \in Accounts /\ LowestId(sellers) \in Accounts
    BY <1>1, <1>5, LowestIdExists
  <2>2. LowestId(buyers).id \in AccountIds /\ LowestId(sellers).id \in AccountIds
    BY <2>1 DEF AccountIds
  <2> QED
    BY <1>5, <2>2 DEF BindingFor, _select_bound_accounts
<1> QED
  BY <1>3, <1>4, <1>5

-----------------------------------------------------------------------------
Working == {"guard", "blocked", "publish", "mark"}

(* While the loop is at a strategy, the job is a task id and the notional  *)
(* it asks for is positive.                                                *)
LEMMA JobType ==
    ASSUME DispatchTypeOK, CursorOK, dpc \notin {"read", "down", "user"}, dstrats # {}
    PROVE  /\ strategy \in dstrats
           /\ strategy \in StrategyIds
           /\ job \in TaskIds
           /\ opportunity \in Opportunities
           /\ requested_notional \in 1..MaxNotional
<1>1. StrategyIds \subseteq Nat
  BY DispatcherAssumption DEF DispatcherAssumption, StrategyIds
<1>2. strategy \in dstrats /\ strategy \in StrategyIds
  BY <1>1, LeastExists DEF DispatchTypeOK, DispatcherTypeOK, strategy
<1>3. dlast \in Nat /\ dlast < Len(opps) /\ Len(opps) <= MaxOpps /\ opps \in Seq(Opportunities)
  BY DEF DispatchTypeOK, DispatcherTypeOK, BusTypeOK, CursorOK
<1>4. dlast + 1 \in 1..MaxOpps
  BY <1>3, BusAssumption DEF BusAssumption
<1>5. job \in TaskIds
  <2>1. job \in Users \X (1..MaxOpps) \X StrategyIds
    BY <1>2, <1>4 DEF job, CursorOK
  <2> QED
    BY <2>1, DispatcherAssumption DEF DispatcherAssumption
<1>6. opportunity \in Opportunities
  BY <1>3 DEF opportunity
<1>7. requested_notional \in 1..MaxNotional
  <2>1. CASE strategy = 0
    BY <1>6, <2>1, BusAssumption DEF requested_notional, BusAssumption
  <2>2. CASE strategy # 0
    <3>1. PICK s \in StrategyConfigs : s.id = strategy
      BY <1>2, <2>2 DEF StrategyIds
    <3>2. (CHOOSE r \in StrategyConfigs : r.id = strategy) \in StrategyConfigs
      BY <3>1
    <3> QED
      BY <2>2, <3>2, DispatcherAssumption DEF requested_notional, DispatcherAssumption
  <2> QED
    BY <2>1, <2>2
<1> QED
  BY <1>2, <1>5, <1>6, <1>7

(* The part of the invariant that speaks of streams and rows survives any  *)
(* step that leaves both alone.                                            *)
LEMMA SharedStateUntouched ==
    ASSUME FeederInv, UNCHANGED <<tasks, execTasks>>
    PROVE  /\ NoDatabaseNoRows'
           /\ AtMostOnePublication'
           /\ PublishedTaskHasRow'
BY DEF FeederInv, NoDatabaseNoRows, AtMostOnePublication, PublishedTaskHasRow

(* Steps to a program counter outside of a task leave JobPhase nothing to  *)
(* say.                                                                    *)
LEMMA NoJobNoPhase ==
    ASSUME dpc' \notin Working
    PROVE  JobPhase'
BY DEF Working, JobPhase

(* Empty streams, no rows, and a dispatcher with nothing in hand.          *)
LEMMA IdleDispatchInv ==
    ASSUME EmptyBus, routes \in [Users -> Nodes \cup {NoNode}], dpc \in {"read", "down"},
           dlast = 0, dusers = {}, duser = NoUser, dnode = NoNode, dbinding = NoBinding,
           dstrats = {}, damount = 0, dfail = 0
    PROVE  DispatchInv
<1> USE DEF EmptyBus
<1>1. DispatchTypeOK
  <2>1. TasksTypeOK
    BY DEF TasksInit, TasksTypeOK
  <2>2. NoOrders \in [TaskIds \X Exchanges \X Sides -> Nat]
    BY DEF NoOrders
  <2>3. execTasks \in [Nodes -> Seq(ExecEntry)]
    OBVIOUS
  <2>4. BusTypeOK
    BY <2>1, <2>2, <2>3, BusAssumption DEF BusTypeOK, BusAssumption
  <2>5. DispatcherTypeOK
    BY BusAssumption, DispatcherAssumption
       DEF BusAssumption, DispatcherAssumption, DispatcherTypeOK, NoBinding, AccountIds
  <2> QED
    BY <2>4, <2>5 DEF DispatchTypeOK
<1>2. CursorOK
  BY BusAssumption DEF CursorOK, BusAssumption
<1>3. JobPhase
  BY DEF JobPhase
<1>4. NoDatabaseNoRows
  BY DEF NoDatabaseNoRows, TasksInit
<1>5. AtMostOnePublication /\ PublishedTaskHasRow /\ BlockedTaskNeverPublished
  BY DEF AtMostOnePublication, PublishedTaskHasRow, BlockedTaskNeverPublished
<1> QED
  BY <1>1, <1>2, <1>3, <1>4, <1>5 DEF DispatchInv, FeederInv

LEMMA DispatchInvInit == DispatchInit => DispatchInv
<1> SUFFICES ASSUME DispatchInit PROVE DispatchInv
  OBVIOUS
<1>1. routes \in [Users -> Nodes \cup {NoNode}]
  BY DEF DispatchInit, BusInit
<1> QED
  BY <1>1, IdleDispatchInv DEF DispatchInit, BusInit, DispatcherInit

-----------------------------------------------------------------------------
LEMMA BusUnchanged ==
    ASSUME FeederInv, UNCHANGED busVars
    PROVE  /\ BusTypeOK'
           /\ UNCHANGED <<tasks, execTasks>>
           /\ opps' = opps
BY DEF FeederInv, DispatchTypeOK, busVars, BusTypeOK, TasksTypeOK

LEMMA ReadOpportunityInv ==
    ASSUME FeederInv, ReadOpportunity
    PROVE  FeederInv'
<1> USE DEF ReadOpportunity
<1>1. BusTypeOK' /\ UNCHANGED <<tasks, execTasks>> /\ opps' = opps
  BY BusUnchanged
<1>2. _resolve_candidate_user_ids \subseteq Users
  BY DispatcherAssumption
     DEF DispatcherAssumption, _resolve_candidate_user_ids, list_dispatchable_user_ids
<1>3. DispatcherTypeOK'
  BY <1>2 DEF FeederInv, DispatchTypeOK, DispatcherTypeOK
<1>4. CursorOK'
  BY <1>1 DEF FeederInv, CursorOK
<1>5. JobPhase'
  BY NoJobNoPhase DEF Working
<1> QED
  BY <1>1, <1>3, <1>4, <1>5, SharedStateUntouched DEF FeederInv, DispatchTypeOK

LEMMA SkipUserInv ==
    ASSUME FeederInv, SkipUser
    PROVE  FeederInv'
<1> USE DEF SkipUser
<1>1. BusTypeOK' /\ UNCHANGED <<tasks, execTasks>> /\ opps' = opps
  BY BusUnchanged
<1>2. DispatcherTypeOK'
  BY DEF FeederInv, DispatchTypeOK, DispatcherTypeOK
<1>3. CursorOK'
  BY <1>1 DEF FeederInv, CursorOK
<1>4. JobPhase'
  BY NoJobNoPhase DEF Working
<1> QED
  BY <1>1, <1>2, <1>3, <1>4, SharedStateUntouched DEF FeederInv, DispatchTypeOK

LEMMA TakeUserInv ==
    ASSUME FeederInv, TakeUser
    PROVE  FeederInv'
<1> USE DEF TakeUser
<1>1. BusTypeOK' /\ UNCHANGED <<tasks, execTasks>> /\ opps' = opps
  BY BusUnchanged
<1> DEFINE u == First(dusers)
<1>2. u \in Users
  <2>1. dusers \subseteq Nat /\ dusers \subseteq Users
    BY BusAssumption DEF BusAssumption, FeederInv, DispatchTypeOK, DispatcherTypeOK
  <2> QED
    BY <2>1, LeastExists
<1>3. dnode' \in Nodes
  BY <1>2 DEF Servable, FeederInv, DispatchTypeOK, BusTypeOK
<1>4. BindingFor(u, opportunity) \in [buy_account : AccountIds, sell_account : AccountIds]
  BY BindingType DEF FeederInv, DispatchTypeOK, BusTypeOK
<1>5. _iter_matching_strategies(u, opportunity) \subseteq StrategyIds
  BY DEF _iter_matching_strategies, StrategyIds, StrategiesOf
<1>6. DispatcherTypeOK'
  BY <1>2, <1>3, <1>4, <1>5 DEF FeederInv, DispatchTypeOK, DispatcherTypeOK
<1>7. CursorOK'
  BY <1>1, <1>2, <1>3 DEF FeederInv, CursorOK
<1>8. JobPhase'
  BY NoJobNoPhase DEF Working
<1> QED
  BY <1>1, <1>6, <1>7, <1>8, SharedStateUntouched DEF FeederInv, DispatchTypeOK

LEMMA UserDoneInv ==
    ASSUME FeederInv, UserDone
    PROVE  FeederInv'
<1> USE DEF UserDone
<1>1. BusTypeOK' /\ UNCHANGED <<tasks, execTasks>> /\ opps' = opps
  BY BusUnchanged
<1>2. DispatcherTypeOK'
  BY DEF FeederInv, DispatchTypeOK, DispatcherTypeOK, NoBinding, AccountIds
<1>3. CursorOK'
  BY <1>1 DEF FeederInv, CursorOK
<1>4. JobPhase'
  BY NoJobNoPhase DEF Working
<1> QED
  BY <1>1, <1>2, <1>3, <1>4, SharedStateUntouched DEF FeederInv, DispatchTypeOK

LEMMA EvaluateGuardInv ==
    ASSUME FeederInv, EvaluateGuard
    PROVE  FeederInv'
<1> USE DEF EvaluateGuard
<1>1. BusTypeOK' /\ UNCHANGED <<tasks, execTasks>> /\ opps' = opps
  BY BusUnchanged
<1>2. requested_notional \in 1..MaxNotional
  BY JobType DEF FeederInv, CursorOK
<1>3. ApprovedNotional(requested_notional) \in 0..MaxNotional
  BY <1>2, BusAssumption
     DEF ApprovedNotional, FeederInv, DispatchTypeOK, BusTypeOK, BusAssumption
<1>4. DispatcherTypeOK'
  BY <1>3 DEF FeederInv, DispatchTypeOK, DispatcherTypeOK
<1>5. CursorOK'
  BY <1>1, <1>3 DEF FeederInv, CursorOK
<1>6. JobPhase'
  <2>1. job' = job
    BY DEF job, strategy
  <2> QED
    BY <1>1, <2>1 DEF FeederInv, JobPhase, Published
<1> QED
  BY <1>1, <1>4, <1>5, <1>6, SharedStateUntouched DEF FeederInv, DispatchTypeOK

LEMMA AckOpportunityInv ==
    ASSUME FeederInv, AckOpportunity
    PROVE  FeederInv'
<1> USE DEF AckOpportunity
<1>1. BusTypeOK' /\ UNCHANGED <<tasks, execTasks>> /\ opps' = opps
  BY BusUnchanged
<1>2. dlast + 1 \in 0..MaxOpps /\ dlast + 1 <= Len(opps)
  BY BusAssumption
     DEF FeederInv, DispatchTypeOK, DispatcherTypeOK, BusTypeOK, CursorOK, BusAssumption
<1>3. DispatcherTypeOK'
  BY <1>2 DEF FeederInv, DispatchTypeOK, DispatcherTypeOK
<1>4. CursorOK'
  BY <1>1, <1>2 DEF FeederInv, CursorOK
<1>5. JobPhase'
  BY NoJobNoPhase DEF Working
<1> QED
  BY <1>1, <1>3, <1>4, <1>5, SharedStateUntouched DEF FeederInv, DispatchTypeOK

(* An IntegrityError, any other error and a kill all end the same way.     *)
LEMMA DieInv ==
    ASSUME FeederInv, Die, dfail' \in 0..MaxDispatcherFailures
    PROVE  FeederInv'
<1> USE DEF Die
<1>1. BusTypeOK' /\ UNCHANGED <<tasks, execTasks>> /\ opps' = opps
  BY BusUnchanged
<1>2. DispatcherTypeOK'
  BY BusAssumption DEF DispatcherTypeOK, NoBinding, AccountIds, BusAssumption
<1>3. CursorOK'
  BY <1>1 DEF FeederInv, DispatchTypeOK, BusTypeOK, CursorOK
<1>4. JobPhase'
  BY NoJobNoPhase DEF Working
<1> QED
  BY <1>1, <1>2, <1>3, <1>4, SharedStateUntouched DEF FeederInv, DispatchTypeOK

LEMMA DispatcherRestartInv ==
    ASSUME FeederInv, DispatcherRestart
    PROVE  FeederInv'
<1> USE DEF DispatcherRestart
<1>1. BusTypeOK' /\ UNCHANGED <<tasks, execTasks>> /\ opps' = opps
  BY BusUnchanged
<1>2. DispatcherTypeOK'
  BY DEF FeederInv, DispatchTypeOK, DispatcherTypeOK
<1>3. CursorOK'
  BY <1>1 DEF FeederInv, CursorOK
<1>4. JobPhase'
  BY NoJobNoPhase DEF Working
<1> QED
  BY <1>1, <1>2, <1>3, <1>4, SharedStateUntouched DEF FeederInv, DispatchTypeOK

-----------------------------------------------------------------------------
(* The steps that write a row or a stream.                                 *)
LEMMA CreateTaskInv ==
    ASSUME FeederInv, CreateTask
    PROVE  FeederInv'
<1> USE DEF CreateTask
<1>1. /\ UNCHANGED <<opps, execTasks, repairTasks, limit, routes, enabled, changes,
                     orders, repairs, dlast, dusers, duser, dnode, dbinding, dstrats,
                     damount, dfail>>
      /\ dpc = "strategy" /\ dpc' = "guard" /\ job' = job
  BY DEF streamVars, adminVars, orderVars, job, strategy
<1>2. job \in TaskIds
  BY <1>1, JobType DEF FeederInv
<1>3. TasksTypeOK
  BY DEF FeederInv, DispatchTypeOK, BusTypeOK
<1>4. TasksTypeOK'
  <2>1. CASE DatabaseEnabled
    BY <1>2, <1>3, <2>1, CreateTaskRow
  <2>2. CASE ~DatabaseEnabled
    BY <1>3, <2>2 DEF TasksTypeOK
  <2> QED
    BY <2>1, <2>2
<1>5. DispatchTypeOK'
  BY <1>1, <1>4 DEF FeederInv, DispatchTypeOK, BusTypeOK, DispatcherTypeOK
<1>6. CursorOK'
  BY <1>1 DEF FeederInv, CursorOK
<1>7. CASE ~DatabaseEnabled
  <2>1. JobPhase'
    BY <1>7 DEF JobPhase
  <2>2. UNCHANGED <<tasks, execTasks>>
    BY <1>1, <1>7
  <2> QED
    BY <1>5, <1>6, <2>1, <2>2, SharedStateUntouched DEF FeederInv
<1>8. CASE DatabaseEnabled
  <2>1. /\ job \notin DOMAIN tasks
        /\ DOMAIN tasks' = DOMAIN tasks \cup {job}
        /\ tasks'[job].status = "CREATED"
        /\ ~tasks'[job].dispatched_at
        /\ \A t \in DOMAIN tasks : tasks'[t] = tasks[t]
    BY <1>2, <1>3, <1>8, CreateTaskRow
  <2>2. ~Published(job)
    BY <1>8, <2>1 DEF Published, FeederInv, PublishedTaskHasRow
  <2>3. JobPhase'
    BY <1>1, <2>1, <2>2 DEF JobPhase, Published
  <2>4. NoDatabaseNoRows' /\ AtMostOnePublication'
    BY <1>1, <1>8 DEF NoDatabaseNoRows, AtMostOnePublication, FeederInv
  <2>5. PublishedTaskHasRow'
    BY <1>1, <2>1 DEF PublishedTaskHasRow, FeederInv
  <2> QED
    BY <1>5, <1>6, <2>3, <2>4, <2>5 DEF FeederInv
<1> QED
  BY <1>7, <1>8

(* mark_blocked and mark_dispatched change one existing row, keep the set  *)
(* of rows, and end the job.                                               *)
LEMMA MarkBlockedInv ==
    ASSUME FeederInv, MarkBlocked
    PROVE  FeederInv'
<1> USE DEF MarkBlocked
<1>1. /\ UNCHANGED <<opps, execTasks, repairTasks, limit, routes, enabled, changes,
                     orders, repairs, dlast, dusers, duser, dnode, dbinding, dfail>>
      /\ dpc = "blocked" /\ dpc' = "strategy" /\ damount' = 0
      /\ dstrats' \subseteq dstrats
  BY DEF streamVars, adminVars, orderVars
<1>2. /\ TasksTypeOK'
      /\ DOMAIN tasks' = DOMAIN tasks
      /\ \A t \in DOMAIN tasks : t # job \/ ~DatabaseEnabled => tasks'[t] = tasks[t]
  <2>1. TasksTypeOK
    BY DEF FeederInv, DispatchTypeOK, BusTypeOK
  <2>2. CASE DatabaseEnabled
    BY <2>1, <2>2, MarkBlockedRow DEF OnlyRowChanges
  <2>3. CASE ~DatabaseEnabled
    BY <2>1, <2>3 DEF TasksTypeOK
  <2> QED
    BY <2>2, <2>3
<1>3. DispatchTypeOK'
  <2>1. BusTypeOK'
    BY <1>1, <1>2 DEF FeederInv, DispatchTypeOK, BusTypeOK
  <2>2. DispatcherTypeOK'
    BY <1>1, BusAssumption
       DEF FeederInv, DispatchTypeOK, DispatcherTypeOK, BusAssumption
  <2> QED
    BY <2>1, <2>2 DEF DispatchTypeOK
<1>4. CursorOK'
  BY <1>1 DEF FeederInv, CursorOK
<1>5. JobPhase'
  BY <1>1, NoJobNoPhase DEF Working
<1>6. NoDatabaseNoRows' /\ AtMostOnePublication' /\ PublishedTaskHasRow'
  BY <1>1, <1>2
     DEF NoDatabaseNoRows, AtMostOnePublication, PublishedTaskHasRow, FeederInv
<1> QED
  BY <1>3, <1>4, <1>5, <1>6 DEF FeederInv

LEMMA MarkDispatchedInv ==
    ASSUME FeederInv, MarkDispatched
    PROVE  FeederInv'
<1> USE DEF MarkDispatched
<1>1. /\ UNCHANGED <<opps, execTasks, repairTasks, limit, routes, enabled, changes,
                     orders, repairs, dlast, dusers, duser, dnode, dbinding, dfail>>
      /\ dpc = "mark" /\ dpc' = "strategy" /\ damount' = 0
      /\ dstrats' \subseteq dstrats
  BY DEF streamVars, adminVars, orderVars
<1>2. /\ TasksTypeOK'
      /\ DOMAIN tasks' = DOMAIN tasks
      /\ \A t \in DOMAIN tasks : tasks'[t].status \in {tasks[t].status, "DISPATCHED"}
  <2>1. TasksTypeOK
    BY DEF FeederInv, DispatchTypeOK, BusTypeOK
  <2>2. CASE DatabaseEnabled
    BY <2>1, <2>2, MarkDispatchedRow DEF OnlyRowChanges
  <2>3. CASE ~DatabaseEnabled
    BY <2>1, <2>3 DEF TasksTypeOK
  <2> QED
    BY <2>2, <2>3
<1>3. DispatchTypeOK'
  <2>1. BusTypeOK'
    BY <1>1, <1>2 DEF FeederInv, DispatchTypeOK, BusTypeOK
  <2>2. DispatcherTypeOK'
    BY <1>1, BusAssumption
       DEF FeederInv, DispatchTypeOK, DispatcherTypeOK, BusAssumption
  <2> QED
    BY <2>1, <2>2 DEF DispatchTypeOK
<1>4. CursorOK'
  BY <1>1 DEF FeederInv, CursorOK
<1>5. JobPhase'
  BY <1>1, NoJobNoPhase DEF Working
<1>6. NoDatabaseNoRows' /\ AtMostOnePublication' /\ PublishedTaskHasRow'
  BY <1>1, <1>2
     DEF NoDatabaseNoRows, AtMostOnePublication, PublishedTaskHasRow, FeederInv
<1> QED
  BY <1>3, <1>4, <1>5, <1>6 DEF FeederInv

LEMMA PublishedEntryType ==
    ASSUME FeederInv, dpc = "publish"
    PROVE  /\ dnode \in Nodes
           /\ [task |-> job,
               buy_exchange |-> opportunity.buy_exchange,
               sell_exchange |-> opportunity.sell_exchange,
               target_quote_amount |-> damount,
               buy_account |-> dbinding.buy_account,
               sell_account |-> dbinding.sell_account] \in ExecEntry
<1>1. dnode \in Nodes /\ job \in TaskIds /\ opportunity \in Opportunities
  BY JobType DEF FeederInv, CursorOK
<1>2. damount \in 1..MaxNotional
  BY BusAssumption
     DEF FeederInv, DispatchTypeOK, DispatcherTypeOK, CursorOK, BusAssumption
<1>3. opportunity.buy_exchange \in Exchanges /\ opportunity.sell_exchange \in Exchanges
  BY <1>1, BusAssumption DEF BusAssumption
<1> QED
  BY <1>1, <1>2, <1>3 DEF ExecEntry, FeederInv, DispatchTypeOK, DispatcherTypeOK

(* The new entry of a node stream.                                         *)
NewEntry == [task |-> job,
             buy_exchange |-> opportunity.buy_exchange,
             sell_exchange |-> opportunity.sell_exchange,
             target_quote_amount |-> damount,
             buy_account |-> dbinding.buy_account,
             sell_account |-> dbinding.sell_account]

LEMMA PublishedEntries ==
    ASSUME FeederInv, PublishTask
    PROVE  /\ dnode \in Nodes
           /\ \A n \in Nodes : \A i \in DOMAIN execTasks'[n] :
                 \/ i \in DOMAIN execTasks[n] /\ execTasks'[n][i] = execTasks[n][i]
                 \/ n = dnode /\ execTasks'[n][i] = NewEntry
           /\ \A n \in Nodes : \A i \in DOMAIN execTasks[n] :
                 i \in DOMAIN execTasks'[n] /\ execTasks'[n][i] = execTasks[n][i]
           /\ \E i \in DOMAIN execTasks'[dnode] : execTasks'[dnode][i] = NewEntry
<1>1. dnode \in Nodes /\ NewEntry \in ExecEntry
  BY PublishedEntryType DEF PublishTask, NewEntry
<1>2. /\ execTasks' = [execTasks EXCEPT ![dnode] = Append(@, NewEntry)]
      /\ execTasks \in [Nodes -> Seq(ExecEntry)]
  BY DEF PublishTask, NewEntry, FeederInv, DispatchTypeOK, BusTypeOK
<1> HIDE DEF NewEntry
<1>3. Len(execTasks[dnode]) + 1 \in DOMAIN execTasks'[dnode]
  BY <1>1, <1>2
<1> QED
  BY <1>1, <1>2, <1>3

LEMMA PublishTaskInv ==
    ASSUME FeederInv, PublishTask
    PROVE  FeederInv'
<1> USE DEF PublishTask
<1> DEFINE entry == [task |-> job,
                     buy_exchange |-> opportunity.buy_exchange,
                     sell_exchange |-> opportunity.sell_exchange,
                     target_quote_amount |-> damount,
                     buy_account |-> dbinding.buy_account,
                     sell_account |-> dbinding.sell_account]
<1>1. /\ UNCHANGED <<tasks, opps, repairTasks, limit, routes, enabled, changes,
                     orders, repairs, dlast, dusers, duser, dnode, dbinding, dstrats,
                     damount, dfail>>
      /\ dpc = "publish" /\ dpc' = "mark" /\ job' = job
  BY DEF adminVars, orderVars, job, strategy
<1>2. dnode \in Nodes
  BY <1>1, PublishedEntryType
<1>3. entry \in ExecEntry
  BY <1>1, PublishedEntryType
<1>4. /\ execTasks' = [execTasks EXCEPT ![dnode] = Append(@, entry)]
      /\ execTasks \in [Nodes -> Seq(ExecEntry)]
  BY DEF FeederInv, DispatchTypeOK, BusTypeOK
<1> HIDE DEF entry
<1>5. /\ \A n \in Nodes \ {dnode} : execTasks'[n] = execTasks[n]
      /\ execTasks'[dnode] \in Seq(ExecEntry)
      /\ Len(execTasks'[dnode]) = Len(execTasks[dnode]) + 1
      /\ execTasks'[dnode][Len(execTasks[dnode]) + 1] = entry
      /\ \A i \in DOMAIN execTasks[dnode] : execTasks'[dnode][i] = execTasks[dnode][i]
  BY <1>2, <1>3, <1>4
<1>6. \A n \in Nodes : \A i \in DOMAIN execTasks'[n] :
         \/ i \in DOMAIN execTasks[n] /\ execTasks'[n][i] = execTasks[n][i]
         \/ n = dnode /\ i = Len(execTasks[dnode]) + 1 /\ execTasks'[n][i] = entry
  BY <1>2, <1>4, <1>5
<1>7. entry.task = job
  BY DEF entry
<1>8. DispatchTypeOK'
  <2>1. execTasks' \in [Nodes -> Seq(ExecEntry)]
    BY <1>2, <1>3, <1>4
  <2> QED
    BY <1>1, <2>1
       DEF FeederInv, DispatchTypeOK, BusTypeOK, TasksTypeOK, DispatcherTypeOK
<1>9. CursorOK'
  BY <1>1 DEF FeederInv, CursorOK
<1>10. JobPhase'
  <2>1. Published(job)'
    <3>1. Len(execTasks[dnode]) + 1 \in DOMAIN execTasks'[dnode]
      BY <1>2, <1>4, <1>5
    <3> QED
      BY <1>1, <1>2, <1>5, <1>7, <3>1 DEF Published
  <2> QED
    BY <1>1, <2>1 DEF FeederInv, JobPhase
<1>11. NoDatabaseNoRows'
  BY <1>1 DEF FeederInv, NoDatabaseNoRows
<1>12. DatabaseEnabled => /\ job \in DOMAIN tasks
                          /\ tasks[job].status = "CREATED"
                          /\ ~Published(job)
  BY <1>1 DEF FeederInv, JobPhase
<1>13. AtMostOnePublication'
  BY <1>6, <1>7, <1>12 DEF FeederInv, AtMostOnePublication, Published
<1>14. PublishedTaskHasRow'
  BY <1>1, <1>6, <1>7, <1>12 DEF FeederInv, PublishedTaskHasRow
<1> QED
  BY <1>8, <1>9, <1>10, <1>11, <1>13, <1>14 DEF FeederInv

-----------------------------------------------------------------------------
LEMMA DispatcherNextInv ==
    ASSUME FeederInv, DispatcherNext
    PROVE  FeederInv'
<1>1. CASE ReadOpportunity
  BY <1>1, ReadOpportunityInv
<1>2. CASE SkipUser
  BY <1>2, SkipUserInv
<1>3. CASE TakeUser
  BY <1>3, TakeUserInv
<1>4. CASE UserDone
  BY <1>4, UserDoneInv
<1>5. CASE CreateTask
  BY <1>5, CreateTaskInv
<1>6. CASE DuplicateTask
  BY <1>6, DieInv DEF DuplicateTask, FeederInv, DispatchTypeOK, DispatcherTypeOK
<1>7. CASE EvaluateGuard
  BY <1>7, EvaluateGuardInv
<1>8. CASE MarkBlocked
  BY <1>8, MarkBlockedInv
<1>9. CASE PublishTask
  BY <1>9, PublishTaskInv
<1>10. CASE MarkDispatched
  BY <1>10, MarkDispatchedInv
<1>11. CASE AckOpportunity
  BY <1>11, AckOpportunityInv
<1>12. CASE DispatcherRestart
  BY <1>12, DispatcherRestartInv
<1>13. CASE DispatcherCrash
  <2>1. dfail' \in 0..MaxDispatcherFailures
    BY <1>13, DispatcherAssumption
       DEF DispatcherCrash, DispatcherAssumption, FeederInv, DispatchTypeOK,
           DispatcherTypeOK
  <2> QED
    BY <1>13, <2>1, DieInv DEF DispatcherCrash
<1> QED
  BY <1>1, <1>2, <1>3, <1>4, <1>5, <1>6, <1>7, <1>8, <1>9, <1>10, <1>11, <1>12, <1>13
     DEF DispatcherNext, DispatcherStep

(* The scanner and the operators touch neither a row, nor a node stream,   *)
(* nor a local of the dispatcher.                                          *)
LEMMA EnvironmentInv ==
    ASSUME FeederInv, PublishOpportunity \/ Admin, UNCHANGED dispatcherVars
    PROVE  FeederInv'
<1>1. /\ UNCHANGED <<tasks, execTasks, repairTasks, orders, repairs>>
      /\ UNCHANGED dispatcherVars
      /\ job' = job
  BY DEF PublishOpportunity, Admin, SetLimit, SetRoute, ToggleAccount, AdminChange,
         streamVars, adminVars, orderVars, dispatcherVars, job, strategy
<1>2. /\ opps' \in Seq(Opportunities)
      /\ Len(opps') <= MaxOpps
      /\ Len(opps) <= Len(opps')
  <2>1. CASE PublishOpportunity
    BY <2>1, BusAssumption
       DEF PublishOpportunity, BusAssumption, FeederInv, DispatchTypeOK, BusTypeOK, CursorOK
  <2>2. CASE Admin
    BY <2>2
       DEF Admin, SetLimit, SetRoute, ToggleAccount, AdminChange, streamVars,
           FeederInv, DispatchTypeOK, BusTypeOK, CursorOK
  <2> QED
    BY <2>1, <2>2
<1>3. /\ limit' \in 0..MaxNotional
      /\ routes' \in [Users -> Nodes \cup {NoNode}]
      /\ enabled' \subseteq Accounts
      /\ changes' \in 0..MaxAdminChanges
  <2>1. /\ limit \in 0..MaxNotional
        /\ routes \in [Users -> Nodes \cup {NoNode}]
        /\ enabled \subseteq Accounts
        /\ changes \in 0..MaxAdminChanges
    BY DEF FeederInv, DispatchTypeOK, BusTypeOK
  <2>2. CASE PublishOpportunity
    BY <2>1, <2>2 DEF PublishOpportunity, adminVars
  <2>3. CASE Admin
    <3>1. changes' \in 0..MaxAdminChanges
      BY <2>1, <2>3, BusAssumption
         DEF Admin, SetLimit, SetRoute, ToggleAccount, AdminChange, BusAssumption
    <3>2. CASE SetLimit
      BY <2>1, <3>1, <3>2, BusAssumption DEF SetLimit, BusAssumption
    <3>3. CASE SetRoute
      BY <2>1, <3>1, <3>3, BusAssumption DEF SetRoute, BusAssumption
    <3>4. CASE ToggleAccount
      BY <2>1, <3>1, <3>4, BusAssumption DEF ToggleAccount, BusAssumption
    <3> QED
      BY <2>3, <3>2, <3>3, <3>4 DEF Admin
  <2> QED
    BY <2>2, <2>3
<1>4. DispatchTypeOK'
  <2>1. BusTypeOK'
    BY <1>1, <1>2, <1>3 DEF FeederInv, DispatchTypeOK, BusTypeOK, TasksTypeOK
  <2>2. DispatcherTypeOK'
    BY <1>1 DEF FeederInv, DispatchTypeOK, DispatcherTypeOK, dispatcherVars
  <2> QED
    BY <2>1, <2>2 DEF DispatchTypeOK
<1>5. CursorOK'
  <2>1. Len(opps) \in Nat /\ Len(opps') \in Nat /\ dlast \in Nat /\ MaxOpps \in Nat
    BY <1>2, BusAssumption
       DEF BusAssumption, FeederInv, DispatchTypeOK, BusTypeOK, DispatcherTypeOK
  <2> QED
    BY <1>1, <1>2, <2>1 DEF FeederInv, CursorOK, dispatcherVars
<1>6. JobPhase'
  BY <1>1 DEF FeederInv, JobPhase, Published, dispatcherVars
<1> QED
  BY <1>1, <1>4, <1>5, <1>6, SharedStateUntouched DEF FeederInv

LEMMA FeederInvNext == FeederInv /\ [DispatchNext]_dispatchVars => FeederInv'
<1> SUFFICES ASSUME FeederInv, [DispatchNext]_dispatchVars
             PROVE  FeederInv'
  OBVIOUS
<1>1. CASE DispatcherNext
  BY <1>1, DispatcherNextInv
<1>2. CASE (PublishOpportunity \/ Admin) /\ UNCHANGED dispatcherVars
  BY <1>2, EnvironmentInv
<1>3. CASE UNCHANGED dispatchVars
  <2>1. BusTypeOK' /\ UNCHANGED <<tasks, execTasks>> /\ opps' = opps
    BY <1>3, BusUnchanged DEF dispatchVars
  <2>2. DispatcherTypeOK' /\ CursorOK' /\ job' = job
    BY <1>3, <2>1
       DEF dispatchVars, dispatcherVars, FeederInv, DispatchTypeOK, DispatcherTypeOK,
           CursorOK, job, strategy
  <2>3. JobPhase'
    BY <1>3, <2>1, <2>2 DEF dispatchVars, dispatcherVars, FeederInv, JobPhase, Published
  <2> QED
    BY <2>1, <2>2, <2>3, SharedStateUntouched DEF FeederInv, DispatchTypeOK
<1> QED
  BY <1>1, <1>2, <1>3 DEF DispatchNext

(* Only mark_blocked writes BLOCKED, and only a job that is on no stream;  *)
(* only an XADD publishes, and only a job whose row is CREATED.            *)
LEMMA BlockedStayUnpublished ==
    ASSUME DispatchInv, [DispatchNext]_dispatchVars
    PROVE  BlockedTaskNeverPublished'
<1>1. /\ FeederInv /\ FeederInv' /\ TasksTypeOK
      /\ execTasks \in [Nodes -> Seq(ExecEntry)]
  BY FeederInvNext DEF DispatchInv, FeederInv, DispatchTypeOK, BusTypeOK
<1>2. CASE CreateTask
  <2>1. UNCHANGED execTasks /\ (~DatabaseEnabled => UNCHANGED tasks)
    BY <1>2 DEF CreateTask, streamVars
  <2>2. DatabaseEnabled => /\ \A t \in DOMAIN tasks : tasks'[t] = tasks[t]
                           /\ \A n \in Nodes : \A i \in DOMAIN execTasks[n] :
                                 execTasks[n][i].task \in DOMAIN tasks
    <3>1. DatabaseEnabled => job \in TaskIds /\ create_task(job)
      BY <1>1, <1>2, JobType DEF CreateTask, FeederInv
    <3> QED
      BY <1>1, <3>1, CreateTaskRow DEF FeederInv, PublishedTaskHasRow
  <2> QED
    BY <2>1, <2>2 DEF BlockedTaskNeverPublished, DispatchInv
<1>3. CASE MarkBlocked
  <2>1. UNCHANGED execTasks /\ (~DatabaseEnabled => UNCHANGED tasks)
    BY <1>3 DEF MarkBlocked, streamVars
  <2>2. DatabaseEnabled => ~Published(job) /\ OnlyRowChanges(job)
    BY <1>1, <1>3, MarkBlockedRow DEF MarkBlocked, FeederInv, JobPhase
  <2> QED
    BY <2>1, <2>2 DEF BlockedTaskNeverPublished, Published, OnlyRowChanges, DispatchInv
<1>4. CASE MarkDispatched
  <2>1. UNCHANGED execTasks /\ (~DatabaseEnabled => UNCHANGED tasks)
    BY <1>4 DEF MarkDispatched, streamVars
  <2>2. DatabaseEnabled => OnlyRowChanges(job) /\ tasks'[job].status = "DISPATCHED"
    BY <1>1, <1>4, MarkDispatchedRow DEF MarkDispatched
  <2> QED
    BY <2>1, <2>2 DEF BlockedTaskNeverPublished, OnlyRowChanges, DispatchInv
<1>5. CASE PublishTask
  <2>1. /\ UNCHANGED tasks
        /\ \A n \in Nodes : \A i \in DOMAIN execTasks'[n] :
              \/ i \in DOMAIN execTasks[n] /\ execTasks'[n][i] = execTasks[n][i]
              \/ execTasks'[n][i].task = job
    BY <1>1, <1>5, PublishedEntries DEF PublishTask, NewEntry
  <2>2. job \in DOMAIN tasks => tasks[job].status = "CREATED"
    BY <1>1, <1>5 DEF PublishTask, FeederInv, JobPhase, NoDatabaseNoRows
  <2> QED
    BY <2>1, <2>2 DEF BlockedTaskNeverPublished, DispatchInv
<1>6. CASE UNCHANGED <<tasks, execTasks>>
  BY <1>6 DEF BlockedTaskNeverPublished, DispatchInv
<1>7. CASE ~CreateTask /\ ~MarkBlocked /\ ~MarkDispatched /\ ~PublishTask
  <2>1. UNCHANGED <<tasks, execTasks>>
    BY <1>7 DEF DispatchNext, DispatcherNext, DispatcherStep, ReadOpportunity, SkipUser, TakeUser,
       UserDone, DuplicateTask, Die, EvaluateGuard, AckOpportunity, DispatcherRestart,
       DispatcherCrash, PublishOpportunity, Admin, SetLimit, SetRoute, ToggleAccount,
       AdminChange, busVars, dispatchVars, streamVars
  <2> QED
    BY <1>6, <2>1
<1> QED
  BY <1>2, <1>3, <1>4, <1>5, <1>7

LEMMA DispatchInvNext == DispatchInv /\ [DispatchNext]_dispatchVars => DispatchInv'
BY FeederInvNext, BlockedStayUnpublished DEF DispatchInv

(* The inductive invariant holds in every behaviour of the dispatcher.     *)
THEOREM DispatchInvariant == DispatchSpec => []DispatchInv
BY DispatchInvInit, DispatchInvNext, PTL DEF DispatchSpec

(* The part of it that does not depend on who writes published rows.       *)
LEMMA FeederInvariant == DispatchSpec => []FeederInv
<1>1. DispatchInv => FeederInv
  BY DEF DispatchInv
<1> QED
  BY <1>1, DispatchInvariant, PTL

(* Type correctness of the bus and of the dispatcher's locals.             *)
THEOREM DispatchTypeCorrect == DispatchSpec => []DispatchTypeOK
<1>1. FeederInv => DispatchTypeOK
  BY DEF FeederInv
<1> QED
  BY <1>1, FeederInvariant, PTL

(* However often the dispatcher dies and re-reads the opportunities, no    *)
(* task is on the node streams twice.                                      *)
THEOREM PublicationIsUnique == DispatchSpec => []AtMostOnePublication
<1>1. FeederInv => AtMostOnePublication
  BY DEF FeederInv
<1> QED
  BY <1>1, FeederInvariant, PTL

(* What a node reads always has its row, so no executor meets LookupError. *)
THEOREM PublishedTasksHaveRows == DispatchSpec => []PublishedTaskHasRow
<1>1. FeederInv => PublishedTaskHasRow
  BY DEF FeederInv
<1> QED
  BY <1>1, FeederInvariant, PTL

(* A task the control rules stopped in the dispatcher never reaches a node.*)
THEOREM BlockedTasksStayBlocked == DispatchSpec => []BlockedTaskNeverPublished
<1>1. DispatchInv => BlockedTaskNeverPublished
  BY DEF DispatchInv
<1> QED
  BY <1>1, DispatchInvariant, PTL

-----------------------------------------------------------------------------
(* Refinement: one step of the dispatcher is one step of TaskFeed or a     *)
(* stutter.                                                                *)
LEMMA FeedStep ==
    ASSUME DatabaseEnabled, FeederInv, [DispatchNext]_dispatchVars
    PROVE  [Feed!Surroundings]_busVars
<1>1. CASE CreateTask
  <2>1. job \in TaskIds
    BY <1>1, JobType DEF CreateTask, FeederInv
  <2>2. Feed!FeedCreate
    BY <1>1, <2>1
       DEF CreateTask, Feed!FeedCreate, create_task, Feed!create_task, NewRow, Feed!NewRow,
           None, Feed!None, streamVars, adminVars, orderVars, Feed!streamVars,
           Feed!adminVars, Feed!orderVars
  <2> QED
    BY <2>2 DEF Feed!FeedNext, Feed!Surroundings
<1>2. CASE MarkBlocked
  <2>1. job \in DOMAIN tasks /\ tasks[job].status = "CREATED" /\ ~Published(job)
    BY <1>2 DEF MarkBlocked, FeederInv, JobPhase
  <2>2. ~Feed!Published(job)
    BY <2>1 DEF Published, Feed!Published
  <2>3. Feed!FeedBlock
    BY <1>2, <2>1, <2>2
       DEF MarkBlocked, Feed!FeedBlock, mark_blocked, Feed!mark_blocked,
           streamVars, adminVars, orderVars, Feed!streamVars, Feed!adminVars, Feed!orderVars
  <2> QED
    BY <2>3 DEF Feed!FeedNext, Feed!Surroundings
<1>3. CASE PublishTask
  <2> DEFINE entry == [task |-> job,
                       buy_exchange |-> opportunity.buy_exchange,
                       sell_exchange |-> opportunity.sell_exchange,
                       target_quote_amount |-> damount,
                       buy_account |-> dbinding.buy_account,
                       sell_account |-> dbinding.sell_account]
  <2>1. job \in DOMAIN tasks /\ tasks[job].status = "CREATED" /\ ~Published(job)
    BY <1>3 DEF PublishTask, FeederInv, JobPhase
  <2>2. ~Feed!Published(job)
    BY <2>1 DEF Published, Feed!Published
  <2>3. dnode \in Nodes /\ entry \in ExecEntry
    BY <1>3, PublishedEntryType DEF PublishTask
  <2>4. /\ execTasks' = [execTasks EXCEPT ![dnode] = Append(@, entry)]
        /\ UNCHANGED <<tasks, opps, repairTasks, Feed!adminVars, Feed!orderVars>>
    BY <1>3 DEF PublishTask, adminVars, orderVars, Feed!adminVars, Feed!orderVars
  <2>5. entry.task = job
    OBVIOUS
  <2> HIDE DEF entry
  <2>6. Feed!FeedPublish
    BY <2>1, <2>2, <2>3, <2>4, <2>5 DEF Feed!FeedPublish
  <2> QED
    BY <2>6 DEF Feed!FeedNext, Feed!Surroundings
<1>4. CASE MarkDispatched
  <2>1. job \in DOMAIN tasks /\ ~tasks[job].dispatched_at /\ Published(job)
    BY <1>4 DEF MarkDispatched, FeederInv, JobPhase
  <2>2. Feed!Published(job)
    BY <2>1 DEF Published, Feed!Published
  <2>3. Feed!FeedMarkDispatched
    BY <1>4, <2>1, <2>2
       DEF MarkDispatched, Feed!FeedMarkDispatched, mark_dispatched, Feed!mark_dispatched,
           streamVars, adminVars, orderVars, Feed!streamVars, Feed!adminVars, Feed!orderVars
  <2> QED
    BY <2>3 DEF Feed!FeedNext, Feed!Surroundings
<1>5. CASE PublishOpportunity
  BY <1>5 DEF PublishOpportunity, Feed!PublishOpportunity, Feed!Surroundings, adminVars, orderVars,
              Feed!adminVars, Feed!orderVars
<1>6. CASE Admin
  BY <1>6 DEF Admin, SetLimit, SetRoute, ToggleAccount, AdminChange, streamVars, orderVars,
              Feed!Surroundings, Feed!Admin, Feed!SetLimit, Feed!SetRoute, Feed!ToggleAccount,
              Feed!AdminChange, Feed!streamVars, Feed!orderVars
<1>7. CASE \/ ReadOpportunity \/ SkipUser \/ TakeUser \/ UserDone \/ DuplicateTask
           \/ EvaluateGuard \/ AckOpportunity \/ DispatcherRestart \/ DispatcherCrash
           \/ UNCHANGED dispatchVars
  BY <1>7 DEF ReadOpportunity, SkipUser, TakeUser, UserDone, DuplicateTask, Die,
              EvaluateGuard, AckOpportunity, DispatcherRestart, DispatcherCrash,
              dispatchVars
<1> QED
  BY <1>1, <1>2, <1>3, <1>4, <1>5, <1>6, <1>7
     DEF DispatchNext, DispatcherNext, DispatcherStep

(* With a database, the dispatcher keeps the promise the executors and the *)
(* repair worker are checked against.                                      *)
THEOREM DispatcherImplementsTaskFeed ==
    ASSUME DatabaseEnabled
    PROVE  DispatchSpec => ImplementsTaskFeed
<1>1. DispatchInit => Feed!BusInit
  BY DEF DispatchInit, BusInit, EmptyBus, Feed!BusInit, Feed!EmptyBus, TasksInit, Feed!TasksInit, NewRow,
         Feed!NewRow, None, Feed!None, NoOrders, Feed!NoOrders, Sides, Feed!Sides
<1>2. FeederInv /\ [DispatchNext]_dispatchVars => [Feed!Surroundings]_busVars
  BY FeedStep
<1>3. busVars = Feed!busVars
  BY DEF busVars, Feed!busVars
<1>4. FeederInv /\ [DispatchNext]_dispatchVars => [Feed!Surroundings]_Feed!busVars
  BY <1>2 DEF busVars, Feed!busVars
<1> QED
  BY <1>1, <1>4, FeederInvariant, PTL DEF DispatchSpec, ImplementsTaskFeed, Feed!FeedSpec

-----------------------------------------------------------------------------
(* What a published task carries.  The invariants from here on speak of    *)
(* messages and users that were read in earlier steps; they stand on the   *)
(* streams being append-only.                                              *)
LEMMA StreamsGrow ==
    ASSUME FeederInv, [DispatchNext]_dispatchVars
    PROVE  /\ \A m \in DOMAIN opps : m \in DOMAIN opps' /\ opps'[m] = opps[m]
           /\ PublishTask \/ execTasks' = execTasks
<1>1. opps \in Seq(Opportunities)
  BY DEF FeederInv, DispatchTypeOK, BusTypeOK
<1>2. CASE PublishOpportunity /\ UNCHANGED dispatcherVars
  <2>1. PICK o \in Opportunities : opps' = Append(opps, o)
    BY <1>2 DEF PublishOpportunity
  <2> QED
    BY <1>1, <1>2, <2>1 DEF PublishOpportunity
<1>3. CASE Admin \/ UNCHANGED dispatchVars
  BY <1>3 DEF Admin, SetLimit, SetRoute, ToggleAccount, AdminChange, streamVars,
              dispatchVars, busVars
<1>4. CASE PublishTask
  BY <1>4 DEF PublishTask
<1>5. CASE ReadOpportunity \/ SkipUser \/ TakeUser \/ UserDone \/ EvaluateGuard
           \/ AckOpportunity \/ DispatcherRestart \/ DuplicateTask \/ DispatcherCrash
  BY <1>5 DEF ReadOpportunity, SkipUser, TakeUser, UserDone, EvaluateGuard,
              AckOpportunity, DispatcherRestart, DuplicateTask, DispatcherCrash, Die, busVars
<1>6. CASE CreateTask \/ MarkBlocked \/ MarkDispatched
  BY <1>6 DEF CreateTask, MarkBlocked, MarkDispatched, streamVars
<1> QED
  BY <1>2, <1>3, <1>4, <1>5, <1>6 DEF DispatchNext, DispatcherNext, DispatcherStep

(* Two accounts of a user, on the exchanges of the two legs.               *)
OwnAccounts(u, o, e) ==
    \E a, b \in Accounts :
        /\ a.id = e.buy_account /\ b.id = e.sell_account
        /\ a.user = u /\ b.user = u
        /\ a.exchange = o.buy_exchange /\ b.exchange = o.sell_exchange

BindingInv ==
    DatabaseEnabled =>
        /\ dpc \notin {"read", "down", "user"} => OwnAccounts(duser, opportunity, dbinding)
        /\ \A n \in Nodes : \A i \in DOMAIN execTasks[n] :
              LET e == execTasks[n][i]
              IN  /\ e.task[2] \in DOMAIN opps
                  /\ OwnAccounts(e.task[1], opps[e.task[2]], e)

(* A binding that is not empty names accounts of the user it was chosen    *)
(* for.                                                                    *)
LEMMA BindingIsOwn ==
    ASSUME NEW u, NEW o, DatabaseEnabled, enabled \subseteq Accounts,
           BindingFor(u, o) # NoBinding
    PROVE  OwnAccounts(u, o, BindingFor(u, o))
<1> DEFINE buyers == _iter_eligible_accounts_for_exchange(AccountsOf(u), o.buy_exchange,
                                                          DispatcherRegion)
           sellers == _iter_eligible_accounts_for_exchange(AccountsOf(u), o.sell_exchange,
                                                           DispatcherRegion)
<1>1. /\ buyers \subseteq Accounts
      /\ sellers \subseteq Accounts
      /\ \A a \in buyers : a.user = u /\ a.exchange = o.buy_exchange
      /\ \A a \in sellers : a.user = u /\ a.exchange = o.sell_exchange
  BY DEF _iter_eligible_accounts_for_exchange, AccountsOf
<1>2. /\ buyers # {} /\ sellers # {}
      /\ BindingFor(u, o) = [buy_account |-> LowestId(buyers).id,
                             sell_account |-> LowestId(sellers).id]
  BY DEF BindingFor, _select_bound_accounts
<1>3. LowestId(buyers) \in buyers /\ LowestId(sellers) \in sellers
  BY <1>1, <1>2, LowestIdExists
<1> HIDE DEF buyers, sellers
<1> QED
  BY <1>1, <1>2, <1>3 DEF OwnAccounts

LEMMA BindingInvNext ==
    ASSUME FeederInv, BindingInv, [DispatchNext]_dispatchVars
    PROVE  BindingInv'
<1> SUFFICES ASSUME DatabaseEnabled
             PROVE  /\ (dpc \notin {"read", "down", "user"} =>
                           OwnAccounts(duser, opportunity, dbinding))'
                    /\ \A n \in Nodes : \A i \in DOMAIN execTasks'[n] :
                          LET e == execTasks'[n][i]
                          IN  /\ e.task[2] \in DOMAIN opps'
                              /\ OwnAccounts(e.task[1], opps'[e.task[2]], e)
  BY DEF BindingInv, OwnAccounts
<1>1. \A m \in DOMAIN opps : m \in DOMAIN opps' /\ opps'[m] = opps[m]
  BY StreamsGrow
<1>2. /\ opps \in Seq(Opportunities) /\ dlast \in Nat
      /\ dpc \notin {"read", "down"} => dlast + 1 \in DOMAIN opps /\ opportunity = opps[dlast + 1]
  BY DEF FeederInv, DispatchTypeOK, BusTypeOK, DispatcherTypeOK, CursorOK, opportunity
<1>3. (dpc \notin {"read", "down", "user"} => OwnAccounts(duser, opportunity, dbinding))'
  <2>1. CASE TakeUser
    <3> DEFINE u == First(dusers)
    <3>1. /\ dpc = "user"
          /\ duser' = u /\ dbinding' = BindingFor(u, opportunity)
          /\ BindingFor(u, opportunity) # NoBinding
          /\ dlast' = dlast
      BY <2>1 DEF TakeUser, Servable
    <3>2. enabled \subseteq Accounts
      BY DEF FeederInv, DispatchTypeOK, BusTypeOK
    <3>3. OwnAccounts(u, opportunity, BindingFor(u, opportunity))
      BY <3>1, <3>2, BindingIsOwn
    <3>4. opportunity' = opportunity
      BY <1>1, <1>2, <3>1 DEF opportunity
    <3> QED
      BY <3>1, <3>3, <3>4 DEF OwnAccounts
  <2>2. CASE ReadOpportunity \/ SkipUser \/ UserDone \/ AckOpportunity
             \/ DispatcherRestart \/ DuplicateTask \/ DispatcherCrash
    BY <2>2 DEF ReadOpportunity, SkipUser, UserDone, AckOpportunity, DispatcherRestart,
                DuplicateTask, DispatcherCrash, Die
  <2>3. CASE \/ CreateTask \/ EvaluateGuard \/ MarkBlocked \/ PublishTask \/ MarkDispatched
             \/ UNCHANGED dispatcherVars
    <3>1. /\ dlast' = dlast /\ duser' = duser /\ dbinding' = dbinding
          /\ dpc' \notin {"read", "down", "user"} => dpc \notin {"read", "down", "user"}
      BY <2>3 DEF CreateTask, EvaluateGuard, MarkBlocked, PublishTask, MarkDispatched,
                  dispatcherVars
    <3>2. dpc \notin {"read", "down"} => opportunity' = opportunity
      BY <1>1, <1>2, <3>1 DEF opportunity
    <3> QED
      BY <3>1, <3>2 DEF BindingInv, OwnAccounts
  <2> QED
    BY <2>1, <2>2, <2>3
       DEF DispatchNext, DispatcherNext, DispatcherStep, dispatchVars
<1>4. ASSUME NEW n \in Nodes, NEW i \in DOMAIN execTasks'[n]
      PROVE  LET e == execTasks'[n][i]
             IN  /\ e.task[2] \in DOMAIN opps'
                 /\ OwnAccounts(e.task[1], opps'[e.task[2]], e)
  <2>1. CASE i \in DOMAIN execTasks[n] /\ execTasks'[n][i] = execTasks[n][i]
    <3> DEFINE e == execTasks[n][i]
    <3>1. e.task[2] \in DOMAIN opps /\ OwnAccounts(e.task[1], opps[e.task[2]], e)
      BY <1>1, <2>1 DEF BindingInv
    <3>2. e.task[2] \in DOMAIN opps' /\ opps'[e.task[2]] = opps[e.task[2]]
      BY <1>1, <3>1
    <3> QED
      BY <2>1, <3>1, <3>2
  <2>2. CASE PublishTask /\ execTasks'[n][i] = NewEntry
    <3>1. NewEntry.task = <<duser, dlast + 1, strategy>>
      BY DEF NewEntry, job
    <3>2. /\ NewEntry.buy_account = dbinding.buy_account
          /\ NewEntry.sell_account = dbinding.sell_account
      BY DEF NewEntry
    <3>3. OwnAccounts(duser, opps[dlast + 1], dbinding) /\ dlast + 1 \in DOMAIN opps
      BY <1>2, <2>2 DEF PublishTask, BindingInv
    <3> HIDE DEF NewEntry
    <3>4. OwnAccounts(duser, opps[dlast + 1], NewEntry)
      BY <3>2, <3>3 DEF OwnAccounts
    <3>5. NewEntry.task[1] = duser /\ NewEntry.task[2] = dlast + 1
      BY <3>1
    <3> QED
      BY <1>1, <2>2, <3>3, <3>4, <3>5 DEF OwnAccounts
  <2> QED
    BY <2>1, <2>2, StreamsGrow, PublishedEntries
<1> QED
  BY <1>3, <1>4

(* Tasks carry accounts of their own user, on the exchanges of their own   *)
(* legs, for any number of users and strategies in any number of messages. *)
THEOREM BindingsAreOwn == DispatchSpec => []BoundAccountsBelongToUser
<1>1. DispatchInit => BindingInv
  BY DEF DispatchInit, BusInit, EmptyBus, DispatcherInit, BindingInv
<1>2. FeederInv /\ BindingInv /\ [DispatchNext]_dispatchVars => BindingInv'
  BY BindingInvNext
<1>3. BindingInv => BoundAccountsBelongToUser
  BY DEF BindingInv, OwnAccounts, BoundAccountsBelongToUser
<1> QED
  BY <1>1, <1>2, <1>3, FeederInvariant, PTL DEF DispatchSpec

-----------------------------------------------------------------------------
(* The fan-out is complete.  As long as no operator changed anything, what *)
(* a message asks for is what it asked for when it was read.               *)
Candidates == _resolve_candidate_user_ids
Wanted(u, m) == IF Servable(u, opps[m]) THEN _iter_matching_strategies(u, opps[m]) ELSE {}
Fanned(u, m, s) ==
    \E i \in DOMAIN execTasks[routes[u]] : execTasks[routes[u]][i].task = <<u, m, s>>

(* What of the message is done: users not in dusers, and of duser the      *)
(* strategies not in dstrats.                                              *)
Ahead(u, s) == u \in dusers \/ (dpc # "user" /\ u = duser /\ s \in dstrats)

FanOutInv ==
    changes = 0 =>
        /\ limit = MaxNotional
        /\ dpc # "blocked"
        /\ dpc \notin {"read", "down", "user"} => /\ dnode = routes[duser]
                                                  /\ routes[duser] \in Nodes
        /\ dpc = "mark" => Fanned(duser, dlast + 1, strategy)
        /\ \A m \in 1..dlast : \A u \in Candidates : \A s \in Wanted(u, m) : Fanned(u, m, s)
        /\ dpc \notin {"read", "down"} =>
              \A u \in Candidates : \A s \in Wanted(u, dlast + 1) :
                  Ahead(u, s) \/ Fanned(u, dlast + 1, s)

(* While nothing is changed, what a message asks for stays the same, and   *)
(* what was handed over stays handed over.                                 *)
LEMMA WantedIsStable ==
    ASSUME FeederInv, [DispatchNext]_dispatchVars, changes' = 0
    PROVE  /\ changes = 0
           /\ UNCHANGED <<limit, routes, enabled>>
           /\ Candidates' = Candidates
           /\ \A u, m : m \in DOMAIN opps => Wanted(u, m)' = Wanted(u, m)
           /\ \A u \in Users : \A m, s :
                 routes[u] \in Nodes /\ Fanned(u, m, s) => Fanned(u, m, s)'
<1>1. changes \in Nat
  BY BusAssumption DEF BusAssumption, FeederInv, DispatchTypeOK, BusTypeOK
<1>2. changes = 0 /\ UNCHANGED <<limit, routes, enabled>>
  <2>1. CASE Admin
    BY <1>1, <2>1 DEF Admin, SetLimit, SetRoute, ToggleAccount, AdminChange
  <2>2. CASE PublishOpportunity \/ UNCHANGED dispatchVars
    BY <2>2 DEF PublishOpportunity, adminVars, dispatchVars, busVars
  <2>3. CASE ReadOpportunity \/ SkipUser \/ TakeUser \/ UserDone \/ EvaluateGuard
             \/ AckOpportunity \/ DispatcherRestart \/ DuplicateTask \/ DispatcherCrash
    BY <2>3 DEF ReadOpportunity, SkipUser, TakeUser, UserDone, EvaluateGuard,
                AckOpportunity, DispatcherRestart, DuplicateTask, DispatcherCrash, Die, busVars
  <2>4. CASE CreateTask \/ MarkBlocked \/ PublishTask \/ MarkDispatched
    BY <2>4 DEF CreateTask, MarkBlocked, PublishTask, MarkDispatched, adminVars
  <2> QED
    BY <2>1, <2>2, <2>3, <2>4 DEF DispatchNext, DispatcherNext, DispatcherStep
<1>3. Candidates' = Candidates
  BY <1>2 DEF Candidates, _resolve_candidate_user_ids, list_dispatchable_user_ids, AccountsOf
<1>4. ASSUME NEW u, NEW m \in DOMAIN opps
      PROVE  Wanted(u, m)' = Wanted(u, m)
  <2>1. opps'[m] = opps[m]
    BY StreamsGrow
  <2> QED
    BY <1>2, <2>1 DEF Wanted, Servable, BindingFor, AccountsOf
<1>5. ASSUME NEW u \in Users, NEW m, NEW s, routes[u] \in Nodes, Fanned(u, m, s)
      PROVE  Fanned(u, m, s)'
  BY <1>2, <1>5, StreamsGrow, PublishedEntries DEF Fanned
<1> QED
  BY <1>2, <1>3, <1>4, <1>5

(* Whoever is wanted is a user with a route.                               *)
LEMMA WantedAreRouted ==
    ASSUME FeederInv, NEW u \in Candidates, NEW m, NEW s \in Wanted(u, m)
    PROVE  u \in Users /\ routes[u] \in Nodes
<1>1. u \in Users
  BY DispatcherAssumption
     DEF Candidates, _resolve_candidate_user_ids, list_dispatchable_user_ids,
         DispatcherAssumption
<1>2. Servable(u, opps[m])
  BY DEF Wanted
<1> QED
  BY <1>1, <1>2 DEF Servable, FeederInv, DispatchTypeOK, BusTypeOK

(* Messages behind the cursor are left alone by every step but the one     *)
(* that moves it.                                                          *)
LEMMA BehindStaysFanned ==
    ASSUME FeederInv, FanOutInv, [DispatchNext]_dispatchVars, changes' = 0,
           NEW m \in 1..dlast, NEW u \in Candidates', NEW s \in Wanted(u, m)'
    PROVE  Fanned(u, m, s)'
<1>1. m \in DOMAIN opps
  BY DEF FeederInv, DispatchTypeOK, BusTypeOK, DispatcherTypeOK, CursorOK
<1>2. changes = 0 /\ u \in Candidates /\ s \in Wanted(u, m)
  BY <1>1, WantedIsStable
<1>3. Fanned(u, m, s) /\ u \in Users /\ routes[u] \in Nodes
  BY <1>2, WantedAreRouted DEF FanOutInv
<1> QED
  BY <1>3, WantedIsStable

(* The message being served: what was wanted and is not ahead is fanned    *)
(* out, so a step only has to account for what leaves Ahead.               *)
LEMMA ServedStaysFanned ==
    ASSUME FeederInv, FanOutInv, [DispatchNext]_dispatchVars, changes' = 0,
           dpc \notin {"read", "down"}, NEW m, m = dlast + 1,
           NEW u \in Candidates', NEW s \in Wanted(u, m)'
    PROVE  /\ u \in Candidates /\ s \in Wanted(u, m) /\ u \in Users
           /\ Ahead(u, s) \/ Fanned(u, m, s)'
<1>1. m \in DOMAIN opps
  BY DEF FeederInv, DispatchTypeOK, BusTypeOK, DispatcherTypeOK, CursorOK
<1>2. changes = 0 /\ u \in Candidates /\ s \in Wanted(u, m)
  BY <1>1, WantedIsStable
<1>3. Ahead(u, s) \/ Fanned(u, m, s)
  BY <1>2 DEF FanOutInv
<1> QED
  BY <1>2, <1>3, WantedAreRouted, WantedIsStable

(* What is ahead stays ahead until its own job is marked: users are skipped *)
(* only if nothing is wanted for them, and taken with all that is.         *)
LEMMA AheadNext ==
    ASSUME [DispatchNext]_dispatchVars,
           dpc \notin {"read", "down"}, dpc' \notin {"read", "down"},
           NEW u, NEW s \in Wanted(u, dlast + 1), Ahead(u, s)
    PROVE  /\ dlast' = dlast
           /\ \/ Ahead(u, s)'
              \/ (MarkBlocked \/ MarkDispatched) /\ u = duser /\ s = strategy
<1>1. CASE SkipUser
  <2>1. u # First(dusers)
    BY <1>1 DEF SkipUser, Wanted, opportunity
  <2> QED
    BY <1>1, <2>1 DEF SkipUser, Ahead
<1>2. CASE TakeUser
  <2>1. u \in dusers
    BY <1>2 DEF TakeUser, Ahead
  <2>2. CASE u = First(dusers)
    <3>1. s \in dstrats' /\ duser' = u /\ dpc' = "strategy" /\ dlast' = dlast
      BY <1>2, <2>2 DEF TakeUser, Wanted, opportunity
    <3> QED
      BY <3>1 DEF Ahead
  <2>3. CASE u # First(dusers)
    BY <1>2, <2>1, <2>3 DEF TakeUser, Ahead
  <2> QED
    BY <2>2, <2>3
<1>3. CASE UserDone
  BY <1>3 DEF UserDone, Ahead
<1>4. CASE CreateTask \/ EvaluateGuard \/ PublishTask \/ UNCHANGED dispatcherVars
  BY <1>4 DEF CreateTask, EvaluateGuard, PublishTask, dispatcherVars, Ahead
<1>5. CASE MarkBlocked \/ MarkDispatched
  <2>1. /\ dpc # "user" /\ dpc' = "strategy" /\ dlast' = dlast
        /\ dusers' = dusers /\ duser' = duser /\ dstrats' = dstrats \ {strategy}
    BY <1>5 DEF MarkBlocked, MarkDispatched
  <2> QED
    BY <1>5, <2>1 DEF Ahead
<1>6. ~(ReadOpportunity \/ DuplicateTask \/ AckOpportunity \/ DispatcherRestart
        \/ DispatcherCrash)
  BY DEF ReadOpportunity, DuplicateTask, AckOpportunity, DispatcherRestart, DispatcherCrash, Die
<1> QED
  BY <1>1, <1>2, <1>3, <1>4, <1>5, <1>6
     DEF DispatchNext, DispatcherNext, DispatcherStep, dispatchVars

(* One part of the invariant after the other, and under the last, one case *)
(* for each step that takes something out of Ahead.                        *)
LEMMA FanOutInvNext ==
    ASSUME FeederInv, FanOutInv, [DispatchNext]_dispatchVars
    PROVE  FanOutInv'
<1> SUFFICES ASSUME changes' = 0
             PROVE  /\ limit' = MaxNotional
                    /\ dpc' # "blocked"
                    /\ dpc' \notin {"read", "down", "user"} =>
                          dnode' = routes'[duser'] /\ routes'[duser'] \in Nodes
                    /\ dpc' = "mark" => Fanned(duser, dlast + 1, strategy)'
                    /\ \A m \in 1..dlast' : \A u \in Candidates' : \A s \in Wanted(u, m)' :
                          Fanned(u, m, s)'
                    /\ dpc' \notin {"read", "down"} =>
                          \A m : m = dlast' + 1 =>
                             \A u \in Candidates' : \A s \in Wanted(u, m)' :
                                Ahead(u, s)' \/ Fanned(u, m, s)'
  BY DEF FanOutInv
<1>1. /\ changes = 0 /\ limit' = limit /\ routes' = routes /\ enabled' = enabled
      /\ Candidates' = Candidates
  BY WantedIsStable
<1>2. limit' = MaxNotional
  BY <1>1 DEF FanOutInv
<1> DEFINE Env == UNCHANGED dispatcherVars
           Next == \/ ReadOpportunity \/ SkipUser \/ TakeUser \/ UserDone
                   \/ CreateTask \/ DuplicateTask \/ EvaluateGuard
                   \/ PublishTask \/ MarkDispatched \/ AckOpportunity
                   \/ DispatcherRestart \/ DispatcherCrash \/ Env
<1>3. Next
  BY <1>1 DEF FanOutInv, DispatchNext, DispatcherNext, DispatcherStep, MarkBlocked, dispatchVars
<1>4. dpc' # "blocked"
  <2>1. CASE EvaluateGuard
    <3>1. requested_notional \in 1..MaxNotional
      BY <2>1, JobType DEF EvaluateGuard, FeederInv, CursorOK
    <3>2. ApprovedNotional(requested_notional) > 0
      BY <1>1, <3>1, BusAssumption DEF FanOutInv, ApprovedNotional, BusAssumption
    <3> QED
      BY <2>1, <3>2 DEF EvaluateGuard
  <2>2. CASE ~EvaluateGuard
    BY <1>1, <1>3, <2>2
       DEF FanOutInv, ReadOpportunity, SkipUser, TakeUser, UserDone, CreateTask, DuplicateTask,
           PublishTask, MarkDispatched, AckOpportunity, DispatcherRestart, DispatcherCrash, Die,
           dispatcherVars
  <2> QED
    BY <2>1, <2>2
<1>5. dpc' \notin {"read", "down", "user"} =>
         dnode' = routes'[duser'] /\ routes'[duser'] \in Nodes
  <2>1. CASE TakeUser
    <3> DEFINE u == First(dusers)
    <3>1. /\ duser' = u /\ dnode' = routes[u] /\ routes[u] # NoNode
          /\ dusers # {}
      BY <2>1 DEF TakeUser, Servable
    <3>2. dusers \in SUBSET Nat /\ dusers \subseteq Users
      BY BusAssumption DEF BusAssumption, FeederInv, DispatchTypeOK, DispatcherTypeOK
    <3>3. u \in Users
      BY <3>1, <3>2, LeastExists
    <3> HIDE DEF u
    <3>4. routes[u] \in Nodes
      BY <3>1, <3>3 DEF FeederInv, DispatchTypeOK, BusTypeOK
    <3> QED
      BY <1>1, <3>1, <3>4
  <2>2. CASE ~TakeUser
    BY <1>1, <1>3, <2>2
       DEF FanOutInv, ReadOpportunity, SkipUser, UserDone, CreateTask, DuplicateTask,
           EvaluateGuard, PublishTask, MarkDispatched, AckOpportunity, DispatcherRestart,
           DispatcherCrash, Die, dispatcherVars
  <2> QED
    BY <2>1, <2>2
<1>6. dpc' = "mark" => Fanned(duser, dlast + 1, strategy)'
  <2>1. CASE PublishTask
    <3>1. /\ duser' = duser /\ dlast' = dlast /\ dstrats' = dstrats
          /\ dnode = routes[duser] /\ dnode \in Nodes
      BY <1>1, <2>1 DEF PublishTask, FanOutInv
    <3>2. NewEntry.task = <<duser, dlast + 1, strategy>> /\ strategy' = strategy
      BY <3>1 DEF NewEntry, job, strategy
    <3> HIDE DEF NewEntry
    <3> QED
      BY <1>1, <2>1, <3>1, <3>2, PublishedEntries DEF Fanned
  <2>2. CASE Env
    <3>1. /\ duser' = duser /\ dlast' = dlast /\ strategy' = strategy /\ dpc' = dpc
      BY <2>2 DEF dispatcherVars, strategy
    <3>2. ASSUME dpc = "mark" PROVE duser \in Users /\ routes[duser] \in Nodes
      BY <1>1, <3>2 DEF FanOutInv, FeederInv, CursorOK
    <3>3. ASSUME NEW u \in Users, NEW m, NEW s, routes[u] \in Nodes, Fanned(u, m, s)
          PROVE  Fanned(u, m, s)'
      BY <3>3, WantedIsStable
    <3>4. ASSUME dpc = "mark" PROVE Fanned(duser, dlast + 1, strategy)
      BY <1>1, <3>4 DEF FanOutInv
    <3>5. ASSUME dpc = "mark" PROVE Fanned(duser, dlast + 1, strategy)'
      <4>1. \E i \in DOMAIN execTasks'[routes'[duser]] :
                execTasks'[routes'[duser]][i].task = <<duser, dlast + 1, strategy>>
        BY <3>2, <3>3, <3>4, <3>5 DEF Fanned
      <4> QED
        BY ONLY <3>1, <4>1 DEF Fanned
    <3> QED
      BY <3>1, <3>5
  <2>3. CASE ~PublishTask /\ ~Env
    BY <1>3, <2>3
       DEF ReadOpportunity, SkipUser, TakeUser, UserDone, CreateTask, DuplicateTask,
           EvaluateGuard, MarkDispatched, AckOpportunity, DispatcherRestart, DispatcherCrash, Die
  <2> QED
    BY <2>1, <2>2, <2>3
<1>7. ASSUME NEW m \in 1..dlast', NEW u \in Candidates', NEW s \in Wanted(u, m)'
      PROVE  Fanned(u, m, s)'
  <2>1. CASE m \in 1..dlast
    BY <2>1, BehindStaysFanned
  <2>2. CASE m \notin 1..dlast
    <3>1. dlast' # dlast /\ dlast \in Nat
      BY <2>2 DEF FeederInv, DispatchTypeOK, DispatcherTypeOK
    <3>2. (dlast' = dlast + 1 /\ dpc = "user" /\ dusers = {}) \/ dlast' = 0
      BY <1>3, <3>1
         DEF ReadOpportunity, SkipUser, TakeUser, UserDone, CreateTask, DuplicateTask,
             EvaluateGuard, PublishTask, MarkDispatched, AckOpportunity, DispatcherRestart,
             DispatcherCrash, Die, dispatcherVars
    <3>3. m = dlast + 1 /\ dpc = "user" /\ dusers = {}
      BY <2>2, <3>1, <3>2
    <3>4. ~Ahead(u, s)
      BY <3>3 DEF Ahead
    <3> QED
      BY <3>3, <3>4, ServedStaysFanned
  <2> QED
    BY <2>1, <2>2
<1>8. ASSUME dpc' \notin {"read", "down"}, NEW m, m = dlast' + 1,
             NEW u \in Candidates', NEW s \in Wanted(u, m)'
      PROVE  Ahead(u, s)' \/ Fanned(u, m, s)'
  <2>1. CASE dpc \in {"read", "down"}
    <3>1. CASE Env
      BY <1>8, <2>1, <3>1 DEF dispatcherVars
    <3>2. CASE ~Env
      <4>1. dusers' = Candidates
        BY <1>3, <1>8, <2>1, <3>2
           DEF Candidates, ReadOpportunity, SkipUser, TakeUser, UserDone, CreateTask,
               DuplicateTask, EvaluateGuard, PublishTask, MarkDispatched, AckOpportunity,
               DispatcherRestart, DispatcherCrash, Die
      <4> QED
        BY <1>1, <4>1 DEF Ahead
    <3> QED
      BY <3>1, <3>2
  <2>2. CASE dpc \notin {"read", "down"}
    <3>1. dlast' = dlast
      BY <1>3, <1>8, <2>2
         DEF ReadOpportunity, SkipUser, TakeUser, UserDone, CreateTask, DuplicateTask,
             EvaluateGuard, PublishTask, MarkDispatched, AckOpportunity, DispatcherRestart,
             DispatcherCrash, Die, dispatcherVars
    <3>2. /\ s \in Wanted(u, m) /\ u \in Users
          /\ Ahead(u, s) \/ Fanned(u, m, s)'
      BY <1>8, <2>2, <3>1, ServedStaysFanned
    <3>3. CASE Ahead(u, s) /\ ~Ahead(u, s)'
      <4>1. MarkDispatched /\ u = duser /\ s = strategy
        BY <1>1, <1>8, <2>2, <3>1, <3>2, <3>3, AheadNext DEF MarkBlocked, FanOutInv
      <4>2. Fanned(u, m, s) /\ routes[u] \in Nodes
        BY <1>1, <1>8, <3>1, <4>1 DEF FanOutInv, MarkDispatched
      <4> QED
        BY <3>2, <4>2, WantedIsStable
    <3> QED
      BY <3>2, <3>3
  <2> QED
    BY <2>1, <2>2
<1> QED
  BY <1>2, <1>4, <1>5, <1>6, <1>7, <1>8

LEMMA BehindIsFannedOut == ASSUME FanOutInv PROVE AckedMessageFannedOut
BY DEF FanOutInv, AckedMessageFannedOut, Candidates, Wanted, Fanned

(* Nobody is forgotten: with the database or without, and after any number *)
(* of restarts, a message behind the cursor was handed to every node it is *)
(* for, as long as operators leave things alone.                           *)
THEOREM MessagesAreFannedOut == DispatchSpec => []AckedMessageFannedOut
<1>1. DispatchInit => FanOutInv
  BY DEF DispatchInit, BusInit, EmptyBus, DispatcherInit, FanOutInv
<1>2. FeederInv /\ FanOutInv /\ [DispatchNext]_dispatchVars => FanOutInv'
  BY FanOutInvNext
<1>3. FanOutInv => AckedMessageFannedOut
  BY BehindIsFannedOut
<1> QED
  BY <1>1, <1>2, <1>3, FeederInvariant, PTL DEF DispatchSpec

-----------------------------------------------------------------------------
(* No task is left half-way.  While nothing has failed, the only row that  *)
(* is still CREATED is the job's.  While nothing was changed, every row is *)
(* of a task its message still asks for, and one that is CREATED is not    *)
(* behind the place the dispatcher is at.                                  *)
NameOf(t) == <<t[1], t[2], t[3]>>
Created(t) == t \in DOMAIN tasks /\ tasks[t].status = "CREATED"

OnlyJobCreated == dfail = 0 => \A t \in DOMAIN tasks : Created(t) => dpc \in Working /\ t = job

RowsAreWanted ==
    changes = 0 =>
        /\ \A t \in DOMAIN tasks :
              /\ t = NameOf(t)
              /\ t[2] \in DOMAIN opps /\ t[1] \in Candidates /\ t[3] \in Wanted(t[1], t[2])
        /\ dpc \notin {"read", "down", "user"} =>
              duser \in Candidates /\ dstrats \subseteq Wanted(duser, dlast + 1)
        /\ dpc # "read" => dusers \subseteq Candidates

TornAreAhead ==
    changes = 0 =>
        \A t \in DOMAIN tasks : Created(t) =>
            /\ t[2] > dlast
            /\ dpc \notin {"read", "down"} /\ t[2] = dlast + 1 => Ahead(t[1], t[3])

SettledInv == OnlyJobCreated /\ RowsAreWanted /\ TornAreAhead

(* Only three steps write rows, and of the rows there are only the job's.  *)
LEMMA RowsOfStep ==
    ASSUME FeederInv, [DispatchNext]_dispatchVars
    PROVE  \/ tasks' = tasks
           \/ /\ CreateTask
              /\ DOMAIN tasks' = DOMAIN tasks \cup {job}
              /\ \A t \in DOMAIN tasks : tasks'[t] = tasks[t]
           \/ /\ MarkBlocked \/ MarkDispatched
              /\ job \in DOMAIN tasks
              /\ DOMAIN tasks' = DOMAIN tasks
              /\ \A t \in DOMAIN tasks : t # job => tasks'[t] = tasks[t]
              /\ tasks'[job].status # "CREATED"
<1>1. TasksTypeOK
  BY DEF FeederInv, DispatchTypeOK, BusTypeOK
<1>2. CASE CreateTask
  <2>1. CASE DatabaseEnabled
    <3>1. job \in TaskIds
      BY <1>2, JobType DEF CreateTask, FeederInv
    <3> QED
      BY <1>1, <1>2, <2>1, <3>1, CreateTaskRow DEF CreateTask
  <2>2. CASE ~DatabaseEnabled
    BY <1>2, <2>2 DEF CreateTask
  <2> QED
    BY <2>1, <2>2
<1>3. CASE MarkBlocked
  BY <1>1, <1>3, MarkBlockedRow DEF MarkBlocked, OnlyRowChanges
<1>4. CASE MarkDispatched
  BY <1>1, <1>4, MarkDispatchedRow DEF MarkDispatched, OnlyRowChanges
<1>5. CASE ReadOpportunity \/ SkipUser \/ TakeUser \/ UserDone \/ EvaluateGuard
           \/ AckOpportunity \/ DispatcherRestart \/ DuplicateTask \/ DispatcherCrash
  BY <1>5 DEF ReadOpportunity, SkipUser, TakeUser, UserDone, EvaluateGuard,
              AckOpportunity, DispatcherRestart, DuplicateTask, DispatcherCrash, Die, busVars
<1>6. CASE PublishTask \/ PublishOpportunity \/ Admin \/ UNCHANGED dispatchVars
  BY <1>6 DEF PublishTask, PublishOpportunity, Admin, SetLimit, SetRoute, ToggleAccount,
              AdminChange, dispatchVars, busVars
<1> QED
  BY <1>2, <1>3, <1>4, <1>5, <1>6 DEF DispatchNext, DispatcherNext, DispatcherStep

(* A job without a failure so far is either made, or marked, or waits.  A  *)
(* key that exists already is, without a failure, not CREATED.             *)
LEMMA OnlyJobCreatedNext ==
    ASSUME FeederInv, OnlyJobCreated, [DispatchNext]_dispatchVars
    PROVE  OnlyJobCreated'
<1> SUFFICES ASSUME dfail' = 0, NEW t \in DOMAIN tasks', tasks'[t].status = "CREATED"
             PROVE  dpc' \in Working /\ t = job'
  BY DEF OnlyJobCreated, Created
<1>1. dfail = 0 /\ ~DispatcherCrash
  <2>1. dfail \in Nat
    BY DispatcherAssumption
       DEF DispatcherAssumption, FeederInv, DispatchTypeOK, DispatcherTypeOK
  <2> QED
    BY <2>1
       DEF DispatchNext, DispatcherNext, DispatcherStep, DispatcherCrash, ReadOpportunity,
           SkipUser, TakeUser, UserDone, CreateTask, DuplicateTask, EvaluateGuard, MarkBlocked,
           PublishTask, MarkDispatched, AckOpportunity, DispatcherRestart, dispatchVars,
           dispatcherVars
<1>2. CASE CreateTask
  <2>1. dpc = "strategy" /\ dpc' = "guard" /\ job' = job
    BY <1>2 DEF CreateTask, job, strategy
  <2>2. t # job => t \in DOMAIN tasks /\ tasks'[t] = tasks[t]
    BY <1>2, <2>1, RowsOfStep DEF MarkBlocked, MarkDispatched
  <2> QED
    BY <1>1, <2>1, <2>2 DEF OnlyJobCreated, Created, Working
<1>3. CASE MarkBlocked \/ MarkDispatched
  <2>1. dpc \in {"blocked", "mark"}
    BY <1>3 DEF MarkBlocked, MarkDispatched
  <2>2. t \in DOMAIN tasks /\ (t # job \/ tasks' = tasks => tasks'[t] = tasks[t])
    BY <2>1, RowsOfStep DEF CreateTask
  <2>3. t # job
    <3>1. CASE DatabaseEnabled
      BY <1>3, <3>1, MarkBlockedRow, MarkDispatchedRow
         DEF MarkBlocked, MarkDispatched, FeederInv, DispatchTypeOK, BusTypeOK
    <3>2. CASE ~DatabaseEnabled
      BY <2>2, <3>2 DEF FeederInv, NoDatabaseNoRows
    <3> QED
      BY <3>1, <3>2
  <2> QED
    BY <1>1, <2>2, <2>3 DEF OnlyJobCreated, Created
<1>4. CASE ~CreateTask /\ ~MarkBlocked /\ ~MarkDispatched
  <2>1. dpc \in Working /\ t = job
    BY <1>1, <1>4, RowsOfStep DEF OnlyJobCreated, Created
  <2>2. EvaluateGuard \/ PublishTask \/ UNCHANGED dispatcherVars
    BY <1>1, <1>4, <2>1
       DEF DispatchNext, DispatcherNext, DispatcherStep, ReadOpportunity, SkipUser, TakeUser,
           UserDone, DuplicateTask, AckOpportunity, DispatcherRestart, dispatchVars, Working
  <2>3. job' = job /\ dpc' \in Working
    BY <2>1, <2>2 DEF EvaluateGuard, PublishTask, dispatcherVars, job, strategy, Working
  <2> QED
    BY <2>1, <2>3
<1> QED
  BY <1>2, <1>3, <1>4

LEMMA RowsAreWantedNext ==
    ASSUME FeederInv, RowsAreWanted, [DispatchNext]_dispatchVars
    PROVE  RowsAreWanted'
<1> SUFFICES ASSUME changes' = 0
             PROVE  /\ \A t \in DOMAIN tasks' :
                          /\ t = NameOf(t)
                          /\ t[2] \in DOMAIN opps' /\ t[1] \in Candidates'
                          /\ t[3] \in Wanted(t[1], t[2])'
                    /\ dpc' \notin {"read", "down", "user"} =>
                          \A u, m : u = duser' /\ m = dlast' + 1 =>
                             u \in Candidates' /\ dstrats' \subseteq Wanted(u, m)'
                    /\ dpc' # "read" => dusers' \subseteq Candidates'
  BY DEF RowsAreWanted, NameOf, Wanted, Servable, BindingFor
<1>1. changes = 0 /\ Candidates' = Candidates
  BY WantedIsStable
<1>2. \A m \in DOMAIN opps : m \in DOMAIN opps' /\ \A u : Wanted(u, m)' = Wanted(u, m)
  BY StreamsGrow, WantedIsStable
<1>3. dpc \notin {"read", "down"} => dlast + 1 \in DOMAIN opps
  BY DEF FeederInv, DispatchTypeOK, BusTypeOK, DispatcherTypeOK, CursorOK
<1>4. ASSUME NEW t \in DOMAIN tasks'
      PROVE  /\ t = NameOf(t)
             /\ t[2] \in DOMAIN opps' /\ t[1] \in Candidates'
             /\ t[3] \in Wanted(t[1], t[2])'
  <2>1. CASE t \in DOMAIN tasks
    BY <1>1, <1>2, <2>1 DEF RowsAreWanted
  <2>2. CASE t \notin DOMAIN tasks
    <3>1. CreateTask /\ t = job
      BY <2>2, RowsOfStep
    <3>2. strategy \in dstrats
      BY <3>1, JobType DEF CreateTask, FeederInv
    <3>3. t[1] = duser /\ t[2] = dlast + 1 /\ t[3] = strategy /\ t = NameOf(t)
      BY <3>1 DEF job, NameOf
    <3> QED
      BY <1>1, <1>2, <1>3, <3>1, <3>2, <3>3 DEF CreateTask, RowsAreWanted
  <2> QED
    BY <2>1, <2>2
<1>5. ASSUME dpc' \notin {"read", "down", "user"},
             NEW u, u = duser', NEW m, m = dlast' + 1
      PROVE  u \in Candidates' /\ dstrats' \subseteq Wanted(u, m)'
  <2>1. CASE TakeUser
    <3>1. /\ dusers # {} /\ dpc = "user" /\ m = dlast + 1
          /\ u = First(dusers) /\ dstrats' = Wanted(u, m)
      BY <1>5, <2>1 DEF TakeUser, Wanted, opportunity
    <3>2. u \in dusers
      BY <3>1, BusAssumption, LeastExists
         DEF BusAssumption, FeederInv, DispatchTypeOK, DispatcherTypeOK
    <3> QED
      BY <1>1, <1>2, <1>3, <3>1, <3>2 DEF RowsAreWanted
  <2>2. CASE ~TakeUser
    <3>1. /\ dpc \notin {"read", "down", "user"}
          /\ dlast' = dlast /\ duser' = duser /\ dstrats' \subseteq dstrats
      BY <1>5, <2>2
         DEF DispatchNext, DispatcherNext, DispatcherStep, dispatchVars, dispatcherVars,
             ReadOpportunity, SkipUser, UserDone, CreateTask, DuplicateTask, EvaluateGuard,
             MarkBlocked, PublishTask, MarkDispatched, AckOpportunity, DispatcherRestart,
             DispatcherCrash, Die
    <3> QED
      BY <1>1, <1>2, <1>3, <1>5, <3>1 DEF RowsAreWanted
  <2> QED
    BY <2>1, <2>2
<1>6. dpc' # "read" => dusers' \subseteq Candidates'
  <2>1. CASE ReadOpportunity
    BY <1>1, <2>1 DEF ReadOpportunity, Candidates
  <2>2. CASE ~ReadOpportunity
    BY <1>1, <2>2
       DEF RowsAreWanted, DispatchNext, DispatcherNext, DispatcherStep, dispatchVars,
           dispatcherVars, SkipUser, TakeUser, UserDone, CreateTask, DuplicateTask,
           EvaluateGuard, MarkBlocked, PublishTask, MarkDispatched, AckOpportunity,
           DispatcherRestart, DispatcherCrash, Die
  <2> QED
    BY <2>1, <2>2
<1> QED
  BY <1>4, <1>5, <1>6

LEMMA TornAreAheadNext ==
    ASSUME FeederInv, RowsAreWanted, TornAreAhead, [DispatchNext]_dispatchVars
    PROVE  TornAreAhead'
<1> SUFFICES ASSUME changes' = 0, NEW t \in DOMAIN tasks', tasks'[t].status = "CREATED"
             PROVE  /\ t[2] > dlast'
                    /\ dpc' \notin {"read", "down"} /\ t[2] = dlast' + 1 => Ahead(t[1], t[3])'
  BY DEF TornAreAhead, Created, Ahead
<1>1. changes = 0 /\ Candidates' = Candidates
  BY WantedIsStable
<1>2. dlast \in Nat /\ opps \in Seq(Opportunities)
  BY DEF FeederInv, DispatchTypeOK, BusTypeOK, DispatcherTypeOK
<1>3. CASE t \notin DOMAIN tasks
  <2>1. CreateTask /\ t = job
    BY <1>3, RowsOfStep
  <2>2. strategy \in dstrats
    BY <2>1, JobType DEF CreateTask, FeederInv
  <2> QED
    BY <1>2, <2>1, <2>2 DEF CreateTask, job, Ahead
<1>4. CASE t \in DOMAIN tasks
  <2>1. Created(t) /\ (MarkBlocked \/ MarkDispatched => t # job)
    <3>1. CASE tasks' = tasks
      <4>1. MarkBlocked \/ MarkDispatched => ~DatabaseEnabled
        BY <3>1, MarkBlockedRow, MarkDispatchedRow
           DEF MarkBlocked, MarkDispatched, FeederInv, DispatchTypeOK, BusTypeOK, JobPhase
      <4> QED
        BY <1>4, <3>1, <4>1 DEF Created, FeederInv, NoDatabaseNoRows
    <3>2. CASE tasks' # tasks
      BY <1>4, <3>2, RowsOfStep DEF Created, CreateTask, MarkBlocked, MarkDispatched
    <3> QED
      BY <3>1, <3>2
  <2>2. /\ t = NameOf(t)
        /\ t[2] \in DOMAIN opps /\ t[1] \in Candidates /\ t[3] \in Wanted(t[1], t[2])
        /\ t[2] \in Nat \ {0} /\ t[2] > dlast
        /\ dpc \notin {"read", "down"} /\ t[2] = dlast + 1 => Ahead(t[1], t[3])
    BY <1>1, <1>2, <1>4, <2>1 DEF RowsAreWanted, TornAreAhead
  <2>3. t[2] > dlast'
    <3>1. CASE AckOpportunity
      BY <1>2, <2>2, <3>1 DEF AckOpportunity, Ahead
    <3>2. CASE ~AckOpportunity
      <4>1. dlast' \in {0, dlast}
        BY <3>2
           DEF DispatchNext, DispatcherNext, DispatcherStep, dispatchVars, dispatcherVars,
               ReadOpportunity, SkipUser, TakeUser, UserDone, CreateTask, DuplicateTask,
               EvaluateGuard, MarkBlocked, PublishTask, MarkDispatched, DispatcherRestart,
               DispatcherCrash, Die
      <4> QED
        BY <2>2, <4>1
    <3> QED
      BY <3>1, <3>2
  <2>4. ASSUME dpc' \notin {"read", "down"}, t[2] = dlast' + 1
        PROVE  Ahead(t[1], t[3])'
    <3>1. CASE dpc \in {"read", "down"}
      <4>1. dusers' = Candidates
        BY <2>4, <3>1
           DEF Candidates, DispatchNext, DispatcherNext, DispatcherStep, dispatchVars,
               dispatcherVars, ReadOpportunity, SkipUser, TakeUser, UserDone, CreateTask,
               DuplicateTask, EvaluateGuard, MarkBlocked, PublishTask, MarkDispatched,
               AckOpportunity, DispatcherRestart, DispatcherCrash, Die
      <4> QED
        BY <2>2, <4>1 DEF Ahead
    <3>2. CASE dpc \notin {"read", "down"}
      <4>1. dlast' = dlast
        BY <2>4, <3>2
           DEF DispatchNext, DispatcherNext, DispatcherStep, dispatchVars, dispatcherVars,
               ReadOpportunity, SkipUser, TakeUser, UserDone, CreateTask, DuplicateTask,
               EvaluateGuard, MarkBlocked, PublishTask, MarkDispatched, AckOpportunity,
               DispatcherRestart, DispatcherCrash, Die
      <4>2. t[3] \in Wanted(t[1], dlast + 1) /\ Ahead(t[1], t[3])
        BY <2>2, <2>4, <3>2, <4>1
      <4>3. CASE (MarkBlocked \/ MarkDispatched) /\ t[1] = duser /\ t[3] = strategy
        BY <2>1, <2>2, <2>4, <4>1, <4>3 DEF NameOf, job
      <4> QED
        BY <2>4, <3>2, <4>2, <4>3, AheadNext
    <3> QED
      BY <3>1, <3>2
  <2> QED
    BY <2>3, <2>4
<1> QED
  BY <1>3, <1>4

LEMMA BehindIsSettled == ASSUME FeederInv, SettledInv PROVE AckedTasksSettled
<1> SUFFICES ASSUME FeederInv, SettledInv, dfail = 0 \/ changes = 0,
                    NEW t \in DOMAIN tasks, t[2] <= dlast, tasks[t].status = "CREATED"
             PROVE  FALSE
  BY DEF AckedTasksSettled
<1>1. dlast \in Nat
  BY DEF FeederInv, DispatchTypeOK, DispatcherTypeOK
<1>2. CASE dfail = 0
  <2>1. t = job
    BY <1>2 DEF SettledInv, OnlyJobCreated, Created
  <2> QED
    BY <1>1, <2>1 DEF job
<1>3. CASE changes = 0
  <2>1. t[2] > dlast /\ t[2] \in DOMAIN opps
    BY <1>3 DEF SettledInv, RowsAreWanted, TornAreAhead, Created
  <2> QED
    BY <1>1, <2>1 DEF FeederInv, DispatchTypeOK, BusTypeOK
<1> QED
  BY <1>2, <1>3

(* Behind the cursor no task has a row and neither a message nor a block,  *)
(* if there was no failure or no change so far: for any number of crashes  *)
(* without a change, and any number of changes without a crash.            *)
THEOREM AckedTasksAreSettled == DispatchSpec => []AckedTasksSettled
<1>1. DispatchInit => SettledInv
  BY DEF DispatchInit, BusInit, EmptyBus, DispatcherInit, TasksInit, SettledInv,
         OnlyJobCreated, RowsAreWanted, TornAreAhead
<1>2. FeederInv /\ SettledInv /\ [DispatchNext]_dispatchVars => SettledInv'
  BY OnlyJobCreatedNext, RowsAreWantedNext, TornAreAheadNext DEF SettledInv
<1>3. FeederInv /\ SettledInv => AckedTasksSettled
  BY BehindIsSettled
<1> QED
  BY <1>1, <1>2, <1>3, FeederInvariant, PTL DEF DispatchSpec
=============================================================================
