------------------------------- MODULE TaskBus -------------------------------
(***************************************************************************)
(* What the worker processes share: the Redis streams they hand work       *)
(* through, the task table, the control limit, the user -> node routes,    *)
(* the enabled exchange accounts, and the exchanges the orders end up on.  *)
(* Every worker module extends this one and brings its private state.      *)
(*                                                                         *)
(* A stream is append-only (XADD, nothing trims it) and a message id is    *)
(* its position; a worker's in-memory last_id is a cursor, 0 for "0-0".    *)
(***************************************************************************)
EXTENDS TaskRepository, AccountSelection, Integers

CONSTANTS
    Users,           \* user ids, positive numbers (the repositories order by id)
    Nodes,           \* execution nodes
    Accounts,        \* every exchange account in the database
    Opportunities,   \* what the scanner may find
    MaxNotional,     \* the largest notional in the model
    MaxOpps,         \* bound: opportunities the scanner publishes
    MaxAdminChanges, \* bound: operator changes during a behaviour
    AdminLimits,     \* the limits an operator may set
    AdminRoutes,     \* the nodes an operator may route a user to
    AdminAccounts    \* the accounts an operator may enable or disable

NoNode == "no_node"
Sides == {"buy", "sell"}

ASSUME BusAssumption ==
    /\ Users \subseteq Nat \ {0}
    /\ MaxNotional \in Nat
    /\ MaxOpps \in Nat
    /\ MaxAdminChanges \in Nat
    /\ AdminLimits \subseteq 0..MaxNotional
    /\ AdminRoutes \subseteq Nodes \cup {NoNode}
    /\ AdminAccounts \subseteq Accounts
    /\ Opportunities \subseteq [symbol : STRING, buy_exchange : Exchanges,
                                sell_exchange : Exchanges, spread_bps : Int,
                                target_quote_amount : 1..MaxNotional]

VARIABLES
    opps,         \* stream:spot_opps
    execTasks,    \* stream:spot_exec_tasks:<node>, per node
    repairTasks,  \* stream:repair_tasks:<region>
    limit,        \* the smallest limit rule in force, 0 under reduce_only
    routes,       \* route:user_node:<user>
    enabled,      \* exchange_accounts with is_enabled
    changes,      \* operator changes so far
    orders,       \* orders the executors placed: (task, exchange, side) -> count
    repairs       \* orders the repair worker placed, likewise

busVars == <<tasks, opps, execTasks, repairTasks, limit, routes, enabled, changes,
             orders, repairs>>
streamVars == <<opps, execTasks, repairTasks>>
adminVars == <<limit, routes, enabled, changes>>
orderVars == <<orders, repairs>>

AccountIds == {0} \cup {a.id : a \in Accounts}

ExecEntry == [task : TaskIds, buy_exchange : Exchanges, sell_exchange : Exchanges,
              target_quote_amount : 1..MaxNotional,
              buy_account : AccountIds, sell_account : AccountIds]

RepairEntry == [task : TaskIds, buy_exchange : Exchanges, sell_exchange : Exchanges,
                execution_status : {"OPEN_HEDGED", "OPEN_PARTIAL"},
                repair_action : {"NONE", "AUTO_HEDGE_REPAIRING"},
                target_exchanges : Seq(Exchanges)]

(* The node streams hold a task at most once as long as the dispatcher     *)
(* creates its row first, and under a unique key.                          *)
Published(t) == \E n \in Nodes : \E i \in DOMAIN execTasks[n] : execTasks[n][i].task = t

BusTypeOK ==
    /\ TasksTypeOK
    /\ opps \in Seq(Opportunities)
    /\ execTasks \in [Nodes -> Seq(ExecEntry)]
    /\ repairTasks \in Seq(RepairEntry)
    /\ limit \in 0..MaxNotional
    /\ routes \in [Users -> Nodes \cup {NoNode}]
    /\ enabled \subseteq Accounts
    /\ changes \in 0..MaxAdminChanges
    /\ orders \in [TaskIds \X Exchanges \X Sides -> Nat]
    /\ repairs \in [TaskIds \X Exchanges \X Sides -> Nat]

NoOrders == [k \in TaskIds \X Exchanges \X Sides |-> 0]

(* No stream has an entry; every account is enabled and no rule limits     *)
(* anything until an operator says so.                                     *)
EmptyBus ==
    /\ TasksInit
    /\ opps = <<>>
    /\ execTasks = [n \in Nodes |-> <<>>]
    /\ repairTasks = <<>>
    /\ limit = MaxNotional
    /\ enabled = Accounts
    /\ changes = 0
    /\ orders = NoOrders
    /\ repairs = NoOrders

(* Every user is routed.                                                   *)
BusInit == EmptyBus /\ routes \in [Users -> Nodes]

-----------------------------------------------------------------------------
(* MarketOpportunityPublisher.publish: the ranking set is not read by any  *)
(* worker; the XADD is what the dispatcher sees.                           *)
PublishOpportunity ==
    /\ Len(opps) < MaxOpps
    /\ \E o \in Opportunities : opps' = Append(opps, o)
    /\ UNCHANGED <<tasks, execTasks, repairTasks, adminVars, orderVars>>

(* ControlPlane.evaluate_open_request: reduce_only or an exhausted limit   *)
(* approve 0, which every caller reads as "not allowed".                   *)
ApprovedNotional(requested) == IF requested <= limit THEN requested ELSE limit

(* The operator's side: the control and route admin services write Redis,  *)
(* accounts are edited in the database.                                    *)
AdminChange ==
    /\ changes < MaxAdminChanges
    /\ changes' = changes + 1
    /\ UNCHANGED <<tasks, streamVars, orderVars>>

SetLimit ==
    /\ AdminChange
    /\ limit' \in AdminLimits
    /\ UNCHANGED <<routes, enabled>>

SetRoute ==
    /\ AdminChange
    /\ \E u \in Users, n \in AdminRoutes : routes' = [routes EXCEPT ![u] = n]
    /\ UNCHANGED <<limit, enabled>>

ToggleAccount ==
    /\ AdminChange
    /\ \E a \in AdminAccounts :
          enabled' = IF a \in enabled THEN enabled \ {a} ELSE enabled \cup {a}
    /\ UNCHANGED <<limit, routes>>

Admin == SetLimit \/ SetRoute \/ ToggleAccount
=============================================================================
