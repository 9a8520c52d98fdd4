----------------------------- MODULE Dispatcher -----------------------------
(***************************************************************************)
(* RedisNodeTaskDispatcher (app/runtime/live_workers.py): one process that *)
(* reads stream:spot_opps and fans every opportunity out into one task per *)
(* user and matching strategy, on the stream of the user's node.           *)
(*                                                                         *)
(* Each action is what the coroutine does between two writes another       *)
(* process can see.  run() catches nothing: a Redis, database or notifier  *)
(* error in any step leaves the process dead, systemd starts it again with *)
(* last_id = "0-0", and the opportunities are read again from the start.   *)
(***************************************************************************)
EXTENDS TaskBus

CONSTANTS
    StrategyConfigs,       \* enabled strategy_configs rows
    TradingUsers,          \* users with is_trading_enabled
    DispatchUserIds,       \* settings.dispatch_user_ids
    DispatcherRegion,      \* settings.worker_region of the dispatcher
    DatabaseEnabled,       \* settings.database_enabled
    MaxDispatcherFailures  \* bound: errors that kill the dispatcher

StrategyIds == {0} \cup {s.id : s \in StrategyConfigs}
NoUser == 0

ASSUME DispatcherAssumption ==
    /\ MaxDispatcherFailures \in Nat
    /\ DatabaseEnabled \in BOOLEAN
    /\ DispatchUserIds \subseteq Users
    /\ TradingUsers \subseteq Users
    /\ \A s \in StrategyConfigs : /\ s.id \in Nat \ {0}
                                  /\ s.user_id \in Users
                                  /\ s.target_quote_amount \in 1..MaxNotional
    /\ \A r, s \in StrategyConfigs : r.id = s.id => r = s
    /\ \A a \in Accounts : a.id \in Nat \ {0}
    /\ Users \X (1..MaxOpps) \X StrategyIds \subseteq TaskIds

VARIABLES
    dpc,       \* what run() does next
    dlast,     \* last_id
    dusers,    \* candidate users still to visit for this message
    duser,     \* the user being served
    dnode,     \* and the node the route lookup returned
    dbinding,  \* and the accounts bound to the legs
    dstrats,   \* strategies (ids, 0 for None) still to serve for duser
    damount,   \* the approved notional
    dfail      \* failures so far

dispatcherVars == <<dpc, dlast, dusers, duser, dnode, dbinding, dstrats, damount, dfail>>

DispatcherTypeOK ==
    /\ dpc \in {"read", "user", "strategy", "guard", "blocked", "publish", "mark", "down"}
    /\ dlast \in 0..MaxOpps
    /\ dusers \subseteq Users
    /\ duser \in Users \cup {NoUser}
    /\ dnode \in Nodes \cup {NoNode}
    /\ dbinding \in [buy_account : AccountIds, sell_account : AccountIds]
    /\ dstrats \subseteq StrategyIds
    /\ damount \in 0..MaxNotional
    /\ dfail \in 0..MaxDispatcherFailures

DispatcherInit ==
    /\ dpc = "read"
    /\ dlast = 0
    /\ dusers = {}
    /\ duser = NoUser
    /\ dnode = NoNode
    /\ dbinding = NoBinding
    /\ dstrats = {}
    /\ damount = 0
    /\ dfail = 0

-----------------------------------------------------------------------------
First(S) == CHOOSE x \in S : \A y \in S : x <= y

opportunity == opps[dlast + 1]

AccountsOf_Anyone(u) == enabled   \* mutant: the user filter is forgotten
AccountsOf(u) == {a \in enabled : a.user = u}
StrategiesOf(u) == {s \in StrategyConfigs : s.user_id = u}

(* list_dispatchable_user_ids: trading enabled, an enabled account and an  *)
(* enabled strategy.                                                       *)
list_dispatchable_user_ids ==
    {u \in TradingUsers : AccountsOf(u) # {} /\ StrategiesOf(u) # {}}

_resolve_candidate_user_ids ==
    IF ~DatabaseEnabled THEN DispatchUserIds
    ELSE IF DispatchUserIds = {} THEN list_dispatchable_user_ids
    ELSE DispatchUserIds \cap list_dispatchable_user_ids

(* Mutant: every strategy of the user's matches.                           *)
_iter_matching_strategies_Any(u, o) ==
    IF ~DatabaseEnabled THEN {0} ELSE {s.id : s \in StrategiesOf(u)}

_iter_matching_strategies(u, o) ==
    IF ~DatabaseEnabled THEN {0}
    ELSE {s.id : s \in {r \in StrategiesOf(u) : _matches_strategy(o, r)}}

BindingFor(u, o) ==
    IF ~DatabaseEnabled THEN NoBinding
    ELSE _select_bound_accounts(o.buy_exchange, o.sell_exchange,
                                AccountsOf(u), DispatcherRegion)

(* The checks a user passes before any task is created for it.             *)
Servable(u, o) ==
    /\ routes[u] # NoNode
    /\ DatabaseEnabled =>
          /\ _evaluate_account_exchange_coverage({o.buy_exchange, o.sell_exchange},
                                                 AccountsOf(u), DispatcherRegion)
                = "covered"
          /\ BindingFor(u, o) # NoBinding

(* The strategy the inner loop is at, and the task it stands for.          *)
strategy == First(dstrats)
job == <<duser, dlast + 1, strategy>>
requested_notional ==
    IF strategy = 0 THEN opportunity.target_quote_amount
    ELSE (CHOOSE s \in StrategyConfigs : s.id = strategy).target_quote_amount

-----------------------------------------------------------------------------
(* XREAD count=1 after last_id; the candidate users are read from the      *)
(* database at once.                                                       *)
ReadOpportunity ==
    /\ dpc = "read"
    /\ dlast < Len(opps)
    /\ dpc' = "user"
    /\ dusers' = _resolve_candidate_user_ids
    /\ UNCHANGED <<busVars, dlast, duser, dnode, dbinding, dstrats, damount, dfail>>

(* A user without a route or without covered accounts is skipped.          *)
SkipUser ==
    /\ dpc = "user"
    /\ dusers # {}
    /\ ~Servable(First(dusers), opportunity)
    /\ dusers' = dusers \ {First(dusers)}
    /\ UNCHANGED <<busVars, dpc, dlast, duser, dnode, dbinding, dstrats, damount, dfail>>

TakeUser ==
    /\ dpc = "user"
    /\ dusers # {}
    /\ Servable(First(dusers), opportunity)
    /\ dpc' = "strategy"
    /\ duser' = First(dusers)
    /\ dusers' = dusers \ {First(dusers)}
    /\ dnode' = routes[First(dusers)]
    /\ dbinding' = BindingFor(First(dusers), opportunity)
    /\ dstrats' = _iter_matching_strategies(First(dusers), opportunity)
    /\ UNCHANGED <<busVars, dlast, damount, dfail>>

UserDone ==
    /\ dpc = "strategy"
    /\ dstrats = {}
    /\ dpc' = "user"
    /\ duser' = NoUser
    /\ dnode' = NoNode
    /\ dbinding' = NoBinding
    /\ UNCHANGED <<busVars, dlast, dusers, dstrats, damount, dfail>>

(* create_task commits the row before the control rules are looked at.     *)
CreateTask ==
    /\ dpc = "strategy"
    /\ dstrats # {}
    /\ IF DatabaseEnabled THEN create_task(job) ELSE UNCHANGED tasks
    /\ dpc' = "guard"
    /\ UNCHANGED <<streamVars, adminVars, orderVars,
                   dlast, dusers, duser, dnode, dbinding, dstrats, damount, dfail>>

(* A dead process has no memory: last_id and every local are gone.         *)
Die ==
    /\ dpc' = "down"
    /\ dlast' = 0
    /\ dusers' = {}
    /\ duser' = NoUser
    /\ dnode' = NoNode
    /\ dbinding' = NoBinding
    /\ dstrats' = {}
    /\ damount' = 0
    /\ UNCHANGED busVars

(* Mutants: the error is caught, and the task skipped or sent again.       *)
DuplicateTask_Skip ==
    /\ dpc = "strategy"
    /\ dstrats # {}
    /\ job \in DOMAIN tasks
    /\ dstrats' = dstrats \ {strategy}
    /\ UNCHANGED <<busVars, dpc, dlast, dusers, duser, dnode, dbinding, damount, dfail>>

DuplicateTask_Resend ==
    /\ dpc = "strategy"
    /\ dstrats # {}
    /\ job \in DOMAIN tasks
    /\ dpc' = "guard"
    /\ UNCHANGED <<busVars, dlast, dusers, duser, dnode, dbinding, dstrats, damount, dfail>>

(* The row is there already: IntegrityError, and nothing catches it.       *)
DuplicateTask ==
    /\ dpc = "strategy"
    /\ dstrats # {}
    /\ DatabaseEnabled
    /\ job \in DOMAIN tasks
    /\ Die
    /\ UNCHANGED dfail

EvaluateGuard ==
    /\ dpc = "guard"
    /\ LET approved == ApprovedNotional(requested_notional)
       IN  /\ dpc' = IF approved > 0 THEN "publish" ELSE "blocked"
           /\ damount' = approved
    /\ UNCHANGED <<busVars, dlast, dusers, duser, dnode, dbinding, dstrats, dfail>>

(* Mutant: the continue after mark_blocked is missing.                     *)
MarkBlocked_FallThrough ==
    /\ dpc = "blocked"
    /\ mark_blocked(job)
    /\ dpc' = "publish"
    /\ UNCHANGED <<streamVars, adminVars, orderVars,
                   dlast, dusers, duser, dnode, dbinding, dstrats, damount, dfail>>

MarkBlocked ==
    /\ dpc = "blocked"
    /\ IF DatabaseEnabled THEN mark_blocked(job) ELSE UNCHANGED tasks
    /\ dpc' = "strategy"
    /\ dstrats' = dstrats \ {strategy}
    /\ damount' = 0
    /\ UNCHANGED <<streamVars, adminVars, orderVars,
                   dlast, dusers, duser, dnode, dbinding, dfail>>

(* The payload carries the approved amount when it was reduced, and the    *)
(* requested one otherwise: in both cases what the guard approved.         *)
PublishTask ==
    /\ dpc = "publish"
    /\ execTasks' = [execTasks EXCEPT ![dnode] = Append(@,
           [task |-> job,
            buy_exchange |-> opportunity.buy_exchange,
            sell_exchange |-> opportunity.sell_exchange,
            target_quote_amount |-> damount,
            buy_account |-> dbinding.buy_account,
            sell_account |-> dbinding.sell_account])]
    /\ dpc' = "mark"
    /\ UNCHANGED <<tasks, opps, repairTasks, adminVars, orderVars,
                   dlast, dusers, duser, dnode, dbinding, dstrats, damount, dfail>>

MarkDispatched ==
    /\ dpc = "mark"
    /\ IF DatabaseEnabled THEN mark_dispatched(job) ELSE UNCHANGED tasks
    /\ dpc' = "strategy"
    /\ dstrats' = dstrats \ {strategy}
    /\ damount' = 0
    /\ UNCHANGED <<streamVars, adminVars, orderVars,
                   dlast, dusers, duser, dnode, dbinding, dfail>>

(* Mutants: last_id is set before the last user, or not at all.            *)
AckOpportunity_Early ==
    /\ dpc = "user"
    /\ dpc' = "read"
    /\ dlast' = dlast + 1
    /\ UNCHANGED <<busVars, dusers, duser, dnode, dbinding, dstrats, damount, dfail>>

AckOpportunity_Never ==
    /\ dpc = "user"
    /\ dusers = {}
    /\ dpc' = "read"
    /\ UNCHANGED <<busVars, dlast, dusers, duser, dnode, dbinding, dstrats, damount, dfail>>

AckOpportunity ==
    /\ dpc = "user"
    /\ dusers = {}
    /\ dpc' = "read"
    /\ dlast' = dlast + 1
    /\ UNCHANGED <<busVars, dusers, duser, dnode, dbinding, dstrats, damount, dfail>>

(* A Redis, database or notifier error, or a kill, between two steps.      *)
DispatcherCrash ==
    /\ dpc # "down"
    /\ dfail < MaxDispatcherFailures
    /\ dfail' = dfail + 1
    /\ Die

(* systemd: Restart=always.                                                *)
DispatcherRestart ==
    /\ dpc = "down"
    /\ dpc' = "read"
    /\ UNCHANGED <<busVars, dlast, dusers, duser, dnode, dbinding, dstrats, damount, dfail>>

DispatcherStep ==
    \/ ReadOpportunity \/ SkipUser \/ TakeUser \/ UserDone
    \/ CreateTask \/ DuplicateTask \/ EvaluateGuard \/ MarkBlocked
    \/ PublishTask \/ MarkDispatched \/ AckOpportunity
    \/ DispatcherRestart

DispatcherNext == DispatcherStep \/ DispatcherCrash

-----------------------------------------------------------------------------
(* The dispatcher between the scanner and the operators.                   *)
dispatchVars == <<busVars, dispatcherVars>>

DispatchInit == BusInit /\ DispatcherInit

DispatchNext ==
    \/ DispatcherNext
    \/ PublishOpportunity /\ UNCHANGED dispatcherVars
    \/ Admin /\ UNCHANGED dispatcherVars

DispatchSpec == DispatchInit /\ [][DispatchNext]_dispatchVars

(* The event loop keeps running and systemd keeps restarting it; nothing   *)
(* obliges the scanner or an operator to act, or an error to happen.       *)
DispatchFairSpec == DispatchSpec /\ WF_dispatchVars(DispatcherStep)

-----------------------------------------------------------------------------
(* Type invariant of the bus and of the dispatcher's locals.               *)
DispatchTypeOK == BusTypeOK /\ DispatcherTypeOK

(* The idempotency key at work: whatever crashes, restarts and re-reads    *)
(* from "0-0" happen, a task stands at one place of one node stream only.  *)
AtMostOnePublication ==
    DatabaseEnabled =>
        \A m, n \in Nodes : \A i \in DOMAIN execTasks[m], j \in DOMAIN execTasks[n] :
            execTasks[m][i].task = execTasks[n][j].task => m = n /\ i = j

(* Row first, XADD second: what an executor reads always has its row, so   *)
(* _require_task cannot raise LookupError in the executor.                 *)
PublishedTaskHasRow ==
    DatabaseEnabled =>
        \A n \in Nodes : \A i \in DOMAIN execTasks[n] :
            execTasks[n][i].task \in DOMAIN tasks

(* A task the control rules blocked in the dispatcher reaches no node,     *)
(* also when the limit is lifted and the opportunity is read again.        *)
BlockedTaskNeverPublished ==
    \A n \in Nodes : \A i \in DOMAIN execTasks[n] :
        LET t == execTasks[n][i].task
        IN  t \in DOMAIN tasks => tasks[t].status # "BLOCKED"

(* Once last_id is past a message none of its tasks is left half-way, with *)
(* a row and neither published nor blocked: a task torn by a crash stops   *)
(* the cursor in front of its message.  Only an operator can make the      *)
(* dispatcher walk past a torn task, by taking its user out of the way.    *)
AckedTasksSettled ==
    dfail = 0 \/ changes = 0 =>
        \A t \in DOMAIN tasks : t[2] <= dlast => tasks[t].status # "CREATED"

(* Once last_id is past a message, every user and strategy it is for has   *)
(* its task on the node stream; stated while no operator has changed what  *)
(* the decision depends on.                                                *)
AckedMessageFannedOut ==
    changes = 0 =>
        \A m \in 1..dlast : \A u \in _resolve_candidate_user_ids :
            Servable(u, opps[m]) =>
                \A s \in _iter_matching_strategies(u, opps[m]) :
                    \E i \in DOMAIN execTasks[routes[u]] :
                        execTasks[routes[u]][i].task = <<u, m, s>>

(* The accounts in a published task are the user's own, on the exchanges   *)
(* of its legs, although user, binding and message are locals of three     *)
(* nested loops.                                                           *)
BoundAccountsBelongToUser ==
    DatabaseEnabled =>
        \A n \in Nodes : \A i \in DOMAIN execTasks[n] :
            LET e == execTasks[n][i]
            IN  \E a, b \in Accounts :
                    /\ a.id = e.buy_account /\ b.id = e.sell_account
                    /\ a.user = e.task[1] /\ b.user = e.task[1]
                    /\ a.exchange = opps[e.task[2]].buy_exchange
                    /\ b.exchange = opps[e.task[2]].sell_exchange

(* Every opportunity is eventually behind the cursor for good, whatever    *)
(* operators change: as long as nothing fails or there is no database ...  *)
ConsumedUnlessTorn ==
    \A m \in 1..MaxOpps : m <= Len(opps) ~> dlast >= m \/ (DatabaseEnabled /\ dfail > 0)

(* ... and, say the design documents, also after an error that is over.    *)
EveryOpportunityConsumed == \A m \in 1..MaxOpps : m <= Len(opps) ~> dlast >= m

-----------------------------------------------------------------------------
(* The inductive invariant behind the safety properties: what holds of the *)
(* locals and of the current job at each program counter.                  *)
CursorOK ==
    /\ Len(opps) <= MaxOpps
    /\ dlast <= Len(opps)
    /\ dpc \notin {"read", "down"} => dlast < Len(opps)
    /\ dpc \notin {"read", "down", "user"} => duser \in Users /\ dnode \in Nodes
    /\ dpc \in {"guard", "blocked", "publish", "mark"} => dstrats # {}
    /\ dpc \in {"publish", "mark"} => damount > 0

JobPhase ==
    DatabaseEnabled =>
        /\ dpc \in {"guard", "blocked", "publish", "mark"} =>
              job \in DOMAIN tasks /\ ~tasks[job].dispatched_at
        /\ dpc \in {"guard", "blocked", "publish"} =>
              tasks[job].status = "CREATED" /\ ~Published(job)
        /\ dpc = "mark" => Published(job)

NoDatabaseNoRows == ~DatabaseEnabled => DOMAIN tasks = {}

(* Program counter, row and streams agree at every step of a task: its row *)
(* is CREATED and no node has it until the XADD; between the XADD and      *)
(* mark_dispatched the row is there, but may be an executor's already.     *)
FeederInv ==
    /\ DispatchTypeOK
    /\ CursorOK
    /\ JobPhase
    /\ NoDatabaseNoRows
    /\ AtMostOnePublication
    /\ PublishedTaskHasRow

(* With nobody else to write the rows.                                     *)
DispatchInv == FeederInv /\ BlockedTaskNeverPublished

=============================================================================
