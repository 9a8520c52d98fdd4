# Verification of the arbitrage workers

TLA+ models, TLC runs and TLAPS proofs about the worker processes of this
repository: how the scanner finds and publishes an opportunity, how it becomes one
task per user and strategy, how an executor places its two orders, how a repair
worker mends a task that lost one of them, and what the operators' two HTTP services
do to the routes and rules the workers go by meanwhile.

## 1. The system

Five worker roles (`app/runtime/worker_service.py`), each one process under
systemd with `Restart=always`, and two HTTP services. They share Redis, a SQL
database and the exchanges, and nothing else; each is one asyncio coroutine, so
the interleavings are those of processes, at every `await` and every commit.

| part | state it keeps | operations | talks to |
|---|---|---|---|
| Scanner (`ContinuousSpotScanner`, `LiveSpotFlowService`) | the symbol it is at, the dedupe cache of its alert router; sessions within a round | open sessions, read books, compute a spread, publish, close, report | ZADD `arb:zset:spot`, XADD `stream:spot_opps` |
| Dispatcher (`RedisNodeTaskDispatcher`) | `last_id` in memory | fan an opportunity out to users and strategies | reads `stream:spot_opps`, routes, rules, users, accounts, strategies; INSERTs and UPDATEs `arbitrage_tasks`; XADD `stream:spot_exec_tasks:<node>` |
| Executor (`RedisExecutionTaskConsumer`, one per node) | `last_id` in memory | guard, preflight, two orders, repair plan, outcome | reads its node stream, rules, accounts; UPDATEs the row; XADD `stream:repair_tasks:<region>`; orders |
| Repair worker (`RedisRepairTaskConsumer`) | `last_id` in memory, one database session | one order per entry, outcome | reads the repair stream; UPDATEs the row; orders |
| Legacy consumer (`RedisSpotConsumer`) | `last_id` in memory | hand every opportunity to `SpotArbitrageProbeService`: two post-only orders, two looks, two cancels | reads `stream:spot_opps`; orders |
| Route store (`UserNodeRouteStore`) | `route:user_node:<user>` keys and their index set | set, delete, sync of default routes, backfill of the index | written by route admin, by every dispatcher that starts, by a command; looked up by the dispatcher |
| Control admin, route admin (HTTP) | none | put and delete rules, switches, announcements, routes | Redis keys and their index sets |
| Control plane (`ControlPlaneLoader`, `ControlGuard`) | none | load every rule, decide on a notional | reads those keys |
| Task table (`app/db/task_repository.py`) | rows of `arbitrage_tasks` | `create_task`, `mark_*` | three processes write it |
| Alert router | dedupe cache, one per process | send an event to the notifiers | called by every worker; a notifier may raise |

What is hard here, and where the properties aim:

* **No step is atomic with the next.** A row, its XADD and `mark_dispatched` are
  three writes; a repair task and the outcome it belongs to are two.
* **Restart means "from the beginning".** `last_id` is `0-0` in every new
  process and the streams are never trimmed, so a crash replays everything.
* **Every writer of a row overwrites.** No `mark_*` looks at the status it
  replaces, and three processes call them.
* **Errors mean retry.** The executor and the repair worker leave `last_id` where
  it is after any exception, also one that comes after an order was placed.
* **What is read is stale when it is used**: the sync of default routes reads and
  then writes, the backfill decides by a copy of the index, a guard reads rule by rule.
* **An error handler can fail as well**: a notifier that raises inside of an except
  branch, a session that does not close, a cancel of one leg out of two.
* **The same rule is implemented more than once**: account coverage, the binding
  of accounts and their resolution.
* **Operators act at any time**: limits, routes and accounts change between the
  check and the use.

The list of hazards with their lines is in `PROJECT.json`.

## 2. Modules

    TaskRepository   AccountSelection ------- AccountHandover
            \         /
             TaskBus                          what the processes share
            /   |   \   \    \
  Dispatcher  Executor Repair TaskFeed RouteStore   one process or store each
    |    \      |     \   |   /   |      |
    |     \  Execution   Settlement      |          (under TaskFeed: the dispatcher's promise)
    |      \     |        |              |
    |       \--- Pipeline                |          (the dispatcher itself in TaskFeed's place)
    |        \------------------------ Routing      (Dispatcher behind RouteStore)
  DispatchRefinement                                (Feed == INSTANCE TaskFeed)

  Opportunity -- Scanner (with Sessions) --\
       \-------- Consumer ----------------- SpotFlow  (joined by stream:spot_opps)

  ControlStore -- ControlPlane                        rules, switches, the guard

  TaskRepositoryProofs -- DispatcherProofs -- RoutingProofs
                     \                     \
                      \-- ExecutionProofs -- SettlementProofs    with the pipeline
  AccountProofs, ControlProofs, SpotFlowProofs

| module | models | variables and actions against the code |
|---|---|---|
| `TaskRepository` | the table and its repository | `tasks`: the rows, keyed by the idempotency key; one operator per method, with the method's name. `_require_task` is the membership conjunct, the UNIQUE key the conjunct of `create_task` |
| `AccountSelection` | coverage, binding, resolution | operators with the names of the functions; pure, used by dispatcher and executor |
| `AccountHandover` | an operator enabling and disabling accounts between dispatcher and executor | `accounts`: what `list_enabled_accounts` returns |
| `TaskBus` | streams, limit, routes, enabled accounts, orders | `opps`, `execTasks`, `repairTasks` are append-only sequences, a message id is a position; `limit` is the smallest rule in force, 0 under `reduce_only`; `orders` and `repairs` count what reached an exchange |
| `Dispatcher` | `RedisNodeTaskDispatcher.run` | `dpc` is the place in `run`, `dlast` is `last_id`, the other variables are its locals. One action between two effects others can see; `DuplicateTask` is the IntegrityError, `DispatcherCrash` any other exception or a kill |
| `TaskFeed` | what the dispatcher promises | create, block, send, mark, each under the weakest condition; `Surroundings` adds the scanner's messages and the operators |
| `DispatchRefinement` | `Dispatcher` implements `TaskFeed` | `Feed == INSTANCE TaskFeed`, locals forgotten |
| `Executor` | consumer, `RuntimeTradeExecutionService`, `TradeExecutor`, `RiskManager` | per node `xpc`, `xlast`; `xlegs` are the two orders of `asyncio.gather`, which finish in any order; `Raise` and `FailTask` are the except branch |
| `Execution` | executors under `TaskFeed` | |
| `Repair` | repair consumer and service | `rsession` is whether the one database session still works |
| `Settlement` | executors and repair worker on one table and one repair stream | `OtherProducer` puts entries the worker must ignore; `rspoilt` (in `Repair`) remembers that a write of the worker failed |
| `Pipeline` | dispatcher, executors and repair worker on one bus | in `TaskFeed`'s place the dispatcher of `Dispatcher`, whose rows the other two write before it has marked them |
| `RouteStore` | `UserNodeRouteStore` under its writers, one Redis call per action | `routes` (of `TaskBus`) and `indexed` are the keys and the index set; `pending` the second call a request has still to make; `spc`, `sleft`, `suser` are `sync_default_routes`, `bpc`, `bindex`, `bleft`, `bbatch`, `buser` the backfill; `torn`, `ordered`, `raced`, `bstable` are histories |
| `Routing` | the dispatcher behind the store: `WorkerApp` syncs before it runs the worker | `StartDispatcher`, `RunDispatcher` |
| `Opportunity` | `OpportunityCalculator` | the depth-weighted price of one side, the loop as a recursive function that gives its locals after every level (`LoopOver`, one turn is `Filled`), next to the set of *all* ways to spend the target (`Fills`) |
| `Sessions` | `ExchangeAccountSession`, `ExchangeClientFactory` | `ready`: adapters; `live`: open clients; `raised`: sessions whose `load_markets` or `close` failed |
| `Scanner` | `ContinuousSpotScanner.run`, `LiveSpotFlowService.run_once`, `AlertRouter.dispatch` | `spc` is the place in both loops, `ssym` the symbol, `cached` the ticks since a symbol's entry in the dedupe cache; `told` is a history |
| `Consumer` | `RedisSpotConsumer` with `SpotArbitrageProbeService.run_task` | `cpc`, `clast`; per leg `order` (as the exchange has it), `answered`, `uncalled` (cancel failed) |
| `SpotFlow` | scanner and legacy consumer | |
| `MC*` | instances for TLC | |
| `ControlStore` | the Redis records of `ControlPlaneStore` under the handlers of control-admin | `record` and `index` are the keys and the index sets; `request` is what a handler has still to do after its SET or DEL; `settled` is a history variable |
| `ControlPlane` | `ControlPlaneLoader.load`, `ControlGuard.evaluate`, `ControlPlane.evaluate_open_request` | per guard `gpc`, `unread` (ids of the last SMEMBERS), `plan` (records read so far); `during` is a history of the store during the load: what stood all along, and what was there at any moment |
| `*Proofs` | the theorems | |

Operators whose names are `<definition>_<Bug>` are mutants: small changes of the
definition after them, each of which makes one of the properties fail. They are
used by nothing.

Abstractions worth knowing:

* A task is named by its idempotency key `(user, message, strategy)`; strategy 0
  is `None`. `task_uuid` is drawn with the row and is unique as well.
* Amounts are small naturals. In the worker models the limit stands for all
  matching rules and a guard reads it in one step; `ControlPlane` has the reads
  behind it one by one.
* A `mark_*` is one step, although it reads the row and then writes the columns
  that changed. Its commit is what others see.
* Texts are compared as the code compares them: `StripLower` is
  `strip().lower()` on the texts that occur.
* An order is *accepted*, *rejected*, or *unanswered*: placed, with the response
  lost, which the code cannot tell from rejected.
* An unreadable credential or proxy of an account is one of the executor's
  errors (`Raise`).
* Events are modelled in `Scanner` only. For the other workers their one effect on
  control is that a notifier may raise (only ERROR and CRITICAL events and
  `opportunity.detected` reach one): in the dispatcher and in an except branch that is
  a crash, in the try blocks an error like any other.
* Prices, sizes and quote amounts are integers, and base amounts are counted in units
  of one over a common multiple of the prices: `Opportunity` is exact where the code
  has floats and a tolerance of 1e-9. Books come best price first
  (`ScannerAssumption`), as exchanges send them and as the code relies on when it takes
  the first level for the best bid or ask.
* Time is a `Tick` that ages the dedupe cache; the window is `DedupeWindow` ticks.
* The probe decides from fresh tickers which exchange is the buy side. No property
  tells the exchanges apart, so an order of a probe is known by its leg.
* `SCAN` comes to every key place once, in any order and in batches of any size, and
  returns the keys that exist by then.

## 3. Runs

| run | question | bounds |
|---|---|---|
| `dispatcher` | safety of the fan-out, refinement of `TaskFeed`, consumption | two nodes, two users, five accounts, three strategies, two of three opportunities, one crash anywhere, one operator change |
| `dispatcher_poison` | *violation*: after one error the fan-out goes on | one strategy per user |
| `execution` | cursor, outcome and retries of an executor; progress | two tasks, one failure, one operator change, messages of the scanner meanwhile; legs stay, exchanges answer |
| `pipeline` | dispatcher, executor and repair worker together: what an order may be on, repair tasks and "fully hedged" for any end of the legs, that a blocked task is out of the market, and that all three behave as behind `TaskFeed` (`ImplementsSettlement`) | one opportunity, two strategies of which one matches, a buy leg that may move to the other exchange, lost responses, one failure of the dispatcher and one of the executor, one operator change |
| `settlement` | executor and repair worker together: outcomes, which writers may replace a success, the side of a repair, the number of its orders while no write of the worker has failed, progress while its session lives | one task, one failure of the executor and two of the repair worker (an order and then a kill, for one), database errors, a foreign entry |
| `settlement_overwrite` | *violation*: what a repair recorded stays recorded | no failure at all |
| `settlement_runaway` | *violation*: a repair is tried a bounded number of times | one failed commit |
| `routing` | keys and index of the routes under requests, syncs and a backfill, and the dispatcher that goes by them, without a database | one user who has a default and perhaps an older route, two nodes, two requests at a time, one error at any call, one crash, one backfill, one opportunity |
| `spot_flow` | one round of the scanner after the other, what it publishes, its sessions and alerts; the consumer and its probe; progress of both | two symbols, two exchanges, thin, deep and empty books, any call may fail, one death of each process, one opportunity, a window of two ticks |
| `control` | what admin requests leave behind, and what a guard makes of it, from above and from below | two rules and a switch, two requests at a time and three in all, one Redis error, one guard |
| `control_disable_open` | *violation*: `disable_open` forbids to open | the same |
| `account_handover` | both account selections agree | all 512 sets of enabled accounts out of nine, every pair of exchanges, four spellings of the region |

Why the bounds are enough. Every hazard above needs one failure and one message
that is read twice; two messages show that a cursor moves over the right one, two
users and three strategies that nested loops neither lose nor mix anything. The
nine accounts hold one of every reason the code has to refuse an account, next to
good ones with lower and higher ids. Deadlock is checked in `account_handover`,
`control` and `spot_flow`. In the other models streams and changes are bounded, so
they stop when everything has been done, as the workers then only poll.

One user and two requests are enough for routes, because keys of two users share
nothing but the index set, from which only single members are added or removed; the
sync needs one user to be raced with and the backfill one key to come late to. The
books of `spot_flow` hold a level of size zero in front, a last level that is taken
in part, one that is taken exactly, too little depth, and an empty side, and they make
the spread positive and negative. Once `MaxOpps` opportunities are published the
market offers no bids deep enough for another one, so the scanner goes on for ever
(`EverySymbolScanned`) over a bounded stream. Two ticks tell an alert of this moment,
one within the window and one outside of it apart.

Three requests are a put, a delete that overlaps it, and one that repairs what they
left; two rules and a switch are what a torn load can mix.

`MaxOpps`, `MaxRequests`, `MaxRedisErrors`, `MaxAdminChanges`, `MaxRoute*`,
`MaxBackfills`, `Max*Failures`, `Max*Crashes`, `Max*Deaths` and `MaxRepairOrders` are
bounds of the model and appear only in guards (the last one saturates the counter that
`settlement_runaway` shows to be unbounded in the code).

**Fairness.** Weak fairness of a worker's own steps, its restart included: the
event loop keeps running, `XREAD` polls with a timeout, and systemd restarts the
process for ever. In `routing` the start of the dispatcher (sync, then run) and its
work are two such obligations. Failures, crashes, operators, requests, the passing of
time, the backfill command, the scanner (as seen by the dispatcher) and the dispatcher
(as seen by the executor) have none. The outcome of an order, and whether a call to an
exchange fails, is the exchange's choice.

What the passing runs say, in words:

* A task goes to one node stream at most once, with its row, for its own user's
  accounts, and never once it is blocked. When the dispatcher has moved past a
  message, every user and strategy it is for has the task, and none is half done.
* An executor never moves past a message whose outcome is not recorded, repeats a
  task only after a failure, records a partial open only with a repair task, and
  "fully hedged" only with both orders.
* From the opportunity to the exchange: an order, of an executor or of the repair
  worker, is on one of the two exchanges of the message its task was made from, for a
  user who trades and has an account there, under a strategy of that user's which the
  message matches (`OrderFollowsOpportunity`).
* With a repair worker and a dispatcher writing the same rows, success is lost in two
  races only, as long as nothing fails: to a late `mark_dispatched`, and to the executor
  whose partial open was repaired before it came to record it (`SucceededIsSettled`).
  A blocked task has no order and no repair order, unless its executor failed
  (`BlockedIsOutOfMarket`).
* The repair worker records an outcome before it moves on, and its first repair of a
  task with one failed leg restores the hedge if exchanges answer. As long as no write
  of the worker fails, its orders for a task are bounded by entries and failures, and
  it works its stream off as long as its session lives.
* A route in use is listed unless a call on it is under way or failed; the next
  request, the next sync or an undisturbed backfill puts a torn one right. A put
  answered 200 stands until the next request on the user, however often dispatchers
  start, unless it fell between such a dispatcher's GET and SET. Users nobody touches
  have every task on one node. Without a database no restart loses an opportunity.
* The scanner publishes the best fill of the target the two books allow and passes
  nothing such over. After a round only clients whose own session failed are left
  open. A failed round is silent only when an alert for that symbol was delivered
  within the window. Every symbol is looked at again and again unless the process
  keeps dying.
* The probe leaves an order open only when the cancel of that very order failed or the
  probe ended before there was anything to cancel, and its result never calls this
  hedged. Every entry is probed, once per run of the process.
* Two requests on one rule can leave a record no reader finds, or an index entry
  without a record; one further request on that rule, alone and answered 200, puts
  it right. A guard obeys every rule and switch that was in force all through its
  load, refuses nothing that all records seen enabled during the load would have
  allowed (`RefusalHasCause`), and an operator who turns `reduce_only` on before taking limits away leaves
  no moment at which more is approved than the store allowed.
* Dispatcher and executor select the same accounts, and enabling an account never
  takes coverage or a binding away.

## 4. Where code and documents disagree

Four runs are expected to end in a counterexample; `PROJECT.json` quotes the
documents.

* `dispatcher_poison`: an error between `create_task` and the end of the message
  makes every restart die on the UNIQUE key (the design calls a Redis disconnect
  recoverable by retry). Nothing later in the stream is dispatched. This is why
  `ConsumedUnlessTorn` has its second disjunct.
* `settlement_overwrite`: the repair task is published before the executor's own
  outcome is written; a faster repair is overwritten by `OPEN_PARTIAL`.
* `settlement_runaway`: a failed commit is neither rolled back nor acknowledged,
  and the market order of the repair is sent again on every round. This is why
  `RepairAttemptsCounted`, which passes, is `RepairAttemptsBounded` under `~rspoilt`.
* `control_disable_open`: a `disable_open` switch can be put, listed and read back, and
  changes no decision; only `platform.reduce_only` does.

Also visible in the models, and the reason for a condition in a property: a
restarted executor executes finished tasks again and a task executed once may then
be blocked (`xfail` in `ReexecutionNeedsFailure`, `BlockedMeansUntraded`); a late
`mark_dispatched` replaces an outcome (`SucceededIsFinal`); two failed legs are
recorded as hedged after one repair (`OneLegRepairHedges` asks for one target); a
disabled account or an opportunity with both legs on one exchange blocks a node
stream (`BacklogDrained` asks for enabled accounts).

Also visible, and not among the runs:

* An operator's put between the GET and the SET of a starting dispatcher's sync is
  answered 200 and overwritten by the default (`raced` in `OperatorRouteKept`), while
  the route admin design (`docs/superpowers/specs`, route-admin-http) lets a manual
  route win over the default.
* The scanner writes the dedupe cache before it sends. A notifier that fails leaves
  `run()` from inside of the except branch and ends the process; with a first symbol
  that fails for ever and a notifier that does, too, later symbols are never looked at
  (`sdeaths` is bounded, and `EverySymbolScanned` is about processes that live). The
  alerting design says that a notification that fails must not affect the worker.
* A session whose `load_markets` fails is held by nobody and never closed, by the
  scanner and by the probe (`raised` in `ClientsClosed`); the session-close design asks
  for every opened session to be closed.
* One exchange that fails, or answers with an empty side, fails the symbol for all
  exchanges of the round.
* A response to `create_order` that is lost in the first leg of a probe leaves the
  order open and the result with status `none` (last conjunct of
  `OpenOrderExplained`).

## 5. Proofs

`DispatcherProofs` proves, for every value of the constants that satisfies the
named assumptions `BusAssumption` and `DispatcherAssumption` (well-formed ids,
bounds and inputs; nothing about finiteness):

| theorem | statement |
|---|---|
| `DispatchInvariant` | `DispatchSpec => []DispatchInv` |
| `DispatchTypeCorrect` | `DispatchSpec => []DispatchTypeOK` |
| `PublicationIsUnique` | `DispatchSpec => []AtMostOnePublication` |
| `PublishedTasksHaveRows` | `DispatchSpec => []PublishedTaskHasRow` |
| `BlockedTasksStayBlocked` | `DispatchSpec => []BlockedTaskNeverPublished` |
| `BindingsAreOwn` | `DispatchSpec => []BoundAccountsBelongToUser` |
| `MessagesAreFannedOut` | `DispatchSpec => []AckedMessageFannedOut` |
| `AckedTasksAreSettled` | `DispatchSpec => []AckedTasksSettled` |
| `DispatcherImplementsTaskFeed` | with a database, `DispatchSpec => ImplementsTaskFeed` |

The argument. `AtMostOnePublication` is not inductive: the XADD step needs to know
that the current job is on no stream yet. `FeederInv` adds what holds at each
program counter: `CursorOK` (the message exists, the user is routed, a strategy is
left) and `JobPhase` (from `CreateTask` to `mark_dispatched` the job has a row that is
not marked; up to the XADD it is CREATED and on no stream, after it on one). `FeederInv`
says nothing that another writer of a published row could break; `DispatchInv` adds
`BlockedTaskNeverPublished`, which an executor that blocks a task does break. `JobPhase`
is established by the UNIQUE key: `create_task` succeeds only for a job without a
row, a published job has a row (`PublishedTaskHasRow`), so a freshly created one is
not published. A crash destroys the program counter, and with it the obligation. Every
action is one step of the proof; `TaskRepositoryProofs` has one lemma per `mark_*`
saying which row it changes and to what. The refinement theorem maps every action
to one action of `TaskFeed` or to a stutter, with the invariant as its premise.

The three statements about what lies behind the cursor have invariants of their own.
`BindingInv`: once a user is taken, the bound accounts belong to the user and the message
the loops are at; streams only grow, so that stays true of what was published.
`FanOutInv`: while nothing is changed, everything a message asks for is either still
ahead of the loops (its user is in `dusers`, or is `duser` with the strategy in
`dstrats`) or fanned out, so an empty `dusers` means that all of it is. It rests on
`WantedIsStable`: what a message asks for is the same at every reading of it, also
after a restart. `SettledInv` has two parts, for the two cases of the statement.
Without a failure the only CREATED row is the one the loops are at (`OnlyJobCreated`).
With failures but no changes a torn row was wanted by its message and still is
(`RowsAreWanted`), hence met again before the cursor can pass it (`TornAreAhead`).
Without the premise TLC finds the counterexample at once: a failure and then a change
that takes the user out of the way leave a torn row behind the cursor.

TLC checks the statements on the instances as well (`dispatcher`); `DispatchInv` itself
is in no run, as it is proved.

`ControlProofs` proves, under `ControlAssumption` and `OpenRequestAssumption` (record
shapes, finitely many keys, and a lowest limit value, without which the smallest of a
set need not exist), for any number of handlers, guards, requests and errors:

| theorem | statement |
|---|---|
| `ControlInvariant` | `ControlSpec => []ControlInv` |
| `ControlTypeCorrect` | `ControlSpec => []ControlTypeOK` |
| `SettledKeysListed` | `ControlSpec => []SettledKeyIsListed` |
| `StandingRulesAlwaysBind` | `ControlSpec => []StandingRulesBind` |
| `RefusalsHaveCauses` | `ControlSpec => []RefusalHasCause` |
| `TighteningLeavesNoGap` | `ControlSpec => []NoGapWhileTightening` |

The argument. `AloneInv` says that a request marked alone is the only one on its key
and that its key already agrees with what its last call will do to the index; that
call therefore settles the key. `StandingInv` says that what stood all along and
belongs to the list being read, or to one read before, is in `plan` or still in
`unread`; when both lists are read, all of it is in `plan`, and reading more only
lowers what is approved. `SeenInv` is the bound from the other side: what a guard has
read and goes by was in the store, enabled, at some moment of its load
(`ReadIsStored`), and what is not enabled makes no difference to a decision
(`OnlyEnabledCounts`). `GapInv` is the delicate one. While nothing is lifted, rules
in force only disappear and switches in force only appear. So every rule in force
when the switches are listed was in force when the rules were, and is in the plan;
and every switch in force at that moment stays so until it is read. What stood at
that moment (the `P` of `Moment`) therefore ends up in the plan, which allows no more
than it did. With the two lists the other way round this fails, and the run finds the
counterexample (`IdsOf_Swapped`).

TLC checks the four invariants on the instance first (`control`).

The types are part of each invariant and proved with it (`DispatchTypeCorrect`,
`ControlTypeCorrect`, `ExecutorTypes`, `SettlementTypes`, `RouteInvariant`, `SpotTypes`).

`ExecutionProofs` is about executors under *any* feed that keeps `TaskFeed`'s promise
(`BusAssumption`, `ExecutorAssumption`, `FeedAssumption`), with scanner and operators at
work:

| theorem | statement |
|---|---|
| `ExecutorTypes` | `ExecutionSpec => []ExecutionTypeOK` |
| `OutcomesBeforeAcks` | `ExecutionSpec => []OutcomeBeforeAck` |
| `PartialOpensAreRepaired` | `ExecutionSpec => []PartialHasRepairTask` |
| `HedgesAreReal` | `ExecutionSpec => []FullyHedgedHasBothLegs` |
| `OrdersNeedFailures` | `ExecutionSpec => []ReexecutionNeedsFailure` |
| `BlockedTasksUntraded` | `ExecutionSpec => []BlockedMeansUntraded` |
| `SucceededRowsFinal` | `ExecutionSpec => SucceededIsFinal` |

The last two are the executors' part of what the runs check of all three workers
(`BlockedIsOutOfMarket` in `pipeline`, `SucceededIsSettled` in `settlement`).

The argument. `CoreInv` holds what only the executors can disturb: types, that a sent
task has a row and stands at one place of one stream (`SentHaveRows`, `SentOnce`), that
a busy executor is at an entry, and that a leg called filled has an order on its
exchange. `RecordsInv` adds what the promises about outcomes and orders need, and
`ExecutionInv` what holds only while nobody but the executors writes outcomes.
`RepairFirst`: an executor that is about to record a partial open has published the
repair task, since the XADD comes first. `OrdersCounted`: the orders for an entry are at
most the failures of its node plus one if the cursor is behind the entry or the leg is
finished; without `SentOnce` two entries could share a count, which is why the
uniqueness of section 5's first theorem is needed here. `SucceededIsBehind`: while
nobody has failed a succeeded task is behind a cursor, hence no executor writes it
again, which leaves the late `mark_dispatched`. The steps of feed and operators are two
lemmas of their own, the steps of an executor one lemma each.

`SettlementProofs` keeps `CoreInv` under the second writer of the rows:

| theorem | statement |
|---|---|
| `SettlementTypes` | `SettlementSpec => []SettlementTypeOK` |
| `RepairOutcomesBeforeAcks` | `SettlementSpec => []RepairOutcomeBeforeAck` |
| `RepairsAreCounted` | `SettlementSpec => []RepairAttemptsCounted` |
| `SuccessesSettled` | `SettlementSpec => SucceededIsSettled` |
| `BlockedTasksOutOfMarket` | `SettlementSpec => []BlockedIsOutOfMarket` |
| `RepairsHedge` | under `HedgeBounds`, `SettlementSpec => []OneLegRepairHedges` |

`RecordsInv` survives there (`RecordsInvariant`): the repair worker changes only the row
of a task that has an entry on the stream, neither to "fully hedged" nor to BLOCKED. The
rest of `ExecutionInv` does not: a repair calls a task succeeded that is behind no
executor's cursor, which then overwrites it (`settlement_overwrite`). `finished_at` is
never reset, so the outcome of an entry outlives the executor's overwriting. For the
count, `AttemptsInv` bounds the orders of a task by its entries times the failures, plus
its entries behind the cursor, plus one if the worker has placed the current one: moving
the cursor trades the last summand for one more entry behind it, and a failure adds all
entries at once.

`SucceededIsSettled` and `BlockedIsOutOfMarket` rest on `TradeInv`. An order belongs to a
published task and a repair order to one with an entry on the repair stream
(`OrdersWereAsked`, `SupportedSent`). The executor's XADD of that entry comes before its
outcome, so as long as an executor has not failed, a task with an entry is one it is
about to record or is past, and is not BLOCKED (`RepairsComeLast`); nobody blocks it
later, as the dispatcher blocks what is not yet published and the executor what it has
not yet opened. For success the invariant says who owns it (`SuccessIsOwned`): while
nothing fails a task has at most one entry, and a succeeded one either none, with the
executor behind it, or one the worker is done with. Who still has something to write is
then either the dispatcher or the executor at "record". Uniqueness of the entry is an
invariant of its own, since a second one would let the worker turn `repair_succeeded`
into a failure.

`RepairsHedge` has an invariant that says of every task exactly which orders it has
(`HedgeInv`, while nobody has failed): none before its executor works on it
(`UnworkedIsClean`), one for each filled leg and on that leg's exchange while it does
(`LegsAsSent`), and then what its only repair entry does not name (`EntriesNameLegs`);
the worker adds one order for each entry it tried, where the entry says
(`RepairsAsEntries`), and calls a task repaired only with that order
(`ResultsAreReal`). One named leg is then one order on the other side and one repair on
this one. `HedgeBounds` is the precondition in the words of the constants: legs stay
where the opportunity puts them, exchanges answer, and the counter of repairs is not
saturated at zero. Without the first two the code does not promise it: the repair's
side is that of the opportunity, and a lost response hides an order.

### The pipeline

The last sections of `SettlementProofs` put the dispatcher in `TaskFeed`'s place
(`PipelineAssumption`: with a database, and every well-formed entry may be sent):

| theorem | statement |
|---|---|
| `PipelineImplementsSettlement` | `PipelineSpec => ImplementsSettlement` |
| `PipelineStreams` | `PipelineSpec => [](AtMostOnePublication /\ PublishedTaskHasRow)` |
| `PipelinePartialsRepaired` | `PipelineSpec => []PartialHasRepairTask` |
| `PipelineHedgesAreReal` | `PipelineSpec => []FullyHedgedHasBothLegs` |
| `PipelineOutcomes` | `PipelineSpec =>` always `OutcomeBeforeAck`, `RepairOutcomeBeforeAck`, `ReexecutionNeedsFailure`, `RepairAttemptsCounted`, `BlockedMeansUntraded` |
| `PipelineSuccessesSettled` | `PipelineSpec => SucceededIsSettled` |
| `PipelineBlockedOutOfMarket` | `PipelineSpec => []BlockedIsOutOfMarket` |
| `PipelineRepairsHedge` | under `HedgeBounds`, `PipelineSpec => []OneLegRepairHedges` |
| `PipelineBindingsAreOwn` | `PipelineSpec => []BoundAccountsBelongToUser` |
| `PipelineFansOut` | `PipelineSpec => [](AckedMessageFannedOut /\ AckedTasksSettled)` |
| `OrdersFollowOpportunities` | `PipelineSpec => []OrderFollowsOpportunity` |

`DispatcherImplementsTaskFeed` alone does not carry the executors' results over to the
pipeline: it is about a dispatcher that is the only one to write rows, and an executor
woken by the XADD writes the row before `mark_dispatched` does. `FeederInv` is what the
dispatcher's steps need to be steps of `TaskFeed` (`DispatcherIsFeed`), and it bears the
other two (`FeederUnderWriters`): they create no rows, write only rows of published
tasks, and never touch `dispatched_at`. For that the repair worker must be known to act
on published tasks only (`SupportedSent`), which in turn needs the executors' `CoreInv`.
`PipelineInv` is the conjunction, each part of which is kept with the help of the others.

For `PipelineFansOut` the invariants of the fan-out (`FanOutInv`, `SettledInv`) are kept
as well: the other two take rows out of CREATED and put none into it, and all else the
dispatcher goes by is not theirs to write (`FanOutUnderWriters`).
`BlockedTaskNeverPublished` is the one promise that is not carried over, because in the
pipeline a published task may be blocked by its executor; that it has then placed no
order, unless the executor failed, is `BlockedMeansUntraded`, which is part of
`PipelineOutcomes`, and that nobody has placed one is `PipelineBlockedOutOfMarket`.

`OrderFollowsOpportunity` is carried from station to station by `FollowsInv`: the
dispatcher's loops hold trading users and matching strategies (`LoopsFollow`), hence the
entries of the node streams name a task made from their message and exchanges at which
the user has the bound accounts (`EntriesFollow`, with `BindingInv`); the legs are on
exchanges of the entry (`LegsFollow`), the first target of a repair entry is the exchange
of a leg (`RepairsFollow`, `TargetIsLeg`), and orders are placed for legs and targets
(`OrdersFollow`). Messages stay where they are on the stream (`OppsGrow`), so what
followed from one goes on to.

`AccountProofs`, for any pool with unique ids (`HandoverAssumption`), any texts and any
regions: `CoverageMeansBinding`, `BindingsResolve`, `ExecutorChoosesAlike`,
`EnablingKeepsBindings` state the four properties of `account_handover`. All rest on
one lemma, that the four coverage sets are empty exactly when no account is eligible,
and on the least id of a non-empty set, which exists by well-foundedness of `<`.

`RoutingProofs` (`RouteAssumption`), for any users, nodes, requests in flight, errors
and backfills: `RouteInvariant`, `UsedRoutesListed`, `OperatorRoutesKept`. `OrdersHold`
says that a request marked alone is the only one on its user and that what it put is
still in the key unless a sync had the user in hand; its SADD thus makes `ordered` true.
`BackfillComes` says that a route nobody touched since the backfill began is listed, or
will still be met: it is not in the copy of the index, and is left to scan, in the
batch, or in hand. When the backfill is done nothing is left, so such routes are listed
and no longer torn.

With the dispatcher behind the store:

| theorem | statement |
|---|---|
| `RoutesWithDispatcher` | `RoutingSpec => []UsedRouteIsListed /\ []OperatorRouteKept` |
| `DispatcherWithRoutes` | `RoutingSpec => []DispatchInv` |
| `UntouchedUsersAreServed` | `RoutingSpec => []UntouchedUsersServed` |

For the dispatcher the store's writers are operators, so the two invariants hold side by
side; `DispatcherProofs` is reused for the dispatcher's steps. For the third,
`ServedInv`: the sync is over before the dispatcher runs, and a dispatcher that is down
starts at the head of its stream (`StartsInOrder`); as long as nothing was asked of
route-admin, a user with a default has a route or the sync still has to come to it
(`SyncInv`), no call writes over a route, so a task's stream is that of its user's route
for ever (`TasksFollowRoutes`), and `FanOutInv` of the dispatcher does the rest: what is
behind the cursor was handed over, and to no second node.

`SpotFlowProofs` (`ScannerAssumption`, `ConsumerAssumption`), for any symbols, exchanges,
books, windows, kills and any length of the stream:

| theorem | statement |
|---|---|
| `SpotTypes` | `SpotSpec => []SpotTypeOK` |
| `OpportunitiesAreBestFills` | `SpotSpec => []OpportunityIsBestFill` |
| `ScannerClosesClients` | `SpotSpec => []ClientsClosed` |
| `SilenceIsEarned` | `SpotSpec => []SilenceOnlyAfterAlert` |
| `OpenOrdersExplained` | `SpotSpec => []OpenOrderExplained` |
| `ProbesAreBounded` | `SpotSpec => []ProbedOncePerRun` |

`OpportunitiesAreBestFills` is about books of any length. Its core is a lemma about
`WeightedPrice`: over asks in ascending order no way to spend the target
buys more, over bids in descending order none sells less, and there is no price exactly
when the target cannot be spent. The library's induction theorems take an operator, so
the induction over levels is done by hand, from the well-foundedness of `<` on a *set* of
counterexamples (`SetInduction`), and once for the existence of the functions the
recursions define (`RecursionExists`, `LoopIs`, `SumsAre`). `LoopIsFill`: what the loop
takes is a fill of the levels it has seen. `LoopIsAhead`: after any number of levels the
loop has taken at least as much of the target as any other fill, so where it falls short
nothing suffices. `LoopIsBest`: at every level the loop's lead in base is
at least its lead in quote at that level's price, because the levels to come are no
cheaper (`CheaperIsHeavier`); at the end the lead in quote is zero. `RoundInv` of the scanner then says that
the books in hand are those the exchanges sent, and that the exchanges chosen are among
them.

`SessionsInv`: every open client has an adapter or a failed session, so closing all
adapters leaves the latter. `AlertInv`: an entry of the cache within the window belongs
to a delivered alert, or to the one being sent. `ProbeInv` gives the state of both
orders at every place of `run_task`. `RoundsInv`: entries behind the cursor were probed
once per run, and each kill costs at most one more pass over the stream.

Every safety and action property of a passing run is stated by a theorem. What is only
model-checked is liveness, which needs fairness and ENABLED and is out of the prover's
reach: `ConsumedUnlessTorn`, `BacklogDrained`, `RepairsDrained`, `EverySymbolScanned`,
`OpportunitiesProbed`. The properties of the four violation runs are refuted by TLC and
there is nothing to prove about them.

The worker models read `limit` in one step where a guard reads rule by rule. What a
guard decides lies between what stood all through its load (`StandingRulesAlwaysBind`)
and all that was there during it (`RefusalsHaveCauses`); it may mix rules of two moments
and so need not be what any one moment allowed. The worker models let the limit change
before every step, and none of their properties compares an amount with it, so they
only need that a guard may refuse or approve. No theorem makes a refinement of this.

## 6. Not modelled

* The unguided part of numbers: floats and the tolerance of 1e-9, tick sizes, order
  amounts and precision, symbol formats of the exchanges (`adapters.py`).
* `build_opportunity` and `build_spot_opportunity`, which no worker calls, and
  `inline_dispatch_enabled` of the scanner, which no worker sets.
* Announcements (stored like rules, read by no worker); authorisation, parsing and
  answers of the admin services; the dry run of the backfill.
* CRITICAL alerts, which only the start-up sends; rendering of alerts and events.
* The sessions of the legacy consumer's probe, which are opened and closed as the
  scanner's are (`Sessions`).
* `SandboxProbeService` and the remote installation scripts: one sequential pass of
  I/O, run by hand. Settings, type declarations and stubs: no behaviour.
* `sqlalchemy`'s identity map (rows still referenced are not refreshed), Redis
  persistence and trimming, the mismatch of region and node id in the name of the
  repair stream (both are settings; the models use one stream).

## 7. Plan

Done, in this order because tasks with money behind them come first: dispatcher and
its promise; executor; repair and the interplay of both; account selection; the
dispatcher's proofs; the control store, the guard and their proofs; the route store,
its writers and the dispatcher behind it; the scanner with its sessions, books and
alerts, and the legacy consumer; the proofs about executor, repair worker, account
selection, routes and spot flow; the best fill for any book, untouched users, the hedge
after a repair; the pipeline with the dispatcher in front and its refinement.

What remains open, for whoever extends this:

1. The pipeline behind the real route store (`Pipeline` with `RouteStore` in place of
   `SetRoute`), along the lines of `DispatcherWithRoutes`.
2. The workers' guard as `ControlPlane`'s load, step by step, instead of one read of
   `limit`.
3. Liveness, which stays with TLC.
