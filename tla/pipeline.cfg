\* One task from the opportunity to its repair, one failure of dispatcher and executor, one operator change, legs that move and end in any way.
SPECIFICATION PipelineSpec
CONSTANTS
    n1 = n1
    Nodes <- MCNodes
    Exchanges <- MCExchanges
    Users <- MCUsers
    TaskIds <- MCTaskIds
    StripLower <- MCStripLower
    Accounts <- MCAccounts
    Opportunities <- MCOpportunities
    StrategyConfigs <- MCStrategies
    TradingUsers <- MCUsers
    DispatchUserIds <- MCNone
    DispatcherRegion = ""
    DatabaseEnabled = TRUE
    FeedEntries <- ExecEntry
    OtherRepairEntries <- MCNone
    ExecutorRegion = ""
    LegMoves <- MCMoves
    LegOutcomes <- MCAllOutcomes
    RepairOutcomes <- MCAnswered
    DatabaseErrors = FALSE
    MaxNotional = 1
    MaxOpps = 1
    MaxAdminChanges = 1
    AdminLimits = {0}
    AdminRoutes <- MCNone
    AdminAccounts <- MCNone
    MaxDispatcherFailures = 1
    MaxExecutorFailures = 1
    MaxRepairFailures = 0
    MaxRepairOrders = 3
INVARIANTS
    PartialHasRepairTask
    FullyHedgedHasBothLegs
    OrderFollowsOpportunity
    BlockedIsOutOfMarket
PROPERTIES
    ImplementsSettlement
CHECK_DEADLOCK FALSE
