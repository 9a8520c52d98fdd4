\* One task, one failure of the executor and two of the repair worker: a write and then a kill, for one.
SPECIFICATION SettlementFairSpec
CONSTANTS
    n1 = n1
    Nodes <- MCNodes
    Exchanges <- MCExchanges
    Users <- MCUsers
    TaskIds <- MCTaskIds
    StripLower <- MCStripLower
    Accounts <- MCAccounts
    FeedEntries <- MCFeedEntries
    Opportunities <- MCNone
    OtherRepairEntries <- MCOther
    ExecutorRegion = ""
    LegMoves <- MCNoMove
    LegOutcomes <- MCAnswered
    RepairOutcomes <- MCAnswered
    DatabaseErrors = TRUE
    MaxNotional = 1
    MaxOpps = 0
    MaxAdminChanges = 0
    AdminLimits <- MCNone
    AdminRoutes <- MCNone
    AdminAccounts <- MCNone
    MaxExecutorFailures = 1
    MaxRepairFailures = 2
    MaxRepairOrders = 5
INVARIANTS
    RepairOutcomeBeforeAck
    OneLegRepairHedges
    RepairAttemptsCounted
PROPERTIES
    SucceededIsSettled
    RepairsDrained
CHECK_DEADLOCK FALSE
