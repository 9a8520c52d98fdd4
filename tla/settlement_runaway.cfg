\* A failed write has the repair order placed again and again.
SPECIFICATION SettlementSpec
CONSTANTS
    n1 = n1
    Nodes <- MCNodes
    Exchanges <- MCExchanges
    Users <- MCUsers
    TaskIds <- MCTaskIds
    StripLower <- MCStripLower
    Accounts <- MCAccounts
    FeedEntries <- MCFeedEntries
    Opportunities <- MCNone
    OtherRepairEntries <- MCNone
    ExecutorRegion = ""
    LegMoves <- MCNoMove
    LegOutcomes <- MCAnswered
    RepairOutcomes <- MCAnswered
    DatabaseErrors = TRUE
    MaxNotional = 1
    MaxOpps = 0
    MaxAdminChanges = 0
    AdminLimits <- MCNone
    AdminRoutes <- MCNone
    AdminAccounts <- MCNone
    MaxExecutorFailures = 0
    MaxRepairFailures = 1
    MaxRepairOrders = 5
INVARIANTS
    RepairAttemptsBounded
CHECK_DEADLOCK FALSE
