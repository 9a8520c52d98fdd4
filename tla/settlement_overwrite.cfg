\* The executor records its own outcome after the repair worker.
SPECIFICATION SettlementSpec
CONSTANTS
    n1 = n1
    Nodes <- MCNodes
    Exchanges <- MCExchanges
    Users <- MCUsers
    TaskIds <- MCTaskIds
    StripLower <- MCStripLower
    Accounts <- MCAccounts
    FeedEntries <- MCFeedEntries
    Opportunities <- MCNone
    OtherRepairEntries <- MCNone
    ExecutorRegion = ""
    LegMoves <- MCNoMove
    LegOutcomes <- MCAnswered
    RepairOutcomes <- MCAnswered
    DatabaseErrors = FALSE
    MaxNotional = 1
    MaxOpps = 0
    MaxAdminChanges = 0
    AdminLimits <- MCNone
    AdminRoutes <- MCNone
    AdminAccounts <- MCNone
    MaxExecutorFailures = 0
    MaxRepairFailures = 0
    MaxRepairOrders = 5
PROPERTIES
    RepairedStaysRepaired
CHECK_DEADLOCK FALSE
