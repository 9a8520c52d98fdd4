\* Two users, three strategies, two opportunities, one crash, one operator change.
SPECIFICATION DispatchFairSpec
CONSTANTS
    n1 = n1
    n2 = n2
    Nodes <- MCNodes
    Exchanges <- MCExchanges
    Users <- MCUsers
    TaskIds <- MCTaskIds
    StripLower <- MCStripLower
    Accounts <- MCAccounts
    Opportunities <- MCOpportunities
    StrategyConfigs <- MCStrategies
    TradingUsers <- MCUsers
    DispatchUserIds <- MCNone
    DispatcherRegion = "ap"
    DatabaseEnabled = TRUE
    MaxNotional = 2
    MaxOpps = 2
    MaxAdminChanges = 1
    AdminLimits = {0, 1}
    AdminRoutes <- MCAdminRoutes
    AdminAccounts <- MCAdminAccounts
    MaxDispatcherFailures = 1
INVARIANTS
    AtMostOnePublication
    PublishedTaskHasRow
    BlockedTaskNeverPublished
    AckedTasksSettled
    AckedMessageFannedOut
    BoundAccountsBelongToUser
PROPERTIES
    ImplementsTaskFeed
    ConsumedUnlessTorn
CHECK_DEADLOCK FALSE
