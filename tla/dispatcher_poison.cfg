\* One error is enough to stop the fan-out for good.
SPECIFICATION DispatchFairSpec
CONSTANTS
    n1 = n1
    n2 = n2
    Nodes <- MCNodes
    Exchanges <- MCExchanges
    Users <- MCUsers
    TaskIds <- MCTaskIds
    StripLower <- MCStripLower
    Accounts <- MCAccounts
    Opportunities <- MCOpportunities
    StrategyConfigs <- MCOneStrategy
    TradingUsers <- MCUsers
    DispatchUserIds <- MCNone
    DispatcherRegion = "ap"
    DatabaseEnabled = TRUE
    MaxNotional = 2
    MaxOpps = 2
    MaxAdminChanges = 0
    AdminLimits = {0, 1}
    AdminRoutes <- MCAdminRoutes
    AdminAccounts <- MCAdminAccounts
    MaxDispatcherFailures = 1
PROPERTIES
    EveryOpportunityConsumed
CHECK_DEADLOCK FALSE
