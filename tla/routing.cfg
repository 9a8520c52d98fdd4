\* One user with a default route, two requests at a time, one error, one crash, one backfill.
SPECIFICATION RoutingFairSpec
CONSTANTS
    n1 = n1
    n2 = n2
    h1 = h1
    h2 = h2
    Nodes <- MCNodes
    Exchanges <- MCExchanges
    Users <- MCUsers
    TaskIds <- MCTaskIds
    StripLower <- MCStripLower
    Accounts <- MCNone
    Opportunities <- MCOpportunities
    StrategyConfigs <- MCNone
    TradingUsers <- MCNone
    DispatchUserIds <- MCUsers
    DispatcherRegion = ""
    DatabaseEnabled = FALSE
    DefaultRoutes <- MCDefaultRoutes
    Handlers <- MCHandlers
    MaxNotional = 1
    MaxOpps = 1
    MaxAdminChanges = 0
    AdminLimits <- MCNone
    AdminRoutes <- MCNone
    AdminAccounts <- MCNone
    MaxDispatcherFailures = 1
    MaxRouteRequests = 2
    MaxRouteErrors = 1
    MaxBackfills = 1
INVARIANTS
    UsedRouteIsListed
    OperatorRouteKept
    UntouchedUsersServed
PROPERTIES
    ConsumedUnlessTorn
CHECK_DEADLOCK FALSE
