\* One executor, two tasks, one failure, one operator change.
SPECIFICATION ExecutionFairSpec
CONSTANTS
    n1 = n1
    Nodes <- MCNodes
    Exchanges <- MCExchanges
    Users <- MCUsers
    TaskIds <- MCTaskIds
    StripLower <- MCStripLower
    Accounts <- MCAccounts
    FeedEntries <- MCFeedEntries
    Opportunities <- MCNone
    ExecutorRegion = ""
    LegMoves <- MCNoMove
    LegOutcomes <- MCAnswered
    MaxNotional = 2
    MaxOpps = 0
    MaxAdminChanges = 1
    AdminLimits = {0}
    AdminRoutes <- MCNone
    AdminAccounts <- MCAdminAccounts
    MaxExecutorFailures = 1
INVARIANTS
    OutcomeBeforeAck
    ReexecutionNeedsFailure
PROPERTIES
    BacklogDrained
CHECK_DEADLOCK FALSE
