\* Two rules and a switch, three requests of which two at a time, one Redis error.
SPECIFICATION ControlSpec
CONSTANTS
    RuleIds = {1, 2}
    SwitchIds = {11}
    LimitRecords <- MCRules
    SwitchOf <- MCSwitchOf
    h1 = h1
    h2 = h2
    Handlers = {h1, h2}
    MaxRequests = 3
    MaxRedisErrors = 1
    Guards = {"dispatcher"}
    OpenRequests <- MCOpenRequests
SYMMETRY MCHandlerSymmetry
INVARIANTS
    SettledKeyIsListed
    StandingRulesBind
    RefusalHasCause
    NoGapWhileTightening
