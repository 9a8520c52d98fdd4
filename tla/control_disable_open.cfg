\* The same store with a disable_open switch, and nobody changing anything.
SPECIFICATION ControlSpec
CONSTANTS
    RuleIds = {1, 2}
    SwitchIds = {11, 12}
    LimitRecords <- MCRules
    SwitchOf <- MCSwitchOf
    h1 = h1
    h2 = h2
    Handlers = {h1, h2}
    MaxRequests = 1
    MaxRedisErrors = 1
    Guards = {"dispatcher"}
    OpenRequests <- MCOpenRequests
INVARIANTS
    DisableOpenRefuses
