\* Every set of enabled accounts out of a pool of nine, in four regions.
SPECIFICATION HandoverSpec
CONSTANTS
    StripLower <- MCStripLower
    Pool <- MCPool
    Regions <- MCRegions
INVARIANTS
    CoveredMeansBound
    BoundAccountsResolve
    ChoicesAgree
PROPERTIES
    EnablingIsMonotone
