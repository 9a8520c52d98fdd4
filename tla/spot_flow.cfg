\* One opportunity, one death of the scanner and one of the consumer.
SPECIFICATION SpotFairSpec
CONSTANTS
    PriceUnit = 12
    Target = 4
    AlertThreshold = 0
    Exchanges <- MCExchanges
    Symbols <- MCSymbols
    ScanExchanges <- MCScanExchanges
    Books <- MCBooks
    DedupeWindow = 2
    MaxOpps = 1
    MaxScannerDeaths = 1
    MaxConsumerCrashes = 1
INVARIANTS
    OpportunityIsBestFill
    ClientsClosed
    SilenceOnlyAfterAlert
    OpenOrderExplained
    ProbedOncePerRun
PROPERTIES
    EverySymbolScanned
    OpportunitiesProbed
