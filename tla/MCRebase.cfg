SPECIFICATION FairSpec
CONSTANTS
    Change <- TwoChanges
    Cases <- Examples
    MaxEvents = 1
INVARIANTS TypeOK JournalHonest AnchorsHold OneIdentity CoverageTrue DivergenceDeclared PublishedWhole
PROPERTIES TopologyKept ForecastHonoured AbortRestores EverySettles
CHECK_DEADLOCK FALSE
