SPECIFICATION FairSpec
CONSTANTS
    Source <- TwoChanges
    Tagged = {"a"}
    Overlays = {"draft"}
    Forecasts = {TRUE, FALSE}
    ByHand = TRUE
    MaxOps = 2
    MaxEvents = 2
INVARIANTS TypeOK JournalHonest PublishedWhole NoRecordTwice CoverageTrue
PROPERTIES AbortRestores EverySettles
CHECK_DEADLOCK FALSE
