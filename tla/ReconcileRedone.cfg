SPECIFICATION Spec
CONSTANTS
    Source <- TwoChanges
    Tagged = {"a"}
    Overlays = {}
    Forecasts = {TRUE, FALSE}
    ByHand = TRUE
    MaxOps = 1
    MaxEvents = 3
INVARIANTS CoverageAlwaysTrue
CHECK_DEADLOCK FALSE
