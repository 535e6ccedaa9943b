SPECIFICATION Spec
CONSTANTS
    Source <- TwoChanges
    Tagged = {"a"}
    Overlays = {"pruned"}
    Forecasts = {TRUE, FALSE}
    ByHand = FALSE
    MaxOps = 1
    MaxEvents = 2
PROPERTIES DraftReturns
CHECK_DEADLOCK FALSE
