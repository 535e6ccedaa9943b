SPECIFICATION Spec
CONSTANTS
    Source <- TwoChanges
    Tagged = {"a"}
    Overlays = {"draft"}
    Forecasts = {TRUE, FALSE}
    ByHand = FALSE
    MaxOps = 1
    MaxEvents = 2
INVARIANTS AbortIdempotent
CHECK_DEADLOCK FALSE
