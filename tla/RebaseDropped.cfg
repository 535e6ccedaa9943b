SPECIFICATION Spec
CONSTANTS
    Change <- TwoChanges
    Cases <- Survivors
    MaxEvents = 0
INVARIANT AbsorbedKept
CHECK_DEADLOCK FALSE
