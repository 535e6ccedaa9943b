SPECIFICATION Spec
CONSTANTS
    Change <- TwoChanges
    Cases <- Amenders
    MaxEvents = 0
INVARIANT AmendedKept
CHECK_DEADLOCK FALSE
