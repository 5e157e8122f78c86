SPECIFICATION Spec
CONSTANTS
    Q = 3
    LotStep = 2
    MaxRequotes = 1
    Faults <- FaultsNone
CHECK_DEADLOCK FALSE
INVARIANT FailedOpenLeavesNothing
