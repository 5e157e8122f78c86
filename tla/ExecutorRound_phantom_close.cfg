SPECIFICATION Spec
CONSTANTS
    Q = 2
    LotStep = 2
    MaxRequotes = 1
    Faults <- FaultsAmbiguous
CHECK_DEADLOCK FALSE
PROPERTY ConfirmedIsReduced
