SPECIFICATION Spec
CONSTANTS
    Q = 4
    LotStep = 2
    MaxRequotes = 2
    Faults <- FaultsSlow
CHECK_DEADLOCK FALSE
INVARIANT TypeOK
INVARIANT NoDoubleHedge
PROPERTY CallReturns
INVARIANT FilledMeansHedged
INVARIANT ClosedMeansReduced
