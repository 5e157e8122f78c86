SPECIFICATION GateSpec
CONSTANTS
    None = None
    Absent = Absent
    Torn = Torn
    Expected = 5
    Tolerance = 20
    MinSamples = 3
    AmountTol = 10
    Validity = 1
    VarExpected = 0
    VarSwap = TRUE
    LitSwap = FALSE
    Streams <- StreamsSmall
    Ratios <- RatiosSmall
    Published <- NotPublished
    VarPublished <- Swap
    MaxNow = 1
    MaxCommands = 2
    MaxLines = 1
    MaxRestarts = 1
CHECK_DEADLOCK FALSE
INVARIANT GateTypeOK
INVARIANT HaltStaysLatched
PROPERTY DurableLifecycle
PROPERTY LiveEntriesAreProven
PROPERTY RefusalStands
PROPERTY LedgerKeepsRounds
