SPECIFICATION Spec
CONSTANTS
    Q = 1
    LotStep = 1
    MaxRequotes = 0
    Faults <- FaultsNone
    IdleEvery = 2
    FailStreak = 2
    MaxRounds = 2
    MaxRestarts = 2
PROPERTY RecoveryKeepsResidual
