SPECIFICATION FairSpec
CONSTANTS
    Q = 1
    LotStep = 1
    MaxRequotes = 0
    Faults <- FaultsAmbiguous
    IdleEvery = 2
    FailStreak = 2
    MaxRounds = 1
    MaxRestarts = 1
PROPERTY ImplementsLifecycle
PROPERTY ResidualHalts
PROPERTY MismatchLeaves
PROPERTY ExitsEnd
