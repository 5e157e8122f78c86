SPECIFICATION Spec
CONSTANTS
    Week = 12
    None = None
    Config <- MCConfig
    Schedules <- MCSchedules
    Closures <- MCClosures
    Gaps <- MCGaps
    MaxMiss = 1
INVARIANT TypeOK
INVARIANT ClosesWhenSaid
INVARIANT ReopensWhenSaid
INVARIANT FlatAcrossClose
INVARIANT FrozenIsReported
PROPERTY LastMinutesAreUrgent
PROPERTY RoundsEnd
