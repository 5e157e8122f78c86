SPECIFICATION Spec
CONSTANTS
    Week = 12
    None = None
    Config <- MCConfig
    Schedules <- MCSchedules
    Closures <- MCClosures
    Gaps <- MCGaps
    MaxMiss = 1
PROPERTY PnlExitsArePriced
