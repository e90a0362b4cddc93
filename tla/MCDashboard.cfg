SPECIFICATION Spec
CONSTANTS
    Pairs <- MCPairs
    Window = 1
    MaxPoints = 2
    MaxEvents = 2
    MaxTicks = 3
    MaxTime = 3
    MaxClock = 2
INVARIANTS
    RateHeals
    SeriesIsLast
PROPERTIES
    StatsAttributed
    SumsAgree
CHECK_DEADLOCK FALSE
