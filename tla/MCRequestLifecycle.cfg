SPECIFICATION FairSpec
CONSTANTS
    r1 = r1
    r2 = r2
    Requests <- MCRequests
    Paths <- MCPaths
    Capacity = 2
INVARIANTS
    TypeOK
    StartsAndEndsPair
    CountersAddUp
    InFlightExact
    InFlightBoundedByLoss
    SnapshotPlausible
    NeverWaitsForMetrics
    CarefulVerdicts
PROPERTY
    DashboardSettles
CHECK_DEADLOCK FALSE
