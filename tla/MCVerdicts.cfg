SPECIFICATION Spec
CONSTANTS
    r1 = r1
    r2 = r2
    Requests <- MCRequests
    Paths <- MCPaths
    Capacity = 2
INVARIANT
    AllVerdicts
CHECK_DEADLOCK FALSE
