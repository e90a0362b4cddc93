SPECIFICATION Spec
CONSTANTS
    a = a
    b = b
    s = s
    p = p
    q = q
    m = m
    k = k
    u = u
    NoKey = NoKey
    Actors = {a, b, s}
    Providers <- MCProviders
    Models <- MCModels
    Keys = {k}
    Upstreams = {u}
    Web = {a, b}
    Forms <- OverlapForms
    MaxForms = 3
    Faults = {"load", "save", "restart"}
    OneAtATime = FALSE
INVARIANTS
    TypeOK
    RouterServesCommitted
    ClosedUnlessStray
CHECK_DEADLOCK FALSE
