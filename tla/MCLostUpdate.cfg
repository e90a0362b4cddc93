SPECIFICATION Spec
CONSTANTS
    a = a
    b = b
    s = s
    p = p
    q = q
    m = m
    k = k
    u = u
    NoKey = NoKey
    Actors = {a, b}
    Providers <- MCProviders
    Models <- MCModels
    Keys = {k}
    Upstreams = {u}
    Web = {a, b}
    Forms <- OverlapForms
    MaxForms = 3
    Faults = {}
    OneAtATime = FALSE
INVARIANT
    SavedPersists
CHECK_DEADLOCK FALSE
