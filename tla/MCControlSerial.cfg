SPECIFICATION FairSpec
CONSTANTS
    a = a
    b = b
    s = s
    p = p
    q = q
    m = m
    k = k
    u = u
    NoKey = NoKey
    Actors = {a, b}
    Providers <- MCProviders
    Models <- MCModels
    Keys = {k}
    Upstreams = {u}
    Web = {a}
    Forms <- SerialForms
    MaxForms = 4
    Faults = {"save", "restart"}
    OneAtATime = TRUE
INVARIANTS
    SavedPersists
    QuietMeansInSync
PROPERTIES
    ImplementsAtomic
    ChangesAreServed
CHECK_DEADLOCK FALSE
