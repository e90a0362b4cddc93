SPECIFICATION Spec
CONSTANTS
    p1 = p1
    p2 = p2
    m1 = m1
    m1L = m1L
    m1LL = m1LL
    m2 = m2
    NoKey = NoKey
    Keys = {}
    Providers = {p1, p2}
    Models <- MCModels
    Upstreams <- MCModels
    Configs <- MCConfigs
    Stripped <- MCStripped
    Native <- MCNative
    Requests = {"r"}
INVARIANT
    AllSentToFirst
CHECK_DEADLOCK FALSE
