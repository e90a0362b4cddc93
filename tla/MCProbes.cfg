SPECIFICATION Spec
CONSTANTS
    Config <- MCConfig
    Memory <- MCMemory
    Shares <- MCShares
    MaxStored = 2
INVARIANT EntriesTrue
PROPERTY AllAnswered
CHECK_DEADLOCK FALSE
