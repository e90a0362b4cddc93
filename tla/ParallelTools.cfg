SPECIFICATION Spec
CONSTANTS
    MaxPieces = 4
    MaxTools = 3
    MaxSpelled = 2
    MaxBuffer = 2
    UsageLine = FALSE
INVARIANT
    ToolsAnnounced
CHECK_DEADLOCK FALSE
