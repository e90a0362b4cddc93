SPECIFICATION Spec
CONSTANTS
    MaxPieces = 4
    MaxTools = 3
    MaxSpelled = 5
    MaxBuffer = 4
    UsageLine = TRUE
INVARIANTS
    TypeOK
    BlocksWellFormed
    ThinkingSigned
    ToolsAnnounced
    ArgumentsWhole
    EndsProperly
    ItemsWellFormed
    LinesWellFormed
    ToldAsSaid
    CallsFound
CHECK_DEADLOCK FALSE
