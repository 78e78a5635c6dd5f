SPECIFICATION Spec
CONSTANTS
    maxSegmentSize = 5
    Rows = 2
    Sizes = {6, 12}
    EmulatedSize = 4
    MaxSessions = 2
    MaxFrames = 3
    MaxBoots = 2
    Lossy = TRUE
    MaxEdgeBoots = 2
CONSTRAINT OneRestart
INVARIANTS
    TypeOK
    OneFrame
    FreshFrame
    OnlyMisfitsThrow
CHECK_DEADLOCK FALSE
