SPECIFICATION Spec
CONSTANTS
    maxSegmentSize = 5
    Rows = 2
    Sizes = {6, 12}
    EmulatedSize = 4
    MaxSessions = 2
    MaxFrames = 3
    MaxBoots = 2
    Lossy = FALSE
    MaxEdgeBoots = 1
INVARIANTS
    UnsatisfiedIsNacked
CHECK_DEADLOCK FALSE
