SPECIFICATION FairSpec
CONSTANTS
    maxSegmentSize = 5
    Rows = 2
    Sizes = {6, 12}
    EmulatedSize = 4
    MaxSessions = 3
    MaxFrames = 3
    MaxBoots = 1
    Lossy = FALSE
    MaxEdgeBoots = 1
INVARIANTS
    SomeoneCompletes
    LastTakerGoesOn
PROPERTIES
    ImplementsPictures
    FetchEnds
CHECK_DEADLOCK FALSE
