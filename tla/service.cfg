SPECIFICATION FairSpec
CONSTANTS
    s1 = s1
    s2 = s2
    Sessions = {s1, s2}
    NoSession = NoSession
    MaxNames = 2
    Modes = {"c", "e"}
PROPERTIES
    ImplementsService
    EverySessionAnswered
CHECK_DEADLOCK FALSE
