SPECIFICATION Spec
CONSTANTS
    s1 = s1
    s2 = s2
    Sessions = {s1, s2}
    NoSession = NoSession
    MaxNames = 2
    Modes = {"e"}
PROPERTIES
    DiscardedPacketIsIgnored
CHECK_DEADLOCK FALSE
