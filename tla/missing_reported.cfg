SPECIFICATION Spec
CONSTANTS
    s1 = s1
    s2 = s2
    Sessions = {s1, s2}
    NoSession = NoSession
    MaxNames = 2
    Modes = {"c"}
SYMMETRY Symmetry
INVARIANTS
    MissingSessionIsReported
CHECK_DEADLOCK FALSE
