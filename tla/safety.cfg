SPECIFICATION Spec
CONSTANTS
    s1 = s1
    s2 = s2
    s3 = s3
    Sessions = {s1, s2, s3}
    NoSession = NoSession
    MaxNames = 2
    Modes = {"c", "e"}
SYMMETRY Symmetry
CONSTRAINT FourNames
INVARIANTS
    TypeOK
    AnswersBelong
    NoSilentDrop
    EarlyAnswerNotEmpty
    OncePerThread
    CountNeverPassed
    AnsweredOnce
    OnlyDumpRaces
CHECK_DEADLOCK FALSE
