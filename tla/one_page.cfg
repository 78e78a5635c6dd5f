SPECIFICATION System
CONSTANTS
    c1 = c1
    r1 = r1
    r2 = r2
    r3 = r3
    person = person
    dog = dog
    NoTarget = NoTarget
    NoSession = NoSession
    Clients = {c1}
    Requests = {r1, r2, r3}
    Targets = {person, dog}
    DefaultName = person
    Inputs <- Careless
    Cells <- Map
    RowPlaces <- Beside
    MaxNames = 2
    Modes = {"e"}
    UsersReload = FALSE
SYMMETRY Symmetry
INVARIANTS
    TypeOK
    OneRequest
    EarlyAnswerComplete
    OnePageInv
    OpenSessionsBounded
CHECK_DEADLOCK FALSE
