SPECIFICATION FairSystem
CONSTANTS
    c1 = c1
    r1 = r1
    r2 = r2
    person = person
    dog = dog
    NoTarget = NoTarget
    NoSession = NoSession
    Clients = {c1}
    Requests = {r1, r2}
    Targets = {person, dog}
    DefaultName = person
    Inputs <- Careless
    Cells <- Map
    RowPlaces <- Below
    MaxNames = 2
    Modes = {"e"}
    UsersReload = TRUE
PROPERTIES
    OnlyAnswersJam
    ImplementsPages
    SearchEnds
CHECK_DEADLOCK FALSE
