SPECIFICATION Spec
CONSTANTS
    Requests <- AllRequests
    Workers <- SomeWorkers
    Emulated <- SomeEmulated
    Scene <- SomeScenes
    Foreign = {99}
    m_classes <- Classes
    person <- Person
    Emulations = 1
INVARIANTS
    TypeOK
    ResultsAnswer
    OwnCell
    MapAgrees
    MarksAreTrue
CHECK_DEADLOCK FALSE
