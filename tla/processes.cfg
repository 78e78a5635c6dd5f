SPECIFICATION FairSpec
CONSTANTS
    Workers = {w}
    Edges = {e}
INVARIANTS
    TypeOK
    NoZombie
    NoThreadLeft
PROPERTIES
    StartFailuresAreCaught
    EndsOrServes
