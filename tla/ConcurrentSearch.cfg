SPECIFICATION FairSpec
CONSTANTS
    Clients = {c1, c2}
    MaxQueries = 2
    MaxCalls = 2
    Modes = {TRUE, FALSE}
INVARIANTS
    TypeOK
    Serialised
    UndefinedOnlyByClose
    TasksEndFirst
PROPERTIES
    ImplementsManySpec
    CallsReturn
CHECK_DEADLOCK FALSE
