SPECIFICATION Spec
CONSTANTS
    a1 = a1
    a2 = a2
    b1 = b1
    A = A
    B = B
    Threads = {a1, a2, b1}
    Processes = {A, B}
    ProcessOf <- MCProcessOf
    Configs <- MCConfigs
    Inputs <- MCInputs
    Limit = 1
    MaxHits = 2
    MaxCalls = 4
    MaxInserts = 2
INVARIANTS
    TypeOK
    RacesOutsideLock
    Searchable
    StatsExact
SYMMETRY Symmetry
PROPERTY
    ImplementsVectorSpec
CHECK_DEADLOCK FALSE
