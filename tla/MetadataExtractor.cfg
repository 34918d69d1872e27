SPECIFICATION FairSpec
CONSTANTS
    MaxWorkers = 3
    MaxDocs = 4
    Extractors = {"Regex", "HF", "Python"}
    Builds = {TRUE, FALSE}
INVARIANTS
    TypeOK
    OnePlace
    ProcessedAlone
    LosesOnlyInHand
    PoolTornDown
PROPERTY
    CallEnds
CHECK_DEADLOCK FALSE
