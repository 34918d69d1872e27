SPECIFICATION FairSpec
CONSTANTS
    MaxWorkers = 2
    MaxDocs = 2
    Extractors = {"Python"}
    Builds = {TRUE}
PROPERTY
    OverriddenCallEnds
CHECK_DEADLOCK FALSE
