SPECIFICATION Spec
CONSTANTS
    MaxWorkers = 2
    MaxDocs = 2
    Extractors = {"HF"}
    Builds = {TRUE}
INVARIANT
    EveryDocumentReturned
CHECK_DEADLOCK FALSE
