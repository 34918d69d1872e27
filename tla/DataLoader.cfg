SPECIFICATION FairSpec
CONSTANTS
    N = 2
    Loaders = {"TXT", "DOCX", "PDF", "Web"}
    MaxFiles = 3
    MaxPages = 1
    Modulus = 8
INVARIANTS
    CounterExact
    LoadComplete
    HandledOnce
    CallbackOnLiveObject
    LibraryUpWhileExtracting
    CleanShutdown
PROPERTIES
    ImplementsLoaderSpec
    CallsReturn
    QueuedIsHandled
CHECK_DEADLOCK FALSE
