CONSTANTS
    MaxDocs = 2
    MaxLen = 4
    MaxSize = 3
    Modulus = 16
    ModelRows = 3
    MaxTokens = 4
    TokenLogits = 2
    MaxBatch = 3
    MaxTexts = 3
SPECIFICATION Spec
INVARIANTS
    ChunksCoverText
    DocumentsStayWhole
    OutOfBoundsOnlyBy
    OwnVector
    ModelServesOneBatch
CHECK_DEADLOCK FALSE
