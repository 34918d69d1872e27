CONSTANTS
    MaxDocs = 1
    MaxLen = 3
    MaxSize = 2
    Modulus = 16
    ModelRows = 2
    MaxTokens = 1
    TokenLogits = 1
    MaxBatch = 1
    MaxTexts = 1
SPECIFICATION Spec
INVARIANT
    CountKeepsText
CHECK_DEADLOCK FALSE
