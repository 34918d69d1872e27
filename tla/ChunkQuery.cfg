CONSTANTS
    Stores = {s1, s2}
    Models = {m1, m2}
    Texts = {t1}
    NoText = NoText
    NoModel = NoModel
    NoStore = NoStore
    NoPos = NoPos
    MaxChunks = 2
    MaxIds = 7
SPECIFICATION Spec
INVARIANTS
    TypeOK
    EmbeddingsMatchChunks
    UsableUntilStale
    UndefinedOnlyWhenStale
    HitsComparable
SYMMETRY Symmetry
CHECK_DEADLOCK FALSE
