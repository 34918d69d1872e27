CONSTANTS
    Stores = {s1, s2}
    Models = {m1, m2}
    Texts = {t1}
    NoText = NoText
    NoModel = NoModel
    NoStore = NoStore
    NoPos = NoPos
    MaxChunks = 2
    MaxIds = 5
SPECIFICATION Spec
INVARIANT
    SetChunksConfigures
CHECK_DEADLOCK FALSE
