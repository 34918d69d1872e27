SPECIFICATION Spec
CONSTANTS
    c1 = c1
    c2 = c2
    Callers = {c1, c2}
    Processors = 3
    Lists <- TheLists
    Customs = {"none", "symbols", "bad"}
    MaxWorkers = {0, 2, 4}
    Lengths = {0, 1, 3}
    Batches = {1, 2, 3}
    MaxCalls = 4
SYMMETRY Symmetry
INVARIANTS
    TypeOK
    CleanedTexts
    TeamStaysCapped
PROPERTY ImplementsHistorySpec
CHECK_DEADLOCK FALSE
