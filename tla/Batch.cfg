CONSTANTS
    c1 = c1
    c2 = c2
    Callers = {c1, c2}
    Order <- MCOrder
    Shapes = {"60x12", "30x12"}
    MaxBatch = 2
    MaxCalls = 2
SPECIFICATION Spec
CHECK_DEADLOCK FALSE
INVARIANTS
    TypeOK
    AnswersAreOwn
PROPERTIES
    Served
