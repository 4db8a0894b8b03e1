CONSTANTS
    t1 = t1
    t2 = t2
    Threads = {t1, t2}
    Endpoints = {"/api/v3/predict"}
    Answers = {202}
    Raised = {"MethodNotAllowed", "TrainingError"}
    Kinds = {"api", "metrics", "ready"}
    Capacity = 4
    Rate = 1
    Cost = 2
    MaxCalls = 2
    WindowS = 2
    Buckets = 2
    MaxClock = 3
    MaxLag = 1
    MaxRequests = 3
SPECIFICATION Spec
SYMMETRY Symmetry
CHECK_DEADLOCK FALSE
INVARIANTS
    TypeOK
    BurstBound
    WindowBound
    ReportsAreSound
    CountersReconcile
