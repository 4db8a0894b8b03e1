CONSTANTS
    j1 = j1
    j2 = j2
    w1 = w1
    w2 = w2
    Jobs = {j1, j2}
    Urgent = {j1}
    Workers = {w1, w2}
    None = None
    Priority <- MCPriority
    MaxRetries = 1
    DlqMax = 1
    AllowShutdown = TRUE
    MaxRequeues = 2
SPECIFICATION FairSpec
CHECK_DEADLOCK FALSE
INVARIANTS
    TypeOK
    QueuedIsDispatchable
    OrphanedByShutdownOnly
    SingleCopy
    RetryBudget
PROPERTIES
    ImplementsLifecycle
    ImplementsFairLifecycle
