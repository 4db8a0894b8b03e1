CONSTANTS
    AAPL = AAPL
    c1 = c1
    w1 = w1
    w2 = w2
    Scheduler = Scheduler
    Tickers = {AAPL}
    Clients = {c1}
    Workers = {w1, w2}
    Rmse = {1, 2}
    Faults = {"train", "registry", "crash"}
    MaxVersions = 3
    MaxFaults = 1
SPECIFICATION FairSpec
INVARIANTS
    TypeOK
    ReadyIsOnDisk
    BestIsLowest
    OneJobPerVersion
    PendingIsOwned
    JobMatchesRegistry
PROPERTIES
    LifecycleOrder
    PendingSettles
    RetrainedUnlessFault
