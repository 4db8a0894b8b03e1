CONSTANTS
    t1 = t1
    t2 = t2
    t3 = t3
    Threads = {t1, t2, t3}
    WindowSize = 3
    ThresholdNum = 1
    ThresholdDen = 2
    HalfOpenMax = 2
    MaxCalls = 8
    MaxResets = 1
SPECIFICATION FairSpec
CHECK_DEADLOCK FALSE
INVARIANTS
    TypeOK
    CountMatchesWindow
    ClosedIsHealthy
    ProbeSlots
    CallsAccounted
PROPERTY
    HalfOpenResolves
