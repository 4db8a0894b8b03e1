CONSTANTS
    AAPL = AAPL
    t1 = t1
    t2 = t2
    Tickers = {AAPL}
    Rmse = {1}
    Threads = {t1, t2}
    Procs = {"p1"}
    ProcessOf <- MCProcessOf
    TTL = 1
    MaxClock = 1
    MaxVersions = 2
    MaxRequests = 3
    MaxFaults = 1
SPECIFICATION Spec
SYMMETRY Symmetry
CHECK_DEADLOCK FALSE
INVARIANTS
    TypeOK
    AnswersAreFresh
    AnswersMatchRequest
    LiveMeansLive
