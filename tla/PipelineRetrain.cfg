CONSTANTS
    AAPL = AAPL
    c1 = c1
    w1 = w1
    Scheduler = Scheduler
    Tickers = {AAPL}
    Clients = {c1}
    Workers = {w1}
    Rmse = {1}
    Faults = {"registry"}
    MaxVersions = 2
    MaxFaults = 1
SPECIFICATION FairSpec
PROPERTY StaleIsRetrained
