CONSTANTS
    t1 = t1
    t2 = t2
    c = c
    AAPL = AAPL
    secret = secret
    p1 = p1
    None = None
    Users <- MCUsers
    Names <- MCNames
    Configs = {c}
    Tickers = {AAPL}
    Passwords = {secret}
    Roles = {"quant"}
    Threads = {t1, t2}
    Calls <- MCCalls
    Procs = {p1}
    ProcessOf <- MCProcessOf
    NoThread = None
    MaxClock = 1
    MaxCalls = 3
    MaxFaults = 1
SPECIFICATION Spec
SYMMETRY Symmetry
CHECK_DEADLOCK FALSE
INVARIANTS
    TypeOK
PROPERTIES
    AccountsAreKept
    ImplementsUserStore
