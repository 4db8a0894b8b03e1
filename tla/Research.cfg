CONSTANTS
    A = A
    B = B
    RsiWindow = 2
    VolWindow = 3
    LongWindow = 5
    Lag = 2
    Sizes <- MCSizes
    TrainSizes = {22, 30}
    Gaps = {4, 15}
    SeqLens = {1, 3, 5}
    Folds = {1, 2}
    TrainPct = 70
    ValPct = 15
    Stocks = {A, B}
    MinRows = 10
    NClusters = 6
    Horizons = {1, 2, 4}
    RiskWindow = 2
    SimilarRows = 16
    SimilarMargin = 4
    PathLen = 4
    IcWindow = 3
SPECIFICATION Spec
CHECK_DEADLOCK FALSE
INVARIANTS
    NoLookahead
    TargetsAligned
    ForwardSamplesComplete
