SPECIFICATION Spec
CONSTANTS
    Callers = {c1, c2}
    Workers = {v1, v2}
    TaskCap = 1
    ResultCap = 4
    AnchorAssets <- MCAnchors
    Pools <- MCPools
    PairPools <- MCPairPools
    Logs <- MCLogs
    Start <- MCStart
    Moves <- MCMoves
    Q96 = 64
    MinSqrt = 2
    MaxSqrt = 120
    FeeUnit = 100
    Pips = 10
    PipsLimit = 10
    DefaultFee = 3
    DefaultPips = 30
    Accuracy = 200
    Roundoff <- MCRoundoff
    MinProfit = 1
    Costs = 2
    MaxReturn = 1
    MaxCalls = 2
    MaxMoves = 1
SYMMETRY Symmetry
INVARIANTS
    TypeOK
    NoSendAfterClose
    OffersHoldUp
    NobodyWaitsOnEverybody
CHECK_DEADLOCK FALSE
