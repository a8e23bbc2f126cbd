CONSTANTS
    Payloads = {p1, p2}
    Threads = {t1, t2, t3}
    SemCap = 2
    ChanCap = 1
    MaxAttempts = 2
    FirstNonce = 1
    MaxTrades = 2
    Nobody = Nobody
    LostReplies = TRUE
    CallbackPanics = TRUE

SPECIFICATION MonitorSpec

SYMMETRY Symmetry

INVARIANTS
    TypeOK
    TradeMinedOnce
    CreditedWasMined
    BoundedBroadcasts
    NothingLeaks

CHECK_DEADLOCK FALSE
