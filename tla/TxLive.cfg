CONSTANTS
    Payloads = {p1, p2}
    Threads = {t1}
    SemCap = 1
    ChanCap = 1
    MaxAttempts = 1
    FirstNonce = 1
    MaxTrades = 2
    Nobody = Nobody
    LostReplies = TRUE
    CallbackPanics = FALSE

SPECIFICATION FairOperatorSpec

PROPERTIES
    PayloadReturns
    ShutdownCompletes
    RefreshHeals
    NoRollbackAfterAck
