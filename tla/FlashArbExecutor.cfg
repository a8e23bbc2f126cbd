CONSTANTS
    Loans = {2}
    LenderFees = {0, 2}
    MinProfits = {1}
    MinOuts = {1}
    Outs = {1, 4}
    Asks = {1, 3}
    Stock = 1
    BufferUnit = 2
    MaxTxs = 2

SPECIFICATION Spec

INVARIANTS
    TypeOK
    OwnStockUntouched
    LenderIsSatisfied

PROPERTIES
    ProfitOrNothing

CHECK_DEADLOCK FALSE
