SPECIFICATION Spec
CONSTANTS
    Users = {u1}
    Processors = {"log1", "log2"}
    Protocols = {"Aave", "Compound"}
    Accounts <- AccountValues
    Payloads = {p1, p2}
    LogCap = 1
    ExecCap = 1
    MinProfit = 2
    WithGEVM = TRUE
    AbiParses = TRUE
    MaxChanges = 2
    MaxFaults = 1
INVARIANTS
    TypeOK
    OneAttemptPerUser
    OnePlacePerPayload
    
CHECK_DEADLOCK FALSE
