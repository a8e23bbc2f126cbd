SPECIFICATION Spec
CONSTANTS
    Workers = {w1, w2}
    Routes <- RouteValues
    Anchors = {"weth"}
    Payloads = {p1, p2, p3}
    SemCap = 1
    CandCap = 1
    ExecCap = 1
    MinProfit = 2
    LocalGas = 2
    RemoteGas = 4
    Unfetched = {"c"}
    MaxChanges = 2
    MaxFaults = 1
SYMMETRY Symmetry
INVARIANTS
    TypeOK
    
    BlacklistIsEarned
