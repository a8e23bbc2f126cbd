SPECIFICATION Spec
CONSTANTS
    V3Pools = {"c"}
    V2Pools = {"v"}
    Directions = {"zeroForOne", "oneForZero"}
    Objs = {o1, o2, o3}
    EventCap = 1
    MaxHeight = 3
    BlockLogs = 1
    MaxForks = 1
    MaxLogs = 3
    MaxLosses = 1
INVARIANTS
    FollowsChain
CHECK_DEADLOCK FALSE
