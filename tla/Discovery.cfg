CONSTANTS
    V3Pools = {a}
    V2Pools = {c, d}
    Workers = {g1, g2}
    MaxPools = 2
    QueueCap = 2
    MaxClears = 1

SPECIFICATION FairSpec

INVARIANTS
    TypeOK
    MatrixConsistent

PROPERTIES
    BitmapsArrive

CHECK_DEADLOCK FALSE
