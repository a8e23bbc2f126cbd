CONSTANTS
    Goroutines = {g1, g2}
    MaxNonce = 3

SPECIFICATION TrackerSpec

INVARIANTS
    TrackerTypeOK

PROPERTIES
    AtomicCounter

CHECK_DEADLOCK FALSE
