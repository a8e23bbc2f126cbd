CONSTANTS
    Tokens = {a, b}
    Processors = {p1, p2}
    Readings <- MCReadings
    LogCap = 2
    MaxLogs = 3
    Word = 100000000
    AnyOfTopics = TRUE
    Misread = Misread

SPECIFICATION Spec

SYMMETRY Symmetry

INVARIANTS
    TypeOK
    OneQualifierPerToken
    PushWasReported

PROPERTIES
    FiresOnce

CHECK_DEADLOCK FALSE
