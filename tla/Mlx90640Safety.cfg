\* One program; four words in blocks of two (blocks at 0, 1 and 3, overrun by one word).
CONSTANTS
    NULL = NULL
    a1 = a1
    Words = 4
    Stride = 2
    MaxMeas = 2
    MaxFail = 1
    MaxQueue = 2
    Apps <- OneTask
    NoTask = NULL
SPECIFICATION Spec
CHECK_DEADLOCK FALSE
INVARIANTS
    TypeOK
    NoLostFrame
    CopyNotOlderThanSignal
PROPERTIES
    ImplementsChannel
