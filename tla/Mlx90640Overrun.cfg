\* The last block of a frame runs past its end.
CONSTANTS
    NULL = NULL
    a1 = a1
    Words = 4
    Stride = 2
    MaxMeas = 2
    MaxFail = 1
    MaxQueue = 2
    Apps <- OneTask
    NoTask = NULL
SPECIFICATION Spec
CHECK_DEADLOCK FALSE
INVARIANTS
    OnlyFrameWordsWritten
