\* Two words and a queue of one pending signal, so that signals are dropped.
CONSTANTS
    NULL = NULL
    a1 = a1
    Words = 2
    Stride = 2
    MaxMeas = 2
    MaxFail = 1
    MaxQueue = 1
    Apps <- OneTask
    NoTask = NULL
SPECIFICATION FairSpec
CHECK_DEADLOCK FALSE
PROPERTIES
    MeasurementRead
    ProgramServed
    UnloadCompletes
