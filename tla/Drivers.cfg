\* Two programs (three for the lidars), two duty cycles one of which is too long, three
\* angles one of which is out of range, three edges, one failure of the PWM controller;
\* a serial buffer of three bytes and chunks that fill it or not; for the display two
\* failed transfers in one probe; a sensor of two by four pixels with two bad ones put up
\* with, two of the auxiliary words that are tested and one that is not, three measurements.
CONSTANTS
    Programs = {p1, p2}
    Angles = {0, 180, 181}
    Duties = {10, 25}
    Period = 20
    MaxEdge = 3
    BufLen = 3
    Chunks = {1, 2, 3}
    MaxStream = 4
    PwmFails = 1
    DisplayFails = 2
    DisplayBinds = 1
    Lines = 2
    Columns = 4
    AuxWords = {32, 33, 10}
    MaxFrame = 3
    Limit = 2
    OffsetFields <- OffsetSample
    Coefficients <- CoefficientSample
SPECIFICATION Spec
INVARIANTS
    TypeOK
    SysfsCopyTells
    GpioLastLevelReported
    GpioEdgeSignalled
    LidarKept
    SerialReadNotOlder
    SerialEchoedOnce
    DisplayFramed
    DisplayFailuresStayLocal
    DisplayPicturesFreed
    EntriesBacked
    ReleasedOnce
    CalibrationStoredExactly
    CalibrationPixelsAccepted
    ImageCurrent
PROPERTIES
    PwmStaysOn
\* The programs end and the drivers are removed.
CHECK_DEADLOCK FALSE
