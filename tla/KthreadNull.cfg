\* The program is killed while thread_wait sends.
CONSTANTS
    Apps = {a1}
    NoTask = NoTask
    MaxQueue = 1
    MaxPass = 1
SPECIFICATION Spec
INVARIANTS
    NoNullSignal
CHECK_DEADLOCK FALSE
