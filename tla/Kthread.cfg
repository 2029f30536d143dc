\* Two programs register and are killed in any order against fair threads.
\* The system stops once the module is unloaded.
CONSTANTS
    Apps = {a1, a2}
    NoTask = NoTask
    MaxQueue = 1
    MaxPass = 2
SPECIFICATION FairSpec
INVARIANTS
    CopyNotOlderThanSignal
PROPERTIES
    ImplementsChannel
    SignalsKeepComing
    CleanupCompletes
CHECK_DEADLOCK FALSE
