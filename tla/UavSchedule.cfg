\* The announced budgets (C1=10 ms, C2=20 ms), in ticks of 5 ms.
CONSTANTS
    Pause = 4
    CtlWork = 2
    NavWork = 4
    MaxSem = 3
    MaxInbox = 3
SPECIFICATION FairSpec
INVARIANTS
    OnTime
PROPERTIES
    NavNotStarved
