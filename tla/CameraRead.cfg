\* Three programs read while the driver is bound, removed and gone.
\* The system stops once the driver is gone and nobody can read.
CONSTANTS
    Readers = {r1, r2, r3}
SPECIFICATION FairSpec
INVARIANTS
    NoSpuriousPass
PROPERTIES
    ReadServed
    RemoveCompletesIfRead
CHECK_DEADLOCK FALSE
