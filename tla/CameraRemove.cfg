\* The driver is removed and nobody reads any more.
\* The system stops once the driver is gone and nobody can read.
CONSTANTS
    Readers = {r1, r2}
SPECIFICATION FairSpec
PROPERTIES
    RemoveCompletes
CHECK_DEADLOCK FALSE
