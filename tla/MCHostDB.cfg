SPECIFICATION DBFairSpec
CONSTANTS
    N = 3
    Tries = 3
    Rejected <- MCRejected
    MaxTimeouts = 2
    MaxStops = 2
INVARIANTS
    LastWriteStands
PROPERTIES
    StoreSpec
    CallReturns
CHECK_DEADLOCK FALSE
