CONSTANTS
    r1 = r1
    r2 = r2
    a = a
    p1 = p1
    p2 = p2
    i1 = i1
    i2 = i2
    None = None
    Sweeper = Sweeper
    Requests <- MCRequest
    Targets <- MCTargets
    Guarded <- MCUnguarded
    Ports <- MCPorts
    Records <- MCRecords
    MaxFailures = 2
    MaxCrashes = 2
    MaxForgets = 1
SPECIFICATION FairSpec
INVARIANTS NoOrphanFault OneRecord
PROPERTIES RecordedFirst ExpiredTakenUp
CHECK_DEADLOCK FALSE
