SPECIFICATION FairSpec
CONSTANTS
    p1 = p1
    t1 = t1
    t2 = t2
    Pods <- MCPods
    Threads <- MCThreads
    None = None
    Slots = 1
    MaxStarts = 3
    MaxOther = 1
INVARIANTS
    SlotsConserved
    PipelineFirst
    InflightHasThread
PROPERTIES
    EveryRunEnds
CHECK_DEADLOCK FALSE
