SPECIFICATION DuoSpec
CONSTANTS
    MaxTenant = 2
    MaxRuns = 2
    MaxFaults = 1
    FromSteps <- AnyStart
    Leftovers <- Earlier
INVARIANTS OkMeansThisTenant CleanRunSucceeds OkMeansStudentsGetIn
CHECK_DEADLOCK FALSE
