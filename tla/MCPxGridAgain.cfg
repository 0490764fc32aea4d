SPECIFICATION GridSpec
CONSTANTS
    SccLeft <- MCSccLeft
    FmcLeft <- MCFmcLeft
    FromSteps = {1, 3}
    MaxRuns = 3
    MaxUpsets = 0
INVARIANTS IdempotentStep
CHECK_DEADLOCK FALSE
