SPECIFICATION GridSpec
CONSTANTS
    SccLeft <- MCSccLeft
    FmcLeft <- MCFmcLeft
    FromSteps = {1, 3}
    MaxRuns = 3
    MaxUpsets = 2
INVARIANTS CleanRunConnects
PROPERTIES StrangersStand ClearedMeansGone
CHECK_DEADLOCK FALSE
