CONSTANTS
    N = 6
    Soft <- MCSoft
    Sdwan <- MCSdwan
    AlwaysRerun <- MCAlwaysRerun
    Unfailing <- MCUnfailing
    ResetStep = 2
    Undone = {3}
    CtlStep = 4
    OrgStep = 6
    MaxRuns = 2
    MaxLost = 1
    MaxLabResets = 1
SPECIFICATION Spec
INVARIANTS
    HardStepsFirst
    ReadyMeansOnboarded
    OnlineRouterLeftAlone
PROPERTIES
    FinishedRowsTerminal
    CompletedNotRepeated
CHECK_DEADLOCK FALSE
