SPECIFICATION Spec
CONSTANTS
    NSteps = 3
    SoftSteps = {2, 3}
    Reactivated = 2
    Invalidated = {2, 3}
    Launches = {l1, l2}
    MaxLaunches = 2
    MaxOther = 1
SYMMETRY MCSymmetry
INVARIANTS
    StepsInOrder
    VerdictHonest
    RunningMeansLive
PROPERTIES
    DoneNotRepeated
CHECK_DEADLOCK FALSE
