SPECIFICATION FairSpec
CONSTANTS
    Pods = {p1, p2}
    Workers = {w1, w2}
    Slots = 1
    None = None
    MaxRuns = 2
    Reruns = {p1}
    MaxRestarts = 1
INVARIANTS AnswerIsOwn RequestAccounted
PROPERTIES PoolSpec TriggerConsumed
CHECK_DEADLOCK FALSE
