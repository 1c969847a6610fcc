CONSTANTS
    Pids = {p1, p2}
    Slots = {s1}
    MaxGen = 2
    MaxStage = 0
SPECIFICATION FairSpec
PROPERTIES
    CallsReturn
    ChildrenFollowServer
    WaitReturns
CHECK_DEADLOCK FALSE
