CONSTANTS
    Pids = {p1, p2}
    Slots = {s1, s2}
    MaxGen = 2
    MaxStage = 1
SPECIFICATION Spec
SYMMETRY Symmetry
INVARIANTS
    NoOrphanRuns
    ExactStatus
    NoLostExit
    RecordsFit
    StageReached
PROPERTY ForeignUnharmed
CHECK_DEADLOCK FALSE
