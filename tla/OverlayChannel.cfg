SPECIFICATION Spec
CONSTANTS
    Buffers <- MCBuffers
    Videos = {v1, v2}
    None = None
    MaxAllocations = 4
    MaxFlights = 4
    MaxOutgoing = 64
    MaxSwaps = 2
    MaxFrames <- MCFrames
    MaxDetach = 1
CHECK_DEADLOCK FALSE
INVARIANTS
    NoOverwrite
    RepliesExpected
    NoStall
SYMMETRY Symmetry
