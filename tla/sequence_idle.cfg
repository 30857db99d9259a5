SPECIFICATION Spec
CONSTANTS
    None = None
    Correlations = {c1, c2}
    Batchers = {b1}
    Fallible = {b1}
    MaxSlot = 0
    Idlers = {c1, c2}
    Pipelined = FALSE
    Stalls = FALSE
    MaxRequests = 4
SYMMETRY Symmetry
CHECK_DEADLOCK FALSE
INVARIANTS
    IInv
    NotLost
    NothingAfterEnd
PROPERTY
    SequenceIntegrity
