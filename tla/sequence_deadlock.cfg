SPECIFICATION TimelySpec
CONSTANTS
    None = None
    Correlations = {c1, c2}
    Batchers = {b1}
    Fallible = {}
    MaxSlot = 1
    Idlers = {c1}
    Pipelined = FALSE
    Stalls = FALSE
    MaxRequests = 3
CHECK_DEADLOCK FALSE
PROPERTY
    IdleSlotsAreFreed
