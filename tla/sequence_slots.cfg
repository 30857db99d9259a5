SPECIFICATION FairSpec
CONSTANTS
    None = None
    Correlations = {c1, c2}
    Batchers = {b1}
    Fallible = {b1}
    MaxSlot = 1
    Idlers = {c1}
    Pipelined = FALSE
    Stalls = FALSE
    MaxRequests = 3
CHECK_DEADLOCK FALSE
INVARIANTS
    OneClaim
    NoneOverlooked
PROPERTIES
    Served
    Exits
