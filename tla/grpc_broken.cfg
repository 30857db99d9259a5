SPECIFICATION Spec
CONSTANTS
    None = None
    Streams = {s}
    Unaries = {}
    MaxRequests = 2
    Breaks = TRUE
INVARIANT
    NotClearedInExecution
