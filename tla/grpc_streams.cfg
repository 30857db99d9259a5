SPECIFICATION FairSpec
CONSTANTS
    None = None
    Streams = {s}
    Unaries = {u}
    MaxRequests = 3
    Breaks = TRUE
INVARIANTS
    WrittenInOrder
    AnsweredBeforeFinish
PROPERTIES
    CallsUsedRightly
    Recycled
