SPECIFICATION FairSpec
CONSTANTS
    None = None
    Models = {1, 2}
    Versions = {1}
    Requests = {r1}
    ExitTimeout = 1
    MaxEvents = 2
INVARIANTS
    CleanStop
    SafeOnceReady
    ReadyMeansServing
    NothingOverlooked
PROPERTIES
    Terminates
