SPECIFICATION PromptSpec
CONSTANTS
    s1 = s1
    s2 = s2
    None = None
    Runners = {r1, r2}
    Fallible = {r2}
    Sizes = {1, 3}
    Shapes = {s1, s2}
    Modes <- MCModes
    Preferred = {2, 4}
    MaxPreferred = 4
    NeedShape = TRUE
    Delay = TRUE
    MaxRequests = 3
ACTION_CONSTRAINT
    FirstShape
INVARIANTS
    OncePerRequest
    NoStrandedWork
PROPERTIES
    FreshDecision
    ImplementsService
    Served
    Exits
