SPECIFICATION FairSpec
CONSTANTS
    c1 = c1
    c2 = c2
    None = None
    Models = {m1}
    Versions = {1, 2}
    Configs = {c1, c2}
    PlatformOf <- MCPlatformOf
    Requests = {r1}
    MaxLoads = 3
ACTION_CONSTRAINT
    SecondVersionOnce
INVARIANTS
    IInv
    OneBackendPerVersion
    ReadyServesCurrentConfig
    LastRequestWins
PROPERTIES
    LatestIsReady
    EventuallySettles
    ImplementsService
