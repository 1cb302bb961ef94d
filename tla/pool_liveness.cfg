SPECIFICATION FairSpec
CONSTANTS
    Server = {"s1"}
    Tenant = {"t1"}
    CredSet = {"cs"}
    Keys <- KeysOne
    Id = {i1}
    Caller = {c1, c2}
    Def = {d1}
    NoDef = NoDef
    None = None
    MaxConcurrent = 1
    MaxProcsPerTenant = 1
    BreakerThreshold = 1
    getMaxAttempts = 2
    MaxNow = 2
PROPERTIES AgingSparesWork GetReturns OrphansCollected ShutdownDrains
