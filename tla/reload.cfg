SPECIFICATION ReloadSpec
CONSTANTS
    Server = {"s1"}
    Tenant = {"t1"}
    CredSet = {"cs"}
    Keys <- KeysRotation
    Id = {i1, i2}
    Caller = {c1}
    Def = {d1, d2}
    NoDef = NoDef
    NoConfig = NoConfig
    None = None
    MaxConcurrent = 1
    MaxProcsPerTenant = 1
    BreakerThreshold = 1
    getMaxAttempts = 1
    MaxNow = 2
SYMMETRY Symm
CONSTRAINT Serving
INVARIANTS NoLeakedConn CapRespected DefinitionsFresh
PROPERTIES RefusedSparesPrev
