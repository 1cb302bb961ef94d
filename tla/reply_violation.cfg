SPECIFICATION FairSpec
CONSTANTS
    r1 = r1
    r2 = r2
    Req <- TwoReq
    Accepting <- NoReq
    pendingMsgsLimit = 1
    MaxFrames = 1
    MaxCalls = 1
PROPERTIES ViolationSurfaced
