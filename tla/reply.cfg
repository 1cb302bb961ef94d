SPECIFICATION FairSpec
CONSTANTS
    r1 = r1
    r2 = r2
    Req <- OneReq
    Accepting <- OneReq
    pendingMsgsLimit = 1
    MaxFrames = 1
    MaxCalls = 2
INVARIANTS ClaimsReachable OneHonestEnd
PROPERTIES StreamContract StreamEnds DrainCompletes
