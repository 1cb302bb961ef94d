SPECIFICATION FairSpec
CONSTANTS
    Caller = {c1, c2}
    None = None
    MaxMat = 2
    MaxSweep = 1
INVARIANTS OneConversation InvalidatedStaysOut GenNamesMaterial
PROPERTIES ParkedIsWoken
