SPECIFICATION FairSpec
CONSTANTS
    Sub = {s1}
    Req = {r1}
    Methods = {"discover", "list", "tools/call"}
    Kind = {tools}
    None = None
    SynthCap = 1
    MaxChanged = 2
INVARIANTS AckBeforeNotes GracefulEnd EveryChangeTold
PROPERTIES CloseEnds
CHECK_DEADLOCK FALSE
