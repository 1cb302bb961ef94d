SPECIFICATION Spec
CONSTANTS
    Server = {"a", "b"}
    Caller = {u}
    UserUnattributed = "_"
    Req = {r1}
    Configs <- Revisions
    None = None
    MaxRes = 2
    MaxPool = 2
    MaxGen = 2
CONSTRAINT OnlyA
INVARIANTS NeverAskedForUnattributed
