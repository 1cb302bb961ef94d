SPECIFICATION FairSpec
CONSTANTS
    Exchange = {e1, e2}
    Tool = {t1}
    None = None
    InboxCap = 1
    MaxPages = 2
    Listings = {1, 3}
INVARIANTS Drained AtMostOnce HastyOnlyWhenCold
PROPERTIES ExchangesEnd
CHECK_DEADLOCK FALSE
