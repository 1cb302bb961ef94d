SPECIFICATION FairSpec
CONSTANTS
    Req = {r1, r2, r3}
    Id = {i1, i2}
    None = None
INVARIANTS NewestIsRouted AnsweredOnce
PROPERTIES RunReturns
CHECK_DEADLOCK FALSE
