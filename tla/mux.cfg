SPECIFICATION FairSpec
CONSTANTS
    Caller = {c1, c2}
    None = None
    Cap = 1
    MaxTraffic = 3
INVARIANTS AnswerIsMine NoLeak LandedWins NotesBeforeAnswer
PROPERTIES CloseReleases
CHECK_DEADLOCK FALSE
