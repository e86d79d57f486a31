\* Two searches of at most two candidates, pages of two rows.
CONSTANTS
    MaxCandidates = 2
    Fanout = {1, 2}
    j1 = j1
    j2 = j2
    Jobs = {j1, j2}
    Foreign = Foreign
    Requests <- MCRequests
    PageSize = 2
    Null = Null
SPECIFICATION Spec
ACTION_CONSTRAINT WorkerWhenRead
INVARIANTS
    TypeOK
    PagesAddUp
    ScoreExplained
    JunkUnlessCut
    HiddenFilterIsEmpty
CHECK_DEADLOCK FALSE
