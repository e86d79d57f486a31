\* Two tabs, two organizations, three submits; no switch while a search is unacknowledged.
CONSTANTS
    Orgs = {o1, o2}
    Tabs = {t1, t2}
    Calls = {c1, c2, c3}
    MaxPerWindow = 1
    MayDie = {"incr", "pexpire"}
    StorageWorks = TRUE
    LeaveMidSubmit = FALSE
    SwitchUnacked = FALSE
    RefreshMayFail = TRUE
    Null = Null
    InitialCredits <- MCInitialCredits
SPECIFICATION Spec
SYMMETRY Symmetric
INVARIANTS
    TypeOK
    ChargedOnce
    AcceptedJobOfThisSearch
    WindowHolds
PROPERTIES
    SubmitsReported
CHECK_DEADLOCK FALSE
