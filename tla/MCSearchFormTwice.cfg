\* As MCSearchForm, but the organization is switched at any time.
CONSTANTS
    Orgs = {o1, o2}
    Tabs = {t1, t2}
    Calls = {c1, c2}
    MaxPerWindow = 1
    MayDie = {}
    StorageWorks = TRUE
    LeaveMidSubmit = FALSE
    SwitchUnacked = TRUE
    RefreshMayFail = FALSE
    Null = Null
    InitialCredits <- MCInitialCredits
SPECIFICATION Spec
INVARIANTS
    ChargedOnce
CHECK_DEADLOCK FALSE
