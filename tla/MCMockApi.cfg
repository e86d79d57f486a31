\* Three credits, two searches, two requests in flight, and time to end them.
CONSTANTS
    MaxCandidates = 50
    Fanout = {2}
    marz = marz
    allan = allan
    labs = labs
    inc = inc
    Users = {marz, allan}
    Orgs = {labs, inc}
    Memberships <- MCMemberships
    InitialCredits <- MCCredits
    Keys = {k1}
    Requests <- MCRequests
    Calls = {c1, c2}
    TQueued = 1
    TDiscoverEnd = 3
    TVerifyEnd = 5
    MaxClock = 5
    MaxJobs = 2
    Null = Null
SPECIFICATION Spec
SYMMETRY Symmetric
INVARIANTS
    JobAgreesWithLeads
PROPERTIES
    ImplementsLedger
    ProgressForward
CHECK_DEADLOCK FALSE
