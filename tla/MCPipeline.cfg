\* One job and two crashes or lost locks: an entry is redelivered beside its first
\* handler, and then fails as stalled too often.  A throw elsewhere abandons a handler as
\* a crash does: only a throw amid the scoring is tried beside them.
CONSTANTS
    Jobs = {j1}
    Candidates = {c1, c2}
    Results <- AllFound
    Accepted = {c1}
    Slots = {s1, s2}
    MaxAttempts = 2
    MaxStalls = 1
    MaxFaults = 2
    FaultKinds = {"crash", "lock"}
    ThrowSteps = {"score"}
SPECIFICATION Spec
SYMMETRY Symmetric
INVARIANTS
    TypeOK
    CheckpointMeansDiscovered
    CompletedMeansSettled
    RefundedNeverDelivered
PROPERTIES
    SettledLeadsKept
    EndedJobsStayEnded
CHECK_DEADLOCK FALSE
