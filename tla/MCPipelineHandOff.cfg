\* Only the enqueue of verify may throw: expected to find a job that hangs in verifying.
CONSTANTS
    Jobs = {j1}
    Candidates = {c1}
    Results <- NoneOrAll
    Accepted = {c1}
    Slots = {s1}
    MaxAttempts = 2
    MaxStalls = 1
    MaxFaults = 0
    FaultKinds = {}
    ThrowSteps = {"enqueue"}
SPECIFICATION Spec
PROPERTIES
    HandOffHeals
CHECK_DEADLOCK FALSE
