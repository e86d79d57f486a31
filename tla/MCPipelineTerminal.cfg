\* Only the discover provider may throw: expected to find an ended job that is set failed.
CONSTANTS
    Jobs = {j1}
    Candidates = {c1}
    Results <- NoneOrAll
    Accepted = {c1}
    Slots = {s1}
    MaxAttempts = 2
    MaxStalls = 1
    MaxFaults = 0
    FaultKinds = {}
    ThrowSteps = {"insert"}
SPECIFICATION Spec
PROPERTIES
    TerminalIsFinal
CHECK_DEADLOCK FALSE
