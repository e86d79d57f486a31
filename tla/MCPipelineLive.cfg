\* One crash or failing sweep away from a hand-off; handlers may throw anywhere else.
CONSTANTS
    Jobs = {j1}
    Candidates = {c1, c2}
    Results <- NoneOrAll
    Accepted = {c1}
    Slots = {1}
    MaxAttempts = 2
    MaxStalls = 1
    MaxFaults = 1
    FaultKinds = {"early crash", "sweep"}
    ThrowSteps <- AllButHandOff
SPECIFICATION Spec
PROPERTIES
    EveryJobEnds
CHECK_DEADLOCK FALSE
