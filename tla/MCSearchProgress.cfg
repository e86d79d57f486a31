\* One organization with one credit, two submits, two cancels; no symmetry, for liveness.
CONSTANTS
    Orgs = {o1}
    Keys = {k1, k2}
    Starts = {s1, s2}
    Cancels = {c1, c2}
    Null = Null
    InitialCredits <- MCInitialCredits
SPECIFICATION Spec
PROPERTIES
    CallsEnd
CHECK_DEADLOCK FALSE
