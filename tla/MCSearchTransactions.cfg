\* Two organizations with one credit each, two submits, two cancels.
CONSTANTS
    Orgs = {o1, o2}
    Keys = {k1, k2}
    Starts = {s1, s2}
    Cancels = {c1, c2}
    Null = Null
    InitialCredits <- MCInitialCredits
SPECIFICATION Spec
SYMMETRY Symmetric
INVARIANTS
    TypeOK
    LedgerTruthful
    OneJobPerKey
    PaidOnce
    RefundMatchesCancel
    AnswersAgree
    CancelAnswersFinal
    ConflictHasJob
PROPERTIES
    ImplementsLedger
CHECK_DEADLOCK FALSE
