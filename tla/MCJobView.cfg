CONSTANTS
    MaxBackoff = 1
    StrictMode = TRUE
    Null = Null
SPECIFICATION Spec
INVARIANTS
    TypeOK
    OneRequestEach
    LogTruthful
PROPERTIES
    EndStaysShown
    ViewSettles
CHECK_DEADLOCK FALSE
