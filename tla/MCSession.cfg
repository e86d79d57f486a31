\* One session call at a time, beside the two calls of a load.
CONSTANTS
    Orgs = {A, B}
    Sids = {s1, s2}
    Lanes = {c1}
    MayLose = {"refresh", "login", "switch"}
    Null = Null
SPECIFICATION Spec
INVARIANTS
    TypeOK
    RevokedMeansNoData
    ShownBelongs
PROPERTIES
    SessionsByLogin
    NothingHangs
CHECK_DEADLOCK FALSE
