SPECIFICATION Spec
CONSTANTS
    c1 = c1
    c2 = c2
    Client = {c1, c2}
    Thread = {t1, t2}
    Ids = {0, 1, 2}
    Types = {"tree", "flat"}
    kMaximumOramStorageNum = 2
    Val = {v1}
    NoVal = NoVal
    None = None
    Configs <- MCConfigs
INVARIANTS
    TypeOK
    RegistrationExclusive
    CrashJustified
    StoredIsKept
    CloseNotForgotten
CHECK_DEADLOCK FALSE
