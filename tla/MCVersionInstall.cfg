SPECIFICATION Spec
CONSTANTS
    p1 = p1
    p2 = p2
    c1 = c1
    local = local
    shared = shared
    Free = Free
    Proc = {p1, p2}
    Checker = {c1}
    Path = {local, shared}
    Requests <- MCRequests
    OwnUninstall = TRUE
    MaxOps = 2
CHECK_DEADLOCK FALSE
INVARIANTS
    TypeOK
    HalfDoneIsMarked
    CheckIsHonest
    TokenIsLive
    ReportedIsReal
PROPERTIES
    LockIsFreed
