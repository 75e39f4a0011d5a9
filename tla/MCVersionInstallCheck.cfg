SPECIFICATION Spec
CONSTANTS
    p1 = p1
    p2 = p2
    c1 = c1
    local = local
    shared = shared
    Free = Free
    Proc = {p1, p2}
    Checker = {c1}
    Path = {local, shared}
    Requests <- MCInstall
    OwnUninstall = TRUE
    MaxOps = 1
CHECK_DEADLOCK FALSE
INVARIANTS
    CheckSawComplete
