SPECIFICATION Spec
CONSTANTS
    p = p
    q = q
    r = r
    ghost = ghost
    None = None
    Never = Never
    Key = {p, q, r}
    Configs <- MCPair
    Invocations <- MCInvocations
    Jobs = 2
    Version = {1, 2}
    MaxEdits = 2
    MaxRuns = 2
    MaxFaults = 0
CHECK_DEADLOCK FALSE
INVARIANTS
    SuccessIsRecorded
