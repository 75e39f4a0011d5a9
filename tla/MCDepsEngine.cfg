SPECIFICATION Spec
CONSTANTS
    p = p
    q = q
    r = r
    ghost = ghost
    None = None
    Never = Never
    Key = {p, q, r}
    Configs <- MCConfigs
    Invocations <- MCInvocations
    Jobs = 2
    Version = {1, 2}
    MaxEdits = 1
    MaxRuns = 2
    MaxFaults = 1
CHECK_DEADLOCK FALSE
INVARIANTS
    DependenciesFirst
    EveryProviderReported
    FreshIsCurrent
PROPERTIES
    RunEnds
