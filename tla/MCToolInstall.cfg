CONSTANTS
    t1 = t1
    t2 = t2
    t3 = t3
    t4 = t4
    None = None
    Key <- Tools
    Graphs <- MCGraphs
    Jobs = 2
    Generate = TRUE
SPECIFICATION Spec
INVARIANTS
    DependenciesInstalledFirst
    EveryToolAccountedFor
    ClosedOnlyWhenExhausted
PROPERTIES
    ImplementsPlan
    SettlesPlan
