SPECIFICATION Spec
CONSTANTS
    tp = tp
    tq = tq
    ta = ta
    tc = tc
    td = td
    tx = tx
    Task = {tp, tq, ta, tc, td, tx}
    Top = Top
    Programs <- MCPrograms
    MaxLines = 2
INVARIANTS
    LinesInOrder
    OneBlock
    DefinitionOrder
    StreamNotPinned
