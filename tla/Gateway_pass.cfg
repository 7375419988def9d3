SPECIFICATION Spec
CONSTANTS
    Conns = {c1}
    Insts = {i1}
    MaxClient = 2
    MaxInbox = 2
    MaxReqs = 2
INVARIANTS GwTypeOK NoLeakedApi RowsHaveBatch StreamingIsTrue StopLeavesNoRows
CHECK_DEADLOCK FALSE
