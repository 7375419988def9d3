SPECIFICATION Spec
CONSTANTS
    Conns = {c1}
    Insts = {i1}
    MaxClient = 2
    MaxInbox = 1
    MaxReqs = 1
PROPERTIES CommandsEnd StopCompletes
CHECK_DEADLOCK FALSE
