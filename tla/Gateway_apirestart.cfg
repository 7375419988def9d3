SPECIFICATION Spec
CONSTANTS
    Conns = {c1, c2}
    Insts = {i1}
    MaxClient = 3
    MaxInbox = 2
    MaxReqs = 2
INVARIANT ApiRestartHarmless
CHECK_DEADLOCK FALSE
