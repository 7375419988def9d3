SPECIFICATION Spec
CONSTANTS
    Conns = {w1}
    QueueMax = 2
    BusMax = 2
    MaxEvent = 3
INVARIANT MicroNotDropped
CHECK_DEADLOCK FALSE
