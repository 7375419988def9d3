SPECIFICATION Spec
CONSTANTS
    Keys = {k1}
    MaxPart = 2
    MaxRow = 2
    MaxCrash = 1
    NoFile = NoFile
INVARIANT InterruptedPublicationIdempotent
CHECK_DEADLOCK FALSE
