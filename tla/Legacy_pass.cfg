SPECIFICATION LcSpec
\* A collector that is stuck is what StopEnds refutes.
CHECK_DEADLOCK FALSE
CONSTANTS
    Keys = {k1, k2}
    MaxPart = 3
    MaxRow = 3
    MaxCrash = 2
    QueueMax = 1
    NoFile = NoFile
INVARIANTS LcTypeOK FinishedRunKeepsRows AdmittedFindLockFree FinalizeCovered StagedRowsDurable RepublishIdempotent
PROPERTIES StopEnds FinalFilesImmutable
