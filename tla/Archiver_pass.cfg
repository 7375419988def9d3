SPECIFICATION ArchSpec
CONSTANTS
    Keys = {k1, k2}
    MaxPart = 4
    MaxRow = 2
    MaxCrash = 2
    NoFile = NoFile
INVARIANTS ArchTypeOK FilesInArrivalOrder RowsStoredOnce
PROPERTIES RowLogImplemented FinalizeLeavesNothing RowsSettle RecoveryPublishes
