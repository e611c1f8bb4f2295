SPECIFICATION Spec
CONSTANTS
    MaxHeads = 2
    MaxSyncs = 1
    MaxPromotes = 1
    MaxFaults = 1
INVARIANTS
    CutIsRedone
    SyncedByALaterReset
    PanicsOnlyOnFaults
PROPERTIES
    NewestHeadReached
    CloseEndsEveryone
CHECK_DEADLOCK FALSE
