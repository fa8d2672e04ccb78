SPECIFICATION Spec
CONSTANTS
    Absent = Absent
    Keys = {1, 2}
    Values = {1}
    Int64Max = 3
    Uint64Max = 3
    MaxActiveLeases = 2
    InitialRevision = 0
    InitialValues <- MCInitialValues
    Transactions <- MCTransactions
    WatchIds = {w1}
    WatchRequests <- MCWatchRequests
    MaxWatchers = 1
    MaxWatchPending = 1
    MaxWatchHistory = 0
CONSTRAINT WatchesOrLeases
INVARIANTS
    TypeOK
    AttachmentIndexConsistent
    EverySnapshotRestores
PROPERTIES
    NoGenerationReturns
    DeadlineNeverMovesBack
    LeasedWriteBeforeDeadline
    LeaseEndsWithItsKeys
    KeyMetadataFollowsRevision
