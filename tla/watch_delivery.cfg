SPECIFICATION FairClientSpec
CONSTANTS
    Absent = Absent
    Keys = {1, 2}
    Values = {1}
    Int64Max = 3
    Uint64Max = 2
    MaxActiveLeases = 1
    InitialRevision = 0
    InitialValues <- MCInitialValues
    Transactions <- MCTransactions
    WatchIds = {w1}
    WatchRequests <- MCWatchRequests
    MaxWatchers = 1
    MaxWatchPending = 2
    MaxWatchHistory = 2
    MaxDisruptions = 1
INVARIANTS
    HistoryUnbroken
    DeliveryIsExact
    QuietWatchIsCurrent
PROPERTY
    EveryClientCatchesUp
