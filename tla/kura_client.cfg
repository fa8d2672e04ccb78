CONSTANTS
    w1 = w1
    w2 = w2
    r1 = r1
    f1 = f1
    f2 = f2
    Writers = {w1, w2}
    Readers = {r1}
    Followers = {f1, f2}
    Rosters <- MCRosters
    current_key = 1
    ReaderKeys <- MCReaderKeys
    snapshot_key <- MCSnapshotKey
    writer_key = 6
    Pointers = {1, 2}
    Keys <- MCKeys
    Values = {0, 1, 2, 3, 4, 5}
    Int64Max = 8
    Uint64Max = 3
    MaxActiveLeases = 2
    InitialRevision = 0
    InitialValues <- MCInitialValues
    Transactions = {}
    WatchIds = {1, 2}
    WatchRequests = {}
    MaxWatchers = 2
    MaxWatchPending = 1
    MaxWatchHistory = 2
    Absent = Absent

SPECIFICATION KuraSpec
CHECK_DEADLOCK FALSE

INVARIANTS
    OneFencedChain
    OutcomesAreTrue
    
    ReferencedSnapshotsSurvive
PROPERTIES
    AbandonedLockIsFreed
    FollowersCatchUp
