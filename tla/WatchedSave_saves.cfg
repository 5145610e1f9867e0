SPECIFICATION WatchedSpec
CONSTANTS
    s1 = s1
    s2 = s2
    Save = {s1, s2}
    List = {l1, l2}
    Savable = {l1}
    Crd <- Crds
    Name <- Names
    CrdOf <- CrdOfName
    Requests <- FewRequests
    Matches <- ThreeMatches
    EarlierRecords <- OneRecord
    EarlierMembers <- NoMembers
    CHUNK = 2
    SYNC_ADD_MAX = 1
    RESOLVE_MAX = 2
    Attempts = 2
    CanCrash = {s1}
    CanLose = {s1}
    CanTimeOut = {s1}
INVARIANTS
    TypeOK
    NoStrandedRecord
    CompletedMeansSaved
    ProgressAddsUp
    SuccessIsFinal
    SyncCountsExact
    CountersNeverOverstate
    SuccessToastIsTrue
PROPERTIES
    ImplementsListSave
    QueuedSaveSettles
CHECK_DEADLOCK FALSE
