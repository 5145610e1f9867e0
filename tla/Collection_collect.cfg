SPECIFICATION FairSpec
CONSTANTS
    Record <- Records
    FirstIndexes <- Indexes
    RESULT_CAP = 2
    max_shard_records = 2
    page_size = 1
    Downloads = {d1, d2}
    LastDay = 2
    MaxDrift = 2
    None = None
INVARIANTS
    TypeOK
    ShardsPartition
    CompletionReconciles
    DriftCosts
    QuietSourceDownloads
PROPERTIES
    PlanEnds
CHECK_DEADLOCK FALSE
