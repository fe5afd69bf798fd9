SPECIFICATION FairSpec
CONSTANTS
    single = single
    bulk1 = bulk1
    bulk2 = bulk2
    b1 = b1
    NoBatch = NoBatch
    NoJob = NoJob
    Jobs <- BulkJobs
    Batches <- MCBatches
    BatchOf <- MCBatchOf
    Workers = {w1}
    RedisUp = TRUE
    MaxRetry = 1
    BatchSize = 1
    ApprovalThreshold = 2
    MaxFaults = 1
INVARIANTS RetryBound DoneCounterExact
PROPERTIES JobsSettle BatchReportsOutcome QueuedIsTaken
VIEW WithoutHistory
CHECK_DEADLOCK FALSE
