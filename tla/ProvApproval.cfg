SPECIFICATION Spec
CONSTANTS
    single = single
    bulk1 = bulk1
    bulk2 = bulk2
    b1 = b1
    NoBatch = NoBatch
    NoJob = NoJob
    Jobs <- BulkJobs
    Batches <- MCBatches
    BatchOf <- MCBatchOf
    Workers = {w1}
    RedisUp = FALSE
    MaxRetry = 1
    BatchSize = 2
    ApprovalThreshold = 1
    MaxFaults = 0
INVARIANT ApprovalBlocksQueue
CHECK_DEADLOCK FALSE
