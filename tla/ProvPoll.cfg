SPECIFICATION Spec
CONSTANTS
    single = single
    bulk1 = bulk1
    bulk2 = bulk2
    b1 = b1
    NoBatch = NoBatch
    NoJob = NoJob
    Jobs <- SingleAndBulk
    Batches <- MCBatches
    BatchOf <- MCBatchOf
    Workers = {w1, w2}
    RedisUp = FALSE
    MaxRetry = 1
    BatchSize = 2
    ApprovalThreshold = 0
    MaxFaults = 2
INVARIANTS TypeOK ExclusiveExecution
PROPERTY KeepsPromise
SYMMETRY Symmetric
CHECK_DEADLOCK FALSE
