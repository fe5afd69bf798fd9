SPECIFICATION Spec
CONSTANTS
    single = single
    bulk1 = bulk1
    bulk2 = bulk2
    b1 = b1
    NoBatch = NoBatch
    NoJob = NoJob
    Jobs = {single}
    Batches <- MCBatches
    BatchOf <- MCBatchOf
    Workers = {w1}
    RedisUp = TRUE
    MaxRetry = 1
    BatchSize = 2
    ApprovalThreshold = 2
    MaxFaults = 0
PROPERTY TerminalIsFinal
CHECK_DEADLOCK FALSE
