SPECIFICATION FairSpec
CONSTANTS
    Job = {1}
    Worker = {w1, w2}
    NoWorker = NoWorker
    NoLease = NoLease
    MaxAttempts <- Attempts
    BatchSize = 1
PROPERTIES
    JobsEnd
CHECK_DEADLOCK FALSE
