SPECIFICATION Spec
CONSTANTS
    Job = {1, 2}
    Worker = {w1, w2}
    NoWorker = NoWorker
    NoLease = NoLease
    MaxAttempts <- Attempts
    BatchSize = 1
SYMMETRY Workers
INVARIANTS
    CallsBounded
PROPERTIES
    OneReplyEach
    StaleChangesNothing
    PreemptedInTime
CHECK_DEADLOCK FALSE
