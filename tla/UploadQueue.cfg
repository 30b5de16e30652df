SPECIFICATION FairSpec
CONSTANTS
    Ops = {o1, o2}
    Workers = {w1, w2}
    Works = {k1}
    NoWork = NoWork
    Idle = Idle
    LeaseDuration = 1
    RetryBase = 1
    MaxAttempts = 2
    MaxTrouble = 1
    MaxVersion = 2
INVARIANTS
    OneWriterPerUpload
PROPERTIES
    SettledStaysSettled
    SlowUploadKeepsItsLease
    AcceptedAsReviewed
    ImplementsJobs
CHECK_DEADLOCK FALSE
