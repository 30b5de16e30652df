SPECIFICATION FairSpec
CONSTANTS
    Apps = {a1}
    Works = {w1}
    SendIds = {s1}
    Requests = {r1, r2}
    None = None
    Lease = 1
    Retention = 2
    Batch = 1
    MaxAttempts = 1
    PendingPerApp = 2
    ConcurrentHolds = 1
    MaxTakedowns = 1
    MaxChanges = 0
    MaxTrouble = 1
INVARIANT NoticesReachTheApp
PROPERTY SendsGo
CHECK_DEADLOCK FALSE
