SPECIFICATION Spec
CONSTANTS
    Apps = {a1, a2}
    Works = {w1}
    SendIds = {s1, s2}
    Requests = {r1, r2}
    None = None
    Lease = 1
    Retention = 2
    Batch = 1
    MaxAttempts = 2
    PendingPerApp = 2
    ConcurrentHolds = 1
    MaxTakedowns = 0
    MaxChanges = 1
    MaxTrouble = 0
CONSTRAINT Apart
SYMMETRY SendSymmetry
INVARIANTS
    OneLiveSend
    NoLostSignal
    WaitsAreRegistered
CHECK_DEADLOCK FALSE
