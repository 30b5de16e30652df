SPECIFICATION MCSpec
CONSTANTS
    Digests = {d1}
    Refs = {r1, r2}
    Kinds = {"work"}
    CleanupDelay = 2
    RecoveryWindow = 1
    RequestTime = 0
    RunTime = 1
    MaxPurges = 1
    MaxBackups = 1
    MaxTrouble = 1
INVARIANT WaitingUploadsHaveBytes
CHECK_DEADLOCK FALSE
