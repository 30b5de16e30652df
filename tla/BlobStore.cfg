SPECIFICATION FairSpec
CONSTANTS
    Digests = {d1}
    Refs = {r1, r2}
    Kinds = {"work"}
    CleanupDelay = 2
    RecoveryWindow = 1
    RequestTime = 0
    RunTime = 1
    MaxPurges = 1
    MaxBackups = 1
    MaxTrouble = 1
INVARIANTS
    LiveReferencesHaveBytes
    BackupIsWhole
    OneWriterPerDigest
PROPERTIES
    PurgedStaysPurged
    UnreferencedBlobsGo
CHECK_DEADLOCK FALSE
