SPECIFICATION MCSpec
CONSTANTS
    Owners = {a, b}
    MaxPosts = 2
    Senders = {s, t}
    MaxTries = 2
    LeaseTime = 1
    MaxTrouble = 1
    NoOwner = NoOwner
    Idle = Idle
    Accounts = {a, b}
    Works = {w}
    Creator <- CreatorOf
    NoOne = NoOne
    NoWork = NoWork
    Passes = {s, t}
    Batch = 2
    Retention = 0
    MaxEvents = 2
    MaxChoices = 1
    a = a
    b = b
    w = w
INVARIANTS
    RepeatsHaveACause
    ToldOnce
PROPERTIES
    NothingWaitsForGood
CHECK_DEADLOCK FALSE
