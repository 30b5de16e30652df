SPECIFICATION MCSpec
CONSTANTS
    Posts = {p1}
    Slugs = {x, y}
    NoSlug = NoSlug
    Free = Free
    Retired = Retired
    Saves = {s1, s2}
    Workers = {w1, w2}
    ScheduleAttempts = 2
    ScheduleLease = 1
    RecoveryDays = 1
    MaxDue = 1
    MaxVersion = 2
    MaxRevisions = 2
    MaxTries = 3
    MaxTokens = 4
    MaxDecisions = 2
    MaxTrouble = 1
    None = None
    Order <- PieceOrder
    Piece <- PieceOf
    Readme = "readme"
    Copies = {"c"}
    MaxBlocks = 2
    MaxShelfEdits = 1
    work1 = work1
    work2 = work2
    Extensions = {work1}
    Tags = {r1, r2}
    MaxEdits = 1
SYMMETRY Alike
INVARIANTS
    WaitingCanGoLive
    VersionsFollowReleases
PROPERTIES
    PublishesWhatIsScheduled
    NoSaveIsLost
    UndoTakesBackOnlyPieces
\* The bounds may be used up.
CHECK_DEADLOCK FALSE
