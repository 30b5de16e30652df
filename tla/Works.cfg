SPECIFICATION DownloadsSpec
CONSTANTS
    p = p
    q = q
    Prompts = {p, q}
    Identity <- MCIdentity
    Apps = {"x"}
    Bodies = {"none", "some"}
    Unready = "none"
    None = None
    Open = Open
    MaxRev = 4
    MaxVersions = 2
    MaxAnswers = 1
    MaxReads = 1
CONSTRAINT Apart
SYMMETRY MCPermutations
CHECK_DEADLOCK FALSE
INVARIANTS ReviewedIsCurrent UnansweredStaysHidden RecordTellsWhatLeft
