SPECIFICATION MCSpec
CONSTANTS
    WorkTypes = {"character", "theme"}
    MaxChanges = 2
    MaxVersions = 1
    MaxTraits = 1
    Files <- MCFiles
    CodeBytes = 3
    MaxRepacks = 2
    MaxEdits = 3
CHECK_DEADLOCK FALSE
INVARIANTS MergeKeepsWhatWasPromised DraftedChangesAreTold OffersAreToday EachAppGetsTheMost RepackingChangesNothing
