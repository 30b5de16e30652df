SPECIFICATION MCSpec
CONSTANTS
    Works = {w1, w2}
    Readers = {reader1}
    ConnectedApps = {app1}
    Site = Site
    Requests = {q1, q2}
    MaxDay = 2
    MaxStarts = 3
    Retention = 1
    Window = 2
    KeptDays = 1
    PageSize = 1
    None = None
    Avatars = {"a", "b"}
    Alternates = {"c"}
    Galleries = {"g"}
    FromFile = {"b", "g"}
    MaxVersions = 2
    Uploaded = {p1, p2}
    Sizes = {"card"}
    Viewers = {q1, q2}
    Workers = 1
    MaxAsks = 2
    Slugs = {"first", "corrected"}
    NoSlug = "none"
    Names = {"author"}
    NoByline = "none"
    MaxVersion = 3
    MaxEditions = 2
CONSTRAINT Apart
INVARIANT ReadersReceiveThePictures
CHECK_DEADLOCK FALSE
