SPECIFICATION MCSpec
CONSTANTS
    Users = {user1, user2}
    Handles = {name1, name2}
    Emails = {mail1, mail2}
    Passwords = {word1}
    Subjects = {subject1}
    Requests = {req1, req2}
    MaxLinks = 2
    Owners = {owner1}
    Works = {work1, work2, work3}
    OwnerOf <- OwnerOfEach
    FeaturedLimit = 1
    RecommendLimit = 1
    MaxEdits = 2
    MaxAudits = 2
    MaxChanges = 1
    Asks = {ask1}
    Apps = {app1, app2}
    Permissions = {"library:sync"}
    LibrarySync = "library:sync"
    CodeAttemptLimit = 1
    MaxInterval = 2
    MaxTokens = 2
    owner1 = owner1
    owner2 = owner2
    user1 = user1
    user2 = user2
    name1 = name1
    name2 = name2
    mail1 = mail1
    mail2 = mail2
    req1 = req1
    req2 = req2
    work1 = work1
    work2 = work2
    work3 = work3
    app1 = app1
    app2 = app2
    None = None
SYMMETRY Symmetry
INVARIANTS
    VerifiedAddressIsSole
    CanSignInAgain
    AuditsTellTheStory
    OneAppPerAnswer
\* Every request may be over.
CHECK_DEADLOCK FALSE
