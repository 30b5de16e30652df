-------------------------------- MODULE People --------------------------------
(***************************************************************************)
(* The people of the site: their accounts, their public profiles and their *)
(* connected apps.  The three share no state.  The accounts are this       *)
(* module's own, the others are named.                                     *)
(***************************************************************************)
EXTENDS Accounts

CONSTANTS
    Owners, Works, OwnerOf, FeaturedLimit, RecommendLimit, MaxEdits, MaxAudits, MaxChanges,
    Asks, Apps, Permissions, LibrarySync, CodeAttemptLimit, MaxInterval, MaxTokens

VARIABLES
    text, shown, media, featured, recommended, restricted, audits, browse, edits, changes,
    profileReq,
    ask, proof, tries, app, access, history, library, minted, call, held, said, doubled, reused

Profile == INSTANCE Profiles WITH Accounts <- Owners, req <- profileReq

Connect == INSTANCE Connections WITH Creators <- Users, Calls <- Requests

PeopleSettings == Profile!Settings /\ Connect!Settings

AuditsTellTheStory == Profile!AuditsTellTheStory

OneAppPerAnswer == Connect!OneAppPerAnswer
===============================================================================
