-------------------------------- MODULE Imports --------------------------------
(***************************************************************************)
(* What is written now and appears later: posts that are scheduled, the    *)
(* pieces a work's shelf holds, the releases of a repository.  The three   *)
(* share no state.  The schedules are this module's own, the others are    *)
(* named.                                                                  *)
(***************************************************************************)
EXTENDS BlogPosts

CONSTANTS
    Order, Piece, Readme, Copies, None, MaxBlocks, MaxShelfEdits,
    Extensions, Tags, MaxEdits

VARIABLES
    page, shelf, media, recorded, made, shelfEdits,
    github, clock, source, item, work, versions, edits, late

Held == INSTANCE Shelf WITH MaxEdits <- MaxShelfEdits, edits <- shelfEdits

Imported == INSTANCE Releases

ImportSettings == Held!Settings /\ Imported!Settings

PlacingAllCanBeUndone == Held!PlacingAllCanBeUndone

UndoTakesBackOnlyPieces == Held!UndoTakesBackOnlyPieces

VersionsFollowReleases == Imported!VersionsFollowReleases
================================================================================
