------------------------------- MODULE MCImports -------------------------------
(***************************************************************************)
(* What is written now and appears later: posts that are scheduled, the    *)
(* pieces a work's shelf holds, the releases of a repository.  A behaviour *)
(* follows a post's schedule, a shelf, one extension with two releases, or *)
(* two extensions that want the same repository; the others stay as they   *)
(* began, and part says which it is.                                       *)
(***************************************************************************)
EXTENDS Imports, TLC

CONSTANTS work1, work2

VARIABLE part

\* One picture is in two sections of the README; the paste has one of another site.
PieceOrder == <<"opening", "shot", "again", "notes", "badge">>

PieceOf ==
    [opening |-> [kind |-> "section", import |-> Readme, section |-> "A", media |-> None],
     shot    |-> [kind |-> "picture", import |-> Readme, section |-> "A", media |-> "m"],
     again   |-> [kind |-> "picture", import |-> Readme, section |-> "B", media |-> "m"],
     notes   |-> [kind |-> "section", import |-> "paste", section |-> "B", media |-> None],
     badge   |-> [kind |-> "picture", import |-> "paste", section |-> "A", media |-> None]]

Rivals == INSTANCE Releases WITH Extensions <- {work1, work2}, MaxEdits <- 0

ASSUME ImportSettings /\ Rivals!Settings

shelfVars == <<page, shelf, media, recorded, made, shelfEdits>>

releaseVars == <<github, clock, source, item, work, versions, edits, late>>

all == <<part, vars, shelfVars, releaseVars>>

\* The part that is not followed stays in one state.
NoReleases == Imported!Init /\ work[work1].lifecycle = "none"

OnlyTag == CHOOSE r \in Tags : TRUE

OneRelease == \A r \in Tags \ {OnlyTag} : github[r] = None

MCInit ==
    /\ Init /\ Held!SeedFromReadme
    /\ \/ part \in {"schedules", "shelf"} /\ NoReleases
       \/ part = "releases" /\ Imported!Init
       \/ part = "rivals" /\ Rivals!Init

MCNext ==
    \/ part = "schedules" /\ Next /\ UNCHANGED <<part, shelfVars, releaseVars>>
    \/ part = "shelf" /\ Held!Next /\ UNCHANGED <<part, vars, releaseVars>>
    \/ part = "releases" /\ Imported!Next /\ UNCHANGED <<part, vars, shelfVars>>
    \/ part = "rivals" /\ Rivals!Next /\ OneRelease' /\ UNCHANGED <<part, vars, shelfVars>>

MCSpec == MCInit /\ [][MCNext]_all

Alike == Permutations(Slugs) \cup Permutations(Saves) \cup Permutations(Workers)
================================================================================
