------------------------------ MODULE Catalogue ------------------------------
(***************************************************************************)
(* The list of works that readers browse (page/browse.go) over the counts: *)
(* which works it lists as they are published, unlisted, deleted and taken *)
(* down (page/visibility, page/deletion, staff/takedown), and a reader who *)
(* asks for one page after another.                                        *)
(*                                                                         *)
(* The list is ordered by the activity of a ranking, the first publication *)
(* and the id.  A page names where it ended and the day of the ranking it  *)
(* was counted on, and the next page starts there; between the two works   *)
(* come and go and the night's rollup ranks again.  steady, same and shown *)
(* are what the walk has met, and belong to no program variable.           *)
(***************************************************************************)
EXTENDS Counts, Functions

CONSTANT PageSize

CatalogueSettings ==
    /\ CountSettings
    /\ IsFiniteSet(Works) /\ PageSize \in Nat \ {0}
    /\ None \notin Nat /\ None \notin Nat \X Nat

VARIABLES
    work,        \* works: lifecycle, visibility, deleted, takenDown
    publishedAt, \* what orders works of the same activity
    walk

catalogueVars == <<work, publishedAt>>
vars == <<countVars, catalogueVars, walk>>

Work == [lifecycle : {"draft", "published"}, visibility : {"listed", "unlisted"},
         deleted : BOOLEAN, takenDown : BOOLEAN]

Draft == [lifecycle |-> "draft", visibility |-> "listed", deleted |-> FALSE, takenDown |-> FALSE]

Init ==
    /\ CountInit
    /\ work \in [Works -> {Draft, [Draft EXCEPT !.lifecycle = "published"]}]
    /\ publishedAt \in [Works -> 1..Cardinality(Works)] /\ IsInjective(publishedAt)
    /\ walk = None

IsOpen(state) == state.lifecycle = "published" /\ ~ state.deleted /\ ~ state.takenDown

Open == {w \in Works : IsOpen(work[w])}

\* The public list, and a creator's own profile, which shows everything not deleted.
Listed(state, own) ==
    IF own THEN ~ state.deleted ELSE IsOpen(state) /\ state.visibility = "listed"

Listing(own) == {w \in Works : Listed(work[w], own)}

------------------------------------------------------------------------------
(* Browse.                                                                  *)

Ranked == {d \in Days : rankings[d] # Unranked}

NewestRankingBug(on) == IF Ranked = {} THEN None ELSE Max(Ranked)

\* The ranking a page names, when it is still kept; else the newest.
Ranking(on) ==
    IF on # None /\ on \in Ranked THEN on
    ELSE IF Ranked = {} THEN None ELSE Max(Ranked)

ActivityOf(w, sort, day) ==
    IF day = None \/ sort = "newest" THEN 0 ELSE rankings[day][w][sort]

\* What orders the list, and what a cursor keeps of the last work shown.
Place(w, sort, day) == <<ActivityOf(w, sort, day), publishedAt[w]>>

Above(a, b) == a[1] > b[1] \/ (a[1] = b[1] /\ a[2] > b[2])

BelowCursor(place, cursor) == cursor = None \/ Above(cursor, place)

BrowseWorks(own, sort, day, cursor) ==
    {w \in Listing(own) : BelowCursor(Place(w, sort, day), cursor)}

Before(w, rows, sort, day) == {v \in rows : Above(Place(v, sort, day), Place(w, sort, day))}

FirstOf(rows, sort, day) == {w \in rows : Cardinality(Before(w, rows, sort, day)) < PageSize}

LastOf(items, sort, day) == CHOOSE w \in items : Before(w, items, sort, day) = items \ {w}

\* One row more than a page holds says that there is another page.
Browse(own, sort, on, cursor) ==
    LET day == Ranking(on)
        rows == BrowseWorks(own, sort, day, cursor)
        items == FirstOf(rows, sort, day)
    IN [items |-> items, more |-> Cardinality(rows) > PageSize, on |-> day,
        next |-> IF items = {} THEN None ELSE Place(LastOf(items, sort, day), sort, day)]

Counted(shown, items) == [w \in Works |-> IF w \in items THEN shown[w] + 1 ELSE shown[w]]

\* What the walk has met with one page more.
Turn(own, sort, page, shown, steady, same) ==
    [own |-> own, sort |-> sort, on |-> page.on, cursor |-> page.next, more |-> page.more,
     shown |-> Counted(shown, page.items), steady |-> steady, same |-> same]

ListWorks(own, sort) ==
    /\ walk = None
    /\ walk' = Turn(own, sort, Browse(own, sort, None, None), [w \in Works |-> 0],
                    Listing(own), TRUE)
    /\ UNCHANGED <<countVars, catalogueVars>>

ListMore ==
    /\ walk # None /\ walk.more
    /\ walk' = Turn(walk.own, walk.sort, Browse(walk.own, walk.sort, walk.on, walk.cursor),
                    walk.shown, walk.steady, walk.same)
    /\ UNCHANGED <<countVars, catalogueVars>>

\* A work stays where it is in the list while it is listed and keeps its date, and the
\* list keeps its order while the ranking it was counted on is kept as it is.
Watch ==
    walk' = IF walk = None THEN None
            ELSE [walk EXCEPT
                    !.steady = {w \in @ : Listed(work'[w], walk.own) /\ publishedAt'[w] = publishedAt[w]},
                    !.same = @ /\ IF walk.on = None THEN Ranked' = {}
                                  ELSE rankings'[walk.on] = rankings[walk.on]]

------------------------------------------------------------------------------
(* Works come and go.                                                       *)

Change(w, changed) ==
    /\ starts < MaxStarts
    /\ starts' = starts + 1
    /\ work' = [work EXCEPT ![w] = changed]
    /\ UNCHANGED <<today, secret, made, keys, request, events, totals, countedSends, rankings,
                   overnight>>
    /\ Watch

Frozen(w) == work[w].deleted \/ work[w].takenDown

\* A first version is recorded, and its time is the work's date.
Publish(w) ==
    /\ work[w].lifecycle = "draft" /\ ~ Frozen(w)
    /\ publishedAt' = [publishedAt EXCEPT ![w] = Max({publishedAt[v] : v \in Works}) + 1]
    /\ Change(w, [work[w] EXCEPT !.lifecycle = "published"])

SetVisibility(w, visibility) ==
    /\ work[w].lifecycle = "published" /\ ~ Frozen(w)
    /\ visibility # work[w].visibility
    /\ UNCHANGED publishedAt
    /\ Change(w, [work[w] EXCEPT !.visibility = visibility])

Delete(w) ==
    /\ ~ Frozen(w)
    /\ UNCHANGED publishedAt
    /\ Change(w, [work[w] EXCEPT !.deleted = TRUE])

Restore(w) ==
    /\ work[w].deleted
    /\ UNCHANGED publishedAt
    /\ Change(w, [work[w] EXCEPT !.deleted = FALSE])

TakeDown(w) ==
    /\ w \in Open
    /\ UNCHANGED publishedAt
    /\ Change(w, [work[w] EXCEPT !.takenDown = TRUE])

LiftTakedown(w) ==
    /\ work[w].takenDown /\ ~ work[w].deleted
    /\ UNCHANGED publishedAt
    /\ Change(w, [work[w] EXCEPT !.takenDown = FALSE])

SetWorkVisibility(w) == \E visibility \in {"listed", "unlisted"} : SetVisibility(w, visibility)

Next ==
    \/ CountStep({Site} \cup Open) /\ UNCHANGED catalogueVars /\ Watch
    \/ \E w \in Works :
          \/ Publish(w) \/ SetWorkVisibility(w)
          \/ Delete(w) \/ Restore(w) \/ TakeDown(w) \/ LiftTakedown(w)
    \/ \E own \in BOOLEAN, sort \in {"newest", "views", "downloads"} : ListWorks(own, sort)
    \/ ListMore

Spec == Init /\ [][Next]_vars

------------------------------------------------------------------------------
TypeOK ==
    /\ CountTypeOK
    /\ work \in [Works -> Work]
    /\ publishedAt \in [Works -> Nat] /\ IsInjective(publishedAt)
    /\ walk \in {None} \cup
          [own : BOOLEAN, sort : {"newest", "views", "downloads"}, on : Days \cup {None},
           cursor : {None} \cup (Nat \X Nat), more : BOOLEAN,
           shown : [Works -> Nat], steady : SUBSET Works, same : BOOLEAN]

\* Reading page after page shows no work twice, and at the end every work that stood in
\* the list all along has been shown, whatever came, went and was ranked in between.
WalkShowsEachOnce ==
    walk # None /\ walk.same =>
        /\ \A w \in Works : walk.shown[w] <= 1
        /\ ~ walk.more => \A w \in walk.steady : walk.shown[w] = 1
===============================================================================
