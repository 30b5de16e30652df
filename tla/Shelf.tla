-------------------------------- MODULE Shelf --------------------------------
(***************************************************************************)
(* The shelf of a work (upload/shelf, upload/readme_seed).                 *)
(*                                                                         *)
(* The sections and the pictures of a README or of pasted Markdown wait on *)
(* the shelf until the creator places them on the page or lets them go.  A *)
(* placement remembers the block as it was before and as it left it; for   *)
(* an hour it can be undone while the block is still as it left it.  The   *)
(* pictures of a section go to the block the section has, and the first    *)
(* that is placed makes one if there is none.                              *)
(*                                                                         *)
(* A write names the version of the drafted changes it was made for, so    *)
(* each is one step.                                                       *)
(***************************************************************************)
EXTENDS Naturals, Sequences, SequencesExt

CONSTANTS
    Order,      \* the pieces, in the order their Markdown had them
    Piece,      \* each one's kind, import, section and stored picture
    Readme,     \* the import a new work begins with
    Copies,     \* pictures the creator uploads
    None,
    MaxBlocks,  \* bound: blocks made
    MaxEdits    \* bound: edits of the page

Settings ==
    /\ MaxBlocks \in Nat /\ MaxEdits \in Nat
    /\ Order \in Seq(ToSet(Order))
    /\ \A m, n \in DOMAIN Order : Order[m] = Order[n] => m = n

VARIABLES
    page,      \* work_blocks
    shelf,     \* work_shelf_pieces
    media,     \* work_media, its gallery pictures
    recorded,  \* those that published versions have
    made,      \* blocks made so far
    edits

vars == <<page, shelf, media, recorded, made, edits>>

Pieces == ToSet(Order)

Imports == {Piece[p].import : p \in Pieces}

\* What a placement that makes a block found in its place.
NoBlock == [id |-> 0, custom |-> FALSE, elements |-> <<>>]

\* block: where a picture is to go; at, before and after: what a placement changed.
Off(status, block) ==
    [status |-> status, block |-> block, at |-> 0, before |-> NoBlock, after |-> NoBlock, old |-> FALSE]

WaitingPiece(block) == Off("waiting", block)

Placed(block, at, before, after, old) ==
    [status |-> "placed", block |-> block, at |-> at, before |-> before, after |-> after, old |-> old]

Element(kind, holds) == [kind |-> kind, holds |-> holds]

WithElements(block, elements) == [id |-> block.id, custom |-> block.custom, elements |-> elements]

ReadmeBlock(id, element) == [id |-> id, custom |-> TRUE, elements |-> <<element>>]

\* A new extension: a block of its type, and what the README left on the shelf.
SeedFromReadme ==
    /\ page = <<[id |-> 1, custom |-> FALSE, elements |-> <<Element("text", <<"typed">>)>>]>>
    /\ shelf = [p \in Pieces |-> IF Piece[p].import = Readme THEN WaitingPiece(0) ELSE Off("none", 0)]
    /\ media = {Piece[p].media : p \in Pieces} \ {None}
    /\ recorded = {} /\ made = 1 /\ edits = 0

------------------------------------------------------------------------------
(* Placing, on what a write reads: the page, the shelf and the blocks made. *)

Read == [page |-> page, shelf |-> shelf, made |-> made]

BlockIndex(blocks, id) == {b \in DOMAIN blocks : blocks[b].id = id}

HeldBlock(blocks, id) ==
    IF BlockIndex(blocks, id) = {} THEN NoBlock
    ELSE blocks[CHOOSE b \in BlockIndex(blocks, id) : TRUE]

\* The section's other waiting pictures go to the block it now has.
PointSectionPictures(held, p, id) ==
    [q \in Pieces |->
        IF /\ Piece[q].kind = "picture" /\ held[q].status = "waiting" /\ held[q].block = 0
           /\ Piece[q].import = Piece[p].import /\ Piece[q].section = Piece[p].section
        THEN WaitingPiece(id) ELSE held[q]]

RememberPlacement(held, p, before, after, id) ==
    [held EXCEPT ![p] = Placed(held[p].block, id, HeldBlock(before, id), HeldBlock(after, id), FALSE)]

\* A section becomes a block of its own ...
PlaceSectionAt(s, p, position) ==
    LET id == s.made + 1
        after == InsertAt(s.page, position + 1, ReadmeBlock(id, Element("text", <<p>>))) IN
    [page |-> after, made |-> id,
     shelf |-> RememberPlacement(PointSectionPictures(s.shelf, p, id), p, s.page, after, id)]

\* ... or goes to the end of a text element.
PlaceSectionIn(s, p, b, e) ==
    LET written == [s.page[b].elements EXCEPT ![e] = Element("text", Append(@.holds, p))]
        after == [s.page EXCEPT ![b] = WithElements(s.page[b], written)] IN
    [page |-> after, made |-> s.made,
     shelf |-> RememberPlacement(s.shelf, p, s.page, after, s.page[b].id)]

\* The first set of pictures of a block, or a new element.
AddPicture(elements, m) ==
    LET sets == {e \in DOMAIN elements : elements[e].kind = "pictures"} IN
    IF sets = {} THEN Append(elements, Element("pictures", <<m>>))
    ELSE LET first == CHOOSE e \in sets : \A f \in sets : e <= f IN
         [elements EXCEPT ![first].holds = Append(@, m)]

\* A picture goes to the block it is pointed to ...
PlacePictureIn(s, p, m, b) ==
    LET after == [s.page EXCEPT ![b] = WithElements(s.page[b], AddPicture(s.page[b].elements, m))] IN
    [page |-> after, made |-> s.made,
     shelf |-> RememberPlacement(s.shelf, p, s.page, after, s.page[b].id)]

\* ... and to one of its own when there is none, or it is not a custom block.
PlacePictureApart(s, p, m) ==
    LET id == s.made + 1
        after == Append(s.page, ReadmeBlock(id, Element("pictures", <<m>>))) IN
    [page |-> after, made |-> id,
     shelf |-> RememberPlacement(PointSectionPictures(s.shelf, p, id), p, s.page, after, id)]

PlacePicture(s, p, m) ==
    LET own == {b \in BlockIndex(s.page, s.shelf[p].block) : s.page[b].custom} IN
    IF own = {} THEN PlacePictureApart(s, p, m)
    ELSE PlacePictureIn(s, p, m, CHOOSE b \in own : TRUE)

\* A layout holds three elements: the handler panics at a fourth.
LayoutHolding(blocks) == \A b \in DOMAIN blocks : Len(blocks[b].elements) <= 3

\* Some pieces, in the order their Markdown had them.
InOrder(pieces) ==
    LET upTo[n \in 0..Len(Order)] ==
            IF n = 0 THEN <<>>
            ELSE IF Order[n] \in pieces THEN Append(upTo[n - 1], Order[n]) ELSE upTo[n - 1]
    IN  upTo[Len(Order)]

\* The waiting pieces of an import that Place all can place.
Placeable(s, i) ==
    {p \in Pieces : /\ Piece[p].import = i /\ s.shelf[p].status = "waiting"
                    /\ Piece[p].kind = "section" \/ Piece[p].media # None}

SectionAt(s, p) ==
    IF Piece[p].kind = "section" THEN PlaceSectionAt(s, p, Len(s.page))
    ELSE PlacePicture(s, p, Piece[p].media)

PlaceAll(s, i) ==
    LET pieces == InOrder(Placeable(s, i))
        after[n \in 0..Len(pieces)] == IF n = 0 THEN s ELSE SectionAt(after[n - 1], pieces[n])
    IN  after[Len(pieces)]

------------------------------------------------------------------------------
(* Undoing.                                                                 *)

GoneOnlyBug(s, p) == BlockIndex(s.page, s.shelf[p].at) = {}

UndoStale(s, p) == HeldBlock(s.page, s.shelf[p].at) # s.shelf[p].after

RevertPlacement(s, p) ==
    LET b == CHOOSE x \in BlockIndex(s.page, s.shelf[p].at) : TRUE IN
    IF s.shelf[p].before = NoBlock THEN RemoveAt(s.page, b)
    ELSE [s.page EXCEPT ![b] = s.shelf[p].before]

BackOnShelf(held, p) == [held EXCEPT ![p] = WaitingPiece(held[p].block)]

Undone(s, p) ==
    [page |-> RevertPlacement(s, p), shelf |-> BackOnShelf(s.shelf, p), made |-> s.made]

\* Of nothing, or of one state; nothing once a piece cannot be undone.
UndoPlacement(states, p) ==
    {Undone(s, p) : s \in {t \in states : t.shelf[p].status = "placed" /\ ~ UndoStale(t, p)}}

UndoAll(s, pieces) ==
    LET undone[n \in 1..(Len(pieces) + 1)] ==
            IF n > Len(pieces) THEN {s} ELSE UndoPlacement(undone[n + 1], pieces[n])
    IN  undone[1]

------------------------------------------------------------------------------
(* The creator.                                                             *)

\* Every shelf write first forgets the placements that are too old to undo.
SweepShelf(held) ==
    [p \in Pieces |-> IF held[p].status = "placed" /\ held[p].old THEN Off("gone", 0) ELSE held[p]]

Swept == [page |-> page, shelf |-> SweepShelf(shelf), made |-> made]

WritePage(s) ==
    /\ s.made <= MaxBlocks
    /\ LayoutHolding(s.page)
    /\ page' = s.page /\ shelf' = s.shelf /\ made' = s.made
    /\ UNCHANGED <<media, recorded, edits>>

AddMarkdown(i) ==
    /\ \A p \in Pieces : Piece[p].import = i => shelf[p].status = "none"
    /\ shelf' = [p \in Pieces |-> IF Piece[p].import = i THEN WaitingPiece(0) ELSE SweepShelf(shelf)[p]]
    /\ UNCHANGED <<page, media, recorded, made, edits>>

\* A picture of another site needs a copy the creator has uploaded.
PlaceShelfPiece(p) ==
    /\ shelf[p].status = "waiting"
    /\ IF Piece[p].kind = "section"
       THEN \/ \E position \in 0..Len(page) : WritePage(PlaceSectionAt(Swept, p, position))
            \/ \E b \in DOMAIN page : \E e \in DOMAIN page[b].elements :
                  /\ page[b].elements[e].kind = "text"
                  /\ WritePage(PlaceSectionIn(Swept, p, b, e))
       ELSE \E m \in IF Piece[p].media = None THEN media ELSE {Piece[p].media} :
               WritePage(PlacePicture(Swept, p, m))

PlaceShelfImport(i) == Placeable(Swept, i) # {} /\ WritePage(PlaceAll(Swept, i))

UndoShelfPlacements(pieces) == \E undone \in UndoAll(Swept, pieces) : WritePage(undone)

UndoShelfPlacement(p) == UndoShelfPlacements(<<p>>)

\* The stored pictures of the pieces go, but for those another piece has.
LetGoPictures(held, pieces) ==
    {Piece[p].media : p \in pieces} \
        {Piece[p].media : p \in {q \in Pieces \ pieces : held[q].status \in {"waiting", "placed"}}}

\* A version's pictures are kept by the foreign key.
Commits(held, pieces) == LetGoPictures(held, pieces) \cap recorded = {}

LetGo(pieces) ==
    /\ pieces # {}
    /\ Commits(shelf, pieces)
    /\ media' = media \ LetGoPictures(shelf, pieces)
    /\ shelf' = SweepShelf([p \in Pieces |-> IF p \in pieces THEN Off("gone", 0) ELSE shelf[p]])
    /\ UNCHANGED <<page, recorded, made, edits>>

Waiting == {p \in Pieces : shelf[p].status = "waiting"}

LetGoOfShelfPiece(p) == p \in Waiting /\ LetGo({p})

LetGoOfShelfImport(i) == LetGo({p \in Waiting : Piece[p].import = i})

------------------------------------------------------------------------------
(* The rest of the work, as far as the shelf meets it.                      *)

Edited(blocks) ==
    /\ edits < MaxEdits /\ edits' = edits + 1
    /\ page' = blocks
    /\ UNCHANGED <<shelf, media, recorded, made>>

Rewritten(b, elements) == Edited([page EXCEPT ![b] = WithElements(page[b], elements)])

\* Text and elements are added, and what is there is removed and moved about.
EditPage ==
    \E b \in DOMAIN page :
       \/ \E e \in DOMAIN page[b].elements :
             /\ page[b].elements[e].kind = "text"
             /\ Rewritten(b, [page[b].elements EXCEPT ![e].holds = Append(@, "typed")])
       \/ \E e \in DOMAIN page[b].elements : \E i \in DOMAIN page[b].elements[e].holds :
             Rewritten(b, [page[b].elements EXCEPT ![e].holds = RemoveAt(@, i)])
       \/ /\ page[b].custom /\ Len(page[b].elements) < 3
          /\ Rewritten(b, Append(page[b].elements, Element("text", <<"typed">>)))
       \/ page[b].custom /\ Edited(RemoveAt(page, b))
       \/ \E c \in DOMAIN page : b < c /\ Edited([page EXCEPT ![b] = page[c], ![c] = page[b]])

UploadCopy(m) ==
    /\ m \notin media
    /\ media' = media \cup {m}
    /\ UNCHANGED <<page, shelf, recorded, made, edits>>

\* A version records every current picture, those on the shelf too.
RecordVersion ==
    /\ recorded' = media /\ recorded # media
    /\ UNCHANGED <<page, shelf, media, made, edits>>

HourPasses ==
    /\ shelf' = [p \in Pieces |->
            IF shelf[p].status = "placed"
            THEN Placed(shelf[p].block, shelf[p].at, shelf[p].before, shelf[p].after, TRUE)
            ELSE shelf[p]]
    /\ shelf' # shelf
    /\ UNCHANGED <<page, media, recorded, made, edits>>

------------------------------------------------------------------------------
Batches ==
    {<<p, q>> : p, q \in Pieces} \cup {InOrder({p \in Pieces : Piece[p].import = i}) : i \in Imports}

Next ==
    \/ \E p \in Pieces : PlaceShelfPiece(p) \/ UndoShelfPlacement(p) \/ LetGoOfShelfPiece(p)
    \/ \E i \in Imports : AddMarkdown(i) \/ PlaceShelfImport(i) \/ LetGoOfShelfImport(i)
    \/ \E pieces \in Batches : UndoShelfPlacements(pieces)
    \/ \E m \in Copies : UploadCopy(m)
    \/ EditPage \/ RecordVersion \/ HourPasses

Spec == SeedFromReadme /\ [][Next]_vars

------------------------------------------------------------------------------
\* Placing all of an import and undoing all of it leaves the page as it was, whatever is on
\* the page and wherever its pictures have been pointed.
PlacingAllCanBeUndone ==
    \A i \in Imports :
        LET placed == PlaceAll(Read, i) IN
        LayoutHolding(placed.page) =>
            \E undone \in UndoAll(placed, InOrder(Placeable(Read, i))) : undone.page = page

\* What the blocks of a page hold, from the first to the last.
Holds(blocks) ==
    FlattenSeq([b \in DOMAIN blocks |->
        FlattenSeq([e \in DOMAIN blocks[b].elements |-> blocks[b].elements[e].holds])])

Pictures == Copies \cup ({Piece[p].media : p \in Pieces} \ {None})

Texts(blocks) == SelectSeq(Holds(blocks), LAMBDA x : x \notin Pictures)

Shown(blocks, m) == Cardinality({n \in DOMAIN Holds(blocks) : Holds(blocks)[n] = m})

TakenBack == {p \in Pieces : shelf[p].status = "placed" /\ shelf'[p].status = "waiting"}

\* What goes back to the shelf leaves the page, and nothing else does: what the creator has
\* written, moved or placed since is there as it was, and so is every other piece, whatever block
\* they share.
UndoTakesBackOnlyPieces ==
    [][TakenBack # {} =>
        /\ Texts(page') = SelectSeq(Texts(page), LAMBDA x : x \notin TakenBack)
        /\ \A m \in Pictures :
              LET of == {p \in TakenBack : Piece[p].kind = "picture"} IN
              /\ Shown(page, m) - Shown(page', m) \in
                    Cardinality({p \in of : Piece[p].media = m})
                    .. Cardinality({p \in of : Piece[p].media \in {m, None}})
        /\ Len(Holds(page)) - Len(Holds(page')) = Cardinality(TakenBack)]_vars
==============================================================================
