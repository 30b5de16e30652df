------------------------------ MODULE Comparison ------------------------------
(***************************************************************************)
(* What two pages of a work are told apart by: the changes a reader of the *)
(* version history, the creator before publishing, and the reviewer of a   *)
(* replacement file are shown (version/comparison).                        *)
(*                                                                         *)
(* A page is a sequence of blocks, a block holds elements in slots, an     *)
(* element holds items.  An item's body is its name and its text; prose    *)
(* has one item, without a name.  Titles, display options and metadata are *)
(* left out, wording too: a change is told as a record.                    *)
(***************************************************************************)
EXTENDS Naturals, Sequences, FiniteSets
LOCAL INSTANCE SequencesExt
LOCAL INSTANCE FiniteSetsExt

NoItem == [key |-> 0, name |-> "", text |-> ""]

IdsOf(blocks) == {blocks[i].id : i \in DOMAIN blocks}

BlockById(blocks, id) == blocks[CHOOSE i \in DOMAIN blocks : blocks[i].id = id]

ElementsOf(blocks) == FlattenSeq([i \in DOMAIN blocks |-> blocks[i].elements])

------------------------------------------------------------------------------
(* Content: items are gathered by what they are for, wherever they stand.   *)

Subject(element) == IF element.role # "" THEN element.role ELSE element.type

\* proseKey: prose with a role is known by it, other prose by its element.
ProseKey(element) == IF element.role # "" THEN 0 ELSE element.id

ElementItems(element) ==
    [i \in DOMAIN element.items |->
        [key |-> IF element.type = "prose" THEN ProseKey(element) ELSE element.items[i].id,
         name |-> element.items[i].name, text |-> element.items[i].text]]

Subjects(blocks) == {Subject(e) : e \in ToSet(ElementsOf(blocks))}

ContentItems(blocks, subject) ==
    LET Ours(e) == Subject(e) = subject
        held == SelectSeq(ElementsOf(blocks), Ours)
    IN  FlattenSeq([i \in DOMAIN held |-> ElementItems(held[i])])

Body(item) == <<item.name, item.text>>

\* What an item is matched by: its key, then its body, then its name.
Trait(item, pass) == CASE pass = "key" -> <<item.key>>
                       [] pass = "body" -> Body(item)
                       [] pass = "name" -> <<item.name>>

Blank(item, pass) == \/ pass = "body" /\ Body(item) = <<"", "">>
                     \/ pass = "name" /\ item.name = ""

\* matchItems: each later item without a partner takes the first free earlier
\* item of its trait.
MatchItems(earlier, later, partner, pass) ==
    LET Step(found, i) ==
            LET free == {j \in DOMAIN earlier : /\ \A k \in DOMAIN found : found[k] # j
                                                /\ Trait(earlier[j], pass) = Trait(later[i], pass)}
            IN  IF found[i] # 0 \/ Blank(later[i], pass) \/ free = {} THEN found
                ELSE [found EXCEPT ![i] = Min(free)]
    IN  FoldLeft(Step, partner, [i \in DOMAIN later |-> i])

Passes == <<"key", "body", "name">>

Partners(earlier, later) ==
    LET Pass(found, pass) == MatchItems(earlier, later, found, pass)
    IN  FoldLeft(Pass, [i \in DOMAIN later |-> 0], Passes)

IsEdited(was, now) == Body(was) # Body(now)

\* compareItems, with the item each change was told of.
CompareItems(earlier, later) ==
    LET partner == Partners(earlier, later)
    IN  {[type |-> "addition", was |-> NoItem, now |-> later[i], at |-> i] :
             i \in {k \in DOMAIN later : partner[k] = 0}}
        \cup
        {[type |-> "change", was |-> earlier[partner[i]], now |-> later[i], at |-> i] :
             i \in {k \in DOMAIN later : /\ partner[k] # 0
                                         /\ IsEdited(earlier[partner[k]], later[k])}}
        \cup
        {[type |-> "removal", was |-> earlier[j], now |-> NoItem, at |-> j] :
             j \in {k \in DOMAIN earlier : \A i \in DOMAIN later : partner[i] # k}}

CompareContent(earlier, later) ==
    [s \in Subjects(earlier) \cup Subjects(later) |->
        CompareItems(ContentItems(earlier, s), ContentItems(later, s))]

------------------------------------------------------------------------------
(* Presentation: blocks are known by identity.                              *)

\* The blocks both pages have, in the order of one of them.
SharedOrder(blocks, other) ==
    LET Kept(b) == b.id \in IdsOf(other)
        shared == SelectSeq(blocks, Kept)
    IN  [i \in DOMAIN shared |-> shared[i].id]

Facets == {"layout", "width", "hidden"}

BlockChanges(was, now) == {facet \in Facets : was[facet] # now[facet]}

ComparePresentation(earlier, later) ==
    {[type |-> "addition", block |-> id, facet |-> ""] : id \in IdsOf(later) \ IdsOf(earlier)}
    \cup
    {[type |-> "removal", block |-> id, facet |-> ""] : id \in IdsOf(earlier) \ IdsOf(later)}
    \cup
    UNION {{[type |-> "change", block |-> id, facet |-> facet] :
                facet \in BlockChanges(BlockById(earlier, id), BlockById(later, id))} :
           id \in IdsOf(earlier) \cap IdsOf(later)}
    \cup
    {[type |-> "change", block |-> 0, facet |-> "order"] :
        told \in {c \in {1} : SharedOrder(earlier, later) # SharedOrder(later, earlier)}}

------------------------------------------------------------------------------
(* What a list of changes must be.  The lists compared are parameters.      *)

Count(list, body) == Cardinality({i \in DOMAIN list : Body(list[i]) = body})

Told(changes, type, side, body) ==
    Cardinality({c \in changes : c.type = type /\ Body(c[side]) = body})

\* The earlier list, with the told removals, edits and additions applied, is
\* the later list, and no edit is told of what did not change.
Explains(changes, earlier, later) ==
    /\ \A c \in changes : c.type = "change" => Body(c.was) # Body(c.now)
    /\ \A body \in {Body(earlier[i]) : i \in DOMAIN earlier} \cup {Body(later[i]) : i \in DOMAIN later} :
          Count(earlier, body) + Told(changes, "addition", "now", body)
                               + Told(changes, "change", "now", body)
          = Count(later, body) + Told(changes, "removal", "was", body)
                               + Told(changes, "change", "was", body)

\* Nothing that is still there under its identity, its body or its name is told
\* as gone and come.
Minimal(changes) ==
    \A gone, come \in changes :
        gone.type = "removal" /\ come.type = "addition" =>
            /\ gone.was.key # come.now.key
            /\ Body(gone.was) # <<"", "">> => Body(gone.was) # Body(come.now)
            /\ gone.was.name # "" => gone.was.name # come.now.name
==============================================================================
