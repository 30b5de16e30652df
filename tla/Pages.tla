-------------------------------- MODULE Pages --------------------------------
(***************************************************************************)
(* The page of a work: its blocks, the creator's edits of them, the files  *)
(* that replace them, the versions recorded of them, and what readers are  *)
(* shown in the meantime (block, block/edit, upload/replacement, the view  *)
(* work_public.work_blocks).                                               *)
(*                                                                         *)
(* What a published version says is kept from readers' eyes until it is    *)
(* published, but its arrangement is not: the order, the width and the     *)
(* hiding of a block are the drafted page's as long as the block is on it. *)
(* The owner's one editor at a time, private prompts and pictures are the  *)
(* business of Works and Pictures; titles, display options, limits of      *)
(* length and preserved data are left out.                                 *)
(***************************************************************************)
EXTENDS Comparison
LOCAL INSTANCE SequencesExt
LOCAL INSTANCE FiniteSetsExt

CONSTANTS
    Definitions,  \* Definitions[type]: the blocks a work of the type may hold, in page order
    Files,        \* Files[type]: what a file of the type may bring
    FirstFiles,   \* FirstFiles[type]: those among them a work may begin with
    Widths,       \* the widths a creator chooses among
    Texts, Names, \* the wording and the names of items
    MaxBlocks, MaxElements, MaxItems, MaxVersions \* bounds

Settings == MaxBlocks \in Nat /\ MaxElements \in Nat /\ MaxItems \in Nat /\ MaxVersions \in Nat

VARIABLES
    workType,
    page,     \* work_blocks in the order of their positions
    versions  \* work_versions: the blocks recorded; the last one is published

pageVars == <<workType, page, versions>>

------------------------------------------------------------------------------
(* Layouts, widths and definitions.                                         *)

Slots == [single |-> <<"main">>, duo |-> <<"left", "right">>,
          stack2 |-> <<"top", "bottom">>, stack3 |-> <<"top", "middle", "bottom">>]

Columns == [full |-> 12, two_thirds |-> 8, half |-> 6, third |-> 4]

MinimumWidth == [single |-> "third", duo |-> "two_thirds", stack2 |-> "third", stack3 |-> "third"]

DefinitionOf(id) ==
    LET all == Definitions[workType]
    IN  all[CHOOSE i \in DOMAIN all : all[i].id = id]

Known(id) == \E i \in DOMAIN Definitions[workType] : Definitions[workType][i].id = id

Defined(block, role) == {d \in ToSet(DefinitionOf(block.definition).elements) : d.role = role}

Pinned(block, role) == \E d \in Defined(block, role) : d.pinned

FromFile(block, role) == \E d \in Defined(block, role) : d.fromFile

\* layoutFor: the first layout with room.
LayoutFor(definition, count) ==
    LET fits == {i \in DOMAIN definition.layouts : Len(Slots[definition.layouts[i]]) >= count}
    IN  definition.layouts[Min(fits)]

\* TypeProse's Empty has its text, without any; the others have no item.
EmptyItems(type) == IF type = "prose" THEN <<[id |-> 0, name |-> "", text |-> ""]>> ELSE <<>>

IsEmpty(element) == element.items = EmptyItems(element.type)

\* Identities in use; a new one is above them all.
Used(blocks) ==
    UNION {{b.id} \cup UNION {{e.id} \cup {e.items[i].id : i \in DOMAIN e.items} :
                                  e \in ToSet(b.elements)} : b \in ToSet(blocks)}

Top == Max({0} \cup Used(page) \cup UNION {Used(v) : v \in ToSet(versions)})

------------------------------------------------------------------------------
(* Validation.                                                              *)

ValidateStructure(block) ==
    LET held == block.elements
        room == ToSet(Slots[block.layout])
    IN  /\ Len(held) <= Cardinality(room)
        /\ \A i \in DOMAIN held : held[i].slot \in room
        /\ \A i, j \in DOMAIN held : i # j => held[i].id # held[j].id /\ held[i].slot # held[j].slot

\* Every role of the model is singular.
ValidateBuilderConstraints(before, after) ==
    LET old == ElementsOf(before)
        new == ElementsOf(after)
    IN  /\ \A i \in DOMAIN after :
              /\ Known(after[i].definition)
              /\ after[i].layout \in ToSet(DefinitionOf(after[i].definition).layouts)
              /\ Columns[after[i].width] >= Columns[MinimumWidth[after[i].layout]]
              /\ \A j \in 1..(i - 1) : after[i].definition = after[j].definition =>
                                           DefinitionOf(after[i].definition).repeatable
        /\ {new[i].id : i \in DOMAIN new} \subseteq {old[i].id : i \in DOMAIN old}
        /\ \A i, j \in DOMAIN new : i # j =>
              /\ new[i].id # new[j].id
              /\ new[i].role # "" => new[i].role # new[j].role
        /\ \A b \in ToSet(before) : \A e \in ToSet(b.elements) : Pinned(b, e.role) =>
              \E c \in ToSet(after) : c.id = b.id /\
                  \E k \in ToSet(c.elements) : k.id = e.id /\ k.role = e.role /\ k.type = e.type

\* validateFromFileContent
KeepsFileContent(before, after) ==
    \A b \in ToSet(after) : \A e \in ToSet(b.elements) : FromFile(b, e.role) =>
        \E o \in ToSet(ElementsOf(before)) : o.id = e.id /\ o.role = e.role /\ o.items = e.items

Accepts(before, after) == ValidateBuilderConstraints(before, after) /\ KeepsFileContent(before, after)

------------------------------------------------------------------------------
(* What readers are shown: the recorded blocks, arranged as the drafted     *)
(* page arranges those it still has.                                        *)

Placed(blocks) == {[block |-> blocks[i], position |-> i] : i \in DOMAIN blocks}

Live(placed) ==
    IF placed.block.id \notin IdsOf(page) THEN placed
    ELSE LET at == CHOOSE i \in DOMAIN page : page[i].id = placed.block.id
         IN  [block |-> [placed.block EXCEPT !.hidden = page[at].hidden, !.width = page[at].width],
              position |-> at]

PublicBlocks == IF versions = <<>> THEN Placed(page) ELSE {Live(r) : r \in Placed(Last(versions))}

\* Readers get them by position, and the database may order equal positions
\* either way.
PublicPages ==
    LET InOrder(list) == \A i, j \in DOMAIN list : i < j => list[i].position <= list[j].position
    IN  {[i \in DOMAIN list |-> list[i].block] :
             list \in {l \in SetToSeqs(PublicBlocks) : InOrder(l)}}

\* validatePublishedWidths, after the blocks have become after.
PublishedWidths(after) ==
    versions # <<>> =>
    \A b \in ToSet(Last(versions)) :
        LET width == IF b.id \in IdsOf(after) THEN BlockById(after, b.id).width ELSE b.width
        IN  Columns[width] >= Columns[MinimumWidth[b.layout]]

------------------------------------------------------------------------------
(* The digests that say whether there is anything to publish.  An element   *)
(* that is empty is not digested.                                           *)

\* fingerprintNames: an element is named by what it is and which it is.
FingerprintName(list, i) ==
    <<list[i].type, list[i].role,
      Cardinality({j \in 1..i : list[j].type = list[i].type /\ list[j].role = list[i].role})>>

ItemBodies(element) == [k \in DOMAIN element.items |-> <<element.items[k].name, element.items[k].text>>]

ContentFingerprint(blocks) ==
    LET list == ElementsOf(blocks)
    IN  {<<FingerprintName(list, i), ItemBodies(list[i])>> : i \in {j \in DOMAIN list : ~ IsEmpty(list[j])}}

\* A mutant of Display: the slot is not digested.
NoSlotBug(block) ==
    LET Full(e) == ~ IsEmpty(e)
        held == SelectSeq(block.elements, Full)
    IN  [i \in DOMAIN held |-> <<held[i].type, held[i].role>>]

Display(block) ==
    LET Full(e) == ~ IsEmpty(e)
        held == SelectSeq(block.elements, Full)
    IN  [i \in DOMAIN held |-> <<held[i].type, held[i].role, held[i].slot>>]

WorkDigest(blocks) ==
    [content |-> ContentFingerprint(blocks),
     whole |-> [i \in DOMAIN blocks |->
                   <<blocks[i].definition, blocks[i].hidden, blocks[i].layout, blocks[i].width,
                     Display(blocks[i])>>]]

------------------------------------------------------------------------------
(* A file's elements find their places.                                     *)

\* Place gives new identities, above base; k, i and j are the places of a
\* block's definition, of an element and of an item.
NewId(base, k, i, j) == base + 100 * k + 10 * i + j

FileItems(base, tagged, k, i) ==
    [j \in DOMAIN tagged.items |->
        [id |-> IF tagged.type = "prose" THEN 0 ELSE NewId(base, k, i, j),
         name |-> tagged.items[j].name, text |-> tagged.items[j].text]]

\* fill: the file's element for each that the definition has, or an empty one
\* where a pinned element is not only read from a file.
Fill(base, definition, k, tagged) ==
    LET Takes(d) == {t \in ToSet(tagged) : t.role = d.role /\ t.type = d.type}
        Kept(d) == Takes(d) # {} \/ (d.pinned /\ ~ d.fromFile)
        wanted == SelectSeq(definition.elements, Kept)
        layout == LayoutFor(definition, Len(wanted))
    IN  [i \in DOMAIN wanted |->
            [id |-> NewId(base, k, i, 0), type |-> wanted[i].type, role |-> wanted[i].role,
             slot |-> Slots[layout][i],
             items |-> IF Takes(wanted[i]) = {} THEN EmptyItems(wanted[i].type)
                       ELSE FileItems(base, CHOOSE t \in Takes(wanted[i]) : TRUE, k, i)]]

\* readFromUpload
ReadFromUpload(definition) ==
    definition.elements # <<>> /\ \A d \in ToSet(definition.elements) : d.fromFile

Place(base, type, tagged) ==
    LET all == Definitions[type]
        Filled(k) == Fill(base, all[k], k, tagged)
        OnPage(k) == Filled(k) # <<>> \/ (all[k].required /\ ~ ReadFromUpload(all[k]))
        places == SelectSeq([k \in DOMAIN all |-> k], OnPage)
    IN  [n \in DOMAIN places |->
            [id |-> NewId(base, places[n], 0, 0), definition |-> all[places[n]].id, hidden |-> FALSE,
             layout |-> LayoutFor(all[places[n]], Len(Filled(places[n]))),
             width |-> all[places[n]].width, elements |-> Filled(places[n])]]

------------------------------------------------------------------------------
(* A replacement file's blocks are merged into the page by their            *)
(* definitions.                                                             *)

Supplied(file) == {t.role : t \in ToSet(file.elements)}

\* blocksWithSuppliedRoles
WithSuppliedRoles(blocks, roles) ==
    LET Brought(e) == e.role = "" \/ e.role \in roles
    IN  [i \in DOMAIN blocks |-> [blocks[i] EXCEPT !.elements = SelectSeq(@, Brought)]]

Roles(block) == {e.role : e \in ToSet(block.elements)} \ {""}

HasSemanticContent(block) == Roles(block) # {}

KeepUnrepresentable(block, kept) == Roles(block) \cap kept # {}

InSlots(elements, layout) ==
    [i \in DOMAIN elements |->
        [elements[i] EXCEPT !.slot = IF i \in DOMAIN Slots[layout] THEN Slots[layout][i] ELSE "none"]]

\* Mutant: a kept role that the file does not bring is dropped.
DropKeptBug(holder, incoming, kept) ==
    [incoming EXCEPT !.id = holder.id, !.hidden = holder.hidden, !.width = holder.width]

\* A block of the file takes the identity and the arrangement of the block it
\* replaces, and the elements the creator keeps.
Replaced(holder, incoming, kept) ==
    LET arrived == [incoming EXCEPT !.id = holder.id, !.hidden = holder.hidden, !.width = holder.width]
        laid == IF Len(Slots[holder.layout]) # Len(arrived.elements) THEN arrived
                ELSE [arrived EXCEPT !.layout = holder.layout, !.elements = InSlots(@, holder.layout)]
        Prior(role) == holder.elements[Min({i \in DOMAIN holder.elements : holder.elements[i].role = role})]
        held == [laid EXCEPT !.elements =
                    [i \in DOMAIN @ |-> IF @[i].role \in kept \cap Roles(holder) THEN Prior(@[i].role) ELSE @[i]]]
        Left(e) == e.role \in kept \ Roles(held)
        left == SelectSeq(holder.elements, Left)
    IN  IF left = <<>> THEN held
        ELSE [held EXCEPT !.layout = holder.layout, !.elements = InSlots(@ \o left, holder.layout)]

\* mergeReplacementBlocks
Merge(existing, brought, kept) ==
    LET Counterparts(b) == {n \in DOMAIN brought : brought[n].definition = b.definition}
        First(b) == \A c \in ToSet(existing) : c.definition = b.definition =>
                       \E i, j \in DOMAIN existing : i <= j /\ existing[i] = b /\ existing[j] = c
        Meets(b) == Counterparts(b) # {} /\ First(b)
        Stays(b) == Meets(b) \/ ~ HasSemanticContent(b) \/ KeepUnrepresentable(b, kept)
        Left(b) == \A c \in ToSet(existing) : c.definition # b.definition
        staying == SelectSeq(existing, Stays)
    IN  [i \in DOMAIN staying |->
            IF Meets(staying[i]) THEN Replaced(staying[i], brought[Min(Counterparts(staying[i]))], kept)
            ELSE staying[i]]
        \o SelectSeq(brought, Left)

Incoming(file) == WithSuppliedRoles(Place(Top, workType, file.elements), Supplied(file))

\* The roles with content, as roleContent finds them.
RoleContent(blocks) == {e.role : e \in {k \in ToSet(ElementsOf(blocks)) : k.role # "" /\ ~ IsEmpty(k)}}

\* What the creator is asked to keep or to remove.
Unrepresentable(file) == RoleContent(page) \ (RoleContent(Incoming(file)) \cup file.writes)

------------------------------------------------------------------------------
(* The creator's edits.                                                     *)

ItemEdits(element) ==
    LET items == element.items
        Rewritten == {[items EXCEPT ![k].text = t] : k \in DOMAIN items, t \in Texts}
        Renamed == {[items EXCEPT ![k].name = n] : k \in DOMAIN items, n \in Names}
        Retyped == {[items EXCEPT ![k].id = Top + 1] : k \in DOMAIN items}
        Removed == {RemoveAt(items, k) : k \in DOMAIN items}
        Swapped == {<<items[2], items[1]>> : two \in {n \in {2} : Len(items) = n}}
        Added == {Append(items, [id |-> Top + 1, name |-> n, text |-> items[1].text]) :
                      n \in {m \in Names : Len(items) \in 1..(MaxItems - 1)}}
    IN  IF element.type = "prose" THEN {[items EXCEPT ![1].text = t] : t \in Texts \cup {""}}
        ELSE Rewritten \cup Renamed \cup Retyped \cup Removed \cup Swapped \cup Added

SlotChoices(count, layout) ==
    {s \in [1..count -> ToSet(Slots[layout])] :
        /\ \A i, j \in 1..count : i # j => s[i] # s[j]
        /\ count > 1 => s[1] = Slots[layout][1]}

\* The first upload of the work.
Init ==
    /\ workType \in DOMAIN Definitions
    /\ \E file \in FirstFiles[workType] : page = Place(0, workType, file.elements)
    /\ versions = <<>>

\* NewBlock
Starts(definition) ==
    IF definition.choices # <<>> THEN {<<c>> : c \in ToSet(definition.choices)} ELSE {definition.elements}

AddBlock(definition) ==
    /\ Len(page) < MaxBlocks
    /\ ~ definition.required
    /\ definition.repeatable \/ \A b \in ToSet(page) : b.definition # definition.id
    /\ \E start \in Starts(definition) :
          LET layout == LayoutFor(definition, Len(start))
              added == [id |-> Top + 1, definition |-> definition.id, hidden |-> FALSE,
                        layout |-> layout, width |-> definition.width,
                        elements |-> [i \in DOMAIN start |->
                            [id |-> Top + 1 + i, type |-> start[i].type, role |-> start[i].role,
                             slot |-> Slots[layout][i], items |-> EmptyItems(start[i].type)]]]
          IN  /\ Len(ElementsOf(page)) + Len(start) <= MaxElements
              /\ ValidateStructure(added)
              /\ Accepts(Append(page, added), Append(page, added))
              /\ page' = Append(page, added)
    /\ UNCHANGED <<workType, versions>>

\* What a save sends.  Here it rewrites one element, or it lays the block out
\* anew and may leave one element out.
Rewritten(block) ==
    UNION {{[block EXCEPT !.elements[k].items = items] : items \in ItemEdits(block.elements[k])} :
               k \in DOMAIN block.elements}

LaidOut(block) ==
    UNION {{[block EXCEPT !.layout = layout, !.width = width,
                          !.elements = [n \in DOMAIN held |-> [held[n] EXCEPT !.slot = slots[n]]]] :
                width \in Widths, slots \in SlotChoices(Len(held), layout)} :
           layout \in DOMAIN Slots,
           held \in {block.elements} \cup {RemoveAt(block.elements, k) : k \in DOMAIN block.elements}}

SaveBlock(i) ==
    /\ \E saved \in Rewritten(page[i]) \cup LaidOut(page[i]) :
          LET after == [page EXCEPT ![i] = saved]
          IN  /\ ValidateStructure(saved)
              /\ Accepts(page, after)
              /\ PublishedWidths(after)
              /\ page' = after
    /\ UNCHANGED <<workType, versions>>

\* arranged: every block once, with its place, its width and whether it is
\* hidden.  Here a request changes the order, or one block.
Arrangements ==
    SetToSeqs(ToSet(page))
    \cup {[page EXCEPT ![i].hidden = hidden, ![i].width = width] :
              i \in DOMAIN page, hidden \in BOOLEAN, width \in Widths}

ArrangeBlocks ==
    /\ \E after \in Arrangements :
          /\ \A b \in ToSet(after) : b.hidden =>
                LET d == DefinitionOf(b.definition) IN ~ d.required \/ d.hideable
          /\ Accepts(page, after)
          /\ PublishedWidths(after)
          /\ page' = after
    /\ UNCHANGED <<workType, versions>>

\* withoutBlock
RemoveBlock(i) ==
    /\ ~ DefinitionOf(page[i].definition).required
    /\ Accepts(page, RemoveAt(page, i))
    /\ page' = RemoveAt(page, i)
    /\ UNCHANGED <<workType, versions>>

\* moveElements
FreeSlots(block) ==
    LET Free(s) == \A e \in ToSet(block.elements) : e.slot # s
    IN  SelectSeq(Slots[block.layout], Free)

MoveBlockContent(i, j) ==
    LET free == FreeSlots(page[j])
        moved == [n \in DOMAIN page[i].elements |-> [page[i].elements[n] EXCEPT !.slot = free[n]]]
        destination == [page[j] EXCEPT !.elements = @ \o moved]
        after == RemoveAt([page EXCEPT ![j] = destination], i)
    IN  /\ i # j /\ page[i].elements # <<>>
        /\ ~ DefinitionOf(page[i].definition).required
        /\ \A e \in ToSet(page[i].elements) : ~ Pinned(page[i], e.role)
        /\ Len(free) >= Len(page[i].elements)
        /\ ValidateStructure(destination)
        /\ Accepts([page EXCEPT ![j] = destination], after)
        /\ page' = after
        /\ UNCHANGED <<workType, versions>>

\* AcceptReplacement: the page it was reviewed for is still the page.  Insert
\* refuses a block with more elements than slots; so does, in a panic, the
\* merge itself.
AcceptReplacement(file) ==
    /\ \E kept \in SUBSET Unrepresentable(file) :
          LET merged == Merge(page, Incoming(file), kept)
          IN  /\ \A b \in ToSet(merged) : ValidateStructure(b)
              /\ page' = merged
    /\ UNCHANGED <<workType, versions>>

\* Publish, and PublishLocked for the versions after the first.
PublishVersion ==
    /\ Len(versions) < MaxVersions
    /\ versions # <<>> => \E shown \in PublicPages : WorkDigest(shown) # WorkDigest(page)
    /\ versions' = Append(versions, page)
    /\ UNCHANGED <<workType, page>>

RestoreVersion(number) ==
    /\ page' = versions[number]
    /\ UNCHANGED <<workType, versions>>

Edit ==
    \/ \E k \in DOMAIN Definitions[workType] : AddBlock(Definitions[workType][k])
    \/ \E i \in DOMAIN page : SaveBlock(i) \/ RemoveBlock(i) \/ \E j \in DOMAIN page : MoveBlockContent(i, j)
    \/ ArrangeBlocks
    \/ \E file \in Files[workType] : AcceptReplacement(file)
    \/ \E number \in DOMAIN versions : RestoreVersion(number)

Next == Edit \/ PublishVersion

------------------------------------------------------------------------------
(* Properties.                                                              *)

\* Blocks the creator added, which hold nothing a file could bring, survive a
\* file, and a role the creator keeps is there afterwards as it was.
MergeKeepsWhatWasPromised ==
    \A file \in Files[workType] : \A kept \in SUBSET Unrepresentable(file) :
        LET merged == Merge(page, Incoming(file), kept)
            Of(blocks, role) == {e.items : e \in {k \in ToSet(ElementsOf(blocks)) : k.role = role}}
        IN  /\ \A b \in ToSet(page) :
                  ~ HasSemanticContent(b) /\ (\A c \in ToSet(Incoming(file)) : c.definition # b.definition)
                      => b \in ToSet(merged)
            /\ \A role \in kept : Of(merged, role) = Of(page, role)

\* Nothing to publish means nothing but identities and empty elements
\* differs between what readers see and what the creator has written.
NothingDraftedMeansTheSamePage ==
    LET Visible(block) ==
            LET Full(e) == ~ IsEmpty(e)
                held == SelectSeq(block.elements, Full)
            IN  <<block.definition, block.hidden, block.layout, block.width,
                  [i \in DOMAIN held |-> <<held[i].type, held[i].role, held[i].slot, ItemBodies(held[i])>>]>>
    IN  \A shown \in PublicPages : WorkDigest(shown) = WorkDigest(page) =>
            [i \in DOMAIN shown |-> Visible(shown[i])] = [i \in DOMAIN page |-> Visible(page[i])]

\* The changes told between what is published and what is drafted lead from one
\* to the other, and tell no item as gone and come that is still there.
ChangesExplain ==
    versions # <<>> =>
        LET told == CompareContent(Last(versions), page) IN
        \A s \in DOMAIN told :
            /\ Explains(told[s], ContentItems(Last(versions), s), ContentItems(page, s))
            /\ Minimal(told[s])

\* No change of presentation is told only if every block stands where readers see
\* it, as wide, laid out and hidden as they see it.
PresentationExplains ==
    LET Shape(blocks) ==
            [i \in DOMAIN blocks |-> <<blocks[i].id, blocks[i].layout, blocks[i].width, blocks[i].hidden>>]
    IN  \A shown \in PublicPages :
            ComparePresentation(shown, page) = {} => Shape(shown) = Shape(page)

\* What the creator is told before publishing is true: "nothing drafted", and the
\* lists of changes.
DraftedChangesAreTold == NothingDraftedMeansTheSamePage /\ ChangesExplain /\ PresentationExplains
==============================================================================
