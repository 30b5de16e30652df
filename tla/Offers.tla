-------------------------------- MODULE Offers --------------------------------
(***************************************************************************)
(* What a work can be downloaded in.  The formats offered for a work, with *)
(* what each leaves out, are worked out from the modules' declarations and *)
(* the work's content and stored beside it; so are its counts for browse.  *)
(* The stored summary is rewritten by what changes the work, copied by the *)
(* version published, and brought up to date when the server starts with   *)
(* other declarations; pages and sends read it, while a download works the *)
(* offers out again.  Beside the report stands what each format's writer   *)
(* really writes.                                                          *)
(***************************************************************************)
EXTENDS Formats

CONSTANTS
    \* the types of the works considered
    WorkTypes,
    \* how often a work's content changes, and how many versions it has
    MaxChanges, MaxVersions,
    \* how many traits a role's content has at most
    MaxTraits

ASSUME OffersAssumption ==
    /\ WorkTypes \subseteq Types
    /\ MaxChanges \in Nat /\ MaxVersions \in Nat \ {0} /\ MaxTraits \in Nat \ {0}

VARIABLES
    work,       \* its type, whether it is deleted, and whether it was when the release came
    draft,      \* its original format and content: role -> traits
    versions,   \* what each published version recorded of that
    hidden,     \* the role whose block is hidden, on the draft and on the public page at once
    row,        \* work_summaries: the offers, their stamp, the counts and theirs
    recorded,   \* work_version_summaries: the same row per version
    release,    \* which release of the server runs
    changes     \* how often the content has been changed: only a bound

offersVars == <<work, draft, versions, hidden, row, recorded, release, changes>>

Releases == {"earlier", "today"}
Nobody == "nothing"

-----------------------------------------------------------------------------
(* The declarations of the release that runs.  The earlier one stands for  *)
(* any whose stamp differs: no format of it wrote pictures.                *)
Earlier(d) ==
    [d EXCEPT !.roles = [r \in DOMAIN d.roles |->
        IF r \in {"gallery", "expressions"} THEN None ELSE d.roles[r]]]
ModuleOf(r, id) == IF r = "earlier" THEN Earlier(Declaration(id)) ELSE Declaration(id)
CapabilityStamp(r) == r
FacetStamp(r) == r

Verdict(support, traits) ==
    CASE support.grade = "none" \/ (support.needs /= {} /\ support.needs \cap traits = {}) -> "dropped"
      [] support.grade = "partial" /\ support.loses \cap traits /= {} -> "reduced"
      [] OTHER -> "carried"
Lossy(loss) == loss.verdict /= "carried"
Loss(support, traits) ==
    LET verdict == Verdict(support, traits)
    IN  [verdict |-> verdict,
         shownBy |-> IF verdict = "dropped" THEN Apps ELSE support.shownBy]

WrittenRoles(content) == {r \in DOMAIN content : content[r] /= {}}
LossReport(d, content) ==
    IF d.keepsUpload THEN [r \in {} |-> Loss(None, {})]
    ELSE [r \in WrittenRoles(content) |-> Loss(Write(d, r), content[r])]
Survives(d, type, content) ==
    d.keepsUpload \/ \A r \in WrittenRoles(content) \cap RequiredRoles(type) :
                        LossReport(d, content)[r].verdict /= "dropped"

Offered(d, content) == [format |-> d.id, roles |-> LossReport(d, content)]
OfferedFormats(rel, type, origin, content) ==
    {Offered(ModuleOf(rel, id), content) : id \in
        {i \in IDs : LET d == ModuleOf(rel, i)
                     IN  d.type = type /\ origin \in d.tested /\ Survives(d, type, content)}}

-----------------------------------------------------------------------------
(* Which of the offers an app is given, and which the page recommends.     *)
Reaches(loss, app) == ~Lossy(loss) /\ app \in loss.shownBy
WhatArrivesBug(offer, app) == Cardinality({r \in DOMAIN offer.roles : Reaches(offer.roles[r], app)})
LossesFor(offer, app) == Cardinality({r \in DOMAIN offer.roles : ~Reaches(offer.roles[r], app)})
Losses(offer) == Cardinality({r \in DOMAIN offer.roles : Lossy(offer.roles[r])})
Notes(offer) ==
    Cardinality({r \in DOMAIN offer.roles : ~Lossy(offer.roles[r]) /\ offer.roles[r].shownBy /= Apps})
WritableRoles(id) ==
    LET d == Declaration(id) IN Cardinality({r \in DOMAIN d.roles : d.roles[r].grade /= "none"})
Reach(id) == Cardinality({app \in Apps : id \in Reads(app)})

\* The order of the names, the last thing that decides.
Named == <<"chara_card_v2", "chara_card_v3", "charx", "extension_sillytavern", "extension_spindle",
           "lorebook", "lorebook_sillytavern", "pack_lumiverse", "preset_lumiverse",
           "preset_sillytavern", "theme_lumiverse", "theme_sillytavern">>
Place(id) == CHOOSE i \in DOMAIN Named : Named[i] = id

\* The first comparison that tells the two apart decides.
Decides(comparisons) ==
    \E i \in DOMAIN comparisons :
        comparisons[i][1] > comparisons[i][2] /\ \A j \in 1 .. i - 1 : comparisons[j][1] = comparisons[j][2]
Outranks(a, b) ==
    Decides(<< <<Reach(a.format), Reach(b.format)>>, <<Losses(b), Losses(a)>>, <<Notes(b), Notes(a)>>,
               <<WritableRoles(a.format), WritableRoles(b.format)>>, <<Place(b.format), Place(a.format)>> >>)
LandsBetter(a, b, app) ==
    Decides(<< <<LossesFor(b, app), LossesFor(a, app)>>, <<Notes(b), Notes(a)>>,
               <<WritableRoles(a.format), WritableRoles(b.format)>>, <<Place(b.format), Place(a.format)>> >>)

For(offered, app) == {o \in offered : o.format \in Reads(app)}
AppFormat(offered, app) ==
    CHOOSE o \in For(offered, app) : \A p \in For(offered, app) \ {o} : LandsBetter(o, p, app)

-----------------------------------------------------------------------------
(* What of each role's traits the writer of the format puts in the file.   *)
CardFields(id, role, traits) ==
    CASE role = "greetings" -> traits \ {"named"}
      [] role = "example_dialogue" -> traits \ {"multiline"}
      [] role = "group_greetings" /\ id = "chara_card_v2" -> {}
      [] OTHER -> traits
\* Pictures go into the card's own records or the archive; an unnamed one has no name there.
CardPictures(id, traits) == IF id = "chara_card_v2" THEN {} ELSE traits \ {"unnamed"}
WriteCard(id, content) ==
    [r \in DOMAIN content |->
        IF r \in {"gallery", "expressions"} THEN CardPictures(id, content[r]) ELSE CardFields(id, r, content[r])]

WriteOnly(roles, content) == [r \in DOMAIN content |-> IF r \in roles THEN content[r] ELSE {}]
WriteLorebook(content) == WriteOnly({"lorebook_entries"}, content)
WriteSillyTavernLorebook(content) == WriteOnly({"lorebook_entries"}, content)
WritePack(content) == WriteOnly({"pack_items"}, content)
WriteLumiversePreset(content) ==
    [r \in DOMAIN content |->
        CASE r \in {"prompt_fragments", "regex_scripts"} -> content[r]
          [] r = "prompt_variables" -> content[r] \ {"loose"}
          [] r \in SettingRoles -> content[r] \cap {"lumiverse"}
          [] OTHER -> {}]
WriteSillyTavernPreset(content) ==
    [r \in DOMAIN content |->
        CASE r = "prompt_fragments" -> content[r] \ {"heading", "history"}
          [] r = "regex_scripts" -> content[r]
          [] r \in SettingRoles -> content[r] \cap {"sillytavern"}
          [] OTHER -> {}]
WriteLumiverseTheme(content) ==
    [r \in DOMAIN content |->
        CASE r = "theme_tokens" -> content[r] \cap {"lumiverse", "lumiverse later"}
          [] r = "theme_controls" -> content[r] \cap {"lumiverse"}
          [] r = "stylesheets" -> content[r]
          [] OTHER -> {}]
\* The sheets that are switched on are joined to the main one and are no sheets of their own.
WriteSillyTavernTheme(content) ==
    [r \in DOMAIN content |->
        CASE r = "theme_tokens" -> content[r] \cap {"sillytavern"}
          [] r = "theme_controls" -> content[r] \cap {"sillytavern"}
          [] r = "stylesheets" -> content[r] \cap {"global"}
          [] OTHER -> {}]

WrittenFile(id, content) ==
    CASE id \in Cards -> WriteCard(id, content)
      [] id = "lorebook" -> WriteLorebook(content)
      [] id = "lorebook_sillytavern" -> WriteSillyTavernLorebook(content)
      [] id = "preset_lumiverse" -> WriteLumiversePreset(content)
      [] id = "preset_sillytavern" -> WriteSillyTavernPreset(content)
      [] id = "theme_lumiverse" -> WriteLumiverseTheme(content)
      [] id = "theme_sillytavern" -> WriteSillyTavernTheme(content)
      [] id = "pack_lumiverse" -> WritePack(content)
      [] OTHER -> content

\* The apps that read a V3 card's pictures out of it, and those an archive's.
ArrivesIn(id, content, app) ==
    {r \in WrittenRoles(content) :
        /\ WrittenFile(id, content)[r] = content[r]
        /\ ~(id = "chara_card_v3" /\ r \in {"gallery", "expressions"} /\ app /= "risu")}

-----------------------------------------------------------------------------
\* The state: one work of one type, its drafted content, its versions, its summaries.
Some(role) == {t \in SUBSET TraitsOf(role) : Cardinality(t) <= MaxTraits}
Started(type, required) == [r \in RolesOf(type) |-> IF r \in DOMAIN required THEN required[r] ELSE {}]

\* A work begun on the site, imported from the first site, or read from a file of a format.
Origins(type) ==
    {d.id : d \in {e \in Declarations : e.type = type}}
    \cup (IF \E d \in Declarations : d.type = type /\ d.keepsUpload THEN {} ELSE {"illarin", "v1"})

Counts(rel, content, hid) ==
    IF rel = "earlier" THEN WrittenRoles(content) ELSE WrittenRoles(content) \ {hid}
OffersOf(rel, type, d) == OfferedFormats(rel, type, d.origin, d.content)
Summary(rel, type, d, hid) ==
    [export |-> OffersOf(rel, type, d), stamp |-> CapabilityStamp(rel),
     facets |-> Counts(rel, d.content, hid), facetStamp |-> FacetStamp(rel)]

OffersInit ==
    /\ \E type \in WorkTypes : \E origin \in Origins(type),
            required \in [RequiredRoles(type) -> {{t} : t \in UNION {TraitsOf(r) : r \in RequiredRoles(type)}}] :
        /\ \A r \in RequiredRoles(type) : required[r] \subseteq TraitsOf(r)
        /\ work = [type |-> type, deleted |-> FALSE, asleep |-> FALSE]
        /\ draft = [origin |-> origin, content |-> Started(type, required)]
    /\ versions = <<>> /\ recorded = <<>> /\ hidden = Nobody
    /\ release = "earlier" /\ changes = 0
    /\ row = Summary(release, work.type, draft, hidden)

LastVersion == Len(versions)
Published == versions /= <<>>

\* The public half of the summary is worked out from the version published.
WritePublished(rows, rel, hid) ==
    IF ~Published THEN rows
    ELSE [rows EXCEPT ![LastVersion] = Summary(rel, work.type, versions[LastVersion], hid)]

\* The counts alone, of the draft and of the version published.
WithFilters(one, rel, content, hid) ==
    [one EXCEPT !.facets = Counts(rel, content, hid), !.facetStamp = FacetStamp(rel)]
DraftFiltersBug(rows, rel, hid) == rows
PublishedFilters(rows, rel, hid) ==
    IF ~Published THEN rows
    ELSE [rows EXCEPT ![LastVersion] = WithFilters(@, rel, versions[LastVersion].content, hid)]

\* What every change of the content ends with, in its own transaction.
WriteSummary ==
    /\ row' = Summary(release, work.type, draft', hidden)
    /\ recorded' = WritePublished(recorded, release, hidden)
    /\ work' = [work EXCEPT !.asleep = FALSE]

Changes == ~work.deleted /\ changes < MaxChanges /\ changes' = changes + 1

\* A block is added, saved, moved or removed: one element's content changes.
SaveBlocks ==
    /\ Changes
    /\ \E role \in RolesOf(work.type) : \E traits \in Some(role) \ {draft.content[role]} :
        draft' = [draft EXCEPT !.content[role] = traits]
    /\ WriteSummary
    /\ UNCHANGED <<versions, hidden, release>>

\* A replacement file is accepted: the work is now of that file's format.
ReplaceContent ==
    /\ Changes
    /\ \E d \in {e \in Declarations : e.type = work.type}, role \in RolesOf(work.type) :
        \E traits \in Some(role) :
            draft' = [origin |-> d.id, content |-> [draft.content EXCEPT ![role] = traits]]
    /\ draft' /= draft
    /\ WriteSummary
    /\ UNCHANGED <<versions, hidden, release>>

RestoreVersion ==
    /\ Changes
    /\ \E n \in DOMAIN versions : draft' = versions[n]
    /\ WriteSummary
    /\ UNCHANGED <<versions, hidden, release>>

\* A block is hidden or shown again; the page readers see changes with it.
SaveArrangement ==
    /\ Changes
    /\ hidden' \in (WrittenRoles(draft.content) \cup {Nobody}) \ {hidden}
    /\ row' = WithFilters(row, release, draft.content, hidden')
    /\ recorded' = PublishedFilters(recorded, release, hidden')
    /\ UNCHANGED <<work, draft, versions, release>>

\* What must be there before a version is published.
ContentFloor(content) == \A r \in RequiredRoles(work.type) : content[r] /= {}
CandidateReadiness ==
    ContentFloor(draft.content) /\ OffersOf(release, work.type, draft) /= {}

\* The version's summary is a copy of the work's row, made by the database.
Publish ==
    /\ ~work.deleted /\ LastVersion < MaxVersions
    /\ Published => draft /= versions[LastVersion]
    /\ CandidateReadiness
    /\ versions' = Append(versions, draft)
    /\ recorded' = Append(recorded, row)
    /\ UNCHANGED <<work, draft, hidden, row, release, changes>>

DeleteWork ==
    /\ ~work.deleted /\ work' = [work EXCEPT !.deleted = TRUE]
    /\ UNCHANGED <<draft, versions, hidden, row, recorded, release, changes>>
RestoreWork ==
    /\ work.deleted /\ work' = [work EXCEPT !.deleted = FALSE]
    /\ UNCHANGED <<draft, versions, hidden, row, recorded, release, changes>>

\* The server starts, with the release it had or with today's; works deleted now are left alone.
StaleFormats(rel) == ~work.deleted /\ row.stamp /= CapabilityStamp(rel)
StaleFilters(rel) == ~work.deleted /\ row.facetStamp /= FacetStamp(rel)
Start ==
    /\ \E rel \in {release, "today"} :
        LET formats == [row EXCEPT !.export = OffersOf(rel, work.type, draft), !.stamp = CapabilityStamp(rel)]
            fresh == IF StaleFormats(rel) THEN formats ELSE row
        IN  /\ StaleFormats(rel) \/ StaleFilters(rel) \/ rel /= release
            /\ row' = IF StaleFilters(rel) THEN WithFilters(fresh, rel, draft.content, hidden) ELSE fresh
            /\ recorded' = IF StaleFormats(rel) \/ StaleFilters(rel)
                          THEN WritePublished(recorded, rel, hidden) ELSE recorded
            /\ release' = rel
    /\ work' = [work EXCEPT !.asleep = work.deleted]
    /\ UNCHANGED <<draft, versions, hidden, changes>>

OffersNext ==
    \/ SaveBlocks \/ ReplaceContent \/ RestoreVersion \/ SaveArrangement \/ Publish
    \/ DeleteWork \/ RestoreWork \/ Start

OffersSpec == OffersInit /\ [][OffersNext]_offersVars

-----------------------------------------------------------------------------
(* The formats a page names for the work, and what it says each leaves     *)
(* out, are those a download accepts now, for the draft and for readers:   *)
(* whatever was written under the stamp of the release that runs says the  *)
(* truth, and only a work that was deleted when the release came has a     *)
(* summary of an earlier one (summary.go, filters.go, published.go).       *)
Truthful(one, d) ==
    /\ one.stamp = CapabilityStamp(release) => one.export = OffersOf(release, work.type, d)
    /\ one.facetStamp = FacetStamp(release) => one.facets = Counts(release, d.content, hidden)
UpToDate(one) == one.stamp = CapabilityStamp(release) /\ one.facetStamp = FacetStamp(release)
OffersAreToday ==
    ~work.deleted =>
        /\ Truthful(row, draft)
        /\ Published => Truthful(recorded[LastVersion], versions[LastVersion])
        /\ ~work.asleep => UpToDate(row) /\ (Published => UpToDate(recorded[LastVersion]))

(* Readers can download every published work in some format, whatever has  *)
(* been drafted, replaced or restored since (publish.go, capability.go).   *)
PublishedCanBeDownloaded ==
    Published => OffersOf(release, work.type, versions[LastVersion]) /= {}

(* Of the formats offered that an app reads, none brings more of the work  *)
(* to it than the one the app is given, going by what the writers write    *)
(* and not by the report (appformat.go).                                   *)
EachAppGetsTheMost ==
    \A app \in Apps :
        LET offered == For(OffersOf("today", work.type, draft), app)
            picked == AppFormat(offered, app).format
            lands(id) == ArrivesIn(id, draft.content, app)
        IN  \A o \in offered :
                ~(lands(picked) \subseteq lands(o.format) /\ lands(picked) /= lands(o.format))
=============================================================================
