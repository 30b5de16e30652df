------------------------------- MODULE Formats -------------------------------
(***************************************************************************)
(* What each format module of the server declares: how its files are told  *)
(* from others, what of a work it writes and loses, which header fields go *)
(* along, whose leftovers it keeps; and the checks the declarations pass   *)
(* before the server starts.  A role's content is the set of the traits in *)
(* it that some format treats apart (TraitsOf), for instance a greeting    *)
(* with a name of its own; wording, numbers and limits are left out.       *)
(***************************************************************************)
EXTENDS Naturals, Sequences, FiniteSets, TLC
Lists == INSTANCE SequencesExt

\* The roles an element of each type may have that its formats speak of.  A card's other
\* texts are treated as its description, and every group of settings as the sampler's.
Definitions ==
    [character |-> {"description", "greetings", "example_dialogue", "group_greetings",
                    "expressions", "lorebook_entries"},
     lorebook |-> {"lorebook_entries"},
     preset |-> {"prompt_fragments", "sampler_settings", "prompt_variables", "regex_scripts",
                 "prompt_nudges"},
     theme |-> {"theme_tokens", "theme_controls", "stylesheets"},
     pack |-> {"pack_items"},
     extension |-> {"extension_details", "extension_links", "extension_dependencies"}]

\* Every type may also have a gallery and the creator's notes.
Shared == {"gallery", "creator_notes"}
Types == DOMAIN Definitions
RolesOf(type) == Definitions[type] \cup Shared

\* What an element of the role may hold that some format treats apart.
TraitsOf(role) ==
    CASE role = "greetings" -> {"plain", "named"}
      [] role = "example_dialogue" -> {"line", "multiline"}
      [] role = "expressions" -> {"named", "unnamed"}
      [] role = "prompt_fragments" -> {"plain", "heading", "history"}
      [] role = "prompt_variables" -> {"bound", "loose"}
      [] role \in {"sampler_settings", "prompt_nudges", "theme_controls"} -> {"lumiverse", "sillytavern"}
      [] role = "theme_tokens" -> {"lumiverse", "lumiverse later", "sillytavern", "sillytavern later"}
      [] role = "stylesheets" -> {"global", "sheet", "off", "file"}
      [] OTHER -> {"text"}

\* What a work of the type must have before it is published.
RequiredRoles(type) ==
    CASE type = "character" -> {"description", "greetings"}
      [] type = "lorebook" -> {"lorebook_entries"}
      [] type = "preset" -> {"prompt_fragments"}
      [] type = "theme" -> {"theme_tokens"}
      [] type = "pack" -> {"pack_items"}
      [] type = "extension" -> {"extension_details"}

Apps == {"sillytavern", "risu", "lumiverse"}
Reads(app) ==
    CASE app = "sillytavern" -> {"chara_card_v2", "chara_card_v3", "charx", "lorebook_sillytavern",
                                 "preset_sillytavern", "theme_sillytavern", "extension_sillytavern"}
      [] app = "risu" -> {"chara_card_v2", "chara_card_v3", "charx", "lorebook_sillytavern"}
      [] app = "lumiverse" -> {"chara_card_v2", "chara_card_v3", "charx", "lorebook", "preset_lumiverse",
                               "theme_lumiverse", "pack_lumiverse", "extension_spindle"}

(* How well a format writes a role: it loses the traits in loses, writes   *)
(* nothing when the content has none of needs (if needs is not empty), and *)
(* puts the content where only the apps in shownBy read it.                *)
Support(grade, loses, needs) == [grade |-> grade, loses |-> loses, needs |-> needs, shownBy |-> Apps]
Full == Support("full", {}, {})
None == Support("none", {}, {})
Partial(loses) == Support("partial", loses, {})
Unless(support, needs) == [support EXCEPT !.needs = needs]
ShownBy(support, apps) == [support EXCEPT !.shownBy = apps]
\* A role the module does not declare has the zero support.
Undeclared == Support("", {}, {})

Image == {"PNG", "JPEG", "WebP", "GIF"}
Marker(containers, key, values) ==
    [type |-> "marker", containers |-> containers, key |-> key, values |-> values,
     required |-> {}, legacyOnly |-> FALSE, supersededBy |-> {}]
Shape(containers, required) ==
    [Marker(containers, "", {}) EXCEPT !.type = "shape", !.required = required]
Entry(name) == [Marker({"ZIP"}, name, {}) EXCEPT !.type = "entry"]

Module(id, type, recognition, roles, header, tested) ==
    [id |-> id, type |-> type, recognition |-> recognition, roles |-> roles, header |-> header,
     tested |-> tested, preserves |-> {}, body |-> id, container |-> <<>>,
     writesCover |-> FALSE, keepsUpload |-> FALSE, keepsPrivate |-> FALSE]
Graded(roles, support) == [r \in roles |-> support]

-----------------------------------------------------------------------------
LegacyShape == {<<"name", "string">>, <<"description", "string">>, <<"personality", "string">>,
                <<"scenario", "string">>, <<"first_mes", "string">>}
CardRecognition(id) ==
    CASE id = "chara_card_v2" ->
            <<[Marker({"JSON"} \cup Image, "spec", {id}) EXCEPT !.supersededBy = {"chara_card_v3"}],
              [Shape({"JSON"} \cup Image, LegacyShape) EXCEPT !.legacyOnly = TRUE]>>
      [] id = "chara_card_v3" -> <<Marker({"JSON"} \cup Image, "spec", {id})>>
      [] id = "charx" -> <<Marker({"ZIP"}, "spec", {"chara_card_v3"})>>

\* Pictures: none in a V2 card, in the card itself in V3, in the archive in CharX.
PictureSupport(id, support) ==
    CASE id = "chara_card_v2" -> None
      [] id = "chara_card_v3" -> ShownBy(support, {"risu"})
      [] OTHER -> support
CardRoles(id) ==
    [role \in RolesOf("character") |->
        CASE role = "greetings" -> Partial({"named"})
          [] role = "example_dialogue" -> Partial({"multiline"})
          [] role = "group_greetings" -> IF id = "chara_card_v2" THEN None ELSE Full
          [] role = "gallery" -> PictureSupport(id, Full)
          [] role = "expressions" -> PictureSupport(id, Partial({"unnamed"}))
          [] OTHER -> Full]
Cards == {"chara_card_v2", "chara_card_v3", "charx"}
CardModule(id) ==
    [Module(id, "character", CardRecognition(id), CardRoles(id),
            {"name", "credited_author", "work_version"}
                \cup (IF id = "chara_card_v2" THEN {} ELSE {"nickname"}),
            Cards \cup {"illarin", "v1"})
        EXCEPT !.body = "card", !.container = <<"extensions">>, !.writesCover = TRUE]

Lorebook ==
    [Module("lorebook", "lorebook", <<Shape({"JSON"}, {<<"entries", "array">>})>>,
            ("lorebook_entries" :> Full) @@ Graded(Shared, None), {"name"},
            {"lorebook", "illarin", "v1"})
        EXCEPT !.container = <<"extensions">>, !.preserves = {"v1"}]
SillyTavernLorebook ==
    [Module("lorebook_sillytavern", "lorebook", <<Shape({"JSON"}, {<<"entries", "object">>})>>,
            ("lorebook_entries" :> Full) @@ Graded(Shared, None), {},
            {"lorebook_sillytavern", "illarin"})
        EXCEPT !.body = "lorebook"]

SettingRoles == {"sampler_settings", "prompt_nudges"}
LumiversePreset ==
    [Module("preset_lumiverse", "preset", <<Marker({"JSON"}, "schemaVersion", {"1", "2"})>>,
            ("prompt_fragments" :> Full) @@ ("prompt_variables" :> Partial({"loose"}))
                @@ Graded(SettingRoles, Partial({"sillytavern"})) @@ ("regex_scripts" :> Full)
                @@ Graded(Shared, None),
            {"name", "blurb", "work_version"}, {"preset_lumiverse", "illarin", "v1"})
        EXCEPT !.container = <<"extensions">>, !.preserves = {"v1"}, !.keepsPrivate = TRUE]
SillyTavernPreset ==
    [Module("preset_sillytavern", "preset",
            <<Shape({"JSON"}, {<<"prompts", "array">>, <<"prompt_order", "array">>})>>,
            ("prompt_fragments" :> Partial({"heading", "history"})) @@ ("prompt_variables" :> None)
                @@ Graded(SettingRoles, Partial({"lumiverse"})) @@ ("regex_scripts" :> Full)
                @@ Graded(Shared, None),
            {}, {"preset_sillytavern", "illarin"})
        EXCEPT !.container = <<"extensions">>]

\* The theme modules declare neither the gallery nor the creator's notes.
LumiverseTheme ==
    [Module("theme_lumiverse", "theme", <<Marker({"ZIP"}, "format", {"3"})>>,
            ("theme_tokens" :> Unless(Partial({"sillytavern", "sillytavern later"}),
                                      {"lumiverse", "lumiverse later"}))
                @@ ("theme_controls" :> Partial({"sillytavern"})) @@ ("stylesheets" :> Full),
            {"name", "blurb", "credited_author"}, {"theme_lumiverse", "illarin", "v1"})
        EXCEPT !.preserves = {"v1"}]
SillyTavernTheme ==
    Module("theme_sillytavern", "theme",
           <<Shape({"JSON"}, {<<"main_text_color", "string">>, <<"blur_strength", "number">>})>>,
           ("theme_tokens" :> Unless(Partial({"lumiverse", "lumiverse later", "sillytavern later"}),
                                     {"sillytavern"}))
               @@ ("theme_controls" :> Partial({"lumiverse"}))
               @@ ("stylesheets" :> Unless(Partial({"sheet", "off", "file"}), {"global", "sheet"})),
           {"name"}, {"theme_sillytavern", "illarin"})

Pack ==
    [Module("pack_lumiverse", "pack",
            <<Shape({"JSON"}, {<<"packName", "string">>, <<"lumiaItems", "array">>,
                               <<"loomItems", "array">>})>>,
            ("pack_items" :> Full) @@ Graded(Shared, None),
            {"name", "work_version", "credited_author"}, {"pack_lumiverse", "illarin", "v1"})
        EXCEPT !.preserves = {"v1"}, !.writesCover = TRUE]

Spindle ==
    [Module("extension_spindle", "extension", <<Entry("spindle.json")>>,
            Graded({"extension_details", "extension_links"}, Full), {}, {"extension_spindle"})
        EXCEPT !.keepsUpload = TRUE]
SillyTavernExtension ==
    [Module("extension_sillytavern", "extension", <<Entry("manifest.json")>>,
            Graded({"extension_details", "extension_links", "extension_dependencies"}, Full), {},
            {"extension_sillytavern"})
        EXCEPT !.keepsUpload = TRUE]

-----------------------------------------------------------------------------
Declarations ==
    {CardModule(id) : id \in Cards}
    \cup {Lorebook, SillyTavernLorebook, LumiversePreset, SillyTavernPreset, LumiverseTheme,
          SillyTavernTheme, Pack, Spindle, SillyTavernExtension}
IDs == {d.id : d \in Declarations}
Declaration(id) == CHOOSE d \in Declarations : d.id = id
Write(declaration, role) ==
    IF role \in DOMAIN declaration.roles THEN declaration.roles[role] ELSE Undeclared

(* What the server checks of every module before it starts.               *)
ValidateShape(d) == d.keepsUpload => d.tested = {d.id}
ValidateRecognition(d) ==
    /\ d.recognition /= <<>>
    /\ \A r \in Lists!ToSet(d.recognition) :
        /\ r.containers /= {}
        /\ r.type = "marker" => r.key /= "" /\ r.values /= {} /\ r.values \cap r.supersededBy = {}
        /\ r.type = "shape" => r.required /= {} /\ r.supersededBy = {}
        /\ r.type = "entry" => r.key /= "" /\ r.containers = {"ZIP"}
ValidateRoleSupport(d) ==
    \A role \in DOMAIN d.roles :
        /\ role \in UNION {RolesOf(t) : t \in Types}
        /\ d.roles[role].grade \in {"full", "partial", "none"}
        /\ d.roles[role].grade = "partial" => d.roles[role].loses /= {}
ValidateHeader(d) == d.header \subseteq {"name", "blurb", "work_version", "credited_author", "nickname"}
ValidateStorageContract(d) == d.body /= "" /\ d.tested /= {} /\ d.preserves \subseteq d.tested
ValidateDestinations(d) == \A role \in DOMAIN d.roles : d.roles[role].shownBy \subseteq Apps
ValidateDeclaration(d) ==
    /\ ValidateShape(d) /\ ValidateHeader(d) /\ ValidateRecognition(d)
    /\ ValidateRoleSupport(d) /\ ValidateStorageContract(d) /\ ValidateDestinations(d)

\* A shape that asks for less than another would take the other's files too.
Shadows(looser, stricter) == looser \subseteq stricter
Compatible(first, second) == first \cap second /= {}
ShapesOverlap(first, second) ==
    \E a \in Lists!ToSet(first), b \in Lists!ToSet(second) :
        /\ a.type = "shape" /\ b.type = "shape"
        /\ Compatible(a.containers, b.containers)
        /\ Shadows(a.required, b.required) \/ Shadows(b.required, a.required)

ValidateDeclarations ==
    /\ Cardinality(IDs) = Cardinality(Declarations)
    /\ \A d \in Declarations : ValidateDeclaration(d)
    /\ \A a, b \in Declarations :
        a /= b => ~ShapesOverlap(a.recognition, b.recognition)

ASSUME DeclarationsAreValid == ValidateDeclarations
=============================================================================
