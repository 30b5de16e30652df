------------------------------- MODULE MCFormats -------------------------------
(***************************************************************************)
(* A work's page and its files: how the page is edited and replaced, which *)
(* formats it is offered in, how a file is told and read.  A behaviour     *)
(* follows one of the three while the others stay as they began; part says *)
(* which.                                                                  *)
(***************************************************************************)
EXTENDS Offers, Recognition

CONSTANT MaxEdits   \* bound: changes of the drafted page

VARIABLES part, workType, page, pageVersions, edits

-----------------------------------------------------------------------------
(* The pages: a card, whose messages may be written here and whose third    *)
(* element is optional, and a package, whose details are read from its file.*)
Elem(r, t, pin, read) == [role |-> r, type |-> t, pinned |-> pin, fromFile |-> read]

Gallery == [id |-> "gallery", required |-> FALSE, hideable |-> FALSE, repeatable |-> FALSE,
            elements |-> <<Elem("gallery", "list", FALSE, FALSE)>>, choices |-> <<>>,
            layouts |-> <<"single">>, width |-> "half"]

CustomBlock == [id |-> "custom_block", required |-> FALSE, hideable |-> FALSE, repeatable |-> TRUE,
                elements |-> <<>>, choices |-> <<Elem("", "prose", FALSE, FALSE)>>,
                layouts |-> <<"single", "duo">>, width |-> "full"]

Messages == [id |-> "messages", required |-> TRUE, hideable |-> FALSE, repeatable |-> FALSE,
             elements |-> <<Elem("greetings", "list", TRUE, FALSE), Elem("example", "prose", TRUE, FALSE),
                            Elem("group", "list", FALSE, FALSE)>>,
             choices |-> <<>>, layouts |-> <<"stack2", "stack3">>, width |-> "full"]

Details == [id |-> "extension_source", required |-> TRUE, hideable |-> TRUE, repeatable |-> FALSE,
            elements |-> <<Elem("details", "list", TRUE, TRUE)>>, choices |-> <<>>,
            layouts |-> <<"single">>, width |-> "half"]

TwoKinds == [card |-> <<Messages, Gallery, CustomBlock>>, package |-> <<Details, Gallery, CustomBlock>>]

Listed(r, n, t) == [role |-> r, type |-> "list", items |-> <<[name |-> n, text |-> t]>>]

Prose(r, t) == [role |-> r, type |-> "prose", items |-> <<[name |-> "", text |-> t]>>]

\* A card without a gallery, in a format that cannot hold one, and one with.
PlainCard == [elements |-> <<Listed("greetings", "m", "x"), Prose("example", "x"), Listed("group", "n", "x")>>,
              writes |-> {"greetings", "example", "group"}]

FullCard == [elements |-> <<Listed("greetings", "m", "y"), Prose("example", "x"), Listed("gallery", "m", "x")>>,
             writes |-> {"greetings", "example", "group", "gallery"}]

Package == [elements |-> <<Listed("details", "m", "x")>>, writes |-> {"details"}]

PicturedPackage == [elements |-> <<Listed("details", "m", "y"), Listed("gallery", "m", "x")>>,
                    writes |-> {"details", "gallery"}]

TwoFiles == [card |-> {PlainCard, FullCard}, package |-> {Package, PicturedPackage}]

OneFile == [card |-> {FullCard}, package |-> {PicturedPackage}]

Page == INSTANCE Pages
    WITH Definitions <- TwoKinds, Files <- TwoFiles, FirstFiles <- OneFile,
         Widths <- {"full", "half"}, Texts <- {"x", "y"}, Names <- {"m"},
         MaxBlocks <- 3, MaxElements <- 5, MaxItems <- 2, MaxVersions <- 2,
         versions <- pageVersions

ASSUME PagesSettings == Page!Settings

pageVars == <<workType, page, pageVersions, edits>>

EditPage == edits < MaxEdits /\ Page!Edit /\ edits' = edits + (IF page' = page THEN 0 ELSE 1)

PageNext == EditPage \/ (Page!PublishVersion /\ UNCHANGED edits)

all == <<part, offersVars, recognitionVars, pageVars>>

-----------------------------------------------------------------------------
(* The files: cards and other JSON with every marker and shape beside every *)
(* other, pictures with two chunks, archives of extensions whose code goes  *)
(* in circles, and archives of cards and themes.                            *)
Text(t) == Value("string", t)
Object == Value("object", "")
Roots ==
    LET specs == {NoRoot} \cup {"spec" :> Text(s) : s \in {"chara_card_v2", "chara_card_v3", "chara_card_v4"}}
        data == {NoRoot, "data" :> Object}
        legacy == {NoRoot, [k \in {"name", "description", "personality", "scenario", "first_mes"} |-> Text("")]}
        schemas == {NoRoot} \cup {"schemaVersion" :> Value("number", v) : v \in {"1", "3"}}
        entries == {NoRoot} \cup {"entries" :> Value(t, "") : t \in {"array", "object"}}
        preset == {NoRoot, ("prompts" :> Value("array", "")) @@ ("prompt_order" :> Value("array", ""))}
    IN {a @@ b @@ c @@ d @@ e @@ f : a \in specs, b \in data, c \in legacy, d \in schemas, e \in entries, f \in preset}
Jsons == {[container |-> "JSON", items |-> <<Item(<<"root">>, r)>>] : r \in Roots}
Chunks == {Item(<<"chara">>, r @@ ("data" :> Object)) : r \in {"spec" :> Text(s) : s \in {"chara_card_v2", "chara_card_v3"}}}
    \cup {Item(<<"chara">>, [k \in {"name", "description", "personality", "scenario", "first_mes"} |-> Text("")])}
Pngs == {[container |-> "PNG", items |-> <<a, b>>] : a \in Chunks, b \in Chunks}

Import(up, path, stem, ending) == [up |-> up, path |-> path, stem |-> stem, ending |-> ending]
CodeItem(path, imports) == [Item(path, NoRoot) EXCEPT !.code = TRUE, !.imports = imports]
Built == CodeItem(<<"dist", "backend.js">>, <<Import(0, <<"tools">>, "tools", "")>>)
Source == CodeItem(<<"src", "backend.ts">>,
                   <<Import(1, <<"dist", "tools.js">>, "tools", ".js"), Import(2, <<"x">>, "x", "")>>)
Tools == CodeItem(<<"dist", "tools.ts">>,
                  <<Import(0, <<"backend.js">>, "backend", ".js"), Import(0, <<"more">>, "more", "")>>)
More == CodeItem(<<"dist", "more", "index.js">>, <<Import(1, <<"tools">>, "tools", "")>>)
SpindleRoot == ("identifier" :> Text("a")) @@ ("permissions" :> Value("array", ""))
Spindles == {Item(<<"spindle.json">>, SpindleRoot @@ d) :
    d \in {NoRoot} \cup {"entry_backend" :> Value("string", p) :
                           p \in {<<"dist", "backend.js">>, <<"lib", "a.js">>, <<"..", "a.js">>}}}
Sillies == {Item(<<"manifest.json">>, "js" :> Value("string", p)) : p \in {<<"dist", "backend.js">>, <<"lib", "a.js">>}}
Placed == {<<i>> : i \in Spindles \cup Sillies} \cup {<<>>, <<Item(<<"spindle.json">>, SpindleRoot), Item(<<"manifest.json">>, SpindleRoot)>>}
    \cup {<<Item(<<"sub", "spindle.json">>, SpindleRoot)>>, <<[Item(<<"spindle.json">>, NoRoot) EXCEPT !.fault = "no object"]>>}
Readmes == {<<>>, <<Item(<<"docs", "README.md">>, NoRoot)>>,
            <<Item(<<"docs", "README.md">>, NoRoot), Item(<<"README">>, NoRoot)>>}
Codes == {<<>>, <<Built>>, <<Source>>, <<Built, Tools, More>>, <<Built, Source, Tools>>, <<Source, Tools, More>>}
Unsafe == {<<>>, <<[Item(<<"..", "x">>, NoRoot) EXCEPT !.fault = "unsafe"]>>}
Zips == {[container |-> "ZIP", items |-> m \o r \o c \o u] : m \in Placed, r \in Readmes, c \in Codes, u \in Unsafe}
Archives == {[container |-> "ZIP", items |-> <<Item(<<n>>, r)>> \o m] :
            n \in {"card.json", "CARD.JSON", "theme.json"}, m \in {<<>>, <<Item(<<"theme.json">>, "format" :> Value("number", "3"))>>},
            r \in {("spec" :> Text("chara_card_v3")) @@ ("data" :> Object), "format" :> Value("number", "3")}}
MCFiles == {f \in Jsons \cup Pngs \cup Zips \cup Archives : f.items /= <<>>}

-----------------------------------------------------------------------------
AnyFile == CHOOSE f \in MCFiles : f.container = "JSON"

\* The part that is not followed stays in one state.
MCInit ==
    /\ part \in {"pages", "offers", "files"}
    /\ IF part = "files" THEN TRUE ELSE file = AnyFile
    /\ OffersInit
    /\ part # "offers" =>
          /\ work.type = "theme" /\ draft.origin = "illarin"
          /\ draft.content["theme_tokens"] = {"lumiverse"}
    /\ RecognitionInit
    /\ Page!Init /\ edits = 0
    /\ part # "pages" => workType = "package"

MCNext ==
    \/ part = "pages" /\ PageNext /\ UNCHANGED <<part, offersVars, recognitionVars>>
    \/ part = "offers" /\ OffersNext /\ UNCHANGED <<part, recognitionVars, pageVars>>
    \/ part = "files" /\ RecognitionNext /\ UNCHANGED <<part, offersVars, pageVars>>

MCSpec == MCInit /\ [][MCNext]_all

MergeKeepsWhatWasPromised == part = "pages" => Page!MergeKeepsWhatWasPromised

DraftedChangesAreTold == part = "pages" => Page!DraftedChangesAreTold
=============================================================================
