----------------------------- MODULE Recognition -----------------------------
(***************************************************************************)
(* How an uploaded file is told: what the inspection finds in it, which    *)
(* module claims it, and, for an extension's archive, which manifest,      *)
(* README and code are read.  A file is a container and its items (the     *)
(* entries of a ZIP, the text chunks of a PNG, the one root of a JSON      *)
(* file); an item's path is a sequence of names, its root maps the keys    *)
(* of a JSON object to values.  Everything but the archive is tiny enough  *)
(* for its limits, so no limit but the archive's own rules is modelled.    *)
(***************************************************************************)
EXTENDS Formats
LOCAL INSTANCE SequencesExt
LOCAL INSTANCE FiniteSetsExt

CONSTANTS Files,     \* the files somebody may upload
          CodeBytes, \* maxCodeBytes, every code file counting one
          MaxRepacks \* bound: how often a file is packed anew

VARIABLES file,      \* the file as it is now
          repacks,   \* how it was packed anew so far
          reading,   \* the reading of its code, or Idle
          answers    \* what reading it told, each time it was not cut short
recognitionVars == <<file, repacks, reading, answers>>

Idle == [queue |-> <<>>, queued |-> {}, read |-> {}, budget |-> 0, told |-> <<>>]

NoRoot == <<>>    \* an object without keys
Value(type, text) == [type |-> type, text |-> text]
Item(path, root) == [path |-> path, dir |-> FALSE, fault |-> "none", root |-> root, code |-> FALSE, imports |-> <<>>]
Base(path) == path[Len(path)]
Dir(path) == SubSeq(path, 1, Len(path) - 1)

\* strings.EqualFold, for the names whose letters are read either way.
Folded == ("CARD.JSON" :> "card.json") @@ ("README.md" :> "readme.md") @@ ("README" :> "readme")
EqualFold(name, wanted) == wanted = IF name \in DOMAIN Folded THEN Folded[name] ELSE name

-----------------------------------------------------------------------------
(* What inspection finds.                                                  *)

\* A defective variant for the mutants: what macOS adds counts like any other file.
EveryFileBug(items) == {i.path : i \in {j \in ToSet(items) : ~j.dir}}

\* The files that tell which folder everything is in: not what macOS adds.
Counted(items) ==
    {i.path : i \in {j \in ToSet(items) :
        /\ ~j.dir
        /\ ~(Len(j.path) > 1 /\ j.path[1] = "__MACOSX")
        /\ Base(j.path) /= ".DS_Store"}}
ArchiveBase(items) ==
    LET paths == Counted(items)
        p == CHOOSE q \in paths : TRUE
        shared == {n \in 0 .. Len(p) - 1 :
                      \A q \in paths : Len(q) > n /\ SubSeq(q, 1, n) = SubSeq(p, 1, n)}
    IN IF paths = {} THEN <<>> ELSE SubSeq(p, 1, Max(shared))

Inside(base, path) == Len(path) > Len(base) /\ SubSeq(path, 1, Len(base)) = base
Within(base, path) == SubSeq(path, Len(base) + 1, Len(path))

\* The entries of an archive that are read as JSON while it is inspected.
ReadsEntry(base, i) ==
    \/ Len(i.path) = 1 /\ (EqualFold(i.path[1], "card.json") \/ i.path[1] = "theme.json")
    \/ i.path \in {Append(base, "spindle.json"), Append(base, "manifest.json")}

Inspection(f) == [container |-> f.container, base |-> <<>>, entries |-> <<>>, payloads |-> f.items, problem |-> "none"]
InspectZIP(f) ==
    LET base == ArchiveBase(f.items)
        faults(i) == IF i.fault = "unsafe" THEN "safety_violation"
                     ELSE IF ~i.dir /\ ReadsEntry(base, i) /\ i.fault = "no object" THEN "malformed_input"
                     ELSE "none"
        faulty == SelectInSeq(f.items, LAMBDA i : faults(i) /= "none")
    IN [Inspection(f) EXCEPT
            !.base = base, !.entries = f.items,
            !.payloads = SelectSeq(f.items, LAMBDA i : ~i.dir /\ ReadsEntry(base, i)),
            !.problem = IF faulty = 0 THEN "none" ELSE faults(f.items[faulty])]

\* A PNG's chunks must be whole; one that holds no JSON object, plain or in base64, is no payload.
InspectPNG(f) ==
    [Inspection(f) EXCEPT
        !.payloads = SelectSeq(f.items, LAMBDA i : i.fault /= "no object"),
        !.problem = IF \E i \in ToSet(f.items) : i.fault = "truncated" THEN "malformed_input" ELSE "none"]
InspectJSON(f) ==
    [Inspection(f) EXCEPT !.problem = IF f.items[1].fault = "no object" THEN "malformed_input" ELSE "none"]
Inspect(f) ==
    CASE f.container = "ZIP" -> InspectZIP(f)
      [] f.container = "PNG" -> InspectPNG(f)
      [] f.container = "JSON" -> InspectJSON(f)
      [] OTHER -> Inspection(f)

-----------------------------------------------------------------------------
(* Which module claims it.                                                 *)
\* The text of a plain value, if the key has one.
PayloadValue(root, key) ==
    {root[k].text : k \in {n \in DOMAIN root \cap {key} : root[n].type \in {"string", "number", "boolean"}}}
ShapeMatches(root, required) ==
    \A r \in required : r[1] \in DOMAIN root /\ root[r[1]].type = r[2]
SupersededInFile(seen, r) ==
    /\ seen.container \in r.containers
    /\ \E p \in ToSet(seen.payloads) : PayloadValue(p.root, r.key) \cap r.supersededBy /= {}

\* Whether one way of recognition fits one payload.
Recognises(seen, r, p) ==
    /\ seen.container \in r.containers
    /\ CASE r.type = "marker" -> PayloadValue(p.root, r.key) \cap r.values /= {}
         [] r.type = "shape" ->
                /\ r.legacyOnly => PayloadValue(p.root, "spec") \subseteq {""}
                /\ ShapeMatches(p.root, r.required)
         [] r.type = "entry" -> p.path = Append(seen.base, r.key)

\* The first way of recognition that fits, with the first payload it fits.
None0 == [payload |-> 0, strength |-> 0]
WholeFile == [payload |-> 0, strength |-> 1]
MatchByDeclaration(seen, d) ==
    LET fits(r) == {n \in DOMAIN seen.payloads : Recognises(seen, r, seen.payloads[n])}
        first == SelectInSeq(d.recognition, LAMBDA r : ~SupersededInFile(seen, r) /\ fits(r) /= {})
    IN IF first = 0 THEN None0
       ELSE [payload |-> Min(fits(d.recognition[first])),
             strength |-> IF d.recognition[first].type = "marker" THEN 2 ELSE 1]

Manifests == <<"spindle.json", "manifest.json">>
HasEntry(seen, path) == \E i \in ToSet(seen.entries) : ~i.dir /\ i.path = seen.base \o path
Misplaced(seen, manifest) ==
    \E i \in ToSet(seen.entries) : ~i.dir /\ Base(i.path) = manifest /\ i.path[1] /= "__MACOSX"
ArchiveManifest(seen) ==
    LET at == SelectSeq(Manifests, LAMBDA m : HasEntry(seen, <<m>>))
        anywhere == SelectSeq(Manifests, LAMBDA m : Misplaced(seen, m))
    IN IF at \o anywhere = <<>> THEN "" ELSE Head(at \o anywhere)

\* An extension module claims an archive even if its manifest is misplaced, to say where it is.
MatchArchive(seen, d) ==
    IF ArchiveManifest(seen) /= d.recognition[1].key THEN None0
    ELSE IF MatchByDeclaration(seen, d) /= None0 THEN MatchByDeclaration(seen, d) ELSE WholeFile
Match(seen, d) == IF d.type = "extension" THEN MatchArchive(seen, d) ELSE MatchByDeclaration(seen, d)

Told(format, payload, problem) ==
    [format |-> format, payload |-> payload, problem |-> problem, readme |-> <<>>, code |-> <<>>]
UnsupportedMarker(seen) ==
    \E d \in Declarations, p \in ToSet(seen.payloads) : \E r \in ToSet(d.recognition) :
        /\ r.type = "marker"
        /\ seen.container \in r.containers
        /\ ~(PayloadValue(p.root, r.key) \subseteq r.values)

\* What resolving may answer; the modules are asked in no fixed order.
Resolve(seen) ==
    LET claims == {d \in Declarations : Match(seen, d) /= None0}
        best == {d \in claims : \A o \in claims : Match(seen, d).strength >= Match(seen, o).strength}
        conflict == \E a, b \in claims :
            a /= b /\ Match(seen, a).strength = 2 /\ Match(seen, b) = Match(seen, a)
    IN IF claims = {} THEN {Told("", 0, IF UnsupportedMarker(seen) THEN "unsupported_version" ELSE "unsupported_format")}
       ELSE IF conflict THEN {Told("", 0, "conflicting")}
       ELSE IF Cardinality(best) > 1 THEN {Told("", 0, "ambiguous")}
       ELSE {Told(d.id, Match(seen, d).payload, "none") : d \in best}

-----------------------------------------------------------------------------
(* What an extension's archive is read for.                                *)

\* Both manifests where an app reads one: unclear which app it is for.
CheckArchive(seen) == ~(HasEntry(seen, <<"spindle.json">>) /\ HasEntry(seen, <<"manifest.json">>))

\* The README shown is looked for where GitHub looks, in the order it looks.
ReadmeFolders == <<<<".github">>, <<>>, <<"docs">>>>
ReadmeNames == <<"readme.md", "readme.markdown", "readme">>
ReadmeEntry(seen) ==
    LET is(i, folder, wanted) ==
            LET path == Within(seen.base, i.path) IN
            /\ ~i.dir /\ Inside(seen.base, i.path)
            /\ Len(path) = Len(folder) + 1
            /\ \A n \in DOMAIN folder : EqualFold(path[n], folder[n])
            /\ EqualFold(Base(path), wanted)
        places == {<<f, n>> \in (DOMAIN ReadmeFolders) \X (DOMAIN ReadmeNames) :
                      \E i \in ToSet(seen.entries) : is(i, ReadmeFolders[f], ReadmeNames[n])}
        best == CHOOSE p \in places : \A o \in places : p[1] < o[1] \/ (p[1] = o[1] /\ p[2] <= o[2])
    IN IF places = {} THEN <<>>
       ELSE Within(seen.base, SelectSeq(seen.entries, LAMBDA i :
                is(i, ReadmeFolders[best[1]], ReadmeNames[best[2]]))[1].path)

\* path.Clean has been applied to a declared path: ".." is left only in front.
InsideArchive(path) == path = <<>> \/ path[1] \notin {"..", "/"}

(* The file Lumiverse runs for each side: the declared or the usual built   *)
(* file, or else the source it builds from.                                *)
SpindleSides ==
    <<[key |-> "entry_backend", built |-> <<"dist", "backend.js">>, source |-> <<"src", "backend.ts">>],
      [key |-> "entry_frontend", built |-> <<"dist", "frontend.js">>, source |-> <<"src", "frontend.ts">>]>>
Declared(root, side) ==
    IF side.key \in DOMAIN root /\ root[side.key].type = "string" THEN root[side.key].text ELSE <<>>
EntryOf(root, side) == IF Declared(root, side) = <<>> THEN side.built ELSE Declared(root, side)
SideCode(seen, root, side) ==
    IF HasEntry(seen, EntryOf(root, side)) THEN <<EntryOf(root, side)>>
    ELSE IF HasEntry(seen, side.source) THEN <<side.source>> ELSE <<>>
SpindleCode(seen, root) == SideCode(seen, root, SpindleSides[1]) \o SideCode(seen, root, SpindleSides[2])
SpindleProblem(seen, root) ==
    LET wrong(side) == \/ ~InsideArchive(EntryOf(root, side))
                       \/ Declared(root, side) /= <<>> /\ SideCode(seen, root, side) = <<>>
    IN IF ~({"identifier", "permissions"} \subseteq DOMAIN root) THEN "malformed_input"
       ELSE IF \E n \in DOMAIN SpindleSides : wrong(SpindleSides[n]) THEN "malformed_input"
       ELSE IF SpindleCode(seen, root) = <<>> THEN "malformed_input"
       ELSE "none"
SillyTavernProblem(seen, root) ==
    IF ~("js" \in DOMAIN root /\ root["js"].type = "string") THEN "malformed_input"
    ELSE IF ~InsideArchive(root["js"].text) \/ ~HasEntry(seen, root["js"].text) THEN "malformed_input"
    ELSE "none"

ParseArchive(seen, told) ==
    LET spindle == told.format = "extension_spindle"
        manifest == IF spindle THEN "spindle.json" ELSE "manifest.json"
        root == seen.payloads[told.payload].root
        problem == IF ~CheckArchive(seen) \/ ~HasEntry(seen, <<manifest>>) THEN "malformed_input"
                   ELSE IF spindle THEN SpindleProblem(seen, root)
                   ELSE SillyTavernProblem(seen, root)
    IN IF problem /= "none" THEN [told EXCEPT !.problem = problem]
       ELSE [told EXCEPT !.readme = ReadmeEntry(seen),
                         !.code = IF spindle THEN SpindleCode(seen, root) ELSE <<root["js"].text>>]

\* A card that names its version keeps its fields one level down.
ParseCard(seen, told) ==
    LET root == seen.payloads[told.payload].root
        nested == PayloadValue(root, "spec") \cap {"chara_card_v2", "chara_card_v3"} /= {}
    IN IF nested /\ ~("data" \in DOMAIN root /\ root["data"].type = "object")
       THEN [told EXCEPT !.problem = "malformed_input"] ELSE told
Parse(seen, told) ==
    CASE told.problem /= "none" -> told
      [] Declaration(told.format).type = "extension" -> ParseArchive(seen, told)
      [] Declaration(told.format).type = "character" -> ParseCard(seen, told)
      [] OTHER -> told

-----------------------------------------------------------------------------
(* What the code of an extension adds: the files the app loads are read,   *)
(* and the files they import, as far as time and bytes allow.              *)
CodeEndings == <<".js", ".mjs", ".cjs", ".jsx", ".ts", ".mts", ".cts", ".tsx">>
Code(seen) ==
    {Within(seen.base, i.path) : i \in {j \in ToSet(seen.entries) :
        ~j.dir /\ Inside(seen.base, j.path) /\ j.code}}
CodeAt(seen, path) == CHOOSE i \in ToSet(seen.entries) : ~i.dir /\ i.path = seen.base \o path

\* The file a relative import loads: up folders above the importing file's, then along path.
ResolveImport(from, import, code) ==
    LET folder == Dir(from)
        target == SubSeq(folder, 1, Len(folder) - import.up) \o import.path
        named(name) == Append(Dir(target), name)
        typescript == IF import.ending \in {".js", ".jsx", ".mjs", ".cjs"}
                      THEN [n \in 1 .. 4 |-> named(import.stem \o <<".ts", ".tsx", ".mts", ".cts">>[n])]
                      ELSE <<>>
        ended == FlattenSeq([n \in DOMAIN CodeEndings |->
                    <<named(Base(target) \o CodeEndings[n]), Append(target, "index" \o CodeEndings[n])>>])
        candidates == SelectSeq(<<target>> \o typescript \o ended, LAMBDA c : c \in code)
    IN IF import.up > Len(folder) \/ candidates = <<>> THEN {} ELSE {Head(candidates)}
Imported(seen, path) ==
    UNION {ResolveImport(path, import, Code(seen)) : import \in ToSet(CodeAt(seen, path).imports)}

Outcome(told, read) == [told |-> [told EXCEPT !.payload = 0], read |-> read]

Upload ==
    /\ reading = Idle
    /\ LET seen == Inspect(file) IN
       \E found \in IF seen.problem = "none" THEN Resolve(seen) ELSE {Told("", 0, seen.problem)} :
          LET told == Parse(seen, found)
              loaded == SelectSeq(told.code, LAMBDA p : p \in Code(seen))
          IN IF loaded = <<>>
             THEN answers' = answers \cup {Outcome(told, {})} /\ UNCHANGED reading
             ELSE /\ reading' = [queue |-> loaded, queued |-> ToSet(loaded), read |-> {},
                                 budget |-> CodeBytes, told |-> told]
                  /\ UNCHANGED answers
    /\ UNCHANGED <<file, repacks>>

Seen(queued) == queued

ReadCode ==
    /\ reading.queue /= <<>> /\ reading.budget > 0
    /\ LET next == Imported(Inspect(file), Head(reading.queue)) \ Seen(reading.queued)
       IN reading' = [reading EXCEPT
                        !.queue = Tail(@) \o SetToSeq(next),
                        !.queued = @ \cup next,
                        !.read = @ \cup {Head(reading.queue)},
                        !.budget = @ - 1]
    /\ UNCHANGED <<file, repacks, answers>>

ListAdditions ==
    /\ reading /= Idle
    /\ reading.queue = <<>> \/ reading.budget = 0
    /\ answers' = answers \cup {Outcome(reading.told, reading.read)}
    /\ reading' = Idle
    /\ UNCHANGED <<file, repacks>>

\* Five seconds have passed: the page makes do with what was found.
TimeUp ==
    /\ reading.queue /= <<>>
    /\ reading' = Idle
    /\ UNCHANGED <<file, repacks, answers>>

-----------------------------------------------------------------------------
(* The same files packed anew, as people and GitHub do.                    *)

\* An archive whose meaning does not hang on a name at its very top.
Extension(f) == f.container = "ZIP" /\ \A i \in ToSet(f.items) :
    ~(Len(i.path) = 1 /\ (EqualFold(i.path[1], "card.json") \/ i.path[1] = "theme.json"))

\* Everything is put into one more folder, as in a repository's download.
Wrap ==
    /\ reading = Idle /\ repacks < MaxRepacks
    /\ Extension(file)
    /\ \A i \in ToSet(file.items) : i.path[1] /= "__MACOSX"
    /\ file' = [file EXCEPT !.items =
                   <<[Item(<<"download">>, NoRoot) EXCEPT !.dir = TRUE]>>
                   \o [n \in DOMAIN @ |-> [@[n] EXCEPT !.path = <<"download">> \o @]]]
    /\ repacks' = repacks + 1
    /\ UNCHANGED <<reading, answers>>

\* macOS zips the folder and adds its own files.
ZipOnMac ==
    /\ reading = Idle /\ repacks < MaxRepacks
    /\ file.container = "ZIP"
    /\ \E i \in ToSet(file.items) :
        file' = [file EXCEPT !.items =
                   <<Item(<<".DS_Store">>, NoRoot)>> \o @
                   \o <<Item(<<"__MACOSX">> \o Dir(i.path) \o <<"._" \o Base(i.path)>>, NoRoot)>>]
    /\ repacks' = repacks + 1
    /\ UNCHANGED <<reading, answers>>

\* A PNG's text chunks are written in another order.
Reorder ==
    /\ reading = Idle /\ repacks < MaxRepacks
    /\ file.container = "PNG"
    /\ file' = [file EXCEPT !.items = Reverse(@)]
    /\ repacks' = repacks + 1
    /\ UNCHANGED <<reading, answers>>

RecognitionInit ==
    /\ file \in Files
    /\ repacks = 0
    /\ reading = Idle
    /\ answers = {}
RecognitionNext ==
    \/ Upload \/ ReadCode \/ ListAdditions \/ TimeUp
    \/ Wrap \/ ZipOnMac \/ Reorder

-----------------------------------------------------------------------------
(* The same files give the same work however they are packed: what the     *)
(* file is read as, the problem told, the README and the code read do not  *)
(* depend on a folder around everything, on what macOS adds, on the order  *)
(* of a picture's chunks, or on the order in which the modules are asked   *)
(* (inspect.go, registry.go, extension/archive.go).                        *)
RepackingChangesNothing == Cardinality(answers) <= 1
=============================================================================
