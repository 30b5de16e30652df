------------------------------- MODULE Releases -------------------------------
(***************************************************************************)
(* Versions of an extension that come from the releases of a GitHub        *)
(* repository (upload/github_releases, github_import, github_start).       *)
(*                                                                         *)
(* A proof file in the repository verifies it; from then on the server     *)
(* asks about once an hour which releases there are, records each once,    *)
(* and imports the oldest first, unless an earlier one is held because the *)
(* owner has unpublished edits.  An import holds the work's row while it   *)
(* downloads, and its version and its status are committed together, so    *)
(* that it is one step: a crash on the way leaves nothing.                 *)
(***************************************************************************)
EXTENDS Naturals, Sequences

CONSTANTS
    Extensions,  \* the works
    Tags,        \* releases of the repository
    None,
    MaxEdits     \* bound: edits of a work by its owner

\* A release on GitHub, what is asked of its repository, and what is recorded of it.
Release == [at : Nat \ {0}, pre : BOOLEAN, attached : BOOLEAN]

Source == [verified : Nat \cup {None}, check : {"due", "checked", "waits"}, named : BOOLEAN,
           prereleases : BOOLEAN]

Item == [status : {"queued", "held", "failed", "published"}, at : Nat, attached : BOOLEAN]

Settings ==
    /\ MaxEdits \in Nat
    /\ None \notin Nat \cup Tags \cup Release \cup Source \cup Item

VARIABLES
    github,    \* the repository: each release, or None
    clock,     \* the time of the last release on GitHub
    source,    \* extension_release_sources
    item,      \* extension_release_imports
    work,      \* the works
    versions,  \* the release each version came from, or None
    edits,
    late       \* history: releases whose turn was over before they could be imported

vars == <<github, clock, source, item, work, versions, edits, late>>

NoImports == [r \in Tags |-> None]

Init ==
    /\ github = [r \in Tags |-> None] /\ clock = 0
    /\ source = [w \in Extensions |-> None]
    /\ item = [w \in Extensions |-> NoImports]
    /\ \E begun \in SUBSET Extensions :
          /\ work = [w \in Extensions |->
                 [lifecycle |-> IF w \in begun THEN "published" ELSE "none",
                  edited |-> FALSE, up |-> TRUE, content |-> None]]
          /\ versions = [w \in Extensions |-> IF w \in begun THEN <<None>> ELSE <<>>]
    /\ edits = 0
    /\ late = [w \in Extensions |-> {}]

------------------------------------------------------------------------------
(* GitHub.                                                                  *)

SetRelease(r, release) ==
    /\ github' = [github EXCEPT ![r] = release]
    /\ UNCHANGED <<source, item, work, versions, edits, late>>

PublishRelease(r) ==
    /\ github[r] = None
    /\ clock' = clock + 1
    /\ \E pre, attached \in BOOLEAN :
          SetRelease(r, [at |-> clock', pre |-> pre, attached |-> attached])

\* A prerelease becomes a release, or a file is attached, long after: the date stays.
ChangeRelease(r) ==
    /\ github[r] # None
    /\ \/ github[r].pre /\ SetRelease(r, [github[r] EXCEPT !.pre = FALSE])
       \/ ~github[r].attached /\ SetRelease(r, [github[r] EXCEPT !.attached = TRUE])
    /\ UNCHANGED clock

Eligible(r, prereleases) == github[r] # None /\ (github[r].pre => prereleases)

------------------------------------------------------------------------------
(* The owner.                                                               *)

LockEditable(w) == work[w].lifecycle # "none" /\ work[w].up

Connected(w) == source[w] # None /\ source[w].verified # None

\* Any difference to the published version, as a draft has.
UnpublishedChanges(w) == work[w].edited \/ work[w].lifecycle = "draft"

Configure(w, named, prereleases) ==
    /\ LockEditable(w) /\ work[w].lifecycle = "published"
    /\ source' = [source EXCEPT ![w] = [verified |-> None, check |-> "due", named |-> named,
                                        prereleases |-> prereleases]]
    /\ item' = [item EXCEPT ![w] = NoImports]
    /\ UNCHANGED <<github, clock, work, versions, edits, late>>

\* A repository is verified for one work; its proof was read from GitHub.
Verified(w) == \A x \in Extensions \ {w} : ~Connected(x)

Verify(w) ==
    /\ LockEditable(w) /\ source[w] # None /\ ~Connected(w) /\ Verified(w)
    /\ source' = [source EXCEPT ![w] = [source[w] EXCEPT !.verified = clock, !.check = "due"]]
    /\ UNCHANGED <<github, clock, item, work, versions, edits, late>>

Disconnect(w) ==
    /\ LockEditable(w) /\ source[w] # None
    /\ source' = [source EXCEPT ![w] = None]
    /\ item' = [item EXCEPT ![w] = NoImports]
    /\ UNCHANGED <<github, clock, work, versions, edits, late>>

\* Not within a minute of the last check.
CheckSoon(w) ==
    /\ Connected(w) /\ source[w].check = "waits"
    /\ source' = [source EXCEPT ![w].check = "due"]
    /\ UNCHANGED <<github, clock, item, work, versions, edits, late>>

Import(status, r, attached) == [status |-> status, at |-> github[r].at, attached |-> attached]

\* The latest eligible release becomes a draft, which follows the later ones.
Start(w, named, prereleases) ==
    /\ work[w].lifecycle = "none" /\ Verified(w)
    /\ \E r \in Tags :
          /\ Eligible(r, prereleases)
          /\ \A s \in Tags : Eligible(s, prereleases) => github[s].at <= github[r].at
          /\ named => github[r].attached
          /\ work' = [work EXCEPT ![w] = [work[w] EXCEPT !.lifecycle = "draft", !.content = r]]
          /\ source' = [source EXCEPT ![w] = [verified |-> github[r].at, check |-> "due",
                                              named |-> named, prereleases |-> prereleases]]
          /\ item' = [item EXCEPT ![w][r] = Import("published", r, github[r].attached)]
    /\ UNCHANGED <<github, clock, versions, edits, late>>

\* A missing attachment is looked for once more; a held release waits for the owner's edits.
Retry(w, r) ==
    /\ LockEditable(w) /\ item[w][r] # None
    /\ item[w][r].status \in {"failed", "held"}
    /\ source[w].named => item[w][r].attached \/ github[r].attached
    /\ item[w][r].status = "held" => ~UnpublishedChanges(w)
    /\ item' = [item EXCEPT ![w][r] = [item[w][r] EXCEPT !.status = "queued",
           !.attached = @ \/ (source[w].named /\ github[r].attached)]]
    /\ UNCHANGED <<github, clock, source, work, versions, edits, late>>

SetWork(w, to) ==
    /\ work' = [work EXCEPT ![w] = to]
    /\ UNCHANGED <<github, clock, source, item, late>>

EditWork(w) ==
    /\ LockEditable(w) /\ ~work[w].edited /\ edits < MaxEdits
    /\ edits' = edits + 1
    /\ SetWork(w, [work[w] EXCEPT !.edited = TRUE])
    /\ UNCHANGED versions

DiscardEdits(w) ==
    /\ LockEditable(w) /\ work[w].edited /\ work[w].lifecycle = "published"
    /\ SetWork(w, [work[w] EXCEPT !.edited = FALSE])
    /\ UNCHANGED <<versions, edits, late>>

\* A draft that came from a release becomes its first version.
PublishWork(w) ==
    /\ LockEditable(w) /\ UnpublishedChanges(w)
    /\ SetWork(w, [work[w] EXCEPT !.edited = FALSE, !.lifecycle = "published"])
    /\ versions' = [versions EXCEPT ![w] =
           Append(@, IF work[w].lifecycle = "draft" THEN work[w].content ELSE None)]
    /\ UNCHANGED edits

\* Taken down or deleted, and back.
TakeDownOrDelete(w) ==
    /\ work[w].lifecycle # "none"
    /\ SetWork(w, [work[w] EXCEPT !.up = ~@])
    /\ UNCHANGED <<versions, edits, late>>

------------------------------------------------------------------------------
(* The server's loop.                                                       *)

\* What a check records; a release that is recorded stays as it is.
Found(w) ==
    {r \in Tags : Eligible(r, source[w].prereleases) /\ github[r].at > source[w].verified}

Recorded(w, r) ==
    IF source[w].named /\ ~github[r].attached THEN Import("failed", r, FALSE)
    ELSE Import("queued", r, source[w].named)

WithFound(w) ==
    [r \in Tags |-> IF r \in Found(w) /\ item[w][r] = None THEN Recorded(w, r) ELSE item[w][r]]

\* What a check leaves out, as a prerelease, or records as failed: those that come later pass it.
PassedOver(w) ==
    {r \in Tags : /\ github[r] # None /\ github[r].at > source[w].verified /\ item[w][r] = None
                  /\ r \in Found(w) => Recorded(w, r).status = "failed"}

\* GitHub answers, or the error is kept until the next check.
CheckNext(w) ==
    /\ Connected(w) /\ work[w].up /\ source[w].check = "due"
    /\ source' = [source EXCEPT ![w].check = "checked"]
    /\ \/ /\ item' = [item EXCEPT ![w] = WithFound(w)]
             /\ late' = [late EXCEPT ![w] = @ \cup PassedOver(w)]
       \/ UNCHANGED <<item, late>>
    /\ UNCHANGED <<github, clock, work, versions, edits>>

AMinute(w) ==
    /\ Connected(w) /\ source[w].check = "checked"
    /\ source' = [source EXCEPT ![w].check = "waits"]
    /\ UNCHANGED <<github, clock, item, work, versions, edits, late>>

AnHour(w) ==
    /\ Connected(w) /\ source[w].check = "waits"
    /\ source' = [source EXCEPT ![w].check = "due"]
    /\ UNCHANGED <<github, clock, item, work, versions, edits, late>>

Imports(statuses) ==
    {p \in Extensions \X Tags :
        item[p[1]][p[2]] # None /\ item[p[1]][p[2]].status \in statuses}

At(p) == item[p[1]][p[2]].at

Earlier(p, q) == At(p) < At(q)

Ready ==
    {p \in Imports({"queued"}) :
        work[p[1]].up /\ \A e \in Imports({"held"}) : e[1] = p[1] => ~Earlier(e, p)}

NewestBug(p) == p \in Ready /\ \A q \in Ready : ~Earlier(p, q)

Oldest(p) == p \in Ready /\ \A q \in Ready : ~Earlier(q, p)

\* The version and the status are one transaction; an archive that changes nothing fails.
ImportRelease(w, r) ==
    /\ work[w].content # r
    /\ work' = [work EXCEPT ![w].content = r]
    /\ versions' = [versions EXCEPT ![w] = Append(@, r)]
    /\ item' = [item EXCEPT ![w][r].status = "published"]
    /\ UNCHANGED late

Refuse(w, r, status) ==
    /\ item' = [item EXCEPT ![w][r].status = status]
    /\ late' = [late EXCEPT ![w] = IF status = "failed" THEN @ \cup {r} ELSE @]
    /\ UNCHANGED <<work, versions>>

ProcessNext(w, r) ==
    /\ Oldest(<<w, r>>)
    /\ IF UnpublishedChanges(w) THEN Refuse(w, r, "held")
       ELSE ImportRelease(w, r) \/ Refuse(w, r, "failed")
    /\ UNCHANGED <<github, clock, source, edits>>

------------------------------------------------------------------------------
Next ==
    \/ \E r \in Tags : PublishRelease(r) \/ ChangeRelease(r)
    \/ \E w \in Extensions :
          \/ \E named, prereleases \in BOOLEAN :
                Configure(w, named, prereleases) \/ Start(w, named, prereleases)
          \/ Verify(w) \/ Disconnect(w) \/ CheckSoon(w)
          \/ EditWork(w) \/ DiscardEdits(w) \/ PublishWork(w) \/ TakeDownOrDelete(w)
          \/ CheckNext(w) \/ AMinute(w) \/ AnHour(w)
          \/ \E r \in Tags : Retry(w, r) \/ ProcessNext(w, r)

Spec == Init /\ [][Next]_vars

------------------------------------------------------------------------------
Work == [lifecycle : {"none", "draft", "published"}, edited : BOOLEAN, up : BOOLEAN,
         content : Tags \cup {None}]

RowsTyped ==
    /\ github \in [Tags -> Release \cup {None}] /\ clock \in Nat
    /\ source \in [Extensions -> Source \cup {None}]
    /\ item \in [Extensions -> [Tags -> Item \cup {None}]]
    /\ work \in [Extensions -> Work]
    /\ versions \in [Extensions -> Seq(Tags \cup {None})]
    /\ edits \in Nat

TypeOK == RowsTyped /\ late \in [Extensions -> SUBSET Tags]

\* A release becomes at most one version of a work, whatever is checked again,
\* disconnected and connected anew.
EachReleaseOnce ==
    \A w \in Extensions : \A i, j \in DOMAIN versions[w] :
        versions[w][i] # None /\ versions[w][i] = versions[w][j] => i = j

\* The versions of a work follow the dates of the releases they came from: what is held for the
\* owner's edits is not passed by a later one, though the repository is disconnected and
\* connected anew, a check fails, and what waits is retried.  Only a release that was left out
\* of a check or that failed comes after later ones, when the owner has it tried again.
VersionsFollowReleases ==
    \A w \in Extensions : \A i, j \in DOMAIN versions[w] :
        LET first == versions[w][i]  then == versions[w][j] IN
        /\ i < j /\ first # None /\ then # None
        /\ github[first].at > github[then].at
        => then \in late[w]
==============================================================================
