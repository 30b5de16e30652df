-------------------------------- MODULE Works --------------------------------
(***************************************************************************)
(* One work: the drafted changes its creator edits, the versions published *)
(* from them, and the private prompts (work, page, block/edit, version,    *)
(* private, and the replacement half of upload).                           *)
(*                                                                         *)
(* Whether a prompt is private is not a drafted change: it counts at once, *)
(* in the drafted changes and in every recorded version.  A version keeps  *)
(* the prompts it recorded, and a reader of it sees the wording of those   *)
(* that are not private now.  A replacement file brings its prompts under  *)
(* fresh ids, so which recorded prompt a private one stands for may be     *)
(* unknown; then the whole version is held back until the creator answers. *)
(*                                                                         *)
(* Every edit locks the work's row and names the drafted-changes version   *)
(* its tab has read, so an edit is one step.  What a page holds beside its *)
(* prompts is one value, body; an unready body does not clear the publish  *)
(* floor.  Identity is the identity the origin format gave a prompt.       *)
(***************************************************************************)
EXTENDS Naturals, Sequences, FiniteSets

CONSTANTS
    Prompts,     \* fragment ids
    Identity,    \* the identity of each
    Apps,        \* apps that can be allowed private prompts
    Bodies, Unready,
    None, Open,  \* an answer that stands for nothing; no answer
    MaxRev,      \* bound: edits
    MaxVersions, \* bound: versions
    MaxAnswers   \* bound: answers given

Settings ==
    /\ Unready \in Bodies
    /\ None \notin Prompts /\ Open \notin Prompts \cup {None}
    /\ MaxRev \in Nat \ {0} /\ MaxVersions \in Nat /\ MaxAnswers \in Nat

VARIABLES
    lifecycle, deleted, takenDown,
    rev,         \* drafted_changes_version
    page,        \* the prompts of work_blocks: absent, public or private
    body,        \* everything else there
    payload,     \* private_prompts
    apps,        \* private_prompt_apps
    versions,    \* work_versions; the last is the published one
    answer,      \* work_version_prompt_matches
    staged,      \* the upload that would replace the work's file
    tab,         \* what a tab has read, and whether the draft is still that
    asked        \* an answer whose prompts have been read

row == <<lifecycle, deleted, takenDown>>
draft == <<page, body, payload, apps>>
vars == <<row, rev, draft, versions, answer, staged, tab, asked>>

Modes == {"absent", "public", "private"}

Pages == [Prompts -> Modes]

Version == [page : Pages, payload : SUBSET Prompts, body : Bodies, withdrawn : BOOLEAN]

On(p) == {f \in Prompts : p[f] # "absent"}

HasPromptFragments(p) == {f \in Prompts : p[f] = "private"}

Unanswered == [v \in 1..MaxVersions |-> [f \in Prompts |-> Open]]

\* One prompt of an identity on a page.
Plain(p) == \A f, g \in On(p) : Identity[f] = Identity[g] => f = g

\* A draft built from nothing has public prompts and is not ready to be published.
StartFromNothing ==
    /\ HasPromptFragments(page) = {}
    /\ body = Unready
    /\ payload = {} /\ apps = {}

\* A file's private prompts come with their wording and the apps that can keep it.
StartFromFile ==
    /\ body \in Bodies
    /\ payload = HasPromptFragments(page)
    /\ apps = IF payload = {} THEN {} ELSE Apps

Init ==
    /\ lifecycle = "draft" /\ deleted = FALSE /\ takenDown = FALSE
    /\ rev = 1
    /\ page \in Pages /\ Plain(page)
    /\ StartFromNothing \/ StartFromFile
    /\ versions = <<>>
    /\ answer = Unanswered
    /\ staged = None
    /\ tab = None
    /\ asked = None

------------------------------------------------------------------------------
(* The lock and the version every edit names.                               *)

LockEditable == ~ deleted /\ ~ takenDown

\* An edit comes from the tab that is watched, or from another that has just loaded
\* the page.
Tabs == {"watched", "another"}

Lock(t) ==
    /\ LockEditable
    /\ t = "watched" => tab # None /\ tab.rev = rev

\* The tab that made the edit goes on from the version it saved.
Shelve(t) ==
    tab' = IF t = "watched" THEN [rev |-> rev', same |-> TRUE]
           ELSE IF tab = None THEN None ELSE [tab EXCEPT !.same = @ /\ draft' = draft]

NoCommitBug(t) == rev' = rev /\ Shelve(t)

Commit(t) ==
    /\ rev < MaxRev
    /\ rev' = rev + 1
    /\ Shelve(t)

OpenTab ==
    /\ ~ deleted /\ tab = None
    /\ tab' = [rev |-> rev, same |-> TRUE]
    /\ UNCHANGED <<row, rev, draft, versions, answer, staged, asked>>

\* The refusal of an edit that names an older version: the tab loads the page again.
CandidateResult ==
    /\ tab # None /\ tab.rev # rev
    /\ tab' = None
    /\ UNCHANGED <<row, rev, draft, versions, answer, staged, asked>>

------------------------------------------------------------------------------
(* private_prompts and private_prompt_apps follow the page.                 *)

\* Reading the page back fails when a private prompt has no wording.
RestorePromptFragments == HasPromptFragments(page) \subseteq payload

Policy(supplied) == IF supplied = None THEN apps ELSE supplied

ReplacePromptPayloads(private) == payload' = private

SyncPromptFragments(next, supplied) ==
    /\ page' = next
    /\ IF HasPromptFragments(next) = {}
       THEN payload' = {} /\ apps' = {}
       ELSE /\ Policy(supplied) # {}
            /\ apps' = Policy(supplied)
            /\ ReplacePromptPayloads(HasPromptFragments(next))

ImportPromptFragments(next) ==
    /\ page' = next
    /\ apps' = IF apps = {} THEN Apps ELSE apps
    /\ ReplacePromptPayloads(HasPromptFragments(next))

PromptsMadePublic(next) == {f \in payload : next[f] = "public"}

\* A replacement also makes public what it leaves out.
ReplacementMakesPublic(next) ==
    {f \in payload : ~ \E g \in HasPromptFragments(next) : g = f \/ Identity[g] = Identity[f]}

------------------------------------------------------------------------------
(* Editing the page: block/edit and page/details.                           *)

\* A block is written, and with it the private prompts of the page.
WriteBlock(next, text, supplied, confirmed) ==
    /\ RestorePromptFragments
    /\ ~ confirmed => PromptsMadePublic(next) = {}
    /\ SyncPromptFragments(next, supplied)
    /\ body' = text

SaveBlock(t, next, text, supplied, confirmed) ==
    /\ Lock(t)
    /\ WriteBlock(next, text, supplied, confirmed)
    /\ Commit(t)
    /\ UNCHANGED <<row, versions, answer, staged, asked>>

\* A block holds the prompts or something else.
BlockUpdate(next, text) == Plain(next) /\ (next = page \/ text = body)

SaveWorkBlock(t) ==
    \E next \in Pages, text \in Bodies, supplied \in {None} \cup SUBSET Apps, confirmed \in BOOLEAN :
        /\ BlockUpdate(next, text)
        /\ SaveBlock(t, next, text, supplied, confirmed)

\* Edits that leave the prompts where they are.
EditBody(t, text) ==
    /\ Lock(t)
    /\ body' = text
    /\ UNCHANGED <<page, payload, apps>>
    /\ Commit(t)
    /\ UNCHANGED <<row, versions, answer, staged, asked>>

\* These read the wording of every block and write all the private prompts again.
RewriteBody(t, text) == SaveBlock(t, page, text, None, TRUE)

AddBlock(t, text) == EditBody(t, text)

ArrangeBlocks(t, text) == EditBody(t, text)

RemoveBlock(t, text) == RewriteBody(t, text)

MoveBlockContent(t, text) == RewriteBody(t, text)

UpdateDetails(t, text) == EditBody(t, text)

DropPreservedData(t, text) == EditBody(t, text)

\* What the requests carry.
AddWorkBlock(t) == \E text \in Bodies : AddBlock(t, text)

ArrangeWorkBlocks(t) == \E text \in Bodies : ArrangeBlocks(t, text)

RemoveWorkBlock(t) == \E text \in Bodies : RemoveBlock(t, text)

MoveWorkBlockContent(t) == \E text \in Bodies : MoveBlockContent(t, text)

SetWorkDetails(t) == \E text \in Bodies : UpdateDetails(t, text)

DeletePreservedData(t) == \E text \in Bodies : DropPreservedData(t, text)

------------------------------------------------------------------------------
(* Publishing: page.Publish and version.PublishVersion.                     *)

UploadReviewed == staged # None => staged.status # "preview"

CandidateReadiness == body # Unready /\ UploadReviewed

SteadyIDs(p) == {Identity[f] : f \in On(p)}

\* Neither the ids nor the privacy of prompts are content.
ContentFingerprint(p, text) == <<text, SteadyIDs(p)>>

WorkDigest == ContentFingerprint(page, body)

PublishedDigest ==
    LET published == versions[Len(versions)] IN ContentFingerprint(published.page, published.body)

DraftedChanges == WorkDigest # PublishedDigest

RecordWorkVersion ==
    /\ Len(versions) < MaxVersions
    /\ versions' = Append(versions,
          [page |-> page, payload |-> payload, body |-> body, withdrawn |-> FALSE])

Publish(t) ==
    /\ Lock(t)
    /\ lifecycle = "draft"
    /\ CandidateReadiness
    /\ lifecycle' = "published"
    /\ RecordWorkVersion
    /\ UNCHANGED draft /\ Commit(t)
    /\ UNCHANGED <<deleted, takenDown, answer, staged, asked>>

PublishLocked ==
    /\ lifecycle = "published"
    /\ CandidateReadiness
    /\ RestorePromptFragments
    /\ DraftedChanges
    /\ RecordWorkVersion

PublishVersion(t) ==
    /\ Lock(t)
    /\ PublishLocked
    /\ UNCHANGED draft /\ Commit(t)
    /\ UNCHANGED <<row, answer, staged, asked>>

------------------------------------------------------------------------------
(* Reading a version under the privacy of now: private/publication.go.      *)

Settled(v) == {c \in Prompts : answer[v][c] # Open}

\* When the creator let several prompts stand for one, the row read last decides.
StandsFor(v, f) == {c \in Prompts : answer[v][c] = f}

\* The private prompts that a version neither recorded nor has an answer for.
PrivatePromptMismatches(v) ==
    {c \in HasPromptFragments(page) : versions[v].page[c] = "absent" /\ c \notin Settled(v)}

CertainBug(v) == FALSE

Uncertain(v) == PrivatePromptMismatches(v) # {}

\* A prompt with answers counts as private when each of them is: no reading shows more.
CurrentlyPrivate(v, f) ==
    IF StandsFor(v, f) # {}
    THEN \A c \in StandsFor(v, f) : page[c] = "private"
    ELSE \/ page[f] = "private"
         \/ page[f] = "absent" /\ versions[v].page[f] = "private"

MarkCurrentPrivacy(v) ==
    {f \in On(versions[v].page) : Uncertain(v) \/ CurrentlyPrivate(v, f)}

\* The prompts whose wording a reader of a version is shown.
ApplyRecordedPolicy(v) == On(versions[v].page) \ MarkCurrentPrivacy(v)

\* What a version recorded, read by its creator or by anyone else.
HoldPrompts(v, asOwner) == IF asOwner THEN On(versions[v].page) ELSE ApplyRecordedPolicy(v)

ReaderRole == lifecycle = "published" /\ ~ deleted /\ ~ takenDown

PublishedPage(v) == IF ReaderRole /\ v = Len(versions) THEN ApplyRecordedPolicy(v) ELSE {}

CompareVersions(v) ==
    IF ReaderRole /\ ~ versions[v].withdrawn THEN HoldPrompts(v, FALSE) ELSE {}

Shown(v) == PublishedPage(v) \cup CompareVersions(v)

------------------------------------------------------------------------------
(* Going back to a version, and what is said about versions.                *)

RestoredPage(v) ==
    [f \in Prompts |->
        IF versions[v].page[f] = "absent" THEN "absent"
        ELSE IF f \in MarkCurrentPrivacy(v) THEN "private" ELSE "public"]

\* Allowed apps stay as they are.
PrepareRestoration(v) ==
    /\ page' = RestoredPage(v)
    /\ ReplacePromptPayloads(HasPromptFragments(page'))
    /\ UNCHANGED apps

RestoreVersion(t, v) ==
    /\ Lock(t)
    /\ PrepareRestoration(v)
    /\ body' = versions[v].body
    /\ Commit(t)
    /\ UNCHANGED <<row, versions, answer, staged, asked>>

WithdrawVersion(v) ==
    /\ LockEditable
    /\ v # Len(versions)
    /\ ~ versions[v].withdrawn
    /\ versions' = [versions EXCEPT ![v].withdrawn = TRUE]
    /\ UNCHANGED <<row, rev, draft, answer, staged, tab, asked>>

Answers == {a \in (1..MaxVersions) \X Prompts : answer[a[1]][a[2]] # Open}

\* The answer is checked against the prompts of then; the work's row is not locked.
AskResolve(v, c, f) ==
    /\ asked = None
    /\ ~ deleted
    /\ Cardinality(Answers \cup {<<v, c>>}) <= MaxAnswers
    /\ page[c] = "private"
    /\ f # None => versions[v].page[f] # "absent"
    /\ asked' = [version |-> v, current |-> c, recorded |-> f]
    /\ UNCHANGED <<row, rev, draft, versions, answer, staged, tab>>

ResolvePromptCorrespondence ==
    /\ asked # None
    /\ answer' = [answer EXCEPT ![asked.version][asked.current] = asked.recorded]
    /\ asked' = None
    /\ UNCHANGED <<row, rev, draft, versions, staged, tab>>

------------------------------------------------------------------------------
(* A file that replaces the work's: upload/replacement.go.                  *)

\* Every file brings its prompts under ids that were never used.
Fresh == {f \in Prompts : page[f] = "absent" /\ \A v \in DOMAIN versions : versions[v].page[f] = "absent"}

AcceptOriginalFile(t, file) ==
    /\ Lock(t)
    /\ staged = None
    /\ On(file) \subseteq Fresh
    /\ staged' = [status |-> "pending", rev |-> rev, page |-> file]
    /\ UNCHANGED <<row, rev, draft, versions, answer, tab, asked>>

AddWorkOriginalFile(t) == \E file \in Pages : Plain(file) /\ AcceptOriginalFile(t, file)

\* The worker: the preview is of the version the file was sent for, or the upload fails.
StageReplacement ==
    /\ staged # None /\ staged.status = "pending"
    /\ staged' = IF LockEditable /\ staged.rev = rev /\ RestorePromptFragments
                 THEN [staged EXCEPT !.status = "preview"] ELSE None
    /\ UNCHANGED <<row, rev, draft, versions, answer, tab, asked>>

ReplaceContent(file) ==
    IF HasPromptFragments(file) # {}
    THEN ImportPromptFragments(file)
    ELSE SyncPromptFragments(file, None)

AcceptReplacement(t, text, confirmed) ==
    /\ Lock(t)
    /\ staged # None /\ staged.status = "preview"
    /\ On(staged.page) \subseteq Fresh
    /\ ~ confirmed => ReplacementMakesPublic(staged.page) = {}
    /\ ReplaceContent(staged.page)
    /\ body' = text
    /\ staged' = None
    /\ Commit(t)
    /\ UNCHANGED <<row, versions, answer, asked>>

AcceptWorkOriginalFile(t) ==
    \E text \in Bodies, confirmed \in BOOLEAN : AcceptReplacement(t, text, confirmed)

CancelReplacement ==
    /\ staged # None /\ staged.status = "preview"
    /\ staged' = None
    /\ UNCHANGED <<row, rev, draft, versions, answer, tab, asked>>

------------------------------------------------------------------------------
(* The row: page/deletion.go and staff/takedown.go.     *)

\* The thirty days of recovery may pass: nothing says that the work is restored.
SoftDeleteWork ==
    /\ LockEditable
    /\ deleted' = TRUE
    /\ UNCHANGED <<lifecycle, takenDown, rev, draft, versions, answer, staged, tab, asked>>

RestoreWork ==
    /\ deleted
    /\ deleted' = FALSE
    /\ UNCHANGED <<lifecycle, takenDown, rev, draft, versions, answer, staged, tab, asked>>

TakeDown ==
    /\ lifecycle = "published" /\ LockEditable
    /\ takenDown' = TRUE
    /\ UNCHANGED <<lifecycle, deleted, rev, draft, versions, answer, staged, tab, asked>>

LiftTakedown ==
    /\ takenDown /\ ~ deleted
    /\ takenDown' = FALSE
    /\ UNCHANGED <<lifecycle, deleted, rev, draft, versions, answer, staged, tab, asked>>

------------------------------------------------------------------------------
Next ==
    \/ \E t \in Tabs :
          \/ SaveWorkBlock(t) \/ AddWorkBlock(t) \/ ArrangeWorkBlocks(t)
          \/ RemoveWorkBlock(t) \/ MoveWorkBlockContent(t)
          \/ SetWorkDetails(t) \/ DeletePreservedData(t)
          \/ Publish(t) \/ PublishVersion(t)
          \/ AddWorkOriginalFile(t) \/ AcceptWorkOriginalFile(t)
          \/ \E v \in DOMAIN versions : RestoreVersion(t, v)
    \/ \E v \in DOMAIN versions : WithdrawVersion(v)
    \/ \E v \in DOMAIN versions, c \in Prompts, f \in Prompts \cup {None} : AskResolve(v, c, f)
    \/ OpenTab \/ CandidateResult
    \/ ResolvePromptCorrespondence \/ StageReplacement \/ CancelReplacement
    \/ SoftDeleteWork \/ RestoreWork \/ TakeDown \/ LiftTakedown

Spec == Init /\ [][Next]_vars

------------------------------------------------------------------------------
TypeOK ==
    /\ lifecycle \in {"draft", "published"}
    /\ deleted \in BOOLEAN /\ takenDown \in BOOLEAN
    /\ rev \in 1..MaxRev
    /\ page \in Pages /\ body \in Bodies /\ payload \subseteq Prompts /\ apps \subseteq Apps
    /\ versions \in Seq(Version) /\ Len(versions) <= MaxVersions
    /\ answer \in [1..MaxVersions -> [Prompts -> Prompts \cup {None, Open}]]
    /\ staged \in {None} \cup [status : {"pending", "preview"}, rev : 1..MaxRev, page : Pages]
    /\ tab \in {None} \cup [rev : 1..MaxRev, same : BOOLEAN]
    /\ asked \in {None} \cup
          [version : 1..MaxVersions, current : Prompts, recorded : Prompts \cup {None}]

\* An edit that the lock lets through was made on the drafted changes as they are:
\* no edit changes them under the number another tab has read.
ReviewedIsCurrent == tab # None => (tab.rev = rev => tab.same)

\* A private prompt has its wording, and only a private prompt has it hidden, in the
\* drafted changes and in every version.  Without it no edit could read the page.
PrivateHasPayload ==
    /\ payload = HasPromptFragments(page)
    /\ \A v \in DOMAIN versions : versions[v].payload = HasPromptFragments(versions[v].page)

\* A version whose creator has answered nothing shows no prompt that is private now,
\* under whichever id it has.
UnansweredStaysHidden ==
    \A v \in DOMAIN versions :
        Settled(v) = {} =>
            \A f \in Shown(v), c \in HasPromptFragments(page) : Identity[f] # Identity[c]

\* While a work is taken down its creator's edits, versions and settings stay
\* (loadWorkEdit, takedown.go).
FrozenStays ==
    [][takenDown /\ takenDown' => UNCHANGED <<row, rev, draft, versions>>]_vars
===============================================================================
