----------------------------- MODULE WorksProofs -----------------------------
(***************************************************************************)
(* What an edit was made on, what a version shows and what leaves with a   *)
(* file.                                                                   *)
(*                                                                         *)
(* A page has one prompt of an identity, and so has every version and the  *)
(* file under review (IInv).  A version that shows a prompt has it under   *)
(* the id it is private by, or is held back whole; every edit changes the  *)
(* number another tab has read.                                            *)
(***************************************************************************)
EXTENDS Downloads, TLAPS

-----------------------------------------------------------------------------
(* The inductive invariant.                                                  *)

DraftOK ==
    /\ page \in Pages /\ Plain(page)
    /\ payload = HasPromptFragments(page)
    /\ body \in Bodies /\ apps \subseteq Apps

\* What a version recorded.
WholeVersion(w) == Plain(w.page) /\ w.payload = HasPromptFragments(w.page)

VersionsOK ==
    /\ versions \in Seq(Version) /\ Len(versions) <= MaxVersions
    /\ \A v \in DOMAIN versions : WholeVersion(versions[v])

StagedOK ==
    \/ staged = None
    \/ /\ staged \in [status : {"pending", "preview"}, rev : 1..MaxRev, page : Pages]
       /\ Plain(staged.page)

TabOK ==
    \/ tab = None
    \/ /\ tab \in [rev : 1..MaxRev, same : BOOLEAN]
       /\ tab.rev <= rev /\ (tab.rev = rev => tab.same)

RowOK ==
    /\ lifecycle \in {"draft", "published"}
    /\ deleted \in BOOLEAN /\ takenDown \in BOOLEAN /\ ~ (deleted /\ takenDown)
    /\ rev \in 1..MaxRev

AnswersOK ==
    /\ answer \in [1..MaxVersions -> [Prompts -> Prompts \cup {None, Open}]]
    /\ asked \in {None} \cup
          [version : 1..MaxVersions, current : Prompts, recorded : Prompts \cup {None}]

PublishedOK == lifecycle = "published" => Len(versions) > 0

IInv == DraftOK /\ VersionsOK /\ StagedOK /\ TabOK /\ RowOK /\ AnswersOK /\ PublishedOK

\* asked # None needs its fields.
LEMMA AskedFields ==
    ASSUME AnswersOK, asked # None
    PROVE  /\ asked.version \in 1..MaxVersions /\ asked.current \in Prompts
           /\ asked.recorded \in Prompts \cup {None}
BY DEF AnswersOK

LEMMA StagedFields ==
    ASSUME StagedOK, staged # None
    PROVE  staged.page \in Pages /\ Plain(staged.page)
BY DEF StagedOK

LEMMA RecordedPages ==
    ASSUME Settings, VersionsOK, NEW v \in DOMAIN versions
    PROVE  /\ versions[v] \in Version /\ versions[v].page \in Pages /\ versions[v].body \in Bodies
           /\ Plain(versions[v].page)
           /\ v \in 1..MaxVersions
<1>1. v \in 1..Len(versions) /\ Len(versions) \in Nat /\ MaxVersions \in Nat
  BY DEF VersionsOK, Settings
<1>2. versions[v] \in Version /\ WholeVersion(versions[v])
  BY DEF VersionsOK
<1> QED
  BY <1>1, <1>2 DEF VersionsOK, Version, WholeVersion

-----------------------------------------------------------------------------
(* Edits.                                                                    *)

Rest == <<row, versions, answer, staged, asked>>

LEMMA CommitEffect ==
    ASSUME Settings, TabOK, RowOK, NEW t \in Tabs, Commit(t)
    PROVE  rev' = rev + 1 /\ rev' \in 1..MaxRev /\ TabOK'
<1>1. rev' = rev + 1 /\ rev' \in 1..MaxRev /\ rev \in 1..MaxRev
  BY DEF Commit, RowOK, Settings
<1>2. CASE t = "watched"
  BY <1>1, <1>2 DEF Commit, Shelve, TabOK
<1>3. CASE t # "watched" /\ tab = None
  BY <1>1, <1>3 DEF Commit, Shelve, TabOK
<1>4. CASE t # "watched" /\ tab # None
  <2>1. tab' = [rev |-> tab.rev, same |-> tab.same /\ draft' = draft]
    BY <1>4 DEF Commit, Shelve, TabOK
  <2> QED
    BY <1>1, <1>4, <2>1 DEF TabOK
<1> QED
  BY <1>1, <1>2, <1>3, <1>4

LEMMA WriteBlockEffect ==
    ASSUME IInv, NEW next \in Pages, Plain(next), NEW text \in Bodies,
           NEW supplied \in {None} \cup SUBSET Apps, NEW confirmed \in BOOLEAN,
           WriteBlock(next, text, supplied, confirmed)
    PROVE  DraftOK'
<1>1. page' = next /\ body' = text /\ payload' = HasPromptFragments(next)
  BY DEF WriteBlock, SyncPromptFragments, ReplacePromptPayloads
<1>2. apps' \subseteq Apps
  BY DEF WriteBlock, SyncPromptFragments, Policy, IInv, DraftOK
<1> QED
  BY <1>1, <1>2 DEF DraftOK, Plain, On, HasPromptFragments

LEMMA EditBodyEffect ==
    ASSUME IInv, NEW t \in Tabs, NEW text \in Bodies, EditBody(t, text)
    PROVE  DraftOK' /\ Commit(t) /\ UNCHANGED Rest
BY DEF EditBody, IInv, DraftOK, Rest, Plain, On, HasPromptFragments

LEMMA RewriteBodyEffect ==
    ASSUME IInv, NEW t \in Tabs, NEW text \in Bodies, RewriteBody(t, text)
    PROVE  DraftOK' /\ Commit(t) /\ UNCHANGED Rest
<1>1. page \in Pages /\ Plain(page)
  BY DEF IInv, DraftOK
<1>2. WriteBlock(page, text, None, TRUE) /\ Commit(t) /\ UNCHANGED Rest
  BY DEF RewriteBody, SaveBlock, Rest
<1> QED
  BY <1>1, <1>2, WriteBlockEffect

Edit(t) ==
    \/ SaveWorkBlock(t) \/ AddWorkBlock(t) \/ ArrangeWorkBlocks(t)
    \/ RemoveWorkBlock(t) \/ MoveWorkBlockContent(t)
    \/ SetWorkDetails(t) \/ DeletePreservedData(t)

LEMMA EditEffect ==
    ASSUME IInv, NEW t \in Tabs, Edit(t)
    PROVE  DraftOK' /\ Commit(t) /\ UNCHANGED Rest
<1>1. CASE SaveWorkBlock(t)
  <2>1. PICK next \in Pages, text \in Bodies, supplied \in {None} \cup SUBSET Apps,
             confirmed \in BOOLEAN :
                BlockUpdate(next, text) /\ SaveBlock(t, next, text, supplied, confirmed)
    BY <1>1 DEF SaveWorkBlock
  <2>2. /\ Plain(next) /\ WriteBlock(next, text, supplied, confirmed)
        /\ Commit(t) /\ UNCHANGED Rest
    BY <2>1 DEF BlockUpdate, SaveBlock, Rest
  <2> QED
    BY <2>2, WriteBlockEffect
<1>2. CASE \/ AddWorkBlock(t) \/ ArrangeWorkBlocks(t) \/ SetWorkDetails(t)
           \/ DeletePreservedData(t)
  BY <1>2, EditBodyEffect DEF AddWorkBlock, AddBlock, ArrangeWorkBlocks, ArrangeBlocks,
     SetWorkDetails, UpdateDetails, DeletePreservedData, DropPreservedData
<1>3. CASE RemoveWorkBlock(t) \/ MoveWorkBlockContent(t)
  BY <1>3, RewriteBodyEffect DEF RemoveWorkBlock, RemoveBlock, MoveWorkBlockContent,
     MoveBlockContent
<1> QED
  BY <1>1, <1>2, <1>3 DEF Edit

\* A replacement brings the file that was previewed.
LEMMA AcceptEffect ==
    ASSUME IInv, NEW t \in Tabs, AcceptWorkOriginalFile(t)
    PROVE  /\ DraftOK' /\ Commit(t) /\ staged' = None
           /\ UNCHANGED <<row, versions, answer, asked>>
<1>1. PICK text \in Bodies, confirmed \in BOOLEAN : AcceptReplacement(t, text, confirmed)
  BY DEF AcceptWorkOriginalFile
<1>2. staged.page \in Pages /\ Plain(staged.page)
  BY <1>1, StagedFields DEF AcceptReplacement, IInv
<1>3. /\ page' = staged.page /\ body' = text
      /\ payload' = HasPromptFragments(staged.page)
  BY <1>1 DEF AcceptReplacement, ReplaceContent, ImportPromptFragments, SyncPromptFragments,
              ReplacePromptPayloads
<1>4. apps' \subseteq Apps
  BY <1>1 DEF AcceptReplacement, ReplaceContent, ImportPromptFragments, SyncPromptFragments,
              Policy, IInv, DraftOK
<1> QED
  BY <1>1, <1>2, <1>3, <1>4 DEF AcceptReplacement, DraftOK, Plain, On, HasPromptFragments

LEMMA RestoredPageIsPlain ==
    ASSUME NEW v \in DOMAIN versions, Plain(versions[v].page)
    PROVE  RestoredPage(v) \in Pages /\ Plain(RestoredPage(v))
<1>1. On(RestoredPage(v)) \subseteq On(versions[v].page)
  BY DEF On, RestoredPage
<1>2. RestoredPage(v) \in Pages
  BY DEF RestoredPage, Pages, Modes
<1> QED
  BY <1>1, <1>2 DEF Plain

LEMMA RestoreEffect ==
    ASSUME Settings, IInv, NEW t \in Tabs, NEW v \in DOMAIN versions, RestoreVersion(t, v)
    PROVE  DraftOK' /\ Commit(t) /\ UNCHANGED Rest
<1>1. RestoredPage(v) \in Pages /\ Plain(RestoredPage(v)) /\ versions[v].body \in Bodies
  BY RestoredPageIsPlain, RecordedPages DEF IInv
<1>2. /\ page' = RestoredPage(v) /\ body' = versions[v].body /\ apps' = apps
      /\ payload' = HasPromptFragments(page')
      /\ Commit(t) /\ UNCHANGED Rest
  BY DEF RestoreVersion, PrepareRestoration, ReplacePromptPayloads, Rest
<1> QED
  BY <1>1, <1>2 DEF IInv, DraftOK, Plain, On, HasPromptFragments

-----------------------------------------------------------------------------
(* Versions.                                                                 *)

LEMMA RecordEffect ==
    ASSUME Settings, IInv, RecordWorkVersion
    PROVE  VersionsOK' /\ PublishedOK'
<1> DEFINE new == [page |-> page, payload |-> payload, body |-> body, withdrawn |-> FALSE]
<1>1. new \in Version /\ WholeVersion(new)
  BY DEF IInv, DraftOK, Version, WholeVersion, HasPromptFragments
<1>2. /\ versions \in Seq(Version) /\ versions' = Append(versions, new)
      /\ Len(versions) < MaxVersions /\ MaxVersions \in Nat
  BY DEF RecordWorkVersion, IInv, VersionsOK, Settings
<1>3. versions' \in Seq(Version) /\ Len(versions') = Len(versions) + 1
  BY <1>1, <1>2
<1>4. ASSUME NEW v \in DOMAIN versions' PROVE WholeVersion(versions'[v])
  <2>1. (v \in DOMAIN versions /\ versions'[v] = versions[v]) \/ versions'[v] = new
    BY <1>2
  <2> QED
    BY <1>1, <2>1 DEF IInv, VersionsOK
<1> QED
  BY <1>2, <1>3, <1>4 DEF VersionsOK, PublishedOK, WholeVersion, Plain, On,
                          HasPromptFragments

LEMMA WithdrawEffect ==
    ASSUME Settings, IInv, NEW v \in DOMAIN versions, WithdrawVersion(v)
    PROVE  VersionsOK' /\ PublishedOK'
<1>1. /\ versions \in Seq(Version) /\ versions' = [versions EXCEPT ![v].withdrawn = TRUE]
      /\ versions[v] \in Version
  BY RecordedPages DEF WithdrawVersion, IInv, VersionsOK
<1> DEFINE gone == [versions[v] EXCEPT !.withdrawn = TRUE]
<1>0. gone \in Version /\ versions' = [versions EXCEPT ![v] = gone]
  BY <1>1 DEF Version
<1>2. versions' \in Seq(Version) /\ Len(versions') = Len(versions)
  <2> HIDE DEF gone
  <2> QED
    BY <1>0, <1>1
<1>3. ASSUME NEW w \in DOMAIN versions' PROVE WholeVersion(versions'[w])
  <2>1. /\ w \in DOMAIN versions /\ versions'[w].page = versions[w].page
        /\ versions'[w].payload = versions[w].payload
    BY <1>1 DEF Version
  <2> QED
    BY <2>1 DEF IInv, VersionsOK, WholeVersion
<1> QED
  BY <1>2, <1>3 DEF WithdrawVersion, row, IInv, VersionsOK, PublishedOK, WholeVersion, Plain,
                    On, HasPromptFragments

-----------------------------------------------------------------------------
(* Every step.                                                               *)

LEMMA InitInv == ASSUME Settings, Init PROVE IInv
<1>1. DraftOK
  BY DEF Init, StartFromNothing, StartFromFile, DraftOK, Settings
<1>2. VersionsOK
  BY DEF Init, VersionsOK, Settings
<1>3. AnswersOK
  BY DEF Init, AnswersOK, Unanswered
<1>4. StagedOK /\ TabOK /\ PublishedOK
  BY DEF Init, StagedOK, TabOK, PublishedOK
<1>5. RowOK
  <2>1. rev \in 1..MaxRev
    BY DEF Init, Settings
  <2> QED
    BY <2>1, Zenon DEF Init, RowOK
<1> QED
  BY <1>1, <1>2, <1>3, <1>4, <1>5 DEF IInv

\* What a step leaves alone keeps its part of the invariant.
LEMMA Untouched ==
    ASSUME IInv
    PROVE  /\ UNCHANGED draft => DraftOK'
           /\ UNCHANGED versions => VersionsOK'
           /\ UNCHANGED staged => StagedOK'
           /\ UNCHANGED <<rev, tab>> => TabOK'
           /\ UNCHANGED <<row, rev>> => RowOK'
           /\ UNCHANGED <<answer, asked>> => AnswersOK'
           /\ UNCHANGED <<lifecycle, versions>> => PublishedOK'
           /\ UNCHANGED <<row, versions>> => PublishedOK'
BY DEF IInv, draft, row, DraftOK, VersionsOK, StagedOK, TabOK, RowOK, AnswersOK, PublishedOK,
       WholeVersion, Plain, On, HasPromptFragments

LEMMA StepInv == ASSUME Settings, IInv, [Next]_vars PROVE IInv'
<1> USE DEF IInv
<1>1. ASSUME NEW t \in Tabs, Edit(t) PROVE IInv'
  <2>1. DraftOK' /\ Commit(t) /\ UNCHANGED Rest
    BY <1>1, EditEffect
  <2> QED
    BY <2>1, CommitEffect, Untouched DEF Rest, RowOK, row
<1>2. ASSUME NEW t \in Tabs, NEW v \in DOMAIN versions, RestoreVersion(t, v) PROVE IInv'
  <2>1. DraftOK' /\ Commit(t) /\ UNCHANGED Rest
    BY <1>2, RestoreEffect
  <2> QED
    BY <2>1, CommitEffect, Untouched DEF Rest, RowOK, row
<1>3. ASSUME NEW t \in Tabs, Publish(t) \/ PublishVersion(t) PROVE IInv'
  <2>1. /\ RecordWorkVersion /\ UNCHANGED <<draft, answer, staged, asked>> /\ Commit(t)
        /\ UNCHANGED <<deleted, takenDown>> /\ lifecycle' \in {"draft", "published"}
    BY <1>3 DEF Publish, PublishVersion, PublishLocked, row, RowOK
  <2> QED
    BY <2>1, RecordEffect, CommitEffect, Untouched DEF RowOK
<1>4. ASSUME NEW t \in Tabs, AddWorkOriginalFile(t) PROVE IInv'
  <2>1. PICK file \in Pages : Plain(file) /\ AcceptOriginalFile(t, file)
    BY <1>4 DEF AddWorkOriginalFile
  <2>2. staged' = [status |-> "pending", rev |-> rev, page |-> file] /\ rev \in 1..MaxRev
    BY <2>1 DEF AcceptOriginalFile, RowOK
  <2>3. StagedOK'
    BY <2>1, <2>2 DEF StagedOK, Plain, On
  <2> QED
    BY <2>1, <2>3, Untouched DEF AcceptOriginalFile
<1>5. ASSUME NEW t \in Tabs, AcceptWorkOriginalFile(t) PROVE IInv'
  <2>1. /\ DraftOK' /\ Commit(t) /\ staged' = None
        /\ UNCHANGED <<row, versions, answer, asked>>
    BY <1>5, AcceptEffect
  <2> QED
    BY <2>1, CommitEffect, Untouched DEF RowOK, row, StagedOK
<1>6. ASSUME NEW v \in DOMAIN versions, WithdrawVersion(v) PROVE IInv'
  BY <1>6, WithdrawEffect, Untouched DEF WithdrawVersion
<1>7. ASSUME NEW v \in DOMAIN versions, NEW c \in Prompts, NEW f \in Prompts \cup {None},
             AskResolve(v, c, f)
      PROVE  IInv'
  <2>1. asked' = [version |-> v, current |-> c, recorded |-> f] /\ v \in 1..MaxVersions
    BY <1>7, RecordedPages DEF AskResolve
  <2>2. AnswersOK'
    BY <1>7, <2>1 DEF AnswersOK, AskResolve
  <2> QED
    BY <1>7, <2>2, Untouched DEF AskResolve
<1>8. CASE ResolvePromptCorrespondence
  <2>1. AnswersOK'
    BY <1>8, AskedFields DEF AnswersOK, ResolvePromptCorrespondence
  <2> QED
    BY <1>8, <2>1, Untouched DEF ResolvePromptCorrespondence
<1>9. CASE OpenTab
  <2>1. TabOK'
    BY <1>9 DEF OpenTab, TabOK, RowOK
  <2> QED
    BY <1>9, <2>1, Untouched DEF OpenTab
<1>10. CASE CandidateResult
  <2>1. TabOK'
    BY <1>10 DEF CandidateResult, TabOK
  <2> QED
    BY <1>10, <2>1, Untouched DEF CandidateResult
<1>11. CASE StageReplacement \/ CancelReplacement
  <2>1. StagedOK'
    <3>1. staged' = None \/ (staged # None /\ staged' = [staged EXCEPT !.status = "preview"])
      BY <1>11 DEF StageReplacement, CancelReplacement
    <3> QED
      BY <3>1 DEF StagedOK, Plain, On
  <2> QED
    BY <1>11, <2>1, Untouched DEF StageReplacement, CancelReplacement
<1>12. CASE SoftDeleteWork \/ RestoreWork \/ TakeDown \/ LiftTakedown
  <2>0. RowOK /\ UNCHANGED <<lifecycle, rev>>
    BY <1>12 DEF SoftDeleteWork, RestoreWork, TakeDown, LiftTakedown
  <2>2. \/ deleted' = TRUE /\ takenDown' = FALSE
        \/ deleted' = FALSE /\ takenDown' \in BOOLEAN
    BY <1>12 DEF SoftDeleteWork, RestoreWork, TakeDown, LiftTakedown, LockEditable, RowOK
  <2>1. RowOK'
    BY <2>0, <2>2 DEF RowOK
  <2> QED
    BY <1>12, <2>0, <2>1, Untouched DEF SoftDeleteWork, RestoreWork, TakeDown, LiftTakedown
<1>13. CASE UNCHANGED vars
  BY <1>13, Untouched DEF vars
<1> QED
  BY <1>1, <1>2, <1>3, <1>4, <1>5, <1>6, <1>7, <1>8, <1>9, <1>10, <1>11, <1>12, <1>13
     DEF Next, Edit

\* A read of a file changes nothing of the work.
LEMMA ReadsChangeNothing ==
    ASSUME DownloadsNext
    PROVE  (Next /\ UNCHANGED fileVars) \/ UNCHANGED vars
BY DEF DownloadsNext, DownloadSource, Source, DownloadExport, OpenExport, OpenRecordedExport,
       ExportSubject, QueueSend, ServeSendFile, SourceForSend, OpenExportForSend, HandOff,
       Refuse, Hold

\* The invariant holds of every behaviour of a work and of the files that leave it.
THEOREM Inductive == ASSUME Settings PROVE DownloadsSpec => []IInv
<1>1. DownloadsInit => IInv
  BY InitInv DEF DownloadsInit
<1>2. IInv /\ [DownloadsNext]_<<vars, fileVars>> => IInv'
  BY StepInv, ReadsChangeNothing
<1> QED
  BY <1>1, <1>2, PTL DEF DownloadsSpec

-----------------------------------------------------------------------------
(* What follows for a work.                                                  *)

\* Every variable keeps its type, in whatever order a work is edited, published,
\* replaced, deleted and taken down.
THEOREM TypeCorrect == ASSUME Settings PROVE DownloadsSpec => []TypeOK
<1>1. IInv => TypeOK
  BY DEF IInv, TypeOK, DraftOK, VersionsOK, StagedOK, TabOK, RowOK, AnswersOK,
         HasPromptFragments
<1> QED
  BY <1>1, Inductive, PTL

\* An edit that the lock lets through was made on the drafted changes as they are
\* (Candidate, Commit).
THEOREM EditsAreOfWhatWasRead == ASSUME Settings PROVE DownloadsSpec => []ReviewedIsCurrent
<1>1. IInv => ReviewedIsCurrent
  BY DEF IInv, TabOK, ReviewedIsCurrent
<1> QED
  BY <1>1, Inductive, PTL

\* A prompt that a version shows has, on a page with one prompt of each identity, the id
\* under which it would be private.
LEMMA ShownIsPublic ==
    ASSUME Settings, IInv, NEW v \in DOMAIN versions, Settled(v) = {},
           NEW f \in ApplyRecordedPolicy(v), NEW c \in HasPromptFragments(page)
    PROVE  Identity[f] # Identity[c]
<1>1. SUFFICES ASSUME Identity[f] = Identity[c] PROVE FALSE
  OBVIOUS
<1>2. /\ f \in On(versions[v].page) /\ ~ Uncertain(v) /\ ~ CurrentlyPrivate(v, f)
  BY DEF ApplyRecordedPolicy, MarkCurrentPrivacy
<1>3. c \in On(versions[v].page)
  BY <1>2 DEF Uncertain, PrivatePromptMismatches, HasPromptFragments, On
<1>4. f = c
  BY <1>1, <1>2, <1>3, RecordedPages DEF IInv, Plain
<1>5. StandsFor(v, f) = {}
  BY <1>2 DEF Settled, StandsFor, On, Settings
<1> QED
  BY <1>2, <1>4, <1>5 DEF CurrentlyPrivate, HasPromptFragments

\* A version nobody has answered about shows no prompt that is private now, under
\* whichever id it recorded it (private/publication.go, ApplyRecordedPolicy).
THEOREM HiddenUntilAnswered == ASSUME Settings PROVE DownloadsSpec => []UnansweredStaysHidden
<1>1. ASSUME IInv PROVE UnansweredStaysHidden
  <2>1. SUFFICES ASSUME NEW v \in DOMAIN versions, Settled(v) = {}, NEW f \in Shown(v),
                        NEW c \in HasPromptFragments(page)
                 PROVE  Identity[f] # Identity[c]
    BY DEF UnansweredStaysHidden
  <2>2. f \in ApplyRecordedPolicy(v)
    BY DEF Shown, PublishedPage, CompareVersions, HoldPrompts
  <2> QED
    BY <1>1, <2>1, <2>2, ShownIsPublic
<1> QED
  BY <1>1, Inductive, PTL

\* A private prompt has its wording, in the drafted changes and in every version, so
\* every page can be read back (SyncPromptFragments, ReplacePromptPayloads).
THEOREM PrivateHasWording == ASSUME Settings PROVE DownloadsSpec => []PrivateHasPayload
<1>1. IInv => PrivateHasPayload
  BY DEF IInv, DraftOK, VersionsOK, WholeVersion, PrivateHasPayload
<1> QED
  BY <1>1, Inductive, PTL

\* While a work is taken down nothing of it changes (LockEditable).
THEOREM Frozen == ASSUME Settings PROVE DownloadsSpec => FrozenStays
<1>1. ASSUME IInv, [Next]_vars, takenDown, takenDown'
      PROVE  UNCHANGED <<row, rev, draft, versions>>
  <2>1. ~ deleted /\ ~ LockEditable
    BY <1>1 DEF IInv, RowOK, LockEditable
  <2>2. ASSUME NEW t \in Tabs, Edit(t) PROVE FALSE
    BY <2>1, <2>2 DEF Edit, SaveWorkBlock, SaveBlock, AddWorkBlock, AddBlock,
       ArrangeWorkBlocks, ArrangeBlocks, EditBody, RemoveWorkBlock, RemoveBlock, RewriteBody,
       MoveWorkBlockContent, MoveBlockContent, SetWorkDetails, UpdateDetails,
       DeletePreservedData, DropPreservedData, Lock
  <2>4. ASSUME NEW t \in Tabs, AddWorkOriginalFile(t)
        PROVE  UNCHANGED <<row, rev, draft, versions>>
    BY <2>4 DEF AddWorkOriginalFile, AcceptOriginalFile
  <2>5. ASSUME NEW t \in Tabs, Publish(t) \/ PublishVersion(t) \/ AcceptWorkOriginalFile(t)
        PROVE  FALSE
    BY <2>1, <2>5 DEF Publish, PublishVersion, AcceptWorkOriginalFile, AcceptReplacement, Lock
  <2>6. CASE OpenTab \/ CandidateResult \/ ResolvePromptCorrespondence \/ StageReplacement
             \/ CancelReplacement \/ UNCHANGED vars
    BY <2>6 DEF OpenTab, CandidateResult, ResolvePromptCorrespondence, StageReplacement,
                CancelReplacement, vars
  <2>7. ~ (SoftDeleteWork \/ RestoreWork \/ TakeDown \/ LiftTakedown)
    BY <1>1, <2>1 DEF SoftDeleteWork, RestoreWork, TakeDown, LiftTakedown
  <2>8. ASSUME NEW v \in DOMAIN versions, NEW c \in Prompts, NEW f \in Prompts \cup {None},
               AskResolve(v, c, f)
        PROVE  UNCHANGED <<row, rev, draft, versions>>
    BY <2>8 DEF AskResolve
  <2>9. ASSUME NEW v \in DOMAIN versions, WithdrawVersion(v) PROVE FALSE
    BY <2>1, <2>9 DEF WithdrawVersion
  <2>10. ASSUME NEW t \in Tabs, NEW v \in DOMAIN versions, RestoreVersion(t, v) PROVE FALSE
    BY <2>1, <2>10 DEF RestoreVersion, Lock
  <2> QED
    BY <1>1, <2>2, <2>4, <2>5, <2>6, <2>7, <2>8, <2>9, <2>10 DEF Next, Edit
<1>2. IInv /\ [DownloadsNext]_<<vars, fileVars>>
          => [takenDown /\ takenDown' => UNCHANGED <<row, rev, draft, versions>>]_vars
  BY <1>1, ReadsChangeNothing
<1> QED
  BY <1>2, Inductive, PTL DEF DownloadsSpec, FrozenStays

-----------------------------------------------------------------------------
(* What follows for its files.                                               *)

\* A file that was read names the version it is of.
RecordsOK ==
    /\ opened # None => opened.record.number = opened.version
    /\ \A d \in downloads : d.record.number = d.version

\* What a step that reads a file leaves to be handed over.
Opens(record, v, format, prompts) ==
    /\ opened' = [record |-> record, version |-> v, format |-> format, prompts |-> prompts]
    /\ UNCHANGED <<vars, sent, downloads>>

LEMMA HoldOpens ==
    ASSUME NEW record, NEW v, NEW format, NEW prompts, Hold(record, v, format, prompts)
    PROVE  Opens(record, v, format, prompts)
BY DEF Hold, Opens

\* What is read is the whole of a version, or of a draft; a version is read for its
\* owner, for everyone or in the format of an app that may have it.
LEMMA OpenCases ==
    ASSUME IInv, DownloadsNext
    PROVE  \/ UNCHANGED <<opened, downloads>> \/ HandOff \/ Refuse
           \/ \E viewer, format : \E v \in DOMAIN versions :
                 /\ Opens(NewRecord(viewer, v), v, format, On(versions[v].page))
                 /\ viewer = "owner" \/ ~ ErrPrivatePrompts(v) \/ format \in apps
           \/ \E format :
                 /\ Opens(NoRecord, 0, format, On(page)) /\ lifecycle = "draft"
                 /\ ~ ErrPrivatePrompts(Len(versions)) \/ format \in apps
<1> USE HoldOpens
<1> DEFINE v == Len(versions)
           OfVersion(viewer, format) ==
              v \in DOMAIN versions
              /\ Opens(NewRecord(viewer, v), v, format, On(versions[v].page))
           OfDraft(format) == Opens(NoRecord, 0, format, On(page)) /\ lifecycle = "draft"
<1>0. lifecycle # "draft" => v \in DOMAIN versions
  BY DEF IInv, RowOK, PublishedOK, VersionsOK
<1>1. ASSUME NEW viewer \in Viewers, DownloadSource(viewer)
      PROVE  OfVersion(viewer, "raw") /\ (viewer = "owner" \/ ~ ErrPrivatePrompts(v))
  BY <1>0, <1>1 DEF DownloadSource, Source, OriginalFileLocation, PublishedVersion
<1>2. ASSUME NEW viewer, NEW access, NEW format, ExportSubject(viewer, access, format, Subject)
      PROVE  OfVersion(access, format) \/ OfDraft(format)
  BY <1>0, <1>2 DEF ExportSubject, Subject, PublishedVersion
<1>3. ASSUME NEW viewer \in Viewers, NEW format \in Formats, OpenExport(viewer, format)
      PROVE  (OfVersion(viewer, format) \/ OfDraft(format)) /\ ~ ErrPrivatePrompts(v)
  BY <1>2, <1>3 DEF OpenExport, PublishedVersion
<1>4. ASSUME NEW viewer \in Viewers, NEW format \in Formats, NEW w \in DOMAIN versions,
             OpenRecordedExport(viewer, w, format)
      PROVE  Opens(NewRecord(viewer, w), w, format, On(versions[w].page))
             /\ ~ ErrPrivatePrompts(w)
  BY <1>4 DEF OpenRecordedExport
<1>5. CASE ServeSendFile
  <2>1. CASE SourceForSend
    <3>1. OfVersion("app", "raw") /\ ~ ErrPrivatePrompts(v)
      BY <1>0, <2>1 DEF SourceForSend, OriginalFileLocation, PublishedVersion
    <3> QED
      BY <3>1
  <2>2. CASE OpenExportForSend(sent)
    <3>1. OfVersion("app", sent) \/ OfDraft(sent)
      BY <1>2, <2>2 DEF OpenExportForSend
    <3>2. ~ ErrPrivatePrompts(v) \/ sent \in apps
      BY <2>2 DEF OpenExportForSend, AllowsFormat, PublishedVersion
    <3> QED
      BY <3>1, <3>2
  <2> QED
    BY <1>5, <2>1, <2>2 DEF ServeSendFile
<1>6. CASE QueueSend \/ UNCHANGED fileVars
  BY <1>6 DEF QueueSend, fileVars
<1> QED
  BY <1>1, <1>3, <1>4, <1>5, <1>6 DEF DownloadsNext, DownloadExport

LEMMA StepRecords ==
    ASSUME IInv, RecordsOK, [DownloadsNext]_<<vars, fileVars>> PROVE RecordsOK'
<1> USE DEF RecordsOK
<1>1. CASE UNCHANGED <<opened, downloads>>
  BY <1>1
<1>2. CASE HandOff \/ Refuse
  BY <1>2 DEF HandOff, Refuse, Kept
<1>3. ASSUME NEW viewer, NEW format, NEW w, NEW prompts,
             Opens(NewRecord(viewer, w), w, format, prompts)
      PROVE  RecordsOK'
  BY <1>3 DEF Opens, NewRecord
<1>4. ASSUME NEW format, NEW prompts, Opens(NoRecord, 0, format, prompts) PROVE RecordsOK'
  BY <1>4 DEF Opens, NoRecord, NewRecord
<1> QED
  BY <1>1, <1>2, <1>3, <1>4, OpenCases DEF fileVars

\* A download record names the version whose bytes were handed over, whatever was
\* published meanwhile (download/record.go).
THEOREM RecordsTell == ASSUME Settings PROVE DownloadsSpec => []RecordTellsWhatLeft
<1>1. DownloadsInit => RecordsOK
  BY DEF DownloadsInit, RecordsOK
<1>2. IInv /\ RecordsOK /\ [DownloadsNext]_<<vars, fileVars>> => RecordsOK'
  BY StepRecords
<1>3. RecordsOK => RecordTellsWhatLeft
  BY DEF RecordsOK, RecordTellsWhatLeft
<1> QED
  BY <1>1, <1>2, <1>3, Inductive, PTL DEF DownloadsSpec

\* What may be read by everyone holds no prompt that is private.
LEMMA OpenFilesHoldNone ==
    ASSUME Settings, IInv, NEW v \in DOMAIN versions, ~ ErrPrivatePrompts(v), Settled(v) = {}
    PROVE  \A f \in On(versions[v].page), c \in HasPromptFragments(page) :
              Identity[f] # Identity[c]
<1>1. CASE lifecycle = "draft"
  BY <1>1 DEF ErrPrivatePrompts
<1>2. CASE lifecycle # "draft"
  <2>1. On(versions[v].page) = ApplyRecordedPolicy(v)
    BY <1>2 DEF ErrPrivatePrompts, ApplyRecordedPolicy
  <2> QED
    BY <2>1, ShownIsPublic
<1> QED
  BY <1>1, <1>2

\* Private wording leaves for its owner, or in the format of an app that may have it
\* (ErrPrivatePrompts, OpenExportForSend).
THEOREM WordingIsForTheAllowed ==
    ASSUME Settings PROVE DownloadsSpec => PrivateWordingIsForTheAllowed
<1> DEFINE Allowed ==
             \/ \A f \in opened'.prompts, c \in HasPromptFragments(page) :
                   Identity[f] # Identity[c]
             \/ opened'.record.access = "owner"
             \/ opened'.format \in apps
             \/ opened'.version # 0 /\ Settled(opened'.version) # {}
<1>1. ASSUME IInv, DownloadsNext, opened' # opened, opened' # None PROVE Allowed
  <2>1. ASSUME NEW viewer, NEW format, NEW v \in DOMAIN versions,
               Opens(NewRecord(viewer, v), v, format, On(versions[v].page)),
               viewer = "owner" \/ ~ ErrPrivatePrompts(v) \/ format \in apps
        PROVE  Allowed
    <3>1. /\ opened'.prompts = On(versions[v].page) /\ opened'.record.access = viewer
          /\ opened'.format = format /\ opened'.version = v /\ v # 0
      BY <1>1, <2>1 DEF Opens, NewRecord, IInv, VersionsOK
    <3> QED
      BY <1>1, <2>1, <3>1, OpenFilesHoldNone
  <2>2. ASSUME NEW format, Opens(NoRecord, 0, format, On(page)), lifecycle = "draft",
               ~ ErrPrivatePrompts(Len(versions)) \/ format \in apps
        PROVE  Allowed
    <3>1. opened'.format = format
      BY <2>2 DEF Opens
    <3>2. ~ ErrPrivatePrompts(Len(versions)) => HasPromptFragments(page) = {}
      BY <2>2 DEF ErrPrivatePrompts
    <3> QED
      BY <2>2, <3>1, <3>2
  <2>3. ~ HandOff /\ ~ Refuse
    BY <1>1 DEF HandOff, Refuse
  <2> QED
    BY <1>1, <2>1, <2>2, <2>3, OpenCases
<1>2. IInv /\ [DownloadsNext]_<<vars, fileVars>>
          => [opened' # opened /\ opened' # None => Allowed]_<<vars, fileVars>>
  BY <1>1
<1> QED
  BY <1>2, Inductive, PTL DEF DownloadsSpec, PrivateWordingIsForTheAllowed
==============================================================================
