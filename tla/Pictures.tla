------------------------------ MODULE Pictures -------------------------------
(***************************************************************************)
(* The pictures of one work: its cover, its gallery, and the pictures each *)
(* version recorded (work/media, work/original_file, version/manage).      *)
(*                                                                         *)
(* A picture is never removed.  A new display picture, a new file and a    *)
(* restored version make it current or not, and the page, the pictures a   *)
(* file is written with and the pictures that are sent are the current     *)
(* ones.  A published work's readers have those of its published version;  *)
(* the cover they see is the drafted one where the type's file carries no  *)
(* cover.                                                                  *)
(***************************************************************************)
EXTENDS Naturals, Sequences, FiniteSets

CONSTANTS
    Avatars, Alternates, Galleries,  \* pictures by role
    FromFile,      \* those read out of an uploaded file
    None,
    MaxVersions    \* bound: versions

Media == Avatars \cup Alternates \cup Galleries

Settings ==
    /\ FromFile \subseteq Media /\ MaxVersions \in Nat
    /\ Galleries \cap (Avatars \cup Alternates) = {}

VARIABLES
    carried,   \* the files of the work's type carry the cover
    known,     \* work_media
    current,   \* those with is_current
    cover,     \* cover_media_id
    gallery,   \* the pictures the page's gallery names
    versions   \* work_versions, the last being published

vars == <<carried, known, current, cover, gallery, versions>>

Init ==
    /\ carried \in BOOLEAN
    /\ known = {} /\ current = {} /\ cover = None /\ gallery = {} /\ versions = <<>>

Published == versions # <<>>

Last == versions[Len(versions)]

------------------------------------------------------------------------------
(* The creator adds pictures and arranges the gallery.                      *)

\* An alternate is the cover until there is a display picture.
SetAlternateCoverMedia(m) ==
    cover' = IF cover = None \/ cover \in Alternates THEN m ELSE cover

SupersedeCoverMedia(m) == (current \ (Avatars \cup Alternates)) \cup {m}

AddMedia(m) ==
    /\ m \notin known \cup FromFile
    /\ known' = known \cup {m}
    /\ current' = IF m \in Avatars THEN SupersedeCoverMedia(m) ELSE current \cup {m}
    /\ IF m \in Avatars THEN cover' = m
       ELSE IF m \in Alternates THEN SetAlternateCoverMedia(m)
       ELSE UNCHANGED cover
    /\ UNCHANGED <<carried, gallery, versions>>

\* The page offers the gallery's pictures that are current.
SaveGallery ==
    /\ gallery' \in SUBSET (gallery \cup (current \cap Galleries))
    /\ gallery' # gallery
    /\ UNCHANGED <<carried, known, current, cover, versions>>

------------------------------------------------------------------------------
(* A file replaces the work's: work.RecordOriginalFile and the merge.       *)

SupersedeExtractedMedia == current \ FromFile

ClearSupersededCover == IF cover \in SupersedeExtractedMedia THEN cover ELSE None

\* The file's display picture is the cover.
RecordOriginalFile(file) ==
    /\ known' = known \cup file
    /\ current' = SupersedeExtractedMedia \cup file
    /\ IF file \cap Avatars # {} THEN cover' \in file \cap Avatars
       ELSE cover' = ClearSupersededCover

\* The gallery of a file replaces the page's, unless the creator keeps that one.
MergeReplacementBlocks(file, keep) ==
    gallery' = IF keep THEN gallery ELSE file \cap Galleries

AcceptReplacement(file, keep) ==
    /\ file \cap known = {}
    /\ Cardinality(file \cap Avatars) <= 1 /\ file \cap Alternates = {}
    /\ RecordOriginalFile(file)
    /\ MergeReplacementBlocks(file, keep)
    /\ UNCHANGED <<carried, versions>>

------------------------------------------------------------------------------
(* Versions.                                                                *)

Referenced == gallery \cup (IF cover = None THEN {} ELSE {cover})

CurrentOnlyBug == current

\* record_work_version keeps the current pictures, the cover and what the page names.
RecordedPictures == current \cup Referenced

RecordWorkVersion ==
    /\ Len(versions) < MaxVersions
    /\ versions' = Append(versions, [pictures |-> RecordedPictures, cover |-> cover,
                                     gallery |-> gallery, withdrawn |-> FALSE])
    /\ UNCHANGED <<carried, known, current, cover, gallery>>

RestoreVersion(v) ==
    /\ cover' = versions[v].cover
    /\ current' = versions[v].pictures
    /\ gallery' = versions[v].gallery
    /\ UNCHANGED <<carried, known, versions>>

WithdrawVersion(v) ==
    /\ v # Len(versions) /\ ~ versions[v].withdrawn
    /\ versions' = [versions EXCEPT ![v].withdrawn = TRUE]
    /\ UNCHANGED <<carried, known, current, cover, gallery>>

------------------------------------------------------------------------------
(* What readers have.                                                       *)

\* work_public.work_media and the cover of work_public.works.
PublicMedia ==
    IF ~ Published THEN current
    ELSE (IF carried THEN {} ELSE current \ Galleries)
         \cup (Last.pictures \ IF carried THEN {} ELSE Avatars \cup Alternates)

PublicCover == IF Published /\ carried THEN Last.cover ELSE cover

\* work.ImageSize: a picture that is the owner's alone needs a signed address.
Private(m) ==
    \/ ~ Published
    \/ /\ \A v \in DOMAIN versions : m \in versions[v].pictures => versions[v].withdrawn
       /\ m \notin PublicMedia

PublishedImages ==
    PublicMedia \cap (Last.gallery \cup IF PublicCover = None THEN {} ELSE {PublicCover})

RecordedImages(v) == versions[v].pictures \cap
    (versions[v].gallery \cup IF versions[v].cover = None THEN {} ELSE {versions[v].cover})

------------------------------------------------------------------------------
Next ==
    \/ \E m \in Media : AddMedia(m)
    \/ SaveGallery
    \/ \E file \in SUBSET FromFile, keep \in BOOLEAN : AcceptReplacement(file, keep)
    \/ RecordWorkVersion
    \/ \E v \in DOMAIN versions : RestoreVersion(v) \/ WithdrawVersion(v)

Spec == Init /\ [][Next]_vars

------------------------------------------------------------------------------
\* The cover is a current picture of the page, whatever was uploaded, superseded or gone
\* back to, and the cover readers are shown is one of the pictures they have.
CoverIsOnThePage ==
    /\ cover # None => cover \in current
    /\ PublicCover # None => PublicCover \in PublicMedia

\* Every picture that a published or recorded page names can be had by its readers and is
\* in the files written from it.
VersionsHaveTheirPictures ==
    /\ Published => Last.gallery \subseteq PublishedImages
    /\ \A v \in DOMAIN versions :
          /\ versions[v].gallery \subseteq RecordedImages(v)
          /\ ~ versions[v].withdrawn => \A m \in versions[v].gallery : ~ Private(m)
===============================================================================
