------------------------------ MODULE Downloads ------------------------------
(***************************************************************************)
(* The files of a work that leave the system (download, work/sendable).    *)
(*                                                                         *)
(* A file is read in one snapshot of the database: the original upload, a  *)
(* file written from the published version or from a recorded one, or the  *)
(* file of a send for a connected app.  The download is recorded in a      *)
(* later statement, which refuses a work that has gone since, and only     *)
(* then are the bytes handed over.  The draft of a work leaves no record.  *)
(*                                                                         *)
(* A format is named for the app whose format it is: an app keeps private  *)
(* prompts private in its own format alone.                                *)
(***************************************************************************)
EXTENDS Works

CONSTANTS MaxReads   \* bound: files read

VARIABLES
    sent,      \* the format of the send that waits for a connected app
    opened,    \* the file that was read and is not handed over yet
    downloads, \* download_records: what each says was downloaded, and what was
    reads

fileVars == <<sent, opened, downloads, reads>>

Viewers == {"owner", "reader"}

Formats == Apps \cup {"plain"}

DownloadsInit == Init /\ sent = None /\ opened = None /\ downloads = {} /\ reads = 0

------------------------------------------------------------------------------
(* Reading a file.                                                          *)

\* work_public: the published version of a published work, the drafted changes of a draft.
PublishedVersion == Len(versions)

MayOpen(viewer) ==
    \/ viewer = "owner" /\ ~ deleted
    \/ ReaderRole

AllowsFormat(format) == format \in apps

\* Any app or any private prompt closes the file to every reader.
ErrPrivatePrompts(v) ==
    \/ apps # {}
    \/ IF lifecycle = "draft" THEN HasPromptFragments(page) # {}
       ELSE MarkCurrentPrivacy(v) # {}

NewRecord(viewer, v) == [access |-> viewer, number |-> v]

\* The owner's file of a draft.
NoRecord == NewRecord("nobody", 0)

\* What is opened: the record that will be kept, the version read, and the prompts with
\* their wording.
Hold(record, v, format, prompts) ==
    /\ reads < MaxReads
    /\ reads' = reads + 1
    /\ opened = None
    /\ opened' = [record |-> record, version |-> v, format |-> format, prompts |-> prompts]
    /\ UNCHANGED <<vars, sent, downloads>>

OriginalFileLocation(viewer) ==
    lifecycle = "published" /\ ~ deleted /\ (takenDown => viewer = "owner")

\* The upload as it was sent: the wording of every prompt is in it.
Source(viewer) ==
    /\ OriginalFileLocation(viewer)
    /\ viewer # "owner" => ~ ErrPrivatePrompts(PublishedVersion)
    /\ Hold(NewRecord(viewer, PublishedVersion), PublishedVersion, "raw",
             On(versions[PublishedVersion].page))

\* The draft has no number, and its owner's file no record.
ExportSubject(viewer, access, format, prompts) ==
    /\ MayOpen(viewer)
    /\ IF lifecycle = "draft"
       THEN Hold(NoRecord, 0, format, prompts)
       ELSE Hold(NewRecord(access, PublishedVersion), PublishedVersion, format, prompts)

\* The prompts on the page readers have.
Subject == IF lifecycle = "draft" THEN On(page) ELSE On(versions[PublishedVersion].page)

OpenExport(viewer, format) ==
    /\ ~ ErrPrivatePrompts(PublishedVersion)
    /\ ExportSubject(viewer, viewer, format, Subject)

\* A send restores the wording for a format of an app that may have it.
OpenExportForSend(format) ==
    /\ IF apps # {} THEN AllowsFormat(format) ELSE ~ ErrPrivatePrompts(PublishedVersion)
    /\ ExportSubject("reader", "app", format, Subject)

SourceForSend ==
    /\ OriginalFileLocation("reader")
    /\ ~ ErrPrivatePrompts(PublishedVersion)
    /\ Hold(NewRecord("app", PublishedVersion), PublishedVersion, "raw",
             On(versions[PublishedVersion].page))

RecordedExportSubject(viewer, v) ==
    /\ MayOpen(viewer)
    /\ versions[v].withdrawn => viewer = "owner"

OpenRecordedExport(viewer, v, format) ==
    /\ RecordedExportSubject(viewer, v)
    /\ ~ ErrPrivatePrompts(v)
    /\ Hold(NewRecord(viewer, v), v, format, On(versions[v].page))

------------------------------------------------------------------------------
(* What a reader can send to a connected app: work/sendable.go.             *)

SendFormats == IF apps = {} THEN Formats \cup {"raw"} ELSE {f \in Formats : AllowsFormat(f)}

ErrNotSendable == ~ ReaderRole \/ (apps = {} /\ ErrPrivatePrompts(PublishedVersion))

SendableWork == IF ErrNotSendable THEN {} ELSE SendFormats

QueueSend ==
    /\ sent = None
    /\ sent' \in SendableWork
    /\ UNCHANGED <<vars, opened, downloads, reads>>

\* The app comes for the file later; what it may have is decided again.
ServeSendFile ==
    /\ sent # None
    /\ IF sent = "raw" THEN SourceForSend ELSE OpenExportForSend(sent)

------------------------------------------------------------------------------
(* Handing it over.                                                         *)

Recordable(record) ==
    lifecycle = "published" /\ ~ deleted /\ (takenDown => record.access = "owner")

NumberNowBug(record) == [access |-> record.access, number |-> PublishedVersion]

Kept(record) == record

\* Record, and then the bytes; the work may have changed or gone since they were read.
HandOff ==
    /\ opened # None
    /\ IF opened.record = NoRecord
       THEN downloads' = downloads
       ELSE /\ Recordable(opened.record)
            /\ downloads' = downloads \cup {[record |-> Kept(opened.record), version |-> opened.version]}
    /\ opened' = None
    /\ UNCHANGED <<vars, sent, reads>>

\* The record found no work to download, or the reader went away.
Refuse ==
    /\ opened # None
    /\ opened' = None
    /\ UNCHANGED <<vars, sent, downloads, reads>>

------------------------------------------------------------------------------
DownloadSource(viewer) == Source(viewer)

DownloadExport(viewer, format) ==
    \/ OpenExport(viewer, format)
    \/ \E v \in DOMAIN versions : OpenRecordedExport(viewer, v, format)

DownloadsNext ==
    \/ Next /\ UNCHANGED fileVars
    \/ \E viewer \in Viewers : DownloadSource(viewer)
    \/ \E viewer \in Viewers, format \in Formats : DownloadExport(viewer, format)
    \/ QueueSend \/ ServeSendFile \/ HandOff \/ Refuse

DownloadsSpec == DownloadsInit /\ [][DownloadsNext]_<<vars, fileVars>>

------------------------------------------------------------------------------
\* A record names the version whose file was handed over, whatever was published
\* between the reading of the file and the record.
RecordTellsWhatLeft == \A d \in downloads : d.record.number = d.version

\* A file read for somebody else holds the wording of a prompt that is private at that
\* moment, under whichever id, only in the format of an app that may have it then
\* (ErrPrivatePrompts), unless the creator has said what the version's prompts are.
PrivateWordingIsForTheAllowed ==
    [][opened' # opened /\ opened' # None =>
          \/ \A f \in opened'.prompts, c \in HasPromptFragments(page) : Identity[f] # Identity[c]
          \/ opened'.record.access = "owner"
          \/ opened'.format \in apps
          \/ opened'.version # 0 /\ Settled(opened'.version) # {}]_<<vars, fileVars>>
===============================================================================
