------------------------------ MODULE BlobStore ------------------------------
(***************************************************************************)
(* Content-addressed storage: api/internal/storage and cmd/backup.         *)
(*                                                                         *)
(* A blob is a file named by its digest and a row of `blobs'.  Requests    *)
(* write blobs and then record references to them; an hourly cleanup marks *)
(* rows nothing counts on and removes them a CleanupDelay later; a purge   *)
(* removes bytes for good and leaves a tombstone; a backup copies the      *)
(* database and the files while deletion is locked.  A row's id is never   *)
(* reused, so an id held in memory is modelled by whether its row is still *)
(* there (valid).                                                          *)
(***************************************************************************)
EXTENDS Integers, FiniteSets

CONSTANTS
    Digests,        \* contents that may be stored
    Refs,           \* rows that may refer to a blob, or requests about to add one
    Kinds,          \* which of "work", "upload", "profile", "post" are in play
    CleanupDelay,   \* ticks a marked blob waits before its bytes go
    RecoveryWindow, \* ticks a deleted work can be restored
    RequestTime,    \* bound: ticks a request takes from one statement to the next
    RunTime,        \* bound: ticks a cleanup run takes
    MaxPurges,      \* bound: purges
    MaxBackups,     \* bound: backups
    MaxTrouble      \* bound: restarts and failed statements

\* A request and a cleanup run together are over within CleanupDelay, a day.
Settings ==
    /\ Digests # {} /\ Refs # {}
    /\ Kinds \subseteq {"work", "upload", "profile", "post"}
    /\ CleanupDelay \in Nat /\ RecoveryWindow \in Nat \ {0}
    /\ RequestTime \in Nat /\ RunTime \in Nat
    /\ RequestTime + RunTime < CleanupDelay
    /\ MaxPurges \in Nat /\ MaxBackups \in Nat /\ MaxTrouble \in Nat

VARIABLES
    file,    \* digests with a canonical file under blobs/
    row,     \* digests with a row in blobs
    mark,    \* blob_cleanup_marks: ticks until a mark is old enough, or Unmarked
    tomb,    \* blob_tombstones
    lock,    \* who holds the digest's advisory lock
    ref,     \* references, and requests between storing and recording
    put,     \* the one Put in progress (contentStore.writes)
    run,     \* the cleanup run in progress
    purge,   \* the purge in progress
    del,     \* the transactions that delete bytes, of the cleanup and the purge
    backup,  \* the backup in progress
    spent    \* purges, backups and failures so far

vars == <<file, row, mark, tomb, lock, ref, put, run, purge, del, backup, spent>>

Unmarked == -1
Nobody   == "nobody"
Actors   == {"cleanup", "purge"}

\* A reference is
\*   stored   a request has the id that Put returned and records it next
\*   held     counted by liveBlobReferenceExpression
\*   deleted  of a deleted work, counted while it can be restored
\*   staged   of an upload that waits for its owner's review
\*   unused   of a post picture no edition shows
\*   chosen   unused, and a save of the post has found the picture its own
RefState == {"none", "stored", "held", "deleted", "staged", "unused", "chosen"}
\* A kind is what has the reference; "reviewed" is an original file that was staged.
RefKind == {"work", "reviewed", "upload", "profile", "post"}
Reference == [state : RefState, kind : RefKind,
              digest : Digests, valid : BOOLEAN, left : Nat]

AnyDigest == CHOOSE d \in Digests : TRUE

NoRun == [phase |-> "idle", todo |-> {}, ripe |-> {}, expired |-> {}, time |-> 0,
          candidate |-> AnyDigest]
NoPut(d) == [phase |-> "idle", ref |-> CHOOSE r \in Refs : TRUE, digest |-> d]
NoBackup == [phase |-> "idle", counted |-> {}, todo |-> {}, copied |-> {}]

Init ==
    /\ file = {} /\ row = {} /\ tomb = {}
    /\ mark = [d \in Digests |-> Unmarked]
    /\ lock = [d \in Digests |-> Nobody]
    /\ ref = [r \in Refs |-> [state |-> "none", kind |-> "work",
                  digest |-> AnyDigest, valid |-> FALSE, left |-> 0]]
    /\ put = NoPut(AnyDigest)
    /\ run = NoRun
    /\ purge = [phase |-> "idle", digest |-> AnyDigest]
    /\ del = [a \in Actors |-> [phase |-> "none", digest |-> AnyDigest]]
    /\ backup = NoBackup
    /\ spent = [purges |-> 0, backups |-> 0, trouble |-> 0]

------------------------------------------------------------------------------
(* What refers to a blob.                                                   *)

\* The row's foreign key: while one names the blob its row cannot go.
Names(r, d) ==
    ref[r].state \notin {"none", "stored"} /\ ref[r].valid /\ ref[r].digest = d

\* liveBlobReferenceExpression, at the time the run started.
Counted(r, d) ==
    /\ Names(r, d)
    /\ \/ ref[r].state = "held"
       \/ ref[r].state = "deleted" /\ r \notin run.expired

CountedOn(d) == \E r \in Refs : Counted(r, d)

Free(d) == lock[d] = Nobody

\* deletePurgedBlob locks the row itself (`for update'), which keeps a new
\* foreign key waiting; a cleanup locks only the mark.
RowLocked(d) ==
    \E a \in Actors : /\ del[a].phase # "none" /\ del[a].digest = d
                      /\ a = "purge" \/ run.phase = "purges"

Gone(r) == [ref[r] EXCEPT !.state = "none", !.valid = FALSE, !.left = 0]

SetRef(r, state, left) ==
    ref' = [ref EXCEPT ![r].state = state, ![r].left = left]

OnlyRefs == UNCHANGED <<file, row, mark, tomb, lock, put, run, purge, del,
                        backup, spent>>

------------------------------------------------------------------------------
(* Put: one at a time in the server, under the digest's advisory lock.      *)

\* Mutant: Put does not look for a tombstone.
PutLockPurgedBug(r, d) ==
    /\ put.phase = "idle"
    /\ ref[r].state = "none"
    /\ Free(d)
    /\ lock' = [lock EXCEPT ![d] = "put"]
    /\ put' = [phase |-> "locked", ref |-> r, digest |-> d]
    /\ UNCHANGED <<file, row, mark, tomb, ref, run, purge, del, backup, spent>>

PutLock(r, d) ==
    /\ put.phase = "idle"
    /\ ref[r].state = "none"
    /\ Free(d)
    /\ d \notin tomb
    /\ lock' = [lock EXCEPT ![d] = "put"]
    /\ put' = [phase |-> "locked", ref |-> r, digest |-> d]
    /\ UNCHANGED <<file, row, mark, tomb, ref, run, purge, del, backup, spent>>

PutInstall ==
    /\ put.phase = "locked"
    /\ file' = file \cup {put.digest}
    /\ put' = [put EXCEPT !.phase = "installed"]
    /\ UNCHANGED <<row, mark, tomb, lock, ref, run, purge, del, backup, spent>>

\* UpsertBlob, clearing the mark, and the commit that releases the lock.
PutCommit ==
    /\ put.phase = "installed"
    /\ row' = row \cup {put.digest}
    /\ mark' = [mark EXCEPT ![put.digest] = Unmarked]
    /\ lock' = [lock EXCEPT ![put.digest] = Nobody]
    /\ ref' = [ref EXCEPT ![put.ref] = [state |-> "stored", kind |-> "work",
                  digest |-> put.digest, valid |-> TRUE, left |-> RequestTime]]
    /\ put' = NoPut(put.digest)
    /\ UNCHANGED <<file, tomb, run, purge, del, backup, spent>>

Trouble == /\ spent.trouble < MaxTrouble
           /\ spent' = [spent EXCEPT !.trouble = @ + 1]

\* A statement of Put fails: the transaction goes, an installed file stays.
PutFails ==
    /\ put.phase # "idle"
    /\ Trouble
    /\ lock' = [lock EXCEPT ![put.digest] = Nobody]
    /\ put' = NoPut(put.digest)
    /\ UNCHANGED <<file, row, mark, tomb, ref, run, purge, del, backup>>

\* The request records its reference; the foreign key refuses an id whose row
\* has gone.  A post picture is recorded before any edition shows it.
Attach(r, kind) ==
    /\ ref[r].state = "stored"
    /\ kind \in Kinds
    /\ ref[r].valid /\ ~ RowLocked(ref[r].digest)
    /\ ref' = [ref EXCEPT ![r].kind = kind, ![r].left = 0,
                   ![r].state = IF kind = "post" THEN "unused" ELSE "held"]
    /\ run' = [run EXCEPT !.expired = @ \ {r}]
    /\ UNCHANGED <<file, row, mark, tomb, lock, put, purge, del, backup, spent>>

\* The request fails, or its reference is removed: a picture replaced, an
\* upload that failed or was cancelled, a piece let go, a post deleted.
Drop(r) ==
    /\ ref[r].state \in {"stored", "held", "staged", "unused"}
    /\ ref' = [ref EXCEPT ![r] = Gone(r)]
    /\ OnlyRefs

------------------------------------------------------------------------------
(* What happens to references later.                                        *)

DeleteWork(r) ==
    /\ ref[r].kind \in {"work", "reviewed"} /\ ref[r].state = "held"
    /\ SetRef(r, "deleted", RecoveryWindow)
    /\ OnlyRefs

RestoreWork(r) ==
    /\ ref[r].state = "deleted" /\ ref[r].left > 0
    /\ SetRef(r, "held", 0)
    /\ OnlyRefs

\* finalizeUpload: the operation gives its blob up to a work's original file.
FinishUpload(r) ==
    /\ ref[r].kind = "upload" /\ ref[r].state = "held"
    /\ ref' = [ref EXCEPT ![r].kind = "work"]
    /\ OnlyRefs

\* stageReplacement: the operation keeps its blob_id in status preview.
StageUpload(r) ==
    /\ ref[r].kind = "upload" /\ ref[r].state = "held"
    /\ SetRef(r, "staged", 0)
    /\ OnlyRefs

\* AcceptReplacement inserts the original file without storing it again.
AcceptStaged(r) ==
    /\ ref[r].state = "staged" /\ ref[r].valid
    /\ ~ RowLocked(ref[r].digest)
    /\ ref' = [ref EXCEPT ![r].kind = "reviewed", ![r].state = "held"]
    /\ OnlyRefs

\* checkPlacement reads the pictures a post owns outside the saving
\* transaction; recordUses then inserts post_media_uses for those named.
ChoosePicture(r) ==
    /\ ref[r].state = "unused" /\ ref[r].valid
    /\ SetRef(r, "chosen", RequestTime)
    /\ OnlyRefs

UsePicture(r) ==
    /\ ref[r].state = "chosen"
    /\ SetRef(r, "held", 0)
    /\ OnlyRefs

\* The last edition that showed the picture goes, or the save fails.
UnusePicture(r) ==
    /\ ref[r].kind = "post" /\ ref[r].state \in {"held", "chosen"}
    /\ SetRef(r, "unused", 0)
    /\ OnlyRefs

------------------------------------------------------------------------------
(* The transaction that deletes bytes, of a cleanup or of a purge.          *)

\* Only what the caller still does when it ends: a cleanup goes on with the
\* next candidate, and gives the whole run up on an error.
Finish(a, d, failed) ==
    /\ run' = IF a # "cleanup" THEN run
              ELSE IF failed THEN NoRun ELSE [run EXCEPT !.todo = @ \ {d}]
    /\ purge' = IF a # "purge" THEN purge ELSE [purge EXCEPT !.phase = "idle"]

EndDeletion(a, d) ==
    /\ lock' = [lock EXCEPT ![d] = Nobody]
    /\ del' = [del EXCEPT ![a].phase = "none"]

\* Mutant: bytes go without the lock a backup holds.
RemoveBytesUnlockedBug(a) ==
    /\ del[a].phase = "checked"
    /\ file' = file \ {del[a].digest}
    /\ del' = [del EXCEPT ![a].phase = "removed"]
    /\ UNCHANGED <<row, mark, tomb, lock, ref, put, run, purge, backup, spent>>

\* LockBlobDeletionAgainstBackup, then the image sizes and the file.
RemoveBytes(a) ==
    /\ del[a].phase = "checked"
    /\ backup.phase = "idle"
    /\ file' = file \ {del[a].digest}
    /\ del' = [del EXCEPT ![a].phase = "removed"]
    /\ UNCHANGED <<row, mark, tomb, lock, ref, put, run, purge, backup, spent>>

\* `delete from blobs', which takes the mark along and fails while a foreign
\* key names the row.
DropRow(a) ==
    LET d == del[a].digest IN
    /\ del[a].phase = "removed"
    /\ IF \E r \in Refs : Names(r, d)
       THEN UNCHANGED <<row, mark, ref>> /\ Finish(a, d, TRUE)
       ELSE /\ row' = row \ {d}
            /\ mark' = [mark EXCEPT ![d] = Unmarked]
            /\ ref' = [r \in Refs |-> IF ref[r].digest = d
                                      THEN [ref[r] EXCEPT !.valid = FALSE]
                                      ELSE ref[r]]
            /\ Finish(a, d, FALSE)
    /\ EndDeletion(a, d)
    /\ UNCHANGED <<file, tomb, put, backup, spent>>

\* The file or the row cannot be deleted: the transaction rolls back.
DeletionFails(a) ==
    /\ del[a].phase # "none"
    /\ Trouble
    /\ Finish(a, del[a].digest, TRUE)
    /\ EndDeletion(a, del[a].digest)
    /\ UNCHANGED <<file, row, mark, tomb, ref, put, backup>>

BeginDeletion(a, d) ==
    /\ lock' = [lock EXCEPT ![d] = a]
    /\ del' = [del EXCEPT ![a] = [phase |-> "checked", digest |-> d]]

------------------------------------------------------------------------------
(* Cleanup.                                                                 *)

\* The run reads the clock once; RecordOrphans lists the recorded digests and
\* walks the files.
StartRun ==
    /\ run.phase = "idle"
    /\ run' = [phase |-> "orphans", todo |-> file \ row,
               ripe |-> {d \in Digests : mark[d] = 0},
               expired |-> {r \in Refs : ref[r].state = "deleted" /\ ref[r].left = 0},
               time |-> 0, candidate |-> AnyDigest]
    /\ UNCHANGED <<file, row, mark, tomb, lock, ref, put, purge, del, backup, spent>>

\* A file without a row gets one, or goes when its digest is tombstoned.
RecordOrphan(d) ==
    /\ run.phase = "orphans" /\ d \in run.todo
    /\ d \in file /\ Free(d)
    /\ IF d \in tomb
       THEN backup.phase = "idle" /\ file' = file \ {d} /\ UNCHANGED row
       ELSE row' = row \cup {d} /\ UNCHANGED file
    /\ run' = [run EXCEPT !.todo = @ \ {d}]
    /\ UNCHANGED <<mark, tomb, lock, ref, put, purge, del, backup, spent>>

\* A purge took the file between the walk and its turn, before it was read or
\* after.
OrphanVanished(d) ==
    /\ run.phase = "orphans" /\ d \in run.todo \ file
    /\ \/ run' = NoRun
       \/ d \in tomb /\ Free(d) /\ run' = [run EXCEPT !.todo = @ \ {d}]
    /\ UNCHANGED <<file, row, mark, tomb, lock, ref, put, purge, del, backup, spent>>

ListPurges ==
    /\ run.phase = "orphans" /\ run.todo = {}
    /\ run' = [run EXCEPT !.phase = "purges", !.todo = row \cap tomb]
    /\ UNCHANGED <<file, row, mark, tomb, lock, ref, put, purge, del, backup, spent>>

\* resumePurges: the deletion an interrupted purge left undone.
ResumePurge(d) ==
    /\ run.phase = "purges" /\ d \in run.todo
    /\ del["cleanup"].phase = "none"
    /\ Free(d)
    /\ IF d \in row
       THEN BeginDeletion("cleanup", d) /\ UNCHANGED run
       ELSE run' = [run EXCEPT !.todo = @ \ {d}] /\ UNCHANGED <<lock, del>>
    /\ UNCHANGED <<file, row, mark, tomb, ref, put, purge, backup, spent>>

\* Mutant: every run marks what is already marked anew.
MarkAgainBug ==
    LET new == {d \in row : ~ CountedOn(d)} IN
    /\ run.phase = "purges" /\ run.todo = {} /\ del["cleanup"].phase = "none"
    /\ mark' = [d \in Digests |-> IF d \in new THEN CleanupDelay - run.time
                                                ELSE mark[d]]
    /\ run' = [run EXCEPT !.phase = "candidates", !.ripe = @ \ new]
    /\ UNCHANGED <<file, row, tomb, lock, ref, put, purge, del, backup, spent>>

\* Mark what nothing counts on, with the time the run started.
MarkUnreferenced ==
    LET new == {d \in row : mark[d] = Unmarked /\ ~ CountedOn(d)} IN
    /\ run.phase = "purges" /\ run.todo = {} /\ del["cleanup"].phase = "none"
    /\ mark' = [d \in Digests |-> IF d \in new THEN CleanupDelay - run.time
                                                ELSE mark[d]]
    /\ run' = [run EXCEPT !.phase = "candidates", !.ripe = @ \ new]
    /\ UNCHANGED <<file, row, tomb, lock, ref, put, purge, del, backup, spent>>

ListCandidates ==
    /\ run.phase = "candidates"
    /\ run' = [run EXCEPT !.phase = "sweep",
                          !.todo = {d \in run.ripe : mark[d] # Unmarked}]
    /\ UNCHANGED <<file, row, mark, tomb, lock, ref, put, purge, del, backup, spent>>

\* A candidate is skipped once its row or its mark has gone, and unmarked
\* when something counts on it again.
Skipped(d) ==
    /\ d \notin row \/ mark[d] = Unmarked
    /\ UNCHANGED mark

Unmark(d) ==
    /\ d \in row /\ mark[d] # Unmarked
    /\ CountedOn(d)
    /\ mark' = [mark EXCEPT ![d] = Unmarked]

\* Mutant: a candidate's references are not looked at again.
DeletableUncheckedBug(d) == d \in row /\ mark[d] # Unmarked

Deletable(d) == d \in row /\ mark[d] # Unmarked /\ ~ CountedOn(d)

\* Either transaction may find the candidate skipped.
SkipCandidate(d) ==
    /\ \/ run.phase = "sweep" /\ d \in run.todo
       \/ run.phase = "prepared" /\ d = run.candidate
    /\ del["cleanup"].phase = "none"
    /\ Free(d)
    /\ Skipped(d) \/ Unmark(d)
    /\ run' = [run EXCEPT !.phase = "sweep", !.todo = @ \ {d}]
    /\ UNCHANGED <<file, row, tomb, lock, ref, put, purge, del, backup, spent>>

\* releaseExpiredReferences: of expired works, and of post pictures that no
\* edition shows.
Released(r, d) ==
    IF ~ Names(r, d) THEN ref[r]
    ELSE IF ref[r].state \in {"deleted", "unused"} THEN Gone(r)
    ELSE [ref[r] EXCEPT !.valid = ref[r].state # "chosen"]

\* prepareMarkedBlob, a transaction of its own.
PrepareCandidate(d) ==
    /\ run.phase = "sweep" /\ d \in run.todo
    /\ del["cleanup"].phase = "none"
    /\ Free(d)
    /\ Deletable(d)
    /\ ref' = [r \in Refs |-> Released(r, d)]
    /\ run' = [run EXCEPT !.phase = "prepared", !.candidate = d]
    /\ UNCHANGED <<file, row, mark, tomb, lock, put, purge, del, backup, spent>>

\* Mutant: the candidate is deleted without the digest's lock.
DeleteCandidateUnlockedBug ==
    LET d == run.candidate IN
    /\ run.phase = "prepared"
    /\ Deletable(d)
    /\ BeginDeletion("cleanup", d)
    /\ run' = [run EXCEPT !.phase = "sweep"]
    /\ UNCHANGED <<file, row, mark, tomb, ref, put, purge, backup, spent>>

\* deleteMarkedBlob checks all of it again under the lock.
DeleteCandidate ==
    LET d == run.candidate IN
    /\ run.phase = "prepared"
    /\ Free(d)
    /\ Deletable(d)
    /\ BeginDeletion("cleanup", d)
    /\ run' = [run EXCEPT !.phase = "sweep"]
    /\ UNCHANGED <<file, row, mark, tomb, ref, put, purge, backup, spent>>

EndRun ==
    /\ run.phase = "sweep" /\ run.todo = {} /\ del["cleanup"].phase = "none"
    /\ run' = NoRun
    /\ UNCHANGED <<file, row, mark, tomb, lock, ref, put, purge, del, backup, spent>>

\* Any other statement of the run fails.
RunFails ==
    /\ run.phase # "idle" /\ del["cleanup"].phase = "none"
    /\ Trouble
    /\ run' = NoRun
    /\ UNCHANGED <<file, row, mark, tomb, lock, ref, put, purge, del, backup>>

------------------------------------------------------------------------------
(* Purge: a staff decision that removes bytes for good.                     *)

\* preparePurge: tombstone the digest and break the references of uploads and
\* works.  Profile and post pictures keep theirs.
PreparePurge(d) ==
    /\ purge.phase = "idle"
    /\ spent.purges < MaxPurges
    /\ Free(d)
    /\ d \in row
    /\ tomb' = tomb \cup {d}
    /\ ref' = [r \in Refs |->
                  IF Names(r, d) /\ ref[r].kind \in {"work", "reviewed", "upload"}
                  THEN Gone(r) ELSE ref[r]]
    /\ purge' = [phase |-> "prepared", digest |-> d]
    /\ spent' = [spent EXCEPT !.purges = @ + 1]
    /\ UNCHANGED <<file, row, mark, lock, put, run, del, backup>>

\* deletePurgedBlob; nothing is left to do when the row has gone.
DeletePurged ==
    LET d == purge.digest IN
    /\ purge.phase = "prepared"
    /\ Free(d)
    /\ IF d \in row
       THEN BeginDeletion("purge", d) /\ purge' = [purge EXCEPT !.phase = "deleting"]
       ELSE purge' = [purge EXCEPT !.phase = "idle"] /\ UNCHANGED <<lock, del>>
    /\ UNCHANGED <<file, row, mark, tomb, ref, put, run, backup, spent>>

------------------------------------------------------------------------------
(* Backup: cmd/backup, a process of its own.                                *)

\* Its exclusive lock waits for every deletion that has removed bytes.
BackupLock ==
    /\ backup.phase = "idle"
    /\ spent.backups < MaxBackups
    /\ \A a \in Actors : del[a].phase # "removed"
    /\ backup' = [NoBackup EXCEPT !.phase = "locked"]
    /\ spent' = [spent EXCEPT !.backups = @ + 1]
    /\ UNCHANGED <<file, row, mark, tomb, lock, ref, put, run, purge, del>>

\* Bytes that are counted as long as they are referred to.  An upload that waits
\* for its review may lose them, and so may a post picture between its choice and
\* its use; what they become is left out.
Protected(r) == ref[r].kind \notin {"reviewed", "post"}

\* pg_dump; counted is what the dumped rows say has live references.
BackupDump ==
    /\ backup.phase = "locked"
    /\ backup' = [phase |-> "copying", todo |-> Digests, copied |-> {},
                  counted |-> {d \in row : \E r \in Refs :
                                  /\ Names(r, d) /\ ref[r].state = "held"
                                  /\ Protected(r)}]
    /\ UNCHANGED <<file, row, mark, tomb, lock, ref, put, run, purge, del, spent>>

\* restic reads the files one after the other.
BackupCopy(d) ==
    /\ backup.phase = "copying" /\ d \in backup.todo
    /\ backup' = [backup EXCEPT !.todo = @ \ {d}, !.copied = @ \cup ({d} \cap file)]
    /\ UNCHANGED <<file, row, mark, tomb, lock, ref, put, run, purge, del, spent>>

BackupRelease ==
    /\ backup.phase = "copying" /\ backup.todo = {}
    /\ backup' = [backup EXCEPT !.phase = "idle"]
    /\ UNCHANGED <<file, row, mark, tomb, lock, ref, put, run, purge, del, spent>>

\* A command fails or the process ends; either way the lock goes.
BackupFails ==
    /\ backup.phase # "idle"
    /\ Trouble
    /\ backup' = NoBackup
    /\ UNCHANGED <<file, row, mark, tomb, lock, ref, put, run, purge, del>>

------------------------------------------------------------------------------
(* Time and failure.                                                        *)

Less(n) == IF n > 0 THEN n - 1 ELSE n

Tick ==
    /\ \A r \in Refs : ref[r].state \in {"stored", "chosen"} => ref[r].left > 0
    /\ run.phase # "idle" => run.time < RunTime
    /\ mark' = [d \in Digests |-> Less(mark[d])]
    /\ ref' = [r \in Refs |-> [ref[r] EXCEPT !.left = Less(@)]]
    /\ run' = IF run.phase = "idle" THEN run ELSE [run EXCEPT !.time = @ + 1]
    /\ UNCHANGED <<file, row, tomb, lock, put, purge, del, backup, spent>>

\* The server stops: its transactions roll back and its requests end, files
\* and rows stay.
Crash ==
    /\ Trouble
    /\ lock' = [d \in Digests |-> Nobody]
    /\ put' = NoPut(put.digest)
    /\ ref' = [r \in Refs |->
                  CASE ref[r].state = "stored" -> Gone(r)
                    [] ref[r].state = "chosen" /\ ref[r].valid ->
                          [ref[r] EXCEPT !.state = "unused"]
                    [] ref[r].state = "chosen" /\ ~ ref[r].valid -> Gone(r)
                    [] OTHER -> ref[r]]
    /\ run' = NoRun
    /\ purge' = [purge EXCEPT !.phase = "idle"]
    /\ del' = [a \in Actors |-> [del[a] EXCEPT !.phase = "none"]]
    /\ UNCHANGED <<file, row, mark, tomb, backup>>

------------------------------------------------------------------------------

Request ==
    \/ \E r \in Refs, d \in Digests : PutLock(r, d)
    \/ \E r \in Refs :
          \/ Drop(r) \/ DeleteWork(r) \/ RestoreWork(r) \/ FinishUpload(r)
          \/ StageUpload(r) \/ AcceptStaged(r) \/ ChoosePicture(r)
          \/ UsePicture(r) \/ UnusePicture(r)
          \/ \E kind \in Kinds : Attach(r, kind)

PutGoesOn == PutInstall \/ PutCommit

Deletion(a) == RemoveBytes(a) \/ DropRow(a)

Cleanup ==
    \/ StartRun \/ ListPurges \/ MarkUnreferenced \/ ListCandidates
    \/ DeleteCandidate \/ EndRun \/ Deletion("cleanup")
    \/ \E d \in Digests : RecordOrphan(d) \/ OrphanVanished(d) \/ ResumePurge(d)
                           \/ SkipCandidate(d) \/ PrepareCandidate(d)

Purge == DeletePurged \/ Deletion("purge")

Backup == BackupDump \/ BackupRelease \/ \E d \in Digests : BackupCopy(d)

Failures == \/ PutFails \/ RunFails \/ BackupFails \/ Crash
            \/ \E a \in Actors : DeletionFails(a)

Next == \/ Request \/ PutGoesOn \/ Cleanup \/ Purge \/ Backup \/ BackupLock
        \/ \E d \in Digests : PreparePurge(d)
        \/ Tick \/ Failures

Spec == Init /\ [][Next]_vars

\* The two ways in which a request goes on from Put.
RequestEnds(r) == ref[r].state = "stored"
                  /\ (Drop(r) \/ \E kind \in Kinds : Attach(r, kind))

------------------------------------------------------------------------------
TypeOK ==
    /\ file \subseteq Digests /\ row \subseteq Digests /\ tomb \subseteq Digests
    /\ mark \in [Digests -> {Unmarked} \cup 0..CleanupDelay]
    /\ lock \in [Digests -> Actors \cup {Nobody, "put"}]
    /\ ref \in [Refs -> Reference]
    /\ put \in [phase : {"idle", "locked", "installed"}, ref : Refs, digest : Digests]
    /\ run \in [phase : {"idle", "orphans", "purges", "candidates", "sweep", "prepared"},
                todo : SUBSET Digests, ripe : SUBSET Digests, expired : SUBSET Refs,
                time : 0..RunTime, candidate : Digests]
    /\ purge \in [phase : {"idle", "prepared", "deleting"}, digest : Digests]
    /\ del \in [Actors -> [phase : {"none", "checked", "removed"}, digest : Digests]]
    /\ backup \in [phase : {"idle", "locked", "copying"}, todo : SUBSET Digests,
                   counted : SUBSET Digests, copied : SUBSET Digests]
    /\ spent \in [purges : 0..MaxPurges, backups : 0..MaxBackups,
                  trouble : 0..MaxTrouble]

\* What a live page shows, an upload has still to read, or a deleted work could
\* bring back, has its bytes: neither the cleanup, nor a crash in the middle of it,
\* nor a request that stores the same content meanwhile loses them; only a purge
\* does (Cleanup, deleteMarkedBlob;
\* TestCleanupRechecksReferencesImmediatelyBeforeDeleting).
LiveReferencesHaveBytes ==
    \A r \in Refs :
        Protected(r) /\ (ref[r].state = "held" \/ (ref[r].state = "deleted" /\ ref[r].left > 0))
            => \/ ref[r].digest \in tomb
               \/ ref[r].valid /\ ref[r].digest \in row \cap file

\* What an upload that waits for its owner's review would be accepted with has
\* its bytes too: "Cleanup deletes what nothing refers to any more"
\* (storage/cleanup.go:387).
WaitingUploadsHaveBytes ==
    \A r \in Refs :
        ref[r].state = "staged"
            => \/ ref[r].digest \in tomb
               \/ ref[r].valid /\ ref[r].digest \in row \cap file

\* A purged digest never comes back, neither as a file nor as a row
\* (Put, RecordOrphans; TestUploadRefusesBytesNamedByAPurgeTombstone).
PurgedStaysPurged ==
    [][\A d \in tomb : (d \notin file => d \notin file')
                       /\ (d \notin row => d \notin row')]_vars

\* A finished backup has the bytes of everything its dump counts on, unless a
\* purge took them (takeBackup;
\* TestTakeBackupKeepsDeletionLockedThroughDumpAndBlobCopy).
BackupIsWhole ==
    backup.phase = "copying" /\ backup.todo = {}
        => backup.counted \subseteq backup.copied \cup tomb

\* The bytes of a digest are written and deleted by one transaction at a time
\* (LockBlobDigest).
OneWriterPerDigest ==
    /\ \A a \in Actors : del[a].phase # "none" => lock[del[a].digest] = a
    /\ put.phase # "idle" => lock[put.digest] = "put"

\* Bytes nothing refers to any more are deleted in the end (Cleanup).
UnreferencedBlobsGo ==
    \A d \in Digests :
        (d \in row /\ \A r \in Refs : ref[r].digest = d => ref[r].state = "none")
            ~> (d \notin row \/ \E r \in Refs :
                                   ref[r].digest = d /\ ref[r].state # "none")
==============================================================================
