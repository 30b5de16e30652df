--------------------------- MODULE BlobStoreProofs ---------------------------
(***************************************************************************)
(* What is counted keeps its bytes.                                        *)
(*                                                                         *)
(* A reference is sound while it is valid and of a kind that cleanups      *)
(* count (Sound).  Only Put makes one (NewSound), under the lock of the    *)
(* digest; and a cleanup deletes what was marked before its run began,     *)
(* longer ago than any request takes (Fresh, RipeIsOld).  So nothing sound *)
(* names a digest from its preparation, or the check under its lock, until *)
(* its row has gone (RunInOrder, DeletionInOrder), unless it is a purged   *)
(* one.                                                                    *)
(***************************************************************************)
EXTENDS BlobStore, TLAPS

-----------------------------------------------------------------------------
(* Types.                                                                    *)

LEMMA Choices ==
    ASSUME Settings
    PROVE  AnyDigest \in Digests /\ (CHOOSE r \in Refs : TRUE) \in Refs
BY DEF Settings, AnyDigest

LEMMA LessType ==
    ASSUME Settings, NEW n \in {Unmarked} \cup 0..CleanupDelay
    PROVE  Less(n) \in {Unmarked} \cup 0..CleanupDelay
BY DEF Less, Unmarked, Settings

LEMMA InitTypes == ASSUME Settings, Init PROVE TypeOK
BY Choices DEF Init, TypeOK, NoPut, NoRun, NoBackup, Reference, RefState, RefKind, Unmarked,
               Nobody, Actors, Settings

LEMMA RefFields ==
    ASSUME TypeOK, NEW r \in Refs
    PROVE  /\ ref \in [Refs -> Reference] /\ ref[r] \in Reference
           /\ ref[r].state \in RefState /\ ref[r].kind \in RefKind
           /\ ref[r].digest \in Digests /\ ref[r].valid \in BOOLEAN /\ ref[r].left \in Nat
BY DEF TypeOK, Reference

\* One reference changes.
Becomes(r, state, kind, valid, left) ==
    /\ ref' \in [Refs -> Reference]
    /\ \A q \in Refs \ {r} : ref'[q] = ref[q]
    /\ ref'[r].state = state /\ ref'[r].kind = kind /\ ref'[r].valid = valid
    /\ ref'[r].left = left /\ ref'[r].digest = ref[r].digest

LEMMA SetRefEffect ==
    ASSUME TypeOK, NEW r \in Refs, NEW state \in RefState, NEW left \in Nat,
           SetRef(r, state, left)
    PROVE  Becomes(r, state, ref[r].kind, ref[r].valid, left)
BY RefFields DEF SetRef, Becomes, Reference

LEMMA GoneFields ==
    ASSUME TypeOK, NEW r \in Refs
    PROVE  /\ Gone(r) \in Reference
           /\ Gone(r).state = "none" /\ ~ Gone(r).valid /\ Gone(r).left = 0
           /\ Gone(r).digest = ref[r].digest /\ Gone(r).kind = ref[r].kind
<1>1. ref[r] \in Reference
  BY RefFields
<1> QED
  BY <1>1 DEF Gone, Reference, RefState

LEMMA RefSteps ==
    ASSUME Settings, TypeOK, NEW r \in Refs
    PROVE  /\ Drop(r) => Becomes(r, "none", ref[r].kind, FALSE, 0)
           /\ DeleteWork(r) => Becomes(r, "deleted", ref[r].kind, ref[r].valid, RecoveryWindow)
           /\ RestoreWork(r) \/ UsePicture(r)
                 => Becomes(r, "held", ref[r].kind, ref[r].valid, 0)
           /\ StageUpload(r) => Becomes(r, "staged", ref[r].kind, ref[r].valid, 0)
           /\ ChoosePicture(r) => Becomes(r, "chosen", ref[r].kind, ref[r].valid, RequestTime)
           /\ UnusePicture(r) => Becomes(r, "unused", ref[r].kind, ref[r].valid, 0)
           /\ FinishUpload(r) => Becomes(r, ref[r].state, "work", ref[r].valid, ref[r].left)
           /\ AcceptStaged(r) => Becomes(r, "held", "reviewed", ref[r].valid, ref[r].left)
           /\ \A kind \in Kinds :
                 Attach(r, kind)
                    => Becomes(r, IF kind = "post" THEN "unused" ELSE "held", kind,
                               ref[r].valid, 0)
<1>1. Drop(r) => Becomes(r, "none", ref[r].kind, FALSE, 0)
  BY RefFields, GoneFields DEF Drop, Becomes
<1>2. /\ DeleteWork(r) => Becomes(r, "deleted", ref[r].kind, ref[r].valid, RecoveryWindow)
      /\ RestoreWork(r) \/ UsePicture(r) => Becomes(r, "held", ref[r].kind, ref[r].valid, 0)
      /\ StageUpload(r) => Becomes(r, "staged", ref[r].kind, ref[r].valid, 0)
      /\ ChoosePicture(r) => Becomes(r, "chosen", ref[r].kind, ref[r].valid, RequestTime)
      /\ UnusePicture(r) => Becomes(r, "unused", ref[r].kind, ref[r].valid, 0)
  <2>1. {"deleted", "held", "staged", "chosen", "unused"} \subseteq RefState
        /\ {0, RecoveryWindow, RequestTime} \subseteq Nat
    BY DEF RefState, Settings
  <2> QED
    BY <2>1, SetRefEffect
       DEF DeleteWork, RestoreWork, UsePicture, StageUpload, ChoosePicture, UnusePicture
<1>3. FinishUpload(r) => Becomes(r, ref[r].state, "work", ref[r].valid, ref[r].left)
  BY RefFields DEF FinishUpload, Becomes, Reference, RefKind
<1>4. AcceptStaged(r) => Becomes(r, "held", "reviewed", ref[r].valid, ref[r].left)
  BY RefFields DEF AcceptStaged, Becomes, Reference, RefKind, RefState
<1>5. ASSUME NEW kind \in Kinds, Attach(r, kind)
      PROVE  Becomes(r, IF kind = "post" THEN "unused" ELSE "held", kind, ref[r].valid, 0)
  <2>1. kind \in RefKind
    BY DEF Settings, RefKind
  <2>2. PICK state \in {"unused", "held"} :
           /\ state = (IF kind = "post" THEN "unused" ELSE "held")
           /\ ref' = [ref EXCEPT ![r].kind = kind, ![r].left = 0, ![r].state = state]
    BY <1>5 DEF Attach
  <2>3. state \in RefState
    BY DEF RefState
  <2>4. Becomes(r, state, kind, ref[r].valid, 0)
    BY <2>1, <2>2, <2>3, RefFields DEF Becomes, Reference
  <2> QED
    BY <2>2, <2>4
<1> QED
  BY <1>1, <1>2, <1>3, <1>4, <1>5

\* What the other steps do to a reference: it stays, goes, or is no longer chosen.
Fades(r) ==
    /\ ref' \in [Refs -> Reference]
    /\ ref'[r].kind = ref[r].kind /\ ref'[r].digest = ref[r].digest
    /\ ref'[r].valid => ref[r].valid
    /\ \/ /\ ref'[r].state = ref[r].state
          /\ ref[r].state \in {"held", "deleted"} => ref'[r].valid = ref[r].valid
       \/ ref'[r].state = "none" /\ ~ ref'[r].valid
       \/ ref[r].state = "chosen" /\ ref'[r].state = "unused"
    /\ \/ ref'[r].left = ref[r].left
       \/ ref'[r].left = Less(ref[r].left)
       \/ ref'[r].state # "stored"

LEMMA PurgeRefs ==
    ASSUME TypeOK, NEW d \in Digests, PreparePurge(d), NEW r \in Refs
    PROVE  Fades(r)
<1>1. ref' = [q \in Refs |->
                IF Names(q, d) /\ ref[q].kind \in {"work", "reviewed", "upload"}
                THEN Gone(q) ELSE ref[q]]
  BY DEF PreparePurge
<1>2. ref' \in [Refs -> Reference]
  BY <1>1, RefFields, GoneFields
<1>3. ref'[r] = Gone(r) \/ ref'[r] = ref[r]
  BY <1>1
<1> QED
  BY <1>2, <1>3, GoneFields DEF Fades

LEMMA PrepareRefs ==
    ASSUME TypeOK, NEW d \in Digests, PrepareCandidate(d), NEW r \in Refs
    PROVE  /\ Fades(r)
           /\ Names(r, d) /\ ref[r].state \in {"deleted", "unused", "chosen"}
                 => ~ ref'[r].valid
           /\ ~ Names(r, d) => ref'[r] = ref[r]
<1> DEFINE Cut(q) == [ref[q] EXCEPT !.valid = ref[q].state # "chosen"]
<1>1. ASSUME NEW q \in Refs
      PROVE  /\ Cut(q) \in Reference /\ Cut(q).valid = (ref[q].state # "chosen")
             /\ Cut(q).state = ref[q].state /\ Cut(q).kind = ref[q].kind
             /\ Cut(q).digest = ref[q].digest /\ Cut(q).left = ref[q].left
  <2>1. ref[q] \in Reference
    BY RefFields
  <2> QED
    BY <2>1 DEF Reference
<1>2. ASSUME NEW q \in Refs
      PROVE  Released(q, d) = IF ~ Names(q, d) THEN ref[q]
                              ELSE IF ref[q].state \in {"deleted", "unused"} THEN Gone(q)
                              ELSE Cut(q)
  BY DEF Released
<1> HIDE DEF Cut
<1>3. ref' = [q \in Refs |-> Released(q, d)]
  BY DEF PrepareCandidate
<1>4. ref' \in [Refs -> Reference]
  BY <1>1, <1>2, <1>3, RefFields, GoneFields
<1>5. ref'[r] = Released(r, d)
  BY <1>3
<1>6. CASE ~ Names(r, d)
  BY <1>2, <1>4, <1>5, <1>6 DEF Fades
<1>7. CASE Names(r, d) /\ ref[r].state \in {"deleted", "unused"}
  <2>1. ref'[r] = Gone(r)
    BY <1>2, <1>5, <1>7
  <2> QED
    BY <1>4, <1>7, <2>1, GoneFields DEF Fades
<1>8. CASE Names(r, d) /\ ref[r].state \notin {"deleted", "unused"}
  <2>1. ref'[r] = Cut(r)
    BY <1>2, <1>5, <1>8
  <2>2. ref[r].valid = TRUE
    BY <1>8, RefFields DEF Names
  <2> QED
    BY <1>1, <1>4, <1>8, <2>1, <2>2 DEF Fades
<1> QED
  BY <1>6, <1>7, <1>8

LEMMA CrashRefs == ASSUME TypeOK, Crash, NEW r \in Refs PROVE Fades(r)
<1> DEFINE Cut(q) == [ref[q] EXCEPT !.state = "unused"]
<1>1. ASSUME NEW q \in Refs
      PROVE  /\ Cut(q) \in Reference /\ Cut(q).valid = ref[q].valid
             /\ Cut(q).state = "unused" /\ Cut(q).kind = ref[q].kind
             /\ Cut(q).digest = ref[q].digest /\ Cut(q).left = ref[q].left
  <2>1. ref[q] \in Reference
    BY RefFields
  <2> QED
    BY <2>1 DEF Reference, RefState
<1>2. ref' = [q \in Refs |->
               CASE ref[q].state = "stored" -> Gone(q)
                 [] ref[q].state = "chosen" /\ ref[q].valid -> Cut(q)
                 [] ref[q].state = "chosen" /\ ~ ref[q].valid -> Gone(q)
                 [] OTHER -> ref[q]]
  BY DEF Crash
<1> HIDE DEF Cut
<1>3. ASSUME NEW q \in Refs
      PROVE  \/ ref'[q] = ref[q]
             \/ ref'[q] = Gone(q)
             \/ ref[q].state = "chosen" /\ ref'[q] = Cut(q)
  BY <1>2, RefFields
<1>4. ref' \in [Refs -> Reference]
  <2>1. \A q \in Refs : ref'[q] \in Reference
    BY <1>1, <1>3, RefFields, GoneFields
  <2>2. ref' = [q \in Refs |-> ref'[q]]
    BY <1>2
  <2> QED
    BY <2>1, <2>2
<1> QED
  BY <1>1, <1>3, <1>4, GoneFields DEF Fades

LEMMA TickRefs ==
    ASSUME TypeOK, Tick, NEW r \in Refs
    PROVE  Fades(r) /\ ref'[r].left = Less(ref[r].left)
<1> DEFINE Older(q) == [ref[q] EXCEPT !.left = Less(@)]
<1>1. ASSUME NEW q \in Refs
      PROVE  /\ Older(q) \in Reference /\ Older(q).valid = ref[q].valid
             /\ Older(q).state = ref[q].state /\ Older(q).kind = ref[q].kind
             /\ Older(q).digest = ref[q].digest /\ Older(q).left = Less(ref[q].left)
  <2>1. ref[q] \in Reference /\ Less(ref[q].left) \in Nat
    BY RefFields DEF Less
  <2> QED
    BY <2>1 DEF Reference
<1>2. ref' = [q \in Refs |-> Older(q)]
  BY DEF Tick
<1> HIDE DEF Older
<1> QED
  BY <1>1, <1>2 DEF Fades

\* The steps of requests.
LEMMA RequestTypes == ASSUME Settings, TypeOK, Request \/ PutGoesOn PROVE TypeOK'
<1>1. ASSUME NEW r \in Refs, NEW d \in Digests, PutLock(r, d) PROVE TypeOK'
  BY <1>1 DEF PutLock, TypeOK
<1>2. CASE PutInstall
  BY <1>2 DEF PutInstall, TypeOK
<1>3. CASE PutCommit
  BY <1>3, Choices DEF PutCommit, TypeOK, NoPut, Reference, RefState, RefKind, Settings, Nobody
<1>4. ASSUME NEW r \in Refs,
             Drop(r) \/ DeleteWork(r) \/ RestoreWork(r) \/ StageUpload(r) \/ ChoosePicture(r)
             \/ UsePicture(r) \/ UnusePicture(r) \/ FinishUpload(r) \/ AcceptStaged(r)
      PROVE  TypeOK'
  <2>1. OnlyRefs
    BY <1>4 DEF Drop, DeleteWork, RestoreWork, StageUpload, ChoosePicture, UsePicture,
                UnusePicture, FinishUpload, AcceptStaged
  <2>2. ref' \in [Refs -> Reference]
    BY <1>4, RefSteps DEF Becomes
  <2> QED
    BY <2>1, <2>2 DEF OnlyRefs, TypeOK
<1>5. ASSUME NEW r \in Refs, NEW kind \in Kinds, Attach(r, kind) PROVE TypeOK'
  <2>1. ref' \in [Refs -> Reference]
    BY <1>5, RefSteps DEF Becomes
  <2> QED
    BY <1>5, <2>1 DEF Attach, TypeOK
<1> QED
  BY <1>1, <1>2, <1>3, <1>4, <1>5 DEF Request, PutGoesOn

RunType ==
    [phase : {"idle", "orphans", "purges", "candidates", "sweep", "prepared"},
     todo : SUBSET Digests, ripe : SUBSET Digests, expired : SUBSET Refs,
     time : 0..RunTime, candidate : Digests]

LEMMA RunTypes ==
    ASSUME Settings, TypeOK
    PROVE  /\ run \in RunType /\ NoRun \in RunType
           /\ \A d : [run EXCEPT !.todo = @ \ {d}] \in RunType
           /\ purge \in [phase : {"idle", "prepared", "deleting"}, digest : Digests]
           /\ [purge EXCEPT !.phase = "idle"]
                 \in [phase : {"idle", "prepared", "deleting"}, digest : Digests]
<1>1. run \in RunType
  BY DEF TypeOK, RunType
<1>2. NoRun \in RunType
  BY Choices DEF NoRun, RunType, Settings
<1>3. \A d : [run EXCEPT !.todo = @ \ {d}] \in RunType
  BY <1>1 DEF RunType
<1> QED
  BY <1>1, <1>2, <1>3 DEF TypeOK

\* What a deletion that ends does to the run or the purge behind it.
LEMMA FinishTypes ==
    ASSUME Settings, TypeOK, NEW a, NEW d, NEW failed, Finish(a, d, failed)
    PROVE  /\ run' \in RunType
           /\ purge' \in [phase : {"idle", "prepared", "deleting"}, digest : Digests]
BY RunTypes DEF Finish

LEMMA EndTypes ==
    ASSUME TypeOK, NEW a \in Actors, NEW d \in Digests, EndDeletion(a, d)
    PROVE  /\ lock' \in [Digests -> Actors \cup {Nobody, "put"}]
           /\ del' \in [Actors -> [phase : {"none", "checked", "removed"}, digest : Digests]]
BY DEF EndDeletion, TypeOK

LEMMA DropRowRefs ==
    ASSUME TypeOK, NEW a \in Actors, DropRow(a), NEW r \in Refs
    PROVE  /\ ref' \in [Refs -> Reference]
           /\ ref'[r].state = ref[r].state /\ ref'[r].kind = ref[r].kind
           /\ ref'[r].digest = ref[r].digest /\ ref'[r].left = ref[r].left
           /\ ref'[r].valid = ref[r].valid
              \/ /\ ~ ref'[r].valid /\ ref[r].digest = del[a].digest
                 /\ ~ Names(r, ref[r].digest)
           /\ UNCHANGED <<row, ref>>
              \/ /\ row' = row \ {del[a].digest}
                 /\ ref[r].digest = del[a].digest => ~ ref'[r].valid
<1> DEFINE Cut(q) == [ref[q] EXCEPT !.valid = FALSE]
<1>1. ASSUME NEW q \in Refs
      PROVE  /\ Cut(q) \in Reference /\ ~ Cut(q).valid
             /\ Cut(q).state = ref[q].state /\ Cut(q).kind = ref[q].kind
             /\ Cut(q).digest = ref[q].digest /\ Cut(q).left = ref[q].left
  <2>1. ref[q] \in Reference
    BY RefFields
  <2> QED
    BY <2>1 DEF Reference
<1>2. CASE \E q \in Refs : Names(q, del[a].digest)
  BY <1>2, RefFields DEF DropRow
<1>3. CASE ~ \E q \in Refs : Names(q, del[a].digest)
  <2>1. /\ ref' = [q \in Refs |-> IF ref[q].digest = del[a].digest THEN Cut(q) ELSE ref[q]]
        /\ row' = row \ {del[a].digest}
    BY <1>3 DEF DropRow
  <2> HIDE DEF Cut
  <2>2. ref' \in [Refs -> Reference]
    BY <1>1, <2>1, RefFields
  <2>3. ref'[r] = IF ref[r].digest = del[a].digest THEN Cut(r) ELSE ref[r]
    BY <2>1
  <2> QED
    BY <1>1, <1>3, <2>1, <2>2, <2>3
<1> QED
  BY <1>2, <1>3

LEMMA DeletionTypes ==
    ASSUME Settings, TypeOK, NEW a \in Actors, Deletion(a) \/ DeletionFails(a) PROVE TypeOK'
<1>0. del[a].digest \in Digests
  BY DEF TypeOK
<1>1. CASE RemoveBytes(a)
  BY <1>1 DEF RemoveBytes, TypeOK
<1>2. CASE DropRow(a)
  <2>1. mark' \in [Digests -> {Unmarked} \cup 0..CleanupDelay] /\ row' \subseteq Digests
    BY <1>0, <1>2 DEF DropRow, TypeOK
  <2>2. ref' \in [Refs -> Reference]
    BY <1>2, DropRowRefs DEF Settings
  <2>3. \E failed \in BOOLEAN : Finish(a, del[a].digest, failed)
    BY <1>2 DEF DropRow
  <2>4. EndDeletion(a, del[a].digest) /\ UNCHANGED <<file, tomb, put, backup, spent>>
    BY <1>2 DEF DropRow
  <2> QED
    BY <1>0, <2>1, <2>2, <2>3, <2>4, FinishTypes, EndTypes DEF RunType, TypeOK
<1>3. CASE DeletionFails(a)
  <2>1. /\ Finish(a, del[a].digest, TRUE) /\ EndDeletion(a, del[a].digest) /\ Trouble
        /\ UNCHANGED <<file, row, mark, tomb, ref, put, backup>>
    BY <1>3 DEF DeletionFails
  <2>2. spent' \in [purges : 0..MaxPurges, backups : 0..MaxBackups, trouble : 0..MaxTrouble]
    BY <2>1 DEF Trouble, TypeOK, Settings
  <2> QED
    BY <1>0, <2>1, <2>2, FinishTypes, EndTypes DEF RunType, TypeOK
<1> QED
  BY <1>1, <1>2, <1>3 DEF Deletion

LEMMA CleanupTypes == ASSUME Settings, TypeOK, Cleanup \/ RunFails PROVE TypeOK'
<1>1. CASE StartRun
  BY <1>1, Choices DEF StartRun, TypeOK, Settings
<1>2. CASE ListPurges \/ ListCandidates \/ EndRun
  <2>1. \E todo \in SUBSET Digests, phase \in {"purges", "sweep"} :
           run' = [run EXCEPT !.phase = phase, !.todo = todo] \/ run' = NoRun
    <3>1. row \cap tomb \in SUBSET Digests
          /\ {d \in run.ripe : mark[d] # Unmarked} \in SUBSET Digests
      BY DEF TypeOK
    <3> QED
      BY <1>2, <3>1 DEF ListPurges, ListCandidates, EndRun
  <2>2. run' \in RunType
    BY <2>1, RunTypes DEF RunType
  <2>3. UNCHANGED <<file, row, mark, tomb, lock, ref, put, purge, del, backup, spent>>
    BY <1>2 DEF ListPurges, ListCandidates, EndRun
  <2> QED
    BY <2>2, <2>3 DEF TypeOK, RunType
<1>3. CASE MarkUnreferenced
  <2>1. CleanupDelay - run.time \in 0..CleanupDelay
    BY DEF TypeOK, Settings
  <2> QED
    BY <1>3, <2>1 DEF MarkUnreferenced, TypeOK
<1>4. CASE DeleteCandidate
  BY <1>4 DEF DeleteCandidate, BeginDeletion, TypeOK, Actors
<1>5. ASSUME NEW d \in Digests, RecordOrphan(d) \/ OrphanVanished(d) PROVE TypeOK'
  BY <1>5, Choices DEF RecordOrphan, OrphanVanished, TypeOK, NoRun, Settings
<1>6. ASSUME NEW d \in Digests, ResumePurge(d) PROVE TypeOK'
  BY <1>6 DEF ResumePurge, BeginDeletion, TypeOK, Actors
<1>7. ASSUME NEW d \in Digests, SkipCandidate(d) PROVE TypeOK'
  BY <1>7 DEF SkipCandidate, Skipped, Unmark, TypeOK
<1>8. ASSUME NEW d \in Digests, PrepareCandidate(d) PROVE TypeOK'
  <2>1. ref' \in [Refs -> Reference]
    BY <1>8, PrepareRefs DEF Fades, Settings
  <2> QED
    BY <1>8, <2>1 DEF PrepareCandidate, TypeOK
<1>9. CASE RunFails
  BY <1>9, Choices DEF RunFails, Trouble, TypeOK, NoRun, Settings
<1> QED
  BY <1>1, <1>2, <1>3, <1>4, <1>5, <1>6, <1>7, <1>8, <1>9, DeletionTypes DEF Cleanup, Actors

LEMMA OtherTypes ==
    ASSUME Settings, TypeOK,
           DeletePurged \/ Backup \/ BackupLock \/ (\E d \in Digests : PreparePurge(d))
           \/ Tick \/ PutFails \/ BackupFails \/ Crash
    PROVE  TypeOK'
<1>1. CASE DeletePurged
  BY <1>1 DEF DeletePurged, BeginDeletion, TypeOK, Actors
<1>2. CASE Backup \/ BackupLock \/ BackupFails
  <2>1. UNCHANGED <<file, row, mark, tomb, lock, ref, put, run, purge, del>>
    BY <1>2 DEF Backup, BackupDump, BackupRelease, BackupCopy, BackupLock, BackupFails
  <2>2. spent' \in [purges : 0..MaxPurges, backups : 0..MaxBackups, trouble : 0..MaxTrouble]
    <3>1. spent \in [purges : 0..MaxPurges, backups : 0..MaxBackups, trouble : 0..MaxTrouble]
      BY DEF TypeOK
    <3>2. CASE BackupLock
      BY <3>1, <3>2 DEF BackupLock, Settings
    <3>3. CASE BackupFails
      BY <3>1, <3>3 DEF BackupFails, Trouble, Settings
    <3>4. CASE Backup
      BY <3>1, <3>4 DEF Backup, BackupDump, BackupRelease, BackupCopy
    <3> QED
      BY <1>2, <3>2, <3>3, <3>4
  <2>3. backup' \in [phase : {"idle", "locked", "copying"}, todo : SUBSET Digests,
                     counted : SUBSET Digests, copied : SUBSET Digests]
    <3>1. CASE BackupDump
      BY <3>1 DEF BackupDump, TypeOK
    <3>2. ASSUME NEW d \in Digests, BackupCopy(d)
          PROVE  backup' \in [phase : {"idle", "locked", "copying"}, todo : SUBSET Digests,
                              counted : SUBSET Digests, copied : SUBSET Digests]
      BY <3>2 DEF BackupCopy, TypeOK
    <3>3. CASE BackupRelease \/ BackupLock \/ BackupFails
      BY <3>3 DEF BackupRelease, BackupLock, BackupFails, NoBackup, TypeOK
    <3> QED
      BY <1>2, <3>1, <3>2, <3>3 DEF Backup
  <2> QED
    BY <2>1, <2>2, <2>3 DEF TypeOK
<1>3. ASSUME NEW d \in Digests, PreparePurge(d) PROVE TypeOK'
  <2>1. ref' \in [Refs -> Reference]
    BY <1>3, PurgeRefs DEF Fades, Settings
  <2> QED
    BY <1>3, <2>1 DEF PreparePurge, TypeOK, Settings
<1>4. CASE Tick
  <2>1. \A d \in Digests : mark'[d] \in {Unmarked} \cup 0..CleanupDelay
    BY <1>4, LessType DEF Tick, TypeOK
  <2>2. ref' \in [Refs -> Reference]
    BY <1>4, TickRefs DEF Fades, Settings
  <2>3. run.phase # "idle" => run.time + 1 \in 0..RunTime
    BY <1>4 DEF Tick, TypeOK, Settings
  <2> QED
    BY <1>4, <2>1, <2>2, <2>3 DEF Tick, TypeOK
<1>5. CASE PutFails \/ Crash
  <2>1. put' \in [phase : {"idle", "locked", "installed"}, ref : Refs, digest : Digests]
    BY <1>5, Choices DEF PutFails, Crash, NoPut, TypeOK
  <2>2. spent' \in [purges : 0..MaxPurges, backups : 0..MaxBackups, trouble : 0..MaxTrouble]
    BY <1>5 DEF PutFails, Crash, Trouble, TypeOK, Settings
  <2>3. lock' \in [Digests -> Actors \cup {Nobody, "put"}]
    BY <1>5 DEF PutFails, Crash, TypeOK
  <2>4. run' \in RunType
    BY <1>5, RunTypes DEF PutFails, Crash
  <2>5. /\ purge' \in [phase : {"idle", "prepared", "deleting"}, digest : Digests]
        /\ del' \in [Actors -> [phase : {"none", "checked", "removed"}, digest : Digests]]
    BY <1>5, RunTypes DEF PutFails, Crash, TypeOK
  <2>6. ref' \in [Refs -> Reference]
    <3>1. CASE PutFails
      BY <3>1 DEF PutFails, TypeOK
    <3>2. CASE Crash
      BY <3>2, CrashRefs DEF Fades, Settings
    <3> QED
      BY <1>5, <3>1, <3>2
  <2>7. UNCHANGED <<file, row, mark, tomb, backup>>
    BY <1>5 DEF PutFails, Crash
  <2> QED
    BY <2>1, <2>2, <2>3, <2>4, <2>5, <2>6, <2>7 DEF TypeOK, RunType
<1> QED
  BY <1>1, <1>2, <1>3, <1>4, <1>5

LEMMA StepTypes == ASSUME Settings, TypeOK, [Next]_vars PROVE TypeOK'
<1>1. CASE Next
  BY <1>1, RequestTypes, DeletionTypes, CleanupTypes, OtherTypes DEF Next, Purge, Failures, Actors
<1>2. CASE UNCHANGED vars
  BY <1>2 DEF vars, TypeOK
<1> QED
  BY <1>1, <1>2

\* Every variable keeps its type, for any contents, references and settings: a mark
\* is never older than CleanupDelay and a run never longer than RunTime.
THEOREM TypeCorrect == ASSUME Settings PROVE Spec => []TypeOK
<1>1. Init => TypeOK
  BY InitTypes
<1>2. TypeOK /\ [Next]_vars => TypeOK'
  BY StepTypes
<1> QED
  BY <1>1, <1>2, PTL DEF Spec

-----------------------------------------------------------------------------
(* The inductive invariant.                                                  *)

\* Counted as long as it is there, or about to be (stored).
Sound(r) == Protected(r) /\ ref[r].valid /\ ref[r].state # "staged"

NothingSoundOn(d) == \A r \in Refs : Sound(r) => ref[r].digest # d

PutInOrder ==
    /\ put.phase # "idle" => put.digest \notin tomb
    /\ put.phase = "installed" => put.digest \in file

RefInOrder(r) ==
    /\ ref[r].state = "none" => ~ ref[r].valid
    /\ ref[r].valid => ref[r].digest \in row
    /\ Protected(r) /\ ref[r].state \in {"held", "deleted"} => ref[r].valid
    /\ ref[r].state \in {"unused", "chosen"} => ref[r].kind = "post"
    /\ ref[r].state = "stored" => ref[r].kind = "work" /\ ref[r].left <= RequestTime

\* A mark younger than the request that stored the content again.
Fresh(r) ==
    ref[r].state = "stored" /\ ref[r].valid /\ mark[ref[r].digest] # Unmarked
        => mark[ref[r].digest] > ref[r].left

RunInOrder ==
    /\ \A d \in run.ripe : mark[d] \in {0, Unmarked}
    /\ run.phase = "purges" => run.todo \subseteq tomb
    /\ run.phase \in {"sweep", "prepared"} => run.todo \subseteq run.ripe
    /\ run.phase = "prepared" /\ mark[run.candidate] # Unmarked
          => NothingSoundOn(run.candidate)

DeletionInOrder(a) ==
    del[a].phase # "none" => del[a].digest \in tomb \/ NothingSoundOn(del[a].digest)

PurgeInOrder == purge.phase # "idle" => purge.digest \in tomb

SoundHaveBytes == \A r \in Refs : Sound(r) => ref[r].digest \in tomb \cup file

Copied ==
    backup.phase = "copying"
        => backup.counted \subseteq backup.copied \cup tomb \cup (backup.todo \cap file)

IInv ==
    /\ TypeOK
    /\ OneWriterPerDigest
    /\ PutInOrder
    /\ \A r \in Refs : RefInOrder(r)
    /\ \A r \in Refs : Fresh(r)
    /\ RunInOrder
    /\ \A a \in Actors : DeletionInOrder(a)
    /\ PurgeInOrder
    /\ SoundHaveBytes
    /\ Copied

-----------------------------------------------------------------------------
(* The steps, by what they change.                                           *)

RefStep ==
    \E r \in Refs :
        \/ Drop(r) \/ DeleteWork(r) \/ RestoreWork(r) \/ FinishUpload(r)
        \/ StageUpload(r) \/ AcceptStaged(r) \/ ChoosePicture(r)
        \/ UsePicture(r) \/ UnusePicture(r)
        \/ \E kind \in Kinds : Attach(r, kind)

RunStep ==
    \/ StartRun \/ ListPurges \/ ListCandidates \/ EndRun \/ RunFails
    \/ \E d \in Digests : OrphanVanished(d)

Begin ==
    DeleteCandidate \/ DeletePurged \/ \E d \in Digests : ResumePurge(d)

BackupStep == Backup \/ BackupLock \/ BackupFails

LEMMA StepCases ==
    ASSUME [Next]_vars
    PROVE  \/ RefStep \/ RunStep \/ Begin \/ BackupStep
           \/ PutInstall \/ PutCommit \/ PutFails
           \/ MarkUnreferenced \/ Tick \/ Crash \/ UNCHANGED vars
           \/ \E r \in Refs, d \in Digests : PutLock(r, d)
           \/ \E a \in Actors : RemoveBytes(a) \/ DropRow(a) \/ DeletionFails(a)
           \/ \E d \in Digests : \/ RecordOrphan(d) \/ SkipCandidate(d)
                                 \/ PrepareCandidate(d) \/ PreparePurge(d)
BY DEF Next, Request, PutGoesOn, Cleanup, Purge, Failures, Deletion, Actors,
       RefStep, RunStep, Begin, BackupStep

LEMMA RefStepEffect ==
    ASSUME RefStep
    PROVE  /\ UNCHANGED <<file, row, mark, tomb, lock, put, purge, del, backup>>
           /\ run' = run \/ \E r \in Refs : run' = [run EXCEPT !.expired = @ \ {r}]
BY DEF RefStep, Drop, DeleteWork, RestoreWork, FinishUpload, StageUpload, AcceptStaged,
       ChoosePicture, UsePicture, UnusePicture, Attach, OnlyRefs

LEMMA RunStepEffect ==
    ASSUME RunStep
    PROVE  UNCHANGED <<file, row, mark, tomb, lock, ref, put, purge, del, backup>>
BY DEF RunStep, StartRun, ListPurges, ListCandidates, EndRun, RunFails, OrphanVanished, Trouble

LEMMA BackupStepEffect ==
    ASSUME BackupStep
    PROVE  UNCHANGED <<file, row, mark, tomb, lock, ref, put, run, purge, del>>
BY DEF BackupStep, Backup, BackupDump, BackupRelease, BackupCopy, BackupLock, BackupFails

LEMMA BeginEffect ==
    ASSUME IInv, Begin
    PROVE  /\ UNCHANGED <<file, row, mark, tomb, ref, put, backup>>
           /\ \/ UNCHANGED <<lock, del>>
              \/ \E a \in Actors, d \in Digests :
                    /\ Free(d) /\ BeginDeletion(a, d)
                    /\ d \in tomb \/ NothingSoundOn(d)
<1>1. CASE DeleteCandidate
  <2>1. NothingSoundOn(run.candidate) /\ run.candidate \in Digests
    BY <1>1 DEF DeleteCandidate, Deletable, IInv, RunInOrder, TypeOK
  <2> QED
    BY <1>1, <2>1 DEF DeleteCandidate, Actors
<1>2. CASE DeletePurged
  BY <1>2 DEF DeletePurged, IInv, PurgeInOrder, TypeOK, Actors
<1>3. ASSUME NEW d \in Digests, ResumePurge(d)
      PROVE  /\ UNCHANGED <<file, row, mark, tomb, ref, put, backup>>
             /\ \/ UNCHANGED <<lock, del>>
                \/ Free(d) /\ BeginDeletion("cleanup", d) /\ d \in tomb
  BY <1>3 DEF ResumePurge, IInv, RunInOrder
<1> QED
  BY <1>1, <1>2, <1>3 DEF Begin, Actors

-----------------------------------------------------------------------------
(* References.                                                               *)

\* Every step treats each reference in one of these ways.
LEMMA RefCases ==
    ASSUME Settings, IInv, [Next]_vars
    PROVE  \/ RefStep
           \/ PutCommit
           \/ \E a \in Actors : DropRow(a)
           \/ row \subseteq row' /\ \A r \in Refs : Fades(r)
<1>0. TypeOK
  BY DEF IInv
<1> DEFINE Fade == row \subseteq row' /\ \A r \in Refs : Fades(r)
<1>1. ASSUME ref' = ref, row \subseteq row' PROVE Fade
  BY <1>0, <1>1, RefFields DEF Fades
<1>2. ASSUME NEW d \in Digests, PrepareCandidate(d) PROVE Fade
  BY <1>0, <1>2, PrepareRefs DEF PrepareCandidate
<1>3. ASSUME NEW d \in Digests, PreparePurge(d) PROVE Fade
  BY <1>0, <1>3, PurgeRefs DEF PreparePurge
<1>4. ASSUME Tick PROVE Fade
  BY <1>0, <1>4, TickRefs DEF Tick
<1>5. ASSUME Crash PROVE Fade
  BY <1>0, <1>5, CrashRefs DEF Crash
<1>6. ASSUME NEW a \in Actors, RemoveBytes(a) \/ DeletionFails(a) PROVE Fade
  BY <1>1, <1>6 DEF RemoveBytes, DeletionFails
<1>7. ASSUME NEW d \in Digests, RecordOrphan(d) \/ SkipCandidate(d) PROVE Fade
  BY <1>1, <1>7 DEF RecordOrphan, SkipCandidate
<1>8. ASSUME \/ PutInstall \/ PutFails \/ MarkUnreferenced \/ UNCHANGED vars
             \/ \E q \in Refs, d \in Digests : PutLock(q, d)
      PROVE  Fade
  BY <1>1, <1>8 DEF PutInstall, PutFails, MarkUnreferenced, PutLock, vars
<1>9. ASSUME RunStep \/ BackupStep \/ Begin PROVE Fade
  BY <1>1, <1>9, RunStepEffect, BackupStepEffect, BeginEffect
<1> HIDE DEF Fade
<1>10. RefStep \/ PutCommit \/ (\E a \in Actors : DropRow(a)) \/ Fade
  BY <1>2, <1>3, <1>4, <1>5, <1>6, <1>7, <1>8, <1>9, StepCases
<1> QED
  BY <1>10 DEF Fade

\* What a request does to a reference other than to store it.
LEMMA RequestRefs ==
    ASSUME Settings, TypeOK, RefStep, NEW r \in Refs, RefInOrder(r)
    PROVE  /\ RefInOrder(r)'
           /\ Sound(r)' => Sound(r) /\ ref'[r].digest = ref[r].digest
           /\ ref'[r].state = "stored" => ref'[r] = ref[r]
<1> USE DEF RefInOrder, Sound, Protected
<1> DEFINE Goal == /\ RefInOrder(r)'
                   /\ Sound(r)' => Sound(r) /\ ref'[r].digest = ref[r].digest
                   /\ ref'[r].state = "stored" => ref'[r] = ref[r]
<1>0. row' = row
  BY RefStepEffect
<1>1. ASSUME ref'[r] = ref[r] PROVE Goal
  BY <1>0, <1>1
<1>2. ASSUME Drop(r) PROVE Goal
  BY <1>0, <1>2, RefSteps DEF Becomes
<1>3. ASSUME DeleteWork(r) PROVE Goal
  BY <1>0, <1>3, RefSteps DEF Becomes, DeleteWork
<1>4. ASSUME RestoreWork(r) PROVE Goal
  BY <1>0, <1>4, RefSteps DEF Becomes, RestoreWork
<1>5. ASSUME FinishUpload(r) PROVE Goal
  BY <1>0, <1>5, RefSteps DEF Becomes, FinishUpload
<1>6. ASSUME StageUpload(r) PROVE Goal
  BY <1>0, <1>6, RefSteps DEF Becomes, StageUpload
<1>7. ASSUME AcceptStaged(r) PROVE Goal
  <2>1. ref[r].valid /\ Becomes(r, "held", "reviewed", ref[r].valid, ref[r].left)
    BY <1>7, RefSteps DEF AcceptStaged
  <2> QED
    BY <1>0, <2>1 DEF Becomes
<1>8. ASSUME ChoosePicture(r) PROVE Goal
  BY <1>0, <1>8, RefSteps DEF Becomes, ChoosePicture
<1>9. ASSUME UsePicture(r) PROVE Goal
  BY <1>0, <1>9, RefSteps DEF Becomes, UsePicture
<1>10. ASSUME UnusePicture(r) PROVE Goal
  BY <1>0, <1>10, RefSteps DEF Becomes, UnusePicture
<1>11. ASSUME NEW kind \in Kinds, Attach(r, kind) PROVE Goal
  <2>1. /\ ref[r].state = "stored" /\ ref[r].valid
        /\ Becomes(r, IF kind = "post" THEN "unused" ELSE "held", kind, ref[r].valid, 0)
    BY <1>11, RefSteps DEF Attach
  <2> QED
    BY <1>0, <2>1 DEF Becomes
<1>12. PICK q \in Refs :
          \/ Drop(q) \/ DeleteWork(q) \/ RestoreWork(q) \/ FinishUpload(q)
          \/ StageUpload(q) \/ AcceptStaged(q) \/ ChoosePicture(q)
          \/ UsePicture(q) \/ UnusePicture(q)
          \/ \E kind \in Kinds : Attach(q, kind)
  BY DEF RefStep
<1>13. q # r => ref'[r] = ref[r]
  BY <1>12, RefSteps DEF Becomes
<1> HIDE DEF Goal
<1>14. Goal
  BY <1>1, <1>2, <1>3, <1>4, <1>5, <1>6, <1>7, <1>8, <1>9, <1>10, <1>11, <1>12, <1>13
<1> QED
  BY <1>14 DEF Goal

LEMMA RefsStayInOrder ==
    ASSUME Settings, IInv, [Next]_vars, NEW r \in Refs
    PROVE  RefInOrder(r)'
<1>0. RefInOrder(r) /\ TypeOK
  BY DEF IInv
<1>1. CASE RefStep
  BY <1>0, <1>1, RequestRefs
<1>2. CASE PutCommit
  BY <1>0, <1>2, RefFields DEF PutCommit, TypeOK, Settings, RefInOrder, Protected
<1>3. ASSUME NEW a \in Actors, DropRow(a) PROVE RefInOrder(r)'
  <2>1. ref[r].valid /\ ref[r].state \notin {"none", "stored"} => Names(r, ref[r].digest)
    BY DEF Names
  <2> QED
    BY <1>0, <1>3, <2>1, DropRowRefs DEF RefInOrder, Protected
<1>4. CASE row \subseteq row' /\ Fades(r)
  BY <1>0, <1>4, RefFields DEF Fades, RefInOrder, Protected, Less, Settings
<1> QED
  BY <1>1, <1>2, <1>3, <1>4, RefCases

\* Only a request that ends its Put makes a sound reference, to what it put.
LEMMA NewSound ==
    ASSUME Settings, IInv, [Next]_vars, NEW r \in Refs, Sound(r)'
    PROVE  \/ Sound(r) /\ ref'[r].digest = ref[r].digest
           \/ PutCommit /\ r = put.ref /\ ref'[r].digest = put.digest
<1>0. RefInOrder(r) /\ TypeOK
  BY DEF IInv
<1>1. CASE RefStep
  BY <1>0, <1>1, RequestRefs
<1>2. CASE PutCommit
  BY <1>0, <1>2, RefFields DEF PutCommit, TypeOK, Sound, Protected
<1>3. ASSUME NEW a \in Actors, DropRow(a)
      PROVE  Sound(r) /\ ref'[r].digest = ref[r].digest
  BY <1>0, <1>3, DropRowRefs DEF Sound, Protected
<1>4. CASE Fades(r)
  BY <1>0, <1>4 DEF Fades, Sound, Protected, RefInOrder
<1> QED
  BY <1>1, <1>2, <1>3, <1>4, RefCases

LEMMA NothingSoundStays ==
    ASSUME Settings, IInv, [Next]_vars, NEW d \in Digests, NothingSoundOn(d),
           PutCommit => put.digest # d
    PROVE  NothingSoundOn(d)'
BY NewSound DEF NothingSoundOn

-----------------------------------------------------------------------------
(* Locks.                                                                    *)

LEMMA OneWriterStays ==
    ASSUME Settings, IInv, [Next]_vars PROVE OneWriterPerDigest'
<1> USE DEF OneWriterPerDigest
<1>0. OneWriterPerDigest /\ TypeOK
  BY DEF IInv
<1>1. CASE UNCHANGED <<lock, put, del>>
  BY <1>0, <1>1
<1>2. ASSUME NEW r \in Refs, NEW d \in Digests, PutLock(r, d) PROVE OneWriterPerDigest'
  BY <1>0, <1>2 DEF PutLock, Free, TypeOK, Actors, Nobody
<1>3. CASE PutInstall
  BY <1>0, <1>3 DEF PutInstall, TypeOK
<1>4. CASE PutCommit \/ PutFails
  BY <1>0, <1>4 DEF PutCommit, PutFails, NoPut, TypeOK, Actors, Nobody
<1>5. ASSUME NEW a \in Actors, RemoveBytes(a) PROVE OneWriterPerDigest'
  BY <1>0, <1>5 DEF RemoveBytes, TypeOK, Actors
<1>6. ASSUME NEW a \in Actors, DropRow(a) \/ DeletionFails(a) PROVE OneWriterPerDigest'
  <2>1. /\ del[a].phase # "none" /\ put' = put
        /\ EndDeletion(a, del[a].digest)
    BY <1>6 DEF DropRow, DeletionFails
  <2> QED
    BY <1>0, <2>1 DEF EndDeletion, TypeOK, Actors, Nobody
<1>7. CASE Begin
  <2>1. ASSUME NEW a \in Actors, NEW d \in Digests, Free(d), BeginDeletion(a, d), put' = put
        PROVE  OneWriterPerDigest'
    BY <1>0, <2>1 DEF Free, BeginDeletion, TypeOK, Actors, Nobody
  <2> QED
    BY <1>1, <1>7, <2>1, BeginEffect
<1>8. CASE Crash
  BY <1>0, <1>8 DEF Crash, NoPut, TypeOK
<1>9. ASSUME NEW d \in Digests,
             RecordOrphan(d) \/ SkipCandidate(d) \/ PrepareCandidate(d) \/ PreparePurge(d)
      PROVE  OneWriterPerDigest'
  BY <1>1, <1>9 DEF RecordOrphan, SkipCandidate, PrepareCandidate, PreparePurge
<1>10. CASE MarkUnreferenced \/ Tick \/ UNCHANGED vars
  BY <1>1, <1>10 DEF MarkUnreferenced, Tick, vars
<1> QED
  BY <1>1, <1>2, <1>3, <1>4, <1>5, <1>6, <1>7, <1>8, <1>9, <1>10, StepCases,
     RefStepEffect, RunStepEffect, BackupStepEffect

\* A digest under some transaction's lock is not free, and no other's.
LEMMA Exclusive ==
    ASSUME IInv
    PROVE  /\ put.phase # "idle" => ~ Free(put.digest)
           /\ \A a \in Actors :
                 del[a].phase # "none" /\ put.phase # "idle" => del[a].digest # put.digest
BY DEF IInv, OneWriterPerDigest, Free, Actors, Nobody

LEMMA PutStaysInOrder ==
    ASSUME Settings, IInv, [Next]_vars PROVE PutInOrder'
<1> USE DEF PutInOrder
<1>0. PutInOrder /\ TypeOK
  BY DEF IInv
<1>1. CASE UNCHANGED <<file, tomb, put>>
  BY <1>0, <1>1
<1>2. ASSUME NEW r \in Refs, NEW d \in Digests, PutLock(r, d) PROVE PutInOrder'
  BY <1>2 DEF PutLock
<1>3. CASE PutInstall
  BY <1>0, <1>3 DEF PutInstall, TypeOK
<1>4. CASE PutCommit \/ PutFails \/ Crash
  BY <1>4 DEF PutCommit, PutFails, Crash, NoPut
<1>5. ASSUME NEW a \in Actors, RemoveBytes(a) PROVE PutInOrder'
  BY <1>0, <1>5, Exclusive DEF RemoveBytes
<1>6. ASSUME NEW d \in Digests, RecordOrphan(d) \/ PreparePurge(d) PROVE PutInOrder'
  BY <1>0, <1>6, Exclusive DEF RecordOrphan, PreparePurge
<1>7. ASSUME NEW a \in Actors, DropRow(a) \/ DeletionFails(a) PROVE PutInOrder'
  BY <1>1, <1>7 DEF DropRow, DeletionFails
<1>8. ASSUME NEW d \in Digests, SkipCandidate(d) \/ PrepareCandidate(d) PROVE PutInOrder'
  BY <1>1, <1>8 DEF SkipCandidate, PrepareCandidate
<1>9. CASE MarkUnreferenced \/ Tick \/ UNCHANGED vars
  BY <1>1, <1>9 DEF MarkUnreferenced, Tick, vars
<1> QED
  BY <1>1, <1>2, <1>3, <1>4, <1>5, <1>6, <1>7, <1>8, <1>9, StepCases,
     RefStepEffect, RunStepEffect, BackupStepEffect, BeginEffect

LEMMA TombGrows == ASSUME [Next]_vars PROVE tomb \subseteq tomb'
<1>1. CASE PutInstall \/ PutCommit \/ PutFails \/ MarkUnreferenced \/ Tick \/ Crash
           \/ UNCHANGED vars \/ Begin
  BY <1>1 DEF PutInstall, PutCommit, PutFails, MarkUnreferenced, Tick, Crash, vars,
              Begin, DeleteCandidate, DeletePurged, ResumePurge
<1>2. ASSUME NEW a \in Actors, RemoveBytes(a) \/ DropRow(a) \/ DeletionFails(a)
      PROVE  tomb \subseteq tomb'
  BY <1>2 DEF RemoveBytes, DropRow, DeletionFails
<1>3. ASSUME NEW d \in Digests, NEW r \in Refs,
             RecordOrphan(d) \/ SkipCandidate(d) \/ PrepareCandidate(d) \/ PreparePurge(d)
             \/ PutLock(r, d)
      PROVE  tomb \subseteq tomb'
  BY <1>3 DEF RecordOrphan, SkipCandidate, PrepareCandidate, PreparePurge, PutLock
<1>4. ASSUME NEW d \in Digests,
             RecordOrphan(d) \/ SkipCandidate(d) \/ PrepareCandidate(d) \/ PreparePurge(d)
      PROVE  tomb \subseteq tomb'
  BY <1>4 DEF RecordOrphan, SkipCandidate, PrepareCandidate, PreparePurge
<1> QED
  BY <1>1, <1>2, <1>3, <1>4, StepCases, RefStepEffect, RunStepEffect, BackupStepEffect

LEMMA PurgeStaysInOrder ==
    ASSUME Settings, IInv, [Next]_vars PROVE PurgeInOrder'
<1> USE DEF PurgeInOrder
<1>0. PurgeInOrder /\ tomb \subseteq tomb' /\ TypeOK
  BY TombGrows DEF IInv
<1>1. CASE purge' = purge \/ purge' = [purge EXCEPT !.phase = "idle"]
  BY <1>0, <1>1 DEF TypeOK
<1>2. CASE Begin
  BY <1>0, <1>2 DEF Begin, DeleteCandidate, DeletePurged, ResumePurge, TypeOK
<1>3. ASSUME NEW d \in Digests, PreparePurge(d) PROVE PurgeInOrder'
  BY <1>3 DEF PreparePurge
<1>4. ASSUME NEW a \in Actors, RemoveBytes(a) \/ DropRow(a) \/ DeletionFails(a)
      PROVE  PurgeInOrder'
  BY <1>1, <1>4 DEF RemoveBytes, DropRow, DeletionFails, Finish
<1>5. ASSUME NEW d \in Digests, RecordOrphan(d) \/ SkipCandidate(d) \/ PrepareCandidate(d)
      PROVE  PurgeInOrder'
  BY <1>1, <1>5 DEF RecordOrphan, SkipCandidate, PrepareCandidate
<1>6. CASE \/ PutInstall \/ PutCommit \/ PutFails \/ MarkUnreferenced \/ Tick \/ Crash
           \/ UNCHANGED vars \/ \E r \in Refs, d \in Digests : PutLock(r, d)
  BY <1>1, <1>6 DEF PutInstall, PutCommit, PutFails, MarkUnreferenced, Tick, Crash, vars,
                    PutLock
<1> QED
  BY <1>1, <1>2, <1>3, <1>4, <1>5, <1>6, StepCases, RefStepEffect, RunStepEffect,
     BackupStepEffect

-----------------------------------------------------------------------------
(* Marks, runs and deletions.                                                *)

\* A mark counts down with the clock, is set by a run and cleared otherwise.
LEMMA MarkEffect ==
    ASSUME Settings, TypeOK, [Next]_vars, NEW d \in Digests
    PROVE  \/ mark'[d] = mark[d]
           \/ Tick /\ mark'[d] = Less(mark[d])
           \/ mark'[d] = Unmarked
           \/ MarkUnreferenced /\ d \notin run'.ripe /\ mark'[d] > RequestTime
<1>0. mark \in [Digests -> {Unmarked} \cup 0..CleanupDelay]
  BY DEF TypeOK
<1>1. CASE Tick
  BY <1>1 DEF Tick
<1>2. CASE mark' = mark
  BY <1>1, <1>2
<1>3. CASE PutCommit
  BY <1>0, <1>1, <1>3 DEF PutCommit
<1>4. ASSUME NEW a \in Actors, DropRow(a)
      PROVE  mark'[d] = mark[d] \/ mark'[d] = Unmarked
  BY <1>0, <1>4 DEF DropRow
<1>5. ASSUME NEW e \in Digests, SkipCandidate(e)
      PROVE  mark'[d] = mark[d] \/ mark'[d] = Unmarked
  BY <1>0, <1>5 DEF SkipCandidate, Skipped, Unmark
<1>6. CASE MarkUnreferenced
  <2>1. CleanupDelay - run.time > RequestTime
    BY DEF TypeOK, Settings
  <2> QED
    BY <1>0, <1>1, <1>6, <2>1 DEF MarkUnreferenced, TypeOK
<1>7. ASSUME NEW e \in Digests, RecordOrphan(e) \/ PrepareCandidate(e) \/ PreparePurge(e)
      PROVE  mark' = mark
  BY <1>7 DEF RecordOrphan, PrepareCandidate, PreparePurge
<1>8. ASSUME NEW a \in Actors, RemoveBytes(a) \/ DeletionFails(a) PROVE mark' = mark
  BY <1>8 DEF RemoveBytes, DeletionFails
<1>9. ASSUME \/ PutInstall \/ PutFails \/ Crash \/ UNCHANGED vars \/ Begin
             \/ \E r \in Refs, e \in Digests : PutLock(r, e)
      PROVE  mark' = mark
  BY <1>9 DEF PutInstall, PutFails, Crash, vars, PutLock, Begin, DeleteCandidate,
              DeletePurged, ResumePurge
<1> QED
  BY <1>1, <1>2, <1>3, <1>4, <1>5, <1>6, <1>7, <1>8, <1>9, StepCases,
     RefStepEffect, RunStepEffect, BackupStepEffect

\* A stored reference is new, with its digest unmarked, or it waits as before.
LEMMA StoredEffect ==
    ASSUME Settings, IInv, [Next]_vars, NEW r \in Refs,
           ref'[r].state = "stored", ref'[r].valid
    PROVE  \/ mark'[ref'[r].digest] = Unmarked
           \/ /\ ref[r].state = "stored" /\ ref[r].valid /\ ref'[r].digest = ref[r].digest
              /\ ref'[r].left <= ref[r].left
              /\ Tick => ref[r].left > 0 /\ ref'[r].left = ref[r].left - 1
<1>0. RefInOrder(r) /\ TypeOK /\ ref[r].left \in Nat
  BY RefFields DEF IInv
<1>1. Tick => /\ ref'[r].left = Less(ref[r].left)
              /\ ref[r].state = "stored" => ref[r].left > 0
  BY <1>0, TickRefs DEF Tick
<1>2. CASE PutCommit
  <2>1. /\ mark \in [Digests -> {Unmarked} \cup 0..CleanupDelay]
        /\ put.digest \in Digests /\ put.ref \in Refs
    BY <1>0 DEF TypeOK
  <2>2. mark'[put.digest] = Unmarked /\ mark' = [mark EXCEPT ![put.digest] = Unmarked]
    BY <1>2, <2>1 DEF PutCommit
  <2>3. r # put.ref => ref'[r] = ref[r]
    BY <1>0, <1>2, RefFields DEF PutCommit
  <2>4. r = put.ref => ref'[r].digest = put.digest
    BY <1>0, <1>2, RefFields DEF PutCommit
  <2>5. ~ Tick
    BY <1>2, <2>1 DEF PutCommit, Tick, NoPut
  <2> QED
    BY <1>0, <2>2, <2>3, <2>4, <2>5
<1>3. /\ ref[r].state = "stored" /\ ref[r].valid /\ ref'[r].digest = ref[r].digest
      /\ ref'[r].left <= ref[r].left
      \/ PutCommit
  <2>1. CASE RefStep
    BY <1>0, <2>1, RequestRefs
  <2>2. ASSUME NEW a \in Actors, DropRow(a)
        PROVE  /\ ref[r].state = "stored" /\ ref[r].valid /\ ref'[r].digest = ref[r].digest
               /\ ref'[r].left <= ref[r].left
    BY <1>0, <2>2, DropRowRefs
  <2>3. CASE Fades(r)
    BY <1>0, <2>3 DEF Fades, Less
  <2> QED
    BY <2>1, <2>2, <2>3, RefCases
<1> QED
  BY <1>0, <1>1, <1>2, <1>3 DEF Less

LEMMA FreshStays ==
    ASSUME Settings, IInv, [Next]_vars, NEW r \in Refs PROVE Fresh(r)'
<1>1. SUFFICES ASSUME ref'[r].state = "stored", ref'[r].valid,
                      mark'[ref'[r].digest] # Unmarked
               PROVE  mark'[ref'[r].digest] > ref'[r].left
  BY DEF Fresh
<1>2. /\ ref[r].state = "stored" /\ ref[r].valid /\ ref'[r].digest = ref[r].digest
      /\ ref'[r].left <= ref[r].left
      /\ Tick => ref[r].left > 0 /\ ref'[r].left = ref[r].left - 1
  BY <1>1, StoredEffect
<1>3. /\ ref[r].digest \in Digests /\ ref[r].left \in Nat /\ ref[r].left <= RequestTime
      /\ mark[ref[r].digest] \in {Unmarked} \cup 0..CleanupDelay
      /\ RequestTime \in Nat /\ CleanupDelay \in Nat
  BY <1>2, RefFields DEF IInv, TypeOK, RefInOrder, Settings
<1>4. ref'[r].left \in Nat
  BY StepTypes DEF IInv, TypeOK, Reference
<1>5. mark[ref[r].digest] # Unmarked => mark[ref[r].digest] > ref[r].left
  BY <1>2 DEF IInv, Fresh
<1>6. \/ mark'[ref[r].digest] = mark[ref[r].digest]
      \/ Tick /\ mark'[ref[r].digest] = Less(mark[ref[r].digest])
      \/ mark'[ref[r].digest] > RequestTime
  BY <1>1, <1>2, <1>3, MarkEffect DEF IInv
<1> DEFINE m == mark[ref[r].digest]
           l == ref[r].left
<1>7. CASE mark'[ref[r].digest] = m
  BY <1>1, <1>2, <1>3, <1>4, <1>5, <1>7
<1>8. CASE Tick /\ mark'[ref[r].digest] = Less(m)
  BY <1>1, <1>2, <1>3, <1>4, <1>5, <1>8 DEF Less, Unmarked
<1>9. CASE mark'[ref[r].digest] > RequestTime
  <2>1. mark'[ref[r].digest] \in Int
    BY StepTypes, <1>3 DEF IInv, TypeOK, Unmarked
  <2> QED
    BY <1>1, <1>2, <1>3, <1>4, <1>9, <2>1
<1> QED
  BY <1>6, <1>7, <1>8, <1>9

\* What no request can have stored again since the run began.
LEMMA RipeIsOld ==
    ASSUME IInv, NEW d \in run.ripe, mark[d] # Unmarked,
           NEW r \in Refs, ref[r].state = "stored", ref[r].valid
    PROVE  ref[r].digest # d
<1>1. mark[d] = 0 /\ ref[r].left \in Nat
  BY DEF IInv, RunInOrder, TypeOK, Reference
<1> QED
  BY <1>1 DEF IInv, Fresh

LEMMA PreparedIsFree ==
    ASSUME Settings, IInv, NEW d \in Digests, PrepareCandidate(d)
    PROVE  NothingSoundOn(d)'
<1>1. /\ d \in run.ripe /\ mark[d] # Unmarked /\ ~ CountedOn(d)
      /\ ref' = [r \in Refs |-> Released(r, d)]
  BY DEF PrepareCandidate, Deletable, IInv, RunInOrder
<1>2. SUFFICES ASSUME NEW r \in Refs, Sound(r)', ref'[r].digest = d PROVE FALSE
  BY DEF NothingSoundOn
<1>3. ref \in [Refs -> Reference] /\ RefInOrder(r) /\ ~ Counted(r, d)
  BY <1>1 DEF IInv, TypeOK, CountedOn
<1>4. ref'[r] = Released(r, d)
  BY <1>1
<1>5. Names(r, d) => ref[r].state \notin {"stored", "none", "held"}
  BY <1>3 DEF Names, Counted
<1>6. ~ Names(r, d) => ref[r].state \in {"stored", "none"}
  BY <1>2, <1>4 DEF Released, Names, Sound
<1>7. CASE ~ Names(r, d)
  BY <1>1, <1>2, <1>3, <1>4, <1>6, <1>7, RipeIsOld DEF Released, Sound, RefInOrder
<1>8. CASE Names(r, d)
  BY <1>2, <1>3, <1>4, <1>5, <1>8
     DEF Released, Gone, Sound, Protected, RefInOrder, Reference, RefState
<1> QED
  BY <1>7, <1>8

\* Most steps leave a run in its phase, or return it to its sweep, with less to do.
RunGoesOn ==
    /\ run'.phase = run.phase \/ (run.phase = "prepared" /\ run'.phase = "sweep")
    /\ run'.todo \subseteq run.todo
    /\ run'.ripe = run.ripe
    /\ run'.candidate = run.candidate

LEMMA RunEffect ==
    ASSUME Settings, TypeOK, [Next]_vars
    PROVE  \/ RunGoesOn
           \/ run'.phase = "idle" /\ run'.ripe = {}
           \/ StartRun \/ ListPurges \/ MarkUnreferenced \/ ListCandidates
           \/ \E d \in Digests : PrepareCandidate(d)
<1> USE DEF RunGoesOn
<1>0. run \in [phase : {"idle", "orphans", "purges", "candidates", "sweep", "prepared"},
               todo : SUBSET Digests, ripe : SUBSET Digests, expired : SUBSET Refs,
               time : 0..RunTime, candidate : Digests]
  BY DEF TypeOK
<1>1. CASE run' = run
  BY <1>1
<1>2. CASE run' = NoRun
  BY <1>2 DEF NoRun
<1>3. CASE RefStep \/ Tick
  BY <1>0, <1>1, <1>3, RefStepEffect DEF Tick
<1>4. CASE RunStep
  BY <1>0, <1>2, <1>4 DEF RunStep, EndRun, RunFails, OrphanVanished
<1>5. CASE Begin
  BY <1>0, <1>5 DEF Begin, DeleteCandidate, DeletePurged, ResumePurge
<1>6. ASSUME NEW a \in Actors, DropRow(a) \/ DeletionFails(a)
      PROVE  RunGoesOn \/ run' = NoRun
  BY <1>0, <1>6 DEF DropRow, DeletionFails, Finish
<1>7. ASSUME NEW a \in Actors, RemoveBytes(a) PROVE run' = run
  BY <1>7 DEF RemoveBytes
<1>8. ASSUME NEW d \in Digests, RecordOrphan(d) \/ PreparePurge(d) PROVE RunGoesOn
  BY <1>0, <1>8 DEF RecordOrphan, PreparePurge
<1>9. ASSUME NEW d \in Digests, SkipCandidate(d) PROVE RunGoesOn
  BY <1>0, <1>9 DEF SkipCandidate
<1>10. ASSUME NEW d \in Digests, NEW r \in Refs, PutLock(r, d) PROVE run' = run
  BY <1>10 DEF PutLock
<1>11. CASE PutInstall \/ PutCommit \/ PutFails \/ Crash \/ UNCHANGED vars
  BY <1>1, <1>2, <1>11 DEF PutInstall, PutCommit, PutFails, Crash, vars
<1> QED
  BY <1>1, <1>2, <1>3, <1>4, <1>5, <1>6, <1>7, <1>8, <1>9, <1>10, <1>11, StepCases,
     BackupStepEffect

\* The steps that give a run something else to do.
LEMMA RunStarts ==
    ASSUME TypeOK
    PROVE  /\ StartRun => /\ run'.phase = "orphans"
                          /\ \A d \in run'.ripe : mark[d] = 0 /\ mark' = mark
           /\ ListPurges => /\ run'.phase = "purges" /\ run'.ripe = run.ripe
                            /\ run'.todo \subseteq tomb /\ tomb' = tomb
           /\ MarkUnreferenced =>
                 /\ run'.phase = "candidates" /\ run'.ripe \subseteq run.ripe
                 /\ \A d \in run'.ripe \cap Digests : mark'[d] = mark[d]
           /\ ListCandidates => /\ run'.phase = "sweep" /\ run'.ripe = run.ripe
                                /\ run'.todo \subseteq run.ripe
           /\ \A d \in Digests :
                 PrepareCandidate(d) =>
                    /\ run.phase = "sweep" /\ run'.phase = "prepared"
                    /\ run'.todo = run.todo /\ run'.ripe = run.ripe
                    /\ run'.candidate = d
<1>0. /\ run \in RunType
      /\ mark \in [Digests -> {Unmarked} \cup 0..CleanupDelay]
  BY DEF TypeOK, RunType
<1>1. StartRun => /\ run'.phase = "orphans"
                  /\ \A d \in run'.ripe : mark[d] = 0 /\ mark' = mark
  BY DEF StartRun
<1>2. ListPurges => /\ run'.phase = "purges" /\ run'.ripe = run.ripe
                    /\ run'.todo \subseteq tomb /\ tomb' = tomb
  BY <1>0 DEF ListPurges, RunType
<1>3. ASSUME MarkUnreferenced
      PROVE  /\ run'.phase = "candidates" /\ run'.ripe \subseteq run.ripe
             /\ \A d \in run'.ripe \cap Digests : mark'[d] = mark[d]
  <2> DEFINE new == {d \in row : mark[d] = Unmarked /\ ~ CountedOn(d)}
  <2>1. /\ run' = [run EXCEPT !.phase = "candidates", !.ripe = @ \ new]
        /\ mark' = [d \in Digests |-> IF d \in new THEN CleanupDelay - run.time
                                                      ELSE mark[d]]
    BY <1>3 DEF MarkUnreferenced
  <2> HIDE DEF new
  <2>2. run'.phase = "candidates" /\ run'.ripe = run.ripe \ new
    BY <1>0, <2>1 DEF RunType
  <2> QED
    BY <2>1, <2>2
<1>4. ListCandidates => /\ run'.phase = "sweep" /\ run'.ripe = run.ripe
                        /\ run'.todo \subseteq run.ripe
  BY <1>0 DEF ListCandidates, RunType
<1>5. ASSUME NEW d \in Digests, PrepareCandidate(d)
      PROVE  /\ run.phase = "sweep" /\ run'.phase = "prepared"
             /\ run'.todo = run.todo /\ run'.ripe = run.ripe
             /\ run'.candidate = d
  BY <1>0, <1>5 DEF PrepareCandidate, RunType
<1> QED
  BY <1>1, <1>2, <1>3, <1>4, <1>5

LEMMA RunStaysInOrder ==
    ASSUME Settings, IInv, [Next]_vars PROVE RunInOrder'
<1>0. /\ RunInOrder /\ TypeOK /\ tomb \subseteq tomb'
      /\ run.ripe \subseteq Digests /\ run.candidate \in Digests
      /\ mark \in [Digests -> {Unmarked} \cup 0..CleanupDelay]
  BY TombGrows DEF IInv, TypeOK
<1>1. ASSUME NEW d \in Digests, d \in run'.ripe PROVE mark'[d] \in {0, Unmarked}
  <2>1. d \in run.ripe => mark[d] \in {0, Unmarked}
    BY <1>0 DEF RunInOrder
  <2>2. d \in run.ripe \/ StartRun
    BY <1>0, <1>1, RunEffect, RunStarts DEF RunGoesOn
  <2>3. CASE StartRun
    BY <1>0, <1>1, <2>3, RunStarts
  <2>4. CASE MarkUnreferenced
    BY <1>0, <1>1, <2>1, <2>4, RunStarts
  <2>5. CASE d \in run.ripe /\ ~ MarkUnreferenced
    BY <2>1, <2>5, <1>0, MarkEffect DEF Less, Unmarked
  <2> QED
    BY <2>2, <2>3, <2>4, <2>5
<1>2. run'.ripe \subseteq Digests
  BY StepTypes, <1>0 DEF TypeOK
<1>3. run'.phase = "purges" => run'.todo \subseteq tomb'
  BY <1>0, RunEffect, RunStarts DEF RunGoesOn, RunInOrder
<1>4. run'.phase \in {"sweep", "prepared"} => run'.todo \subseteq run'.ripe
  BY <1>0, RunEffect, RunStarts DEF RunGoesOn, RunInOrder
<1>5. ASSUME run'.phase = "prepared", mark'[run'.candidate] # Unmarked
      PROVE  NothingSoundOn(run.candidate)'
  <2>1. CASE RunGoesOn
    <3>1. run.phase = "prepared" /\ run'.candidate = run.candidate
      BY <1>5, <2>1 DEF RunGoesOn
    <3>2. mark[run.candidate] # Unmarked
      BY <1>0, <1>5, <3>1, MarkEffect DEF MarkUnreferenced, Less, Unmarked
    <3>3. PutCommit => put.digest # run.candidate
      BY <1>0, <1>5, <3>1 DEF PutCommit
    <3>4. NothingSoundOn(run.candidate)
      BY <1>0, <3>1, <3>2 DEF RunInOrder
    <3>5. \A r \in Refs : Sound(r)' => ref'[r].digest # run.candidate
      BY <3>3, <3>4, NewSound DEF NothingSoundOn
    <3> QED
      BY <3>1, <3>5 DEF NothingSoundOn
  <2>2. ASSUME NEW d \in Digests, PrepareCandidate(d)
        PROVE  NothingSoundOn(run.candidate)'
    <3>1. run'.candidate = d
      BY <1>0, <2>2, RunStarts
    <3>2. \A r \in Refs : Sound(r)' => ref'[r].digest # d
      BY <2>2, PreparedIsFree DEF NothingSoundOn
    <3> QED
      BY <3>1, <3>2 DEF NothingSoundOn
  <2>3. ~ (StartRun \/ ListPurges \/ MarkUnreferenced \/ ListCandidates)
    BY <1>0, <1>5, RunStarts
  <2> QED
    BY <1>0, <1>5, <2>1, <2>2, <2>3, RunEffect
<1> QED
  BY <1>1, <1>2, <1>3, <1>4, <1>5 DEF RunInOrder

LEMMA DeletionStaysInOrder ==
    ASSUME Settings, IInv, [Next]_vars, NEW a \in Actors PROVE DeletionInOrder(a)'
<1> USE DEF DeletionInOrder
<1>0. /\ DeletionInOrder(a) /\ TypeOK /\ tomb \subseteq tomb'
      /\ del \in [Actors -> [phase : {"none", "checked", "removed"}, digest : Digests]]
  BY TombGrows DEF IInv, TypeOK
<1>1. ASSUME del'[a].phase # "none" => /\ del[a].phase # "none"
                                       /\ del'[a].digest = del[a].digest
      PROVE  DeletionInOrder(a)'
  <2>1. PutCommit /\ del[a].phase # "none" => put.digest # del[a].digest
    BY Exclusive DEF PutCommit
  <2>2. SUFFICES ASSUME del'[a].phase # "none", del[a].digest \notin tomb
                 PROVE  NothingSoundOn(del[a].digest)'
    BY <1>0, <1>1
  <2>3. \A r \in Refs : Sound(r)' => ref'[r].digest # del[a].digest
    BY <1>0, <1>1, <2>1, <2>2, NewSound DEF NothingSoundOn
  <2> QED
    BY <1>1, <2>2, <2>3 DEF NothingSoundOn
<1>2. CASE del' = del
  BY <1>1, <1>2
<1>3. CASE Begin
  <2>1. ASSUME NEW b \in Actors, NEW d \in Digests, BeginDeletion(b, d),
               d \in tomb \/ NothingSoundOn(d), UNCHANGED <<tomb, ref>>
        PROVE  DeletionInOrder(a)'
    <3>1. CASE a = b
      <4>1. del'[a].digest = d
        BY <1>0, <2>1, <3>1 DEF BeginDeletion
      <4>2. NothingSoundOn(d) => \A r \in Refs : Sound(r)' => ref'[r].digest # d
        BY <2>1 DEF NothingSoundOn, Sound, Protected
      <4> QED
        BY <2>1, <4>1, <4>2 DEF NothingSoundOn
    <3>2. CASE a # b
      BY <1>0, <1>1, <2>1, <3>2 DEF BeginDeletion
    <3> QED
      BY <3>1, <3>2
  <2> QED
    BY <1>2, <1>3, <2>1, BeginEffect
<1>4. ASSUME NEW b \in Actors, RemoveBytes(b) \/ DropRow(b) \/ DeletionFails(b)
      PROVE  del'[a].phase # "none" => /\ del[a].phase # "none"
                                       /\ del'[a].digest = del[a].digest
  <2>1. CASE RemoveBytes(b)
    BY <1>0, <2>1 DEF RemoveBytes
  <2>2. CASE DropRow(b) \/ DeletionFails(b)
    <3>1. EndDeletion(b, del[b].digest)
      BY <2>2 DEF DropRow, DeletionFails
    <3> QED
      BY <1>0, <3>1 DEF EndDeletion
  <2> QED
    BY <1>4, <2>1, <2>2
<1>5. CASE Crash
  BY <1>0, <1>5 DEF Crash
<1>6. ASSUME NEW d \in Digests,
             RecordOrphan(d) \/ SkipCandidate(d) \/ PrepareCandidate(d) \/ PreparePurge(d)
      PROVE  del' = del
  BY <1>6 DEF RecordOrphan, SkipCandidate, PrepareCandidate, PreparePurge
<1>7. ASSUME \/ PutInstall \/ PutCommit \/ PutFails \/ MarkUnreferenced \/ Tick
             \/ UNCHANGED vars \/ \E r \in Refs, d \in Digests : PutLock(r, d)
      PROVE  del' = del
  BY <1>7 DEF PutInstall, PutCommit, PutFails, MarkUnreferenced, Tick, PutLock, vars
<1> QED
  BY <1>1, <1>2, <1>3, <1>4, <1>5, <1>6, <1>7, StepCases,
     RefStepEffect, RunStepEffect, BackupStepEffect

-----------------------------------------------------------------------------
(* Bytes.                                                                    *)

\* What takes a file away: a deletion that found it free, or the walk over the
\* files when its digest is tombstoned.
LEMMA FileEffect ==
    ASSUME Settings, IInv, [Next]_vars, NEW d \in file, d \notin file'
    PROVE  backup.phase = "idle" /\ ~ PutCommit /\ (d \in tomb \/ NothingSoundOn(d))
<1>1. CASE file \subseteq file'
  BY <1>1
<1>2. ASSUME NEW a \in Actors, RemoveBytes(a)
      PROVE  /\ backup.phase = "idle" /\ file' = file \ {del[a].digest}
             /\ del[a].digest \in tomb \/ NothingSoundOn(del[a].digest)
  BY <1>2 DEF RemoveBytes, IInv, DeletionInOrder
<1>3. ASSUME NEW e \in Digests, RecordOrphan(e)
      PROVE  file \subseteq file' \/ (backup.phase = "idle" /\ file' = file \ {e} /\ e \in tomb)
  BY <1>3 DEF RecordOrphan
<1>4. ASSUME NEW a \in Actors, DropRow(a) \/ DeletionFails(a) PROVE file' = file
  BY <1>4 DEF DropRow, DeletionFails
<1>5. ASSUME NEW e \in Digests, SkipCandidate(e) \/ PrepareCandidate(e) \/ PreparePurge(e)
      PROVE  file' = file
  BY <1>5 DEF SkipCandidate, PrepareCandidate, PreparePurge
<1>6. ASSUME \/ PutInstall \/ PutFails \/ MarkUnreferenced \/ Tick \/ Crash
             \/ UNCHANGED vars \/ \E r \in Refs, e \in Digests : PutLock(r, e)
      PROVE  file \subseteq file'
  BY <1>6 DEF PutInstall, PutFails, MarkUnreferenced, Tick, Crash, PutLock, vars
<1>7. PutCommit => file' = file
  BY DEF PutCommit
<1> QED
  BY <1>1, <1>2, <1>3, <1>4, <1>5, <1>6, <1>7, StepCases,
     RefStepEffect, RunStepEffect, BackupStepEffect, BeginEffect

LEMMA SoundKeepBytes ==
    ASSUME Settings, IInv, [Next]_vars PROVE SoundHaveBytes'
<1>1. SUFFICES ASSUME NEW r \in Refs, Sound(r)' PROVE ref'[r].digest \in tomb' \cup file'
  BY DEF SoundHaveBytes
<1>2. tomb \subseteq tomb'
  BY TombGrows
<1>3. CASE Sound(r) /\ ref'[r].digest = ref[r].digest
  <2>1. ref[r].digest \in tomb \cup file
    BY <1>3 DEF IInv, SoundHaveBytes
  <2>2. ref[r].digest \in file \ file' => ref[r].digest \in tomb
    BY <1>3, FileEffect DEF NothingSoundOn
  <2> QED
    BY <1>2, <1>3, <2>1, <2>2
<1>4. CASE PutCommit /\ r = put.ref /\ ref'[r].digest = put.digest
  BY <1>4 DEF PutCommit, IInv, PutInOrder
<1> QED
  BY <1>1, <1>3, <1>4, NewSound

LEMMA CopiedStays ==
    ASSUME Settings, IInv, [Next]_vars PROVE Copied'
<1> USE DEF Copied
<1>0. Copied /\ TypeOK /\ tomb \subseteq tomb'
  BY TombGrows DEF IInv
<1>1. CASE backup' = backup
  BY <1>0, <1>1, FileEffect
<1>2. CASE BackupStep
  <2>0. UNCHANGED <<file, tomb>>
    BY <1>2, BackupStepEffect
  <2>1. CASE BackupDump
    <3>1. backup'.todo = Digests
          /\ backup'.counted = {d \in row : \E r \in Refs : /\ Names(r, d) /\ ref[r].state = "held"
                                                            /\ Protected(r)}
      BY <2>1 DEF BackupDump
    <3>2. ASSUME NEW d \in backup'.counted PROVE d \in tomb \cup file
      BY <3>1, <3>2 DEF Names, IInv, SoundHaveBytes, Sound
    <3> QED
      BY <1>0, <2>0, <3>1, <3>2 DEF TypeOK
  <2>2. ASSUME NEW d \in Digests, BackupCopy(d) PROVE Copied'
    <3>1. /\ backup'.phase = "copying" /\ backup'.counted = backup.counted
          /\ backup'.todo = backup.todo \ {d}
          /\ backup'.copied = backup.copied \cup ({d} \cap file)
      BY <1>0, <2>2 DEF BackupCopy, TypeOK
    <3> QED
      BY <1>0, <2>0, <2>2, <3>1 DEF BackupCopy
  <2>3. CASE BackupRelease \/ BackupLock \/ BackupFails
    BY <1>0, <2>3 DEF BackupRelease, BackupLock, BackupFails, NoBackup, TypeOK
  <2> QED
    BY <1>2, <2>1, <2>2, <2>3 DEF BackupStep, Backup
<1>3. ASSUME NEW a \in Actors, RemoveBytes(a) \/ DropRow(a) \/ DeletionFails(a)
      PROVE  backup' = backup
  BY <1>3 DEF RemoveBytes, DropRow, DeletionFails
<1>4. ASSUME NEW d \in Digests,
             RecordOrphan(d) \/ SkipCandidate(d) \/ PrepareCandidate(d) \/ PreparePurge(d)
      PROVE  backup' = backup
  BY <1>4 DEF RecordOrphan, SkipCandidate, PrepareCandidate, PreparePurge
<1>5. ASSUME \/ PutInstall \/ PutCommit \/ PutFails \/ MarkUnreferenced \/ Tick \/ Crash
             \/ UNCHANGED vars \/ \E r \in Refs, d \in Digests : PutLock(r, d)
      PROVE  backup' = backup
  BY <1>5 DEF PutInstall, PutCommit, PutFails, MarkUnreferenced, Tick, Crash, PutLock, vars
<1> QED
  BY <1>1, <1>2, <1>3, <1>4, <1>5, StepCases, RefStepEffect, RunStepEffect, BeginEffect

-----------------------------------------------------------------------------
(* The theorems.                                                             *)

LEMMA InitInv == ASSUME Settings, Init PROVE IInv
<1>1. TypeOK
  BY InitTypes
<1>2. PutInOrder /\ RunInOrder /\ PurgeInOrder /\ Copied /\ OneWriterPerDigest
  BY DEF Init, PutInOrder, RunInOrder, PurgeInOrder, Copied, OneWriterPerDigest, NoPut, NoRun,
         NoBackup
<1>3. ASSUME NEW r \in Refs PROVE RefInOrder(r) /\ Fresh(r) /\ ~ Sound(r)
  BY DEF Init, RefInOrder, Fresh, Sound
<1>4. ASSUME NEW a \in Actors PROVE DeletionInOrder(a)
  BY DEF Init, DeletionInOrder
<1> QED
  BY <1>1, <1>2, <1>3, <1>4 DEF IInv, SoundHaveBytes

LEMMA StepInv == ASSUME Settings, IInv, [Next]_vars PROVE IInv'
<1>1. TypeOK'
  BY StepTypes DEF IInv
<1> QED
  BY <1>1, OneWriterStays, PutStaysInOrder, RefsStayInOrder, FreshStays, RunStaysInOrder,
     DeletionStaysInOrder, PurgeStaysInOrder, SoundKeepBytes, CopiedStays DEF IInv

\* The invariant holds of every behaviour of the store.
THEOREM Inductive == ASSUME Settings PROVE Spec => []IInv
<1>1. Init => IInv
  BY InitInv
<1>2. IInv /\ [Next]_vars => IInv'
  BY StepInv
<1> QED
  BY <1>1, <1>2, PTL DEF Spec

\* The bytes of a digest are written and deleted by one transaction at a time
\* (LockBlobDigest).
THEOREM OneWriter == ASSUME Settings PROVE Spec => []OneWriterPerDigest
<1>1. IInv => OneWriterPerDigest
  BY DEF IInv
<1> QED
  BY <1>1, Inductive, PTL

\* Cleanups, requests, backups and restarts, in any order, take no bytes from what
\* a page shows, an upload has still to read or a deleted work could bring back
\* (Cleanup, deleteMarkedBlob).
THEOREM LiveHaveBytes == ASSUME Settings PROVE Spec => []LiveReferencesHaveBytes
<1>1. IInv => LiveReferencesHaveBytes
  BY DEF IInv, LiveReferencesHaveBytes, RefInOrder, SoundHaveBytes, Sound
<1> QED
  BY <1>1, Inductive, PTL

\* A backup that is done has the bytes of everything its dump counts on
\* (takeBackup).
THEOREM BackupWhole == ASSUME Settings PROVE Spec => []BackupIsWhole
<1>1. IInv => BackupIsWhole
  BY DEF IInv, BackupIsWhole, Copied
<1> QED
  BY <1>1, Inductive, PTL

\* A purged digest stays away, file and row (Put, RecordOrphans).
THEOREM PurgedForGood == ASSUME Settings PROVE Spec => PurgedStaysPurged
<1> DEFINE Stays == \A d \in tomb : (d \notin file => d \notin file')
                                    /\ (d \notin row => d \notin row')
<1>1. ASSUME IInv, [Next]_vars, NEW d \in tomb, d \notin file PROVE d \notin file'
  <2>1. PutInstall => file' = file \cup {put.digest} /\ put.digest # d
    BY <1>1 DEF PutInstall, IInv, PutInOrder
  <2>2. ASSUME NEW a \in Actors, RemoveBytes(a) \/ DropRow(a) \/ DeletionFails(a)
        PROVE  file' \subseteq file
    BY <2>2 DEF RemoveBytes, DropRow, DeletionFails
  <2>3. ASSUME NEW e \in Digests,
               RecordOrphan(e) \/ SkipCandidate(e) \/ PrepareCandidate(e) \/ PreparePurge(e)
        PROVE  file' \subseteq file
    BY <2>3 DEF RecordOrphan, SkipCandidate, PrepareCandidate, PreparePurge
  <2>4. ASSUME \/ PutCommit \/ PutFails \/ MarkUnreferenced \/ Tick \/ Crash
               \/ UNCHANGED vars \/ \E r \in Refs, e \in Digests : PutLock(r, e)
        PROVE  file' = file
    BY <2>4 DEF PutCommit, PutFails, MarkUnreferenced, Tick, Crash, PutLock, vars
  <2> QED
    BY <1>1, <2>1, <2>2, <2>3, <2>4, StepCases, RefStepEffect, RunStepEffect,
       BackupStepEffect, BeginEffect
<1>2. ASSUME IInv, [Next]_vars, NEW d \in tomb, d \notin row PROVE d \notin row'
  <2>1. PutCommit => row' = row \cup {put.digest} /\ put.digest # d
    BY <1>2 DEF PutCommit, IInv, PutInOrder
  <2>2. ASSUME NEW a \in Actors, RemoveBytes(a) \/ DropRow(a) \/ DeletionFails(a)
        PROVE  row' \subseteq row
    BY <2>2 DEF RemoveBytes, DropRow, DeletionFails
  <2>3. ASSUME NEW e \in Digests,
               SkipCandidate(e) \/ PrepareCandidate(e) \/ PreparePurge(e)
        PROVE  row' = row
    BY <2>3 DEF SkipCandidate, PrepareCandidate, PreparePurge
  <2>4. ASSUME NEW e \in Digests, RecordOrphan(e) PROVE d \notin row'
    BY <1>2, <2>4 DEF RecordOrphan
  <2>5. ASSUME \/ PutInstall \/ PutFails \/ MarkUnreferenced \/ Tick \/ Crash
               \/ UNCHANGED vars \/ \E r \in Refs, e \in Digests : PutLock(r, e)
        PROVE  row' = row
    BY <2>5 DEF PutInstall, PutFails, MarkUnreferenced, Tick, Crash, PutLock, vars
  <2> QED
    BY <1>2, <2>1, <2>2, <2>3, <2>4, <2>5, StepCases, RefStepEffect, RunStepEffect,
       BackupStepEffect, BeginEffect
<1>3. IInv /\ [Next]_vars => [Stays]_vars
  BY <1>1, <1>2
<1> QED
  BY <1>3, Inductive, PTL DEF Spec, PurgedStaysPurged
==============================================================================
