----------------------------- MODULE MCBlobStore -----------------------------
(***************************************************************************)
(* The content store.  A behaviour follows the blobs of works, or those of *)
(* uploads, profiles and blog posts; part says which.                      *)
(***************************************************************************)
EXTENDS BlobStore

VARIABLE part

Others == INSTANCE BlobStore
    WITH Kinds <- {"upload", "profile", "post"}, CleanupDelay <- 1, RecoveryWindow <- 1,
         RequestTime <- 0, RunTime <- 0, MaxPurges <- 1, MaxBackups <- 0, MaxTrouble <- 0

ASSUME StorageSettings == Settings /\ Others!Settings

all == <<part, vars>>

MCInit == part \in {"works", "others"} /\ Init

MCNext ==
    \/ part = "works" /\ Next /\ UNCHANGED part
    \/ part = "others" /\ Others!Next /\ UNCHANGED part

MCSpec == MCInit /\ [][MCNext]_all

CleanupRuns == (part = "works" /\ Cleanup) \/ (part = "others" /\ Others!Cleanup)

PutsGoOn == (part = "works" /\ PutGoesOn) \/ (part = "others" /\ Others!PutGoesOn)

PurgesGoOn == (part = "works" /\ Purge) \/ (part = "others" /\ Others!Purge)

BackupsGoOn == (part = "works" /\ Backup) \/ (part = "others" /\ Others!Backup)

TimePasses == (part = "works" /\ Tick) \/ (part = "others" /\ Others!Tick)

RequestsEnd(r) ==
    (part = "works" /\ RequestEnds(r)) \/ (part = "others" /\ Others!RequestEnds(r))

\* The server keeps its loop running, requests and backups that have begun come
\* to an end, and time passes (SF: the bounds RunTime and RequestTime hold the
\* clock back again and again, where the program has hours between its runs).
StoreFairness ==
    /\ WF_vars(CleanupRuns)
    /\ WF_vars(PutsGoOn)
    /\ WF_vars(PurgesGoOn)
    /\ WF_vars(BackupsGoOn)
    /\ SF_vars(TimePasses)
    /\ \A r \in Refs : WF_vars(RequestsEnd(r))

FairSpec == MCSpec /\ StoreFairness
==============================================================================
