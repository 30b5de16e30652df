----------------------------- MODULE UploadQueue -----------------------------
(***************************************************************************)
(* The queue of uploaded files: api/internal/upload.                       *)
(*                                                                         *)
(* A request stores a file and records an operation.  The server's upload  *)
(* workers lease operations, read the file and either make a work of it or *)
(* stage it as a replacement of an existing work's original file, which    *)
(* the owner then accepts or cancels.  A worker holds an operation by its  *)
(* lease token; a lease that runs out lets another worker take it over     *)
(* while the first is still reading.                                       *)
(*                                                                         *)
(* Every database statement or transaction of the code is one action.      *)
(* Times are kept as the ticks that remain until they are reached, so      *)
(* `available_at <= now' is wait <= 0 and `lease_expires_at <= now' is      *)
(* leaseLeft = 0.                                                          *)
(***************************************************************************)
EXTENDS Integers, FiniteSets

CONSTANTS
    Ops,            \* upload operations
    Workers,        \* goroutines of RunUploadWorkers
    Works,          \* existing works that a file may replace the original of
    NoWork,         \* an operation that makes a new work has this target
    Idle,           \* a worker between two operations
    LeaseDuration,  \* settings.LeaseDuration, in ticks
    RetryBase,      \* settings.RetryBase, in ticks
    MaxAttempts,    \* settings.MaxAttempts
    MaxTrouble,     \* bound: restarts, lost replies and leases outlived by their worker
    MaxVersion      \* bound: saves of one work's drafted changes

ASSUME QueueAssumption ==
    /\ LeaseDuration \in Nat \ {0}
    /\ RetryBase \in Nat
    /\ MaxAttempts \in Nat \ {0}
    /\ MaxTrouble \in Nat
    /\ MaxVersion \in Nat \ {0}
    /\ NoWork \notin Works
    /\ Idle \notin [op : Ops, token : Nat, attempts : Nat,
                    target : Works \cup {NoWork}, version : Nat]

VARIABLES
    op,        \* the rows of upload_operations
    job,       \* what each worker holds in memory
    work,      \* drafted_changes_version and state of the target works
    reviewed,  \* the version of the target the owner's review page has open
    produced,  \* how many original files each operation has recorded
    trouble    \* restarts, lost replies and leases outlived so far

vars == <<op, job, work, reviewed, produced, trouble>>

Settled == {"failed", "success", "cancelled"}
Status  == {"absent", "pending", "processing", "preview"} \cup Settled

Operation == [status : Status, attempts : Nat, wait : Int, lease : Nat,
              leaseLeft : Nat, target : Works \cup {NoWork}, version : Nat,
              blob : BOOLEAN]

Job == [op : Ops, token : Nat, attempts : Nat,
        target : Works \cup {NoWork}, version : Nat]

WorkState == [version : Nat, state : {"open", "frozen", "gone"}]

NoOperation == [status |-> "absent", attempts |-> 0, wait |-> 0, lease |-> 0,
                leaseLeft |-> 0, target |-> NoWork, version |-> 0,
                blob |-> FALSE]

Init ==
    /\ op = [o \in Ops |-> NoOperation]
    /\ job = [w \in Workers |-> Idle]
    /\ work = [k \in Works |-> [version |-> 1, state |-> "open"]]
    /\ reviewed = [o \in Ops |-> 0]
    /\ produced = [o \in Ops |-> 0]
    /\ trouble = 0

------------------------------------------------------------------------------
(* Requests that record an operation.                                       *)

Record(o, k, v) ==
    /\ op[o].status = "absent"
    /\ op' = [op EXCEPT ![o] =
                [status |-> "pending", attempts |-> 0, wait |-> 0, lease |-> 0,
                 leaseLeft |-> 0, target |-> k, version |-> v, blob |-> TRUE]]
    /\ UNCHANGED <<job, work, reviewed, produced, trouble>>

\* A file that makes a new work.
AcceptUpload(o) == Record(o, NoWork, 0)

CandidateLockAnyVersionBug(k, v) == work[k].state = "open"

\* Candidate.Lock: the work is open and the caller has its current version.
CandidateLock(k, v) == work[k].state = "open" /\ work[k].version = v

\* A file that replaces the original of work k.
AcceptOriginalFile(o, k) ==
    \E v \in 1..work[k].version : CandidateLock(k, v) /\ Record(o, k, v)

------------------------------------------------------------------------------
(* The workers.                                                             *)

LeasableEarlyBug(o) ==
    op[o].status \in {"pending", "processing"} /\ op[o].wait <= 0

Leasable(o) ==
    /\ op[o].wait <= 0
    /\ \/ op[o].status = "pending"
       \/ op[o].status = "processing" /\ op[o].leaseLeft = 0

HoldsAnyLeaseBug(j) == op[j.op].status = "processing"

HoldsLease(j) ==
    op[j.op].status = "processing" /\ op[j.op].lease = j.token

\* The code's lease token is a fresh uuid for every lease.  So is the attempt
\* number among the leases of one operation, which is what token holds.
LeaseNextUpload(w, o) ==
    /\ job[w] = Idle
    /\ Leasable(o)
    /\ LET token == op[o].attempts + 1 IN
       /\ op' = [op EXCEPT ![o].status = "processing", ![o].attempts = token,
                           ![o].lease = token, ![o].leaseLeft = LeaseDuration]
       /\ job' = [job EXCEPT ![w] = [op |-> o, token |-> token,
                           attempts |-> token, target |-> op[o].target,
                           version |-> op[o].version]]
    \* taking over from a worker that is still reading is counted
    /\ IF \E v \in Workers : job[v] # Idle /\ job[v].op = o /\ HoldsLease(job[v])
       THEN trouble < MaxTrouble /\ trouble' = trouble + 1
       ELSE UNCHANGED trouble
    /\ UNCHANGED <<work, reviewed, produced>>

\* A settled row keeps neither lease nor blob.  Its available_at stays, but no
\* statement reads it again.
Settle(o, status) ==
    [status |-> status, attempts |-> op[o].attempts, wait |-> 0, lease |-> 0,
     leaseLeft |-> 0, target |-> op[o].target, version |-> op[o].version,
     blob |-> FALSE]

Release(w) == job' = [job EXCEPT ![w] = Idle]

\* A commit whose reply is lost leaves the worker with the job: it takes it for
\* an internal failure and reports that next.
Reply(w) ==
    \/ Release(w) /\ UNCHANGED trouble
    \/ trouble < MaxTrouble /\ trouble' = trouble + 1 /\ UNCHANGED job

\* Every write of a worker is conditional on its token; without it no row
\* changes and the worker drops what it did (errUploadLeaseLost).
LoseLease(w) ==
    /\ job[w] # Idle
    /\ ~ HoldsLease(job[w])
    /\ Release(w)
    /\ UNCHANGED <<op, work, reviewed, produced, trouble>>

FailUpload(w) ==
    /\ job[w] # Idle
    /\ HoldsLease(job[w])
    /\ op' = [op EXCEPT ![job[w].op] = Settle(job[w].op, "failed")]
    /\ Release(w)
    /\ UNCHANGED <<work, reviewed, produced, trouble>>

Backoff(attempts) == RetryBase * 2^(attempts - 1)

\* An internal failure is tried again until the attempts run out.
FinishInternalFailure(w) ==
    /\ job[w] # Idle
    /\ \/ job[w].attempts >= MaxAttempts /\ FailUpload(w)
       \/ /\ job[w].attempts < MaxAttempts
          /\ HoldsLease(job[w])
          /\ op' = [op EXCEPT ![job[w].op].status = "pending",
                              ![job[w].op].wait = Backoff(job[w].attempts),
                              ![job[w].op].lease = 0,
                              ![job[w].op].leaseLeft = 0]
          /\ Release(w)
          /\ UNCHANGED <<work, reviewed, produced, trouble>>

FinalizeWithoutLeaseBug(w) ==
    /\ job[w] # Idle
    /\ job[w].target = NoWork
    /\ produced' = [produced EXCEPT ![job[w].op] = @ + 1]
    /\ op' = [op EXCEPT ![job[w].op] = Settle(job[w].op, "success")]
    /\ Reply(w)
    /\ UNCHANGED <<work, reviewed>>

\* finalizeUpload makes the work; the operation row is locked and its token
\* read again inside the transaction.
FinalizeUpload(w) ==
    /\ job[w] # Idle
    /\ job[w].target = NoWork
    /\ HoldsLease(job[w])
    /\ produced' = [produced EXCEPT ![job[w].op] = @ + 1]
    /\ op' = [op EXCEPT ![job[w].op] = Settle(job[w].op, "success")]
    /\ Reply(w)
    /\ UNCHANGED <<work, reviewed>>

\* stageReplacement keeps the file's content beside the work for review.  A
\* work that moved on, was frozen or deleted fails the upload instead.
StageReplacement(w) ==
    /\ job[w] # Idle
    /\ job[w].target # NoWork
    /\ IF CandidateLock(job[w].target, job[w].version)
       THEN /\ HoldsLease(job[w])
            /\ op' = [op EXCEPT ![job[w].op].status = "preview",
                                ![job[w].op].lease = 0,
                                ![job[w].op].leaseLeft = 0]
            /\ Reply(w)
            /\ UNCHANGED <<work, reviewed, produced>>
       ELSE FailUpload(w)

------------------------------------------------------------------------------
(* The owner's review, and what else happens to the target work.            *)

\* The review page is loaded with the work's current version.
OpenReview(o) ==
    /\ op[o].status = "preview"
    /\ op[o].target # NoWork
    /\ reviewed' = [reviewed EXCEPT ![o] = work[op[o].target].version]
    /\ UNCHANGED <<op, job, work, produced, trouble>>

AcceptReplacement(o) ==
    /\ op[o].status = "preview"
    /\ op[o].target # NoWork
    /\ op[o].blob
    /\ reviewed[o] # 0
    /\ CandidateLock(op[o].target, reviewed[o])
    /\ produced' = [produced EXCEPT ![o] = @ + 1]
    /\ op' = [op EXCEPT ![o] = Settle(o, "success")]
    /\ work' = [work EXCEPT ![op[o].target].version = @ + 1]
    /\ UNCHANGED <<job, reviewed, trouble>>

CancelAnyBug(o) ==
    /\ op[o].status # "absent"
    /\ op' = [op EXCEPT ![o] = Settle(o, "cancelled")]
    /\ UNCHANGED <<job, work, reviewed, produced, trouble>>

CancelReplacement(o) ==
    /\ op[o].status = "preview"
    /\ op[o].target # NoWork
    /\ op' = [op EXCEPT ![o] = Settle(o, "cancelled")]
    /\ UNCHANGED <<job, work, reviewed, produced, trouble>>

\* Any other save of the drafted changes (Candidate.Commit).
SaveDraftedChanges(k) ==
    /\ work[k].state = "open"
    /\ work[k].version < MaxVersion
    /\ work' = [work EXCEPT ![k].version = @ + 1]
    /\ UNCHANGED <<op, job, reviewed, produced, trouble>>

\* Taking the work down and deleting it, and the two ways back.
ChangeState(k, s) ==
    /\ work[k].state # s
    /\ work' = [work EXCEPT ![k].state = s]
    /\ UNCHANGED <<op, job, reviewed, produced, trouble>>

\* preparePurge of a blob: every operation that still refers to it fails.
\* Files with the same bytes share one blob.
Purge(S) ==
    /\ S # {} /\ \A o \in S : op[o].blob
    /\ op' = [o \in Ops |-> IF o \in S THEN Settle(o, "failed") ELSE op[o]]
    /\ UNCHANGED <<job, work, reviewed, produced, trouble>>

------------------------------------------------------------------------------
(* Time and failure.                                                        *)

Less(n) == IF n <= 0 THEN 0 ELSE n - 1

Tick ==
    /\ \E o \in Ops : op[o].wait > 0 \/ op[o].leaseLeft > 0
    /\ op' = [o \in Ops |-> [op[o] EXCEPT !.wait = Less(@),
                                          !.leaseLeft = Less(@)]]
    /\ UNCHANGED <<job, work, reviewed, produced, trouble>>

\* The server stops: its workers forget their jobs, the rows stay.
Crash ==
    /\ trouble < MaxTrouble
    /\ \E w \in Workers : job[w] # Idle
    /\ job' = [w \in Workers |-> Idle]
    /\ trouble' = trouble + 1
    /\ UNCHANGED <<op, work, reviewed, produced>>

\* The statement that should report a worker's result returns an error.
DropJob(w) ==
    /\ trouble < MaxTrouble
    /\ job[w] # Idle
    /\ Release(w)
    /\ trouble' = trouble + 1
    /\ UNCHANGED <<op, work, reviewed, produced>>

------------------------------------------------------------------------------

Worker(w) ==
    \/ \E o \in Ops : LeaseNextUpload(w, o)
    \/ LoseLease(w)
    \/ FailUpload(w)
    \/ FinishInternalFailure(w)
    \/ FinalizeUpload(w)
    \/ StageReplacement(w)

Owner ==
    \/ \E o \in Ops : AcceptUpload(o) \/ OpenReview(o) \/ AcceptReplacement(o)
                      \/ CancelReplacement(o)
    \/ \E o \in Ops, k \in Works : AcceptOriginalFile(o, k)
    \/ \E k \in Works : SaveDraftedChanges(k)
    \/ \E k \in Works, s \in {"open", "frozen", "gone"} : ChangeState(k, s)

Next ==
    \/ \E w \in Workers : Worker(w) \/ DropJob(w)
    \/ Owner
    \/ \E S \in SUBSET Ops : Purge(S)
    \/ Tick
    \/ Crash

Spec == Init /\ [][Next]_vars

\* The workers loop for as long as the server runs, and time passes.  Nothing
\* is assumed of owners, staff or failures.
FairSpec == Spec /\ WF_vars(Tick) /\ \A w \in Workers : WF_vars(Worker(w))

------------------------------------------------------------------------------
TypeOK ==
    /\ op \in [Ops -> Operation]
    /\ job \in [Workers -> Job \cup {Idle}]
    /\ work \in [Works -> WorkState]
    /\ reviewed \in [Ops -> Nat]
    /\ produced \in [Ops -> Nat]
    /\ trouble \in Nat

\* An uploaded file becomes at most one original file, and exactly the
\* operations that succeeded have one, however often a lease ran out and
\* several workers read the same file (finalizeUpload, AcceptReplacement).
OneResultPerUpload ==
    \A o \in Ops : produced[o] = IF op[o].status = "success" THEN 1 ELSE 0

\* An operation that succeeded, failed or was cancelled is never written
\* again: a late worker, a second acceptance or a purge leaves it alone.
SettledStaysSettled ==
    [][\A o \in Ops : op[o].status \in Settled => op'[o] = op[o]]_vars

\* A worker that is still within its lease is never overtaken by another
\* (leaseNextUpload; TestSlowUploadKeepsItsLeaseAndExpiredLeaseRetries).
SlowUploadKeepsItsLease ==
    [][\A o \in Ops :
          op[o].status = "processing" /\ op[o].leaseLeft > 0
          /\ op'[o].status = "processing" => op'[o].lease = op[o].lease]_vars

\* Of the workers that hold a job of one operation at most one can still
\* write its outcome, and while an operation is neither leased nor staged
\* nobody can (the lease_token conditions of every update).
OneWriterPerUpload ==
    \A v, w \in Workers :
        (v # w /\ job[v] # Idle /\ job[w] # Idle /\ job[v].op = job[w].op)
            => ~ (HoldsLease(job[v]) /\ HoldsLease(job[w]))

\* An operation is put back only with tries left, and then waits the backoff
\* of every lease that was taken of it, those whose worker was lost included:
\* the count goes up by one with each lease and never otherwise, though the
\* worker that reports has only its own copy of it (retryUpload).
RetriesBackOff ==
    [][\A o \in Ops :
          /\ (op[o].status = "processing" /\ op'[o].status = "pending") =>
                /\ op[o].attempts < MaxAttempts
                /\ op'[o].wait = Backoff(op[o].attempts)
          /\ (op[o].status # "absent" /\ op'[o].attempts # op[o].attempts) =>
                /\ op'[o].attempts = op[o].attempts + 1
                /\ op'[o].status = "processing"
                /\ op'[o].lease # op[o].lease]_vars

\* The blob reference of an operation is given up exactly when it settles:
\* while the file may still be read or accepted, its row names the blob.
UnsettledUploadsNameTheirBlob ==
    \A o \in Ops :
        op[o].blob <=> op[o].status \in {"pending", "processing", "preview"}

\* What the owner accepts is applied to the version the review page had open:
\* no save of the drafted changes between opening and accepting is
\* overwritten (Candidate.Lock; TestReplacementPreviewRefusesAStaleAcceptance).
AcceptedAsReviewed ==
    [][\A o \in Ops :
          (op[o].status = "preview" /\ op'[o].status = "success")
             => work[op[o].target] = [version |-> reviewed[o], state |-> "open"]]_vars

\* What an upload is to its owner: leases, attempts and workers are forgotten.
Stage(status) ==
    CASE status = "absent" -> "unknown"
      [] status \in {"pending", "processing"} -> "open"
      [] status = "preview" -> "review"
      [] status = "success" -> "done"
      [] status \in {"failed", "cancelled"} -> "dropped"

Promise == INSTANCE OneShotJobs
    WITH Jobs <- Ops, stage <- [o \in Ops |-> Stage(op[o].status)],
         results <- produced

\* The queue of uploads implements the promise: each recorded file becomes
\* one original file, is given up, or waits for its owner, and while the
\* server's workers keep running it does not stay open, whatever leases,
\* restarts, lost replies and purges do in between (RunUploadWorkers).
ImplementsJobs == Promise!Spec
==============================================================================
