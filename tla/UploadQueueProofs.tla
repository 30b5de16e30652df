--------------------------- MODULE UploadQueueProofs ---------------------------
(***************************************************************************)
(* What UploadQueue guarantees for any number of uploads, workers and      *)
(* works, any settings and any bounds.                                     *)
(*                                                                         *)
(* The argument: tokens are attempt numbers, so every lease of an          *)
(* operation has a token above all earlier ones (TokensAreSpent) and no    *)
(* two workers ever hold the same one (TokensDiffer).  An operation has a  *)
(* blob exactly while it is unsettled and a settled one has neither lease  *)
(* nor wait, so nothing but the settling step itself can touch its row.    *)
(***************************************************************************)
EXTENDS UploadQueue, TLAPS

\* A job's token is the attempt its operation was leased for, and no attempt
\* beyond the operation's counter was ever handed out.
TokensAreSpent ==
    /\ \A w \in Workers : job[w] # Idle =>
          /\ job[w].token = job[w].attempts
          /\ job[w].token > 0
          /\ job[w].token <= op[job[w].op].attempts
    /\ \A o \in Ops : op[o].lease <= op[o].attempts
    /\ \A o \in Ops : op[o].status = "absent" => op[o].attempts = 0

TokensDiffer ==
    \A v, w \in Workers :
        (v # w /\ job[v] # Idle /\ job[w] # Idle /\ job[v].op = job[w].op)
            => job[v].token # job[w].token

\* A settled operation has nothing left that time could change.
SettledIsQuiet ==
    \A o \in Ops : op[o].status \in Settled \cup {"absent"}
                       => op[o].wait = 0 /\ op[o].leaseLeft = 0

IInv ==
    /\ TypeOK
    /\ TokensAreSpent
    /\ TokensDiffer
    /\ SettledIsQuiet
    /\ UnsettledUploadsNameTheirBlob
    /\ OneResultPerUpload

------------------------------------------------------------------------------

LEMMA BackoffIsInt ==
    ASSUME NEW n \in Nat, n > 0
    PROVE  Backoff(n) \in Int
<1>1. n - 1 \in Nat
  OBVIOUS
<1>2. 2^(n - 1) \in Int
  BY <1>1
<1> QED
  BY <1>2, QueueAssumption DEF Backoff

LEMMA IdleIsNoJob == Idle \notin Job
  BY QueueAssumption DEF Job

LEMMA InitIInv == Init => IInv
<1> SUFFICES ASSUME Init PROVE IInv
  OBVIOUS
<1> USE DEF Init
<1>1. TypeOK
  BY QueueAssumption DEF TypeOK, Operation, NoOperation, Status, WorkState
<1>2. TokensAreSpent /\ TokensDiffer
  BY DEF TokensAreSpent, TokensDiffer, NoOperation
<1>3. SettledIsQuiet /\ UnsettledUploadsNameTheirBlob /\ OneResultPerUpload
  BY DEF SettledIsQuiet, UnsettledUploadsNameTheirBlob, OneResultPerUpload,
         NoOperation
<1> QED
  BY <1>1, <1>2, <1>3 DEF IInv

------------------------------------------------------------------------------
(* What a settling step writes, and what every action preserves.            *)

LEMMA SettledRow ==
    ASSUME TypeOK, NEW o \in Ops, NEW s \in Settled
    PROVE  /\ Settle(o, s) \in Operation
           /\ Settle(o, s).status = s
           /\ Settle(o, s).blob = FALSE
           /\ Settle(o, s).wait = 0
           /\ Settle(o, s).lease = 0
           /\ Settle(o, s).leaseLeft = 0
           /\ Settle(o, s).attempts = op[o].attempts
           /\ op[o].attempts \in Nat
<1>1. op[o] \in Operation
  BY DEF TypeOK
<1> QED
  BY <1>1 DEF Settle, Operation, Status

\* Rows, jobs and results after a step that settles the operations of S.
LEMMA SettlingKeepsIInv ==
    ASSUME IInv, NEW S \in SUBSET Ops, NEW s \in Settled,
           \A o \in S : op[o].blob,
           op' = [o \in Ops |-> IF o \in S THEN Settle(o, s) ELSE op[o]],
           job' \in [Workers -> Job \cup {Idle}],
           \A w \in Workers : job'[w] \in {job[w], Idle},
           work' \in [Works -> WorkState], reviewed' = reviewed, trouble' \in Nat,
           produced' = [o \in Ops |-> IF o \in S /\ s = "success"
                                      THEN produced[o] + 1 ELSE produced[o]]
    PROVE  IInv'
<1> USE DEF IInv
<1>1. \A o \in S : /\ op'[o] \in Operation
                   /\ op'[o].status = s
                   /\ op'[o].blob = FALSE
                   /\ op'[o].wait = 0
                   /\ op'[o].lease = 0
                   /\ op'[o].leaseLeft = 0
                   /\ op'[o].attempts = op[o].attempts
                   /\ op[o].attempts \in Nat
  BY SettledRow
<1>2. \A o \in Ops \ S : op'[o] = op[o]
  OBVIOUS
<1>3. TypeOK'
  <2>1. op' \in [Ops -> Operation]
    BY <1>1, <1>2 DEF TypeOK
  <2>2. produced' \in [Ops -> Nat]
    BY DEF TypeOK
  <2> QED
    BY <2>1, <2>2 DEF TypeOK
<1>4. \A o \in Ops : op'[o].attempts = op[o].attempts /\ op[o].attempts \in Nat
  BY <1>1, <1>2 DEF TypeOK, Operation
<1>5. TokensAreSpent'
  <2>1. ASSUME NEW o \in Ops PROVE op'[o].lease <= op'[o].attempts
    <3>1. CASE o \in S
      <4>1. op'[o].lease = 0 /\ op'[o].attempts \in Nat
        BY <3>1, <1>1
      <4> QED
        BY <4>1
    <3>2. CASE o \notin S
      BY <3>2, <1>2 DEF TokensAreSpent
    <3> QED
      BY <3>1, <3>2
  <2>2. \A w \in Workers : job[w] # Idle => job[w].op \in Ops
    BY DEF TypeOK, Job
  <2>3. \A o \in Ops : op'[o].status = "absent" => op'[o].attempts = 0
    BY <1>1, <1>2 DEF TokensAreSpent, Settled
  <2> QED
    BY <2>1, <2>2, <2>3, <1>4 DEF TokensAreSpent
<1>6. TokensDiffer'
  BY DEF TokensDiffer
<1>7. SettledIsQuiet'
  BY <1>1, <1>2 DEF SettledIsQuiet
<1>8. UnsettledUploadsNameTheirBlob'
  BY <1>1, <1>2 DEF UnsettledUploadsNameTheirBlob, Settled
<1>9. OneResultPerUpload'
  <2>1. \A o \in S : op[o].status # "success" /\ produced[o] = 0
    BY DEF UnsettledUploadsNameTheirBlob, OneResultPerUpload
  <2>2. \A o \in S : produced'[o] = IF s = "success" THEN 1 ELSE 0
    BY <2>1
  <2> QED
    BY <1>1, <1>2, <2>2 DEF OneResultPerUpload
<1> QED
  BY <1>3, <1>5, <1>6, <1>7, <1>8, <1>9

LEMMA HoldersNameTheirBlob ==
    ASSUME IInv, NEW w \in Workers, job[w] # Idle, HoldsLease(job[w])
    PROVE  job[w].op \in Ops /\ op[job[w].op].blob
BY DEF IInv, TypeOK, Job, HoldsLease, UnsettledUploadsNameTheirBlob

\* A step that writes no row and hands out no job.
LEMMA QuietStepKeepsIInv ==
    ASSUME IInv, op' = op, produced' = produced,
           job' \in [Workers -> Job \cup {Idle}],
           \A w \in Workers : job'[w] \in {job[w], Idle},
           work' \in [Works -> WorkState], reviewed' \in [Ops -> Nat],
           trouble' \in Nat
    PROVE  IInv'
<1>1. TypeOK'
  BY DEF IInv, TypeOK
<1>2. TokensAreSpent' /\ TokensDiffer'
  BY DEF IInv, TokensAreSpent, TokensDiffer
<1>3. SettledIsQuiet' /\ UnsettledUploadsNameTheirBlob' /\ OneResultPerUpload'
  BY DEF IInv, SettledIsQuiet, UnsettledUploadsNameTheirBlob, OneResultPerUpload
<1> QED
  BY <1>1, <1>2, <1>3 DEF IInv

\* A step that rewrites the row of one unsettled operation and leaves it so.
LEMMA UnsettledStepKeepsIInv ==
    ASSUME IInv, NEW o \in Ops, NEW row \in Operation,
           op' = [op EXCEPT ![o] = row],
           row.status \in {"pending", "processing", "preview"}, row.blob,
           row.attempts = op[o].attempts, row.lease <= row.attempts,
           op[o].status # "success",
           job' \in [Workers -> Job \cup {Idle}],
           \A w \in Workers : job'[w] \in {job[w], Idle},
           work' = work, reviewed' = reviewed, produced' = produced,
           trouble' \in Nat
    PROVE  IInv'
<1> USE DEF IInv
<1>1. op'[o] = row /\ \A x \in Ops \ {o} : op'[x] = op[x]
  BY DEF TypeOK
<1>2. TypeOK'
  BY DEF TypeOK
<1>3. TokensAreSpent'
  <2>1. \A x \in Ops : op'[x].attempts = op[x].attempts
                        /\ op'[x].lease <= op'[x].attempts
    BY <1>1 DEF TokensAreSpent
  <2>2. \A w \in Workers : job[w] # Idle => job[w].op \in Ops
    BY DEF TypeOK, Job
  <2> QED
    BY <2>1, <2>2 DEF TokensAreSpent
<1>4. TokensDiffer'
  BY DEF TokensDiffer
<1>5. SettledIsQuiet'
  BY <1>1 DEF SettledIsQuiet, Settled
<1>6. UnsettledUploadsNameTheirBlob'
  BY <1>1 DEF UnsettledUploadsNameTheirBlob
<1>7. OneResultPerUpload'
  BY <1>1 DEF OneResultPerUpload
<1> QED
  BY <1>2, <1>3, <1>4, <1>5, <1>6, <1>7

------------------------------------------------------------------------------
(* The actions.                                                             *)

LEMMA RecordKeepsIInv ==
    ASSUME IInv, NEW o \in Ops, NEW k \in Works \cup {NoWork}, NEW v \in Nat,
           Record(o, k, v)
    PROVE  IInv'
<1> USE DEF IInv
<1> DEFINE row == [status |-> "pending", attempts |-> 0, wait |-> 0, lease |-> 0,
                   leaseLeft |-> 0, target |-> k, version |-> v, blob |-> TRUE]
<1>1. op' = [op EXCEPT ![o] = row]
  BY DEF Record
<1>2. row \in Operation
  BY DEF Operation, Status
<1>3. op' \in [Ops -> Operation] /\ op'[o] = row
       /\ \A x \in Ops \ {o} : op'[x] = op[x]
  BY <1>1, <1>2 DEF TypeOK
<1>4. TypeOK'
  BY <1>3 DEF TypeOK, Record
<1>5. TokensAreSpent'
  BY <1>3 DEF TokensAreSpent, Record, TypeOK, Job
<1>6. TokensDiffer'
  BY DEF TokensDiffer, Record
<1>7. SettledIsQuiet' /\ UnsettledUploadsNameTheirBlob'
  BY <1>3 DEF SettledIsQuiet, UnsettledUploadsNameTheirBlob, Settled
<1>8. OneResultPerUpload'
  BY <1>3 DEF OneResultPerUpload, Record
<1> QED
  BY <1>4, <1>5, <1>6, <1>7, <1>8

LEMMA LeaseKeepsIInv ==
    ASSUME IInv, NEW w \in Workers, NEW o \in Ops, LeaseNextUpload(w, o)
    PROVE  IInv'
<1> USE DEF IInv
<1>1. TypeOK'
  BY QueueAssumption DEF LeaseNextUpload, TypeOK, Operation, Job, Status
<1>2. TokensAreSpent'
  BY IdleIsNoJob DEF LeaseNextUpload, TypeOK, Operation, Job, TokensAreSpent
<1>3. TokensDiffer'
  BY IdleIsNoJob DEF LeaseNextUpload, TypeOK, Operation, Job, TokensAreSpent,
                     TokensDiffer
<1>4. SettledIsQuiet'
  BY DEF LeaseNextUpload, TypeOK, Operation, SettledIsQuiet, Settled
<1>5. UnsettledUploadsNameTheirBlob'
  BY DEF LeaseNextUpload, Leasable, TypeOK, Operation,
         UnsettledUploadsNameTheirBlob
<1>6. OneResultPerUpload'
  BY DEF LeaseNextUpload, Leasable, TypeOK, Operation, OneResultPerUpload
<1> QED
  BY <1>1, <1>2, <1>3, <1>4, <1>5, <1>6

LEMMA ReleaseIsRelease ==
    ASSUME IInv, NEW w \in Workers, Release(w)
    PROVE  /\ job' \in [Workers -> Job \cup {Idle}]
           /\ \A v \in Workers : job'[v] \in {job[v], Idle}
BY DEF IInv, TypeOK, Release

LEMMA FailUploadKeepsIInv ==
    ASSUME IInv, NEW w \in Workers, FailUpload(w)
    PROVE  IInv'
<1> DEFINE S == {job[w].op}
<1>1. S \in SUBSET Ops /\ \A x \in S : op[x].blob
  BY HoldersNameTheirBlob DEF FailUpload
<1>2. op' = [x \in Ops |-> IF x \in S THEN Settle(x, "failed") ELSE op[x]]
  BY <1>1 DEF FailUpload, IInv, TypeOK
<1>3. "failed" \in Settled
  BY DEF Settled
<1>4. produced' = [x \in Ops |-> IF x \in S /\ "failed" = "success"
                                 THEN produced[x] + 1 ELSE produced[x]]
  BY DEF FailUpload, IInv, TypeOK
<1>5. /\ job' \in [Workers -> Job \cup {Idle}]
      /\ \A v \in Workers : job'[v] \in {job[v], Idle}
  BY ReleaseIsRelease DEF FailUpload
<1>6. work' \in [Works -> WorkState] /\ reviewed' = reviewed /\ trouble' \in Nat
  BY DEF FailUpload, IInv, TypeOK
<1> HIDE DEF S
<1> QED
  BY <1>1, <1>2, <1>3, <1>4, <1>5, <1>6, SettlingKeepsIInv

\* Shared by the two ways an upload succeeds.
LEMMA SuccessKeepsIInv ==
    ASSUME IInv, NEW o \in Ops, op[o].blob,
           op' = [op EXCEPT ![o] = Settle(o, "success")],
           produced' = [produced EXCEPT ![o] = @ + 1],
           job' \in [Workers -> Job \cup {Idle}],
           \A w \in Workers : job'[w] \in {job[w], Idle},
           work' \in [Works -> WorkState], reviewed' = reviewed, trouble' \in Nat
    PROVE  IInv'
<1> DEFINE S == {o}
<1>1. S \in SUBSET Ops /\ \A x \in S : op[x].blob
  OBVIOUS
<1>2. op' = [x \in Ops |-> IF x \in S THEN Settle(x, "success") ELSE op[x]]
  BY DEF IInv, TypeOK
<1>3. produced' = [x \in Ops |-> IF x \in S /\ "success" = "success"
                                 THEN produced[x] + 1 ELSE produced[x]]
  BY DEF IInv, TypeOK
<1>4. "success" \in Settled
  BY DEF Settled
<1> HIDE DEF S
<1> QED
  BY <1>1, <1>2, <1>3, <1>4, SettlingKeepsIInv

\* Shared by every way an upload is given up.
LEMMA GivingUpKeepsIInv ==
    ASSUME IInv, NEW S \in SUBSET Ops, NEW s \in {"failed", "cancelled"},
           \A o \in S : op[o].blob,
           op' = [o \in Ops |-> IF o \in S THEN Settle(o, s) ELSE op[o]],
           job' \in [Workers -> Job \cup {Idle}],
           \A w \in Workers : job'[w] \in {job[w], Idle},
           UNCHANGED <<work, reviewed, produced, trouble>>
    PROVE  IInv'
<1>1. produced' = [o \in Ops |-> IF o \in S /\ s = "success"
                                 THEN produced[o] + 1 ELSE produced[o]]
  BY DEF IInv, TypeOK
<1>2. s \in Settled
  BY DEF Settled
<1>3. work' \in [Works -> WorkState] /\ reviewed' = reviewed /\ trouble' \in Nat
  BY DEF IInv, TypeOK
<1> QED
  BY <1>1, <1>2, <1>3, SettlingKeepsIInv

LEMMA ReplyIsRelease ==
    ASSUME IInv, NEW w \in Workers, Reply(w)
    PROVE  /\ job' \in [Workers -> Job \cup {Idle}]
           /\ \A v \in Workers : job'[v] \in {job[v], Idle}
           /\ trouble' \in Nat
BY ReleaseIsRelease DEF Reply, IInv, TypeOK

LEMMA RetryKeepsIInv ==
    ASSUME IInv, NEW w \in Workers, FinishInternalFailure(w)
    PROVE  IInv'
<1>1. CASE FailUpload(w)
  BY <1>1, FailUploadKeepsIInv
<1>2. CASE ~ FailUpload(w)
  <2> DEFINE o == job[w].op
             row == [op[o] EXCEPT !.status = "pending",
                                  !.wait = Backoff(job[w].attempts),
                                  !.lease = 0, !.leaseLeft = 0]
  <2>1. /\ job[w] # Idle /\ HoldsLease(job[w]) /\ Release(w)
        /\ op' = [op EXCEPT ![o] = row]
        /\ UNCHANGED <<work, reviewed, produced, trouble>>
    <3>1. /\ job[w] # Idle /\ HoldsLease(job[w]) /\ Release(w)
          /\ UNCHANGED <<work, reviewed, produced, trouble>>
          /\ op' = [op EXCEPT ![o].status = "pending",
                             ![o].wait = Backoff(job[w].attempts),
                             ![o].lease = 0, ![o].leaseLeft = 0]
      BY <1>2 DEF FinishInternalFailure
    <3>2. op \in [Ops -> Operation] /\ o \in Ops
      BY <3>1 DEF IInv, TypeOK, Job
    <3>3. PICK t : t = Backoff(job[w].attempts)
      OBVIOUS
    <3> HIDE DEF o
    <3> QED
      BY <3>1, <3>2, <3>3
  <2>2. o \in Ops /\ op[o].blob /\ op[o].status = "processing"
    BY <2>1, HoldersNameTheirBlob DEF HoldsLease
  <2>3. op[o] \in Operation
    BY <2>2 DEF IInv, TypeOK
  <2>4. Backoff(job[w].attempts) \in Int
    BY <2>1, BackoffIsInt DEF IInv, TypeOK, Job, TokensAreSpent
  <2>5. /\ row \in Operation /\ row.status = "pending" /\ row.blob
        /\ row.attempts = op[o].attempts /\ row.lease = 0
    <3> HIDE DEF o
    <3> QED
      BY <2>2, <2>3, <2>4 DEF Operation, Status
  <2>6. row.lease <= row.attempts
    BY <2>3, <2>5 DEF Operation
  <2>7. /\ job' \in [Workers -> Job \cup {Idle}]
        /\ \A v \in Workers : job'[v] \in {job[v], Idle}
    BY <2>1, ReleaseIsRelease
  <2>8. trouble' \in Nat
    BY <2>1 DEF IInv, TypeOK
  <2> HIDE DEF o, row
  <2> QED
    BY <2>1, <2>2, <2>5, <2>6, <2>7, <2>8, UnsettledStepKeepsIInv
<1> QED
  BY <1>1, <1>2

LEMMA FinalizeKeepsIInv ==
    ASSUME IInv, NEW w \in Workers, FinalizeUpload(w)
    PROVE  IInv'
<1> DEFINE o == job[w].op
<1>1. o \in Ops /\ op[o].blob
  BY HoldersNameTheirBlob DEF FinalizeUpload
<1>2. /\ op' = [op EXCEPT ![o] = Settle(o, "success")]
      /\ produced' = [produced EXCEPT ![o] = @ + 1]
      /\ Reply(w) /\ reviewed' = reviewed /\ work' \in [Works -> WorkState]
  BY DEF FinalizeUpload, IInv, TypeOK
<1> HIDE DEF o
<1> QED
  BY <1>1, <1>2, ReplyIsRelease, SuccessKeepsIInv

LEMMA StageKeepsIInv ==
    ASSUME IInv, NEW w \in Workers, StageReplacement(w)
    PROVE  IInv'
<1>1. CASE ~ CandidateLock(job[w].target, job[w].version)
  BY <1>1, FailUploadKeepsIInv DEF StageReplacement
<1>2. CASE CandidateLock(job[w].target, job[w].version)
  <2> DEFINE o == job[w].op
             row == [op[o] EXCEPT !.status = "preview", !.lease = 0,
                                  !.leaseLeft = 0]
  <2>1. /\ job[w] # Idle /\ HoldsLease(job[w]) /\ Reply(w)
        /\ op' = [op EXCEPT ![o] = row]
        /\ UNCHANGED <<work, reviewed, produced>>
    BY <1>2 DEF StageReplacement, IInv, TypeOK
  <2>2. o \in Ops /\ op[o].blob /\ op[o].status = "processing"
    BY <2>1, HoldersNameTheirBlob DEF HoldsLease
  <2>3. op[o] \in Operation
    BY <2>2 DEF IInv, TypeOK
  <2>4. /\ row \in Operation /\ row.status = "preview" /\ row.blob
        /\ row.attempts = op[o].attempts /\ row.lease = 0
    <3> HIDE DEF o
    <3> QED
      BY <2>2, <2>3 DEF Operation, Status
  <2>5. row.lease <= row.attempts
    BY <2>3, <2>4 DEF Operation
  <2> HIDE DEF o, row
  <2> QED
    BY <2>1, <2>2, <2>4, <2>5, ReplyIsRelease, UnsettledStepKeepsIInv
<1> QED
  BY <1>1, <1>2

LEMMA AcceptKeepsIInv ==
    ASSUME IInv, NEW o \in Ops, AcceptReplacement(o)
    PROVE  IInv'
<1>1. work' \in [Works -> WorkState]
  <2>1. op[o].target \in Works
    BY DEF AcceptReplacement, IInv, TypeOK, Operation
  <2> QED
    BY <2>1 DEF AcceptReplacement, IInv, TypeOK, WorkState
<1>2. /\ job' \in [Workers -> Job \cup {Idle}]
      /\ \A w \in Workers : job'[w] \in {job[w], Idle}
      /\ trouble' \in Nat
  BY DEF AcceptReplacement, IInv, TypeOK
<1> QED
  BY <1>1, <1>2, SuccessKeepsIInv DEF AcceptReplacement

LEMMA CancelKeepsIInv ==
    ASSUME IInv, NEW o \in Ops, CancelReplacement(o)
    PROVE  IInv'
<1> DEFINE S == {o}
<1>1. S \in SUBSET Ops /\ \A x \in S : op[x].blob
  BY DEF CancelReplacement, IInv, UnsettledUploadsNameTheirBlob
<1>2. op' = [x \in Ops |-> IF x \in S THEN Settle(x, "cancelled") ELSE op[x]]
  BY DEF CancelReplacement, IInv, TypeOK
<1>3. /\ job' \in [Workers -> Job \cup {Idle}]
      /\ \A w \in Workers : job'[w] \in {job[w], Idle}
      /\ UNCHANGED <<work, reviewed, produced, trouble>>
  BY DEF CancelReplacement, IInv, TypeOK
<1> HIDE DEF S
<1> QED
  BY <1>1, <1>2, <1>3, GivingUpKeepsIInv

LEMMA PurgeKeepsIInv ==
    ASSUME IInv, NEW S \in SUBSET Ops, Purge(S)
    PROVE  IInv'
<1>1. /\ job' \in [Workers -> Job \cup {Idle}]
      /\ \A w \in Workers : job'[w] \in {job[w], Idle}
  BY DEF Purge, IInv, TypeOK
<1> QED
  BY <1>1, GivingUpKeepsIInv DEF Purge

LEMMA TickKeepsIInv ==
    ASSUME IInv, Tick
    PROVE  IInv'
<1> USE DEF IInv
<1>1. \A n \in Int : Less(n) \in Int /\ (n = 0 => Less(n) = 0)
                     /\ (n \in Nat => Less(n) \in Nat)
  BY DEF Less
<1>2. ASSUME NEW o \in Ops
      PROVE  /\ op'[o] \in Operation
             /\ op'[o].status = op[o].status /\ op'[o].blob = op[o].blob
             /\ op'[o].attempts = op[o].attempts /\ op'[o].lease = op[o].lease
             /\ op'[o].wait = Less(op[o].wait)
             /\ op'[o].leaseLeft = Less(op[o].leaseLeft)
  <2>1. op'[o] = [op[o] EXCEPT !.wait = Less(@), !.leaseLeft = Less(@)]
    BY DEF Tick
  <2>2. op[o] \in Operation
    BY DEF TypeOK
  <2>3. Less(op[o].wait) \in Int /\ Less(op[o].leaseLeft) \in Nat
    BY <1>1, <2>2 DEF Operation
  <2> QED
    BY <2>1, <2>2, <2>3 DEF Operation
<1>3. TypeOK'
  <2>1. op' = [o \in Ops |-> op'[o]]
    BY DEF Tick
  <2> QED
    BY <1>2, <2>1 DEF TypeOK, Tick
<1>4. TokensAreSpent'
  <2>1. \A w \in Workers : job[w] # Idle => job[w].op \in Ops
    BY DEF TypeOK, Job
  <2>2. job' = job
    BY DEF Tick
  <2> QED
    BY <1>2, <2>1, <2>2 DEF TokensAreSpent
<1>5. TokensDiffer'
  BY DEF TokensDiffer, Tick
<1>6. SettledIsQuiet'
  <2>1. Less(0) = 0
    BY DEF Less
  <2> QED
    BY <1>2, <2>1 DEF SettledIsQuiet
<1>7. UnsettledUploadsNameTheirBlob' /\ OneResultPerUpload'
  <2>1. produced' = produced
    BY DEF Tick
  <2> QED
    BY <1>2, <2>1 DEF UnsettledUploadsNameTheirBlob, OneResultPerUpload
<1> QED
  BY <1>3, <1>4, <1>5, <1>6, <1>7

LEMMA QuietActionsKeepIInv ==
    ASSUME IInv,
           \/ \E w \in Workers : LoseLease(w) \/ DropJob(w)
           \/ \E o \in Ops : OpenReview(o)
           \/ \E k \in Works : SaveDraftedChanges(k)
           \/ \E k \in Works, s \in {"open", "frozen", "gone"} : ChangeState(k, s)
           \/ Crash
           \/ UNCHANGED vars
    PROVE  IInv'
<1> USE DEF IInv, TypeOK
<1>1. ASSUME NEW w \in Workers, LoseLease(w) \/ DropJob(w) PROVE IInv'
  BY <1>1, ReleaseIsRelease, QuietStepKeepsIInv DEF LoseLease, DropJob
<1>2. ASSUME NEW o \in Ops, OpenReview(o) PROVE IInv'
  <2>1. op[o].target \in Works
    BY <1>2 DEF OpenReview, Operation
  <2>2. reviewed' \in [Ops -> Nat]
    BY <1>2, <2>1 DEF OpenReview, WorkState
  <2> QED
    BY <1>2, <2>2, QuietStepKeepsIInv DEF OpenReview
<1>3. ASSUME NEW k \in Works, SaveDraftedChanges(k) PROVE IInv'
  <2>1. work' \in [Works -> WorkState]
    BY <1>3 DEF SaveDraftedChanges, WorkState
  <2> QED
    BY <1>3, <2>1, QuietStepKeepsIInv DEF SaveDraftedChanges
<1>4. ASSUME NEW k \in Works, NEW s \in {"open", "frozen", "gone"},
             ChangeState(k, s)
      PROVE  IInv'
  <2>1. work' \in [Works -> WorkState]
    BY <1>4 DEF ChangeState, WorkState
  <2> QED
    BY <1>4, <2>1, QuietStepKeepsIInv DEF ChangeState
<1>5. CASE Crash
  BY <1>5, QuietStepKeepsIInv DEF Crash
<1>6. CASE UNCHANGED vars
  BY <1>6, QuietStepKeepsIInv DEF vars
<1> QED
  BY <1>1, <1>2, <1>3, <1>4, <1>5, <1>6

------------------------------------------------------------------------------
(* The theorems.                                                            *)

LEMMA NextKeepsIInv == IInv /\ [Next]_vars => IInv'
<1> SUFFICES ASSUME IInv, [Next]_vars PROVE IInv'
  OBVIOUS
<1>1. ASSUME NEW w \in Workers, Worker(w) PROVE IInv'
  BY <1>1, LeaseKeepsIInv, FailUploadKeepsIInv, RetryKeepsIInv,
     FinalizeKeepsIInv, StageKeepsIInv, QuietActionsKeepIInv DEF Worker
<1>2. CASE Owner
  <2>1. ASSUME NEW o \in Ops, AcceptUpload(o) PROVE IInv'
    BY <2>1, RecordKeepsIInv DEF AcceptUpload
  <2>2. ASSUME NEW o \in Ops, NEW k \in Works, AcceptOriginalFile(o, k) PROVE IInv'
    <3>1. work[k].version \in Nat
      BY DEF IInv, TypeOK, WorkState
    <3>2. PICK v \in 1..work[k].version : Record(o, k, v)
      BY <2>2 DEF AcceptOriginalFile
    <3> QED
      BY <3>1, <3>2, RecordKeepsIInv
  <2> QED
    BY <1>2, <2>1, <2>2, AcceptKeepsIInv, CancelKeepsIInv, QuietActionsKeepIInv
       DEF Owner
<1> QED
  BY <1>1, <1>2, PurgeKeepsIInv, TickKeepsIInv, QuietActionsKeepIInv DEF Next

LEMMA SpecIInv == Spec => []IInv
<1> QED
  BY InitIInv, NextKeepsIInv, PTL DEF Spec

\* Every variable keeps its type in every state of the queue.
THEOREM TypeCorrect == Spec => []TypeOK
<1>1. IInv => TypeOK
  BY DEF IInv
<1> QED
  BY SpecIInv, <1>1, PTL

\* However many workers read the same file, however often leases run out and
\* the server restarts, a file is recorded once, when its upload succeeds.
THEOREM OneResult == Spec => []OneResultPerUpload
<1>1. IInv => OneResultPerUpload
  BY DEF IInv
<1> QED
  BY SpecIInv, <1>1, PTL

\* No two workers can both write the outcome of one upload.
THEOREM OneWriter == Spec => []OneWriterPerUpload
<1>1. IInv => OneWriterPerUpload
  BY DEF IInv, TokensDiffer, OneWriterPerUpload, HoldsLease
<1> QED
  BY SpecIInv, <1>1, PTL

\* An upload's row names its blob exactly until the upload settles.
THEOREM BlobUntilSettled == Spec => []UnsettledUploadsNameTheirBlob
<1>1. IInv => UnsettledUploadsNameTheirBlob
  BY DEF IInv
<1> QED
  BY SpecIInv, <1>1, PTL

\* A settled row is never written again.
THEOREM SettledForGood == Spec => SettledStaysSettled
<1> DEFINE Untouched == \A o \in Ops : op[o].status \in Settled => op'[o] = op[o]
<1>1. IInv /\ [Next]_vars => [Untouched]_vars
  <2> SUFFICES ASSUME IInv, Next, NEW o \in Ops, op[o].status \in Settled
               PROVE  op'[o] = op[o]
    BY DEF vars
  <2>1. op[o] \in Operation /\ ~ op[o].blob /\ op[o].wait = 0 /\ op[o].leaseLeft = 0
    BY DEF IInv, TypeOK, UnsettledUploadsNameTheirBlob, SettledIsQuiet, Settled
  <2>2. ASSUME NEW w \in Workers, Worker(w) \/ DropJob(w) PROVE op'[o] = op[o]
    BY <2>2 DEF IInv, TypeOK, Job, Worker, DropJob, LeaseNextUpload, Leasable, LoseLease,
       FailUpload, FinishInternalFailure, FinalizeUpload, StageReplacement,
       HoldsLease, Settled
  <2>3. CASE Owner
    BY <2>3 DEF IInv, TypeOK, Owner, AcceptUpload, AcceptOriginalFile, Record,
       OpenReview, AcceptReplacement, CancelReplacement, SaveDraftedChanges,
       ChangeState, Settled
  <2>4. ASSUME NEW S \in SUBSET Ops, Purge(S) PROVE op'[o] = op[o]
    BY <2>1, <2>4 DEF Purge
  <2>5. CASE Tick
    <3>1. Less(0) = 0
      BY DEF Less
    <3>2. op'[o] = [op[o] EXCEPT !.wait = 0, !.leaseLeft = 0]
      BY <2>1, <2>5, <3>1 DEF Tick
    <3> QED
      BY <2>1, <3>2 DEF Operation
  <2>6. CASE Crash
    BY <2>6 DEF Crash
  <2> QED
    BY <2>2, <2>3, <2>4, <2>5, <2>6 DEF Next
<1> QED
  BY SpecIInv, <1>1, PTL DEF Spec, SettledStaysSettled

------------------------------------------------------------------------------
(***************************************************************************)
(* What a step of UploadQueue may do to one row: the life of an upload.    *)
(*                                                                         *)
(* LifeOfARow names the ways in which a row changes; every step of the     *)
(* queue leaves a row alone or changes it in one of them.  What a worker,  *)
(* an owner or a clock may never do to an upload follows from the list.    *)
(***************************************************************************)

Recorded(o) ==
    /\ op[o].status = "absent"
    /\ op'[o].status = "pending" /\ op'[o].attempts = 0 /\ op'[o].lease = 0

Leased(o) ==
    /\ Leasable(o)
    /\ op'[o].status = "processing"
    /\ op'[o].attempts = op[o].attempts + 1
    /\ op'[o].lease = op'[o].attempts

\* The holder of the lease puts the upload back.
Retried(o) ==
    /\ op[o].status = "processing"
    /\ op'[o].status = "pending" /\ op'[o].attempts = op[o].attempts
    /\ op'[o].lease = 0
    /\ \E w \in Workers : /\ job[w] # Idle /\ job[w].token = op[o].lease
                          /\ job[w].attempts < MaxAttempts
                          /\ op'[o].wait = Backoff(job[w].attempts)

Staged(o) ==
    /\ op[o].status = "processing"
    /\ op'[o].status = "preview"
    /\ op'[o].attempts = op[o].attempts

Failed(o) ==
    /\ op[o].status \in {"pending", "processing", "preview"}
    /\ op'[o].status \in {"failed", "cancelled"}
    /\ op'[o].attempts = op[o].attempts

Made(o) ==
    /\ op[o].status = "processing"
    /\ op'[o].status = "success"
    /\ op'[o].attempts = op[o].attempts

Accepted(o) ==
    /\ op[o].status = "preview"
    /\ op'[o].status = "success"
    /\ op'[o].attempts = op[o].attempts
    /\ op[o].target \in Works
    /\ CandidateLock(op[o].target, reviewed[o])

Waited(o) ==
    /\ op'[o].status = op[o].status
    /\ op'[o].attempts = op[o].attempts
    /\ op'[o].lease = op[o].lease

Lives(o) ==
    \/ Waited(o) \/ Recorded(o) \/ Leased(o) \/ Retried(o)
    \/ Staged(o) \/ Failed(o) \/ Made(o) \/ Accepted(o)

\* An upload a worker has is leased for its latest try; one that waits is
\* leased for none.
ProcessingIsLeased ==
    \A o \in Ops : /\ op[o].status = "processing" => op[o].lease = op[o].attempts
                   /\ op[o].status = "pending" => op[o].lease = 0

------------------------------------------------------------------------------

LEMMA WorkerRows ==
    ASSUME IInv, NEW w \in Workers, Worker(w), NEW o \in Ops
    PROVE  Lives(o)
<1> USE DEF IInv
<1>1. job[w] # Idle => job[w].op \in Ops
  BY DEF TypeOK, Job
<1>2. op \in [Ops -> Operation]
  BY DEF TypeOK
<1>3. ASSUME job[w] # Idle, op' = [op EXCEPT ![job[w].op] = Settle(job[w].op, "failed")],
             HoldsLease(job[w])
      PROVE  Lives(o)
  BY <1>1, <1>2, <1>3 DEF Lives, Waited, Failed, HoldsLease, Settle
<1>4. ASSUME FailUpload(w) PROVE Lives(o)
  BY <1>3, <1>4 DEF FailUpload
<1>5. CASE \E x \in Ops : LeaseNextUpload(w, x)
  <2>1. PICK x \in Ops : LeaseNextUpload(w, x)
    BY <1>5
  <2>2. op[x] \in Operation
    BY <1>2
  <2>3. op' = [op EXCEPT ![x].status = "processing", ![x].attempts = op[x].attempts + 1,
                         ![x].lease = op[x].attempts + 1, ![x].leaseLeft = LeaseDuration]
    BY <2>1 DEF LeaseNextUpload
  <2>4. CASE x = o
    <3>1. /\ op'[o].status = "processing" /\ op'[o].attempts = op[o].attempts + 1
          /\ op'[o].lease = op[o].attempts + 1
      BY <1>2, <2>2, <2>3, <2>4 DEF Operation
    <3> QED
      BY <2>1, <2>4, <3>1 DEF Lives, Leased, LeaseNextUpload
  <2>5. CASE x # o
    BY <1>2, <2>3, <2>5 DEF Lives, Waited
  <2> QED
    BY <2>4, <2>5
<1>6. CASE LoseLease(w)
  BY <1>6 DEF LoseLease, Lives, Waited
<1>7. CASE FinishInternalFailure(w)
  <2>1. CASE FailUpload(w)
    BY <1>4, <2>1
  <2>2. CASE ~ FailUpload(w)
    <3>1. /\ job[w] # Idle /\ job[w].attempts < MaxAttempts /\ HoldsLease(job[w])
          /\ op' = [op EXCEPT ![job[w].op].status = "pending",
                              ![job[w].op].wait = Backoff(job[w].attempts),
                              ![job[w].op].lease = 0, ![job[w].op].leaseLeft = 0]
      BY <1>7, <2>2 DEF FinishInternalFailure
    <3>2. CASE job[w].op = o
      <4>1. /\ op'[o].status = "pending" /\ op'[o].attempts = op[o].attempts
            /\ op'[o].lease = 0 /\ op'[o].wait = Backoff(job[w].attempts)
        BY <1>2, <3>1, <3>2 DEF Operation
      <4>2. Retried(o)
        BY <3>1, <3>2, <4>1 DEF Retried, HoldsLease
      <4> QED
        BY <4>2 DEF Lives
    <3>3. CASE job[w].op # o
      BY <1>1, <1>2, <3>1, <3>3 DEF Lives, Waited
    <3> QED
      BY <3>2, <3>3
  <2> QED
    BY <2>1, <2>2
<1>8. CASE FinalizeUpload(w)
  <2>1. CASE job[w].op = o
    BY <1>2, <1>8, <2>1 DEF FinalizeUpload, HoldsLease, Settle, Lives, Made
  <2>2. CASE job[w].op # o
    BY <1>1, <1>2, <1>8, <2>2 DEF FinalizeUpload, Lives, Waited
  <2> QED
    BY <2>1, <2>2
<1>9. CASE StageReplacement(w)
  <2>1. CASE FailUpload(w)
    BY <1>4, <2>1
  <2>2. CASE ~ FailUpload(w)
    <3>1. /\ job[w] # Idle /\ HoldsLease(job[w])
          /\ op' = [op EXCEPT ![job[w].op].status = "preview",
                              ![job[w].op].lease = 0, ![job[w].op].leaseLeft = 0]
      BY <1>9, <2>2 DEF StageReplacement
    <3>2. CASE job[w].op = o
      BY <1>2, <3>1, <3>2 DEF Operation, HoldsLease, Lives, Staged
    <3>3. CASE job[w].op # o
      BY <1>1, <1>2, <3>1, <3>3 DEF Lives, Waited
    <3> QED
      BY <3>2, <3>3
  <2> QED
    BY <2>1, <2>2
<1> QED
  BY <1>4, <1>5, <1>6, <1>7, <1>8, <1>9 DEF Worker

LEMMA OwnerRows ==
    ASSUME IInv, Owner, NEW o \in Ops
    PROVE  Lives(o)
<1> USE DEF IInv
<1>1. op \in [Ops -> Operation]
  BY DEF TypeOK
<1>2. ASSUME NEW x \in Ops, NEW k, NEW v, Record(x, k, v) PROVE Lives(o)
  <2>1. op[x].status = "absent"
    BY <1>2 DEF Record
  <2>2. CASE x = o
    BY <1>1, <1>2, <2>2 DEF Record, Lives, Recorded
  <2>3. CASE x # o
    BY <1>1, <1>2, <2>3 DEF Record, Lives, Waited
  <2> QED
    BY <2>2, <2>3
<1>3. ASSUME NEW x \in Ops, AcceptReplacement(x) PROVE Lives(o)
  <2>1. CASE x = o
    <3>1. op[o].target \in Works
      BY <1>1, <1>3, <2>1 DEF AcceptReplacement, Operation
    <3> QED
      BY <1>1, <1>3, <2>1, <3>1 DEF AcceptReplacement, Settle, Lives, Accepted
  <2>2. CASE x # o
    BY <1>1, <1>3, <2>2 DEF AcceptReplacement, Lives, Waited
  <2> QED
    BY <2>1, <2>2
<1>4. ASSUME NEW x \in Ops, CancelReplacement(x) PROVE Lives(o)
  BY <1>1, <1>4 DEF CancelReplacement, Settle, Lives, Failed, Waited
<1>5. ASSUME op' = op PROVE Lives(o)
  BY <1>5 DEF Lives, Waited
<1>6. ASSUME NEW x \in Ops, OpenReview(x) PROVE Lives(o)
  BY <1>5, <1>6 DEF OpenReview
<1>7. ASSUME NEW k \in Works, SaveDraftedChanges(k) \/ \E s \in {"open", "frozen", "gone"} : ChangeState(k, s)
      PROVE  Lives(o)
  BY <1>5, <1>7 DEF SaveDraftedChanges, ChangeState
<1> QED
  BY <1>2, <1>3, <1>4, <1>6, <1>7 DEF Owner, AcceptUpload, AcceptOriginalFile

\* Whoever takes a step, a row lives on in one of the ways listed.
THEOREM LifeOfARow ==
    ASSUME IInv, [Next]_vars, NEW o \in Ops
    PROVE  Lives(o)
<1>1. op \in [Ops -> Operation]
  BY DEF IInv, TypeOK
<1>2. ASSUME op' = op PROVE Lives(o)
  BY <1>2 DEF Lives, Waited
<1>3. ASSUME NEW S \in SUBSET Ops, Purge(S) PROVE Lives(o)
  <2>1. op[o].blob => op[o].status \in {"pending", "processing", "preview"}
    BY DEF IInv, UnsettledUploadsNameTheirBlob
  <2>2. CASE o \in S
    BY <1>3, <2>1, <2>2 DEF Purge, Settle, Lives, Failed
  <2>3. CASE o \notin S
    BY <1>3, <2>3 DEF Purge, Lives, Waited
  <2> QED
    BY <2>2, <2>3
<1>4. CASE Tick
  <2>1. op'[o] = [op[o] EXCEPT !.wait = Less(@), !.leaseLeft = Less(@)]
    BY <1>4 DEF Tick
  <2> QED
    BY <1>1, <2>1 DEF Operation, Lives, Waited
<1>5. CASE Crash
  BY <1>2, <1>5 DEF Crash
<1>6. ASSUME NEW w \in Workers, DropJob(w) PROVE Lives(o)
  BY <1>2, <1>6 DEF DropJob
<1>7. CASE UNCHANGED vars
  BY <1>2, <1>7 DEF vars
<1> QED
  BY <1>3, <1>4, <1>5, <1>6, <1>7, WorkerRows, OwnerRows DEF Next

------------------------------------------------------------------------------
(* The theorems.                                                            *)

\* An upload is put back only with tries left, for the backoff of every lease
\* taken of it: whoever puts it back holds its latest lease, so the worker's
\* copy of the count is the row's.
THEOREM RetriesAreSpread == Spec => RetriesBackOff
<1> DEFINE Spread ==
      \A o \in Ops :
         /\ (op[o].status = "processing" /\ op'[o].status = "pending") =>
               /\ op[o].attempts < MaxAttempts
               /\ op'[o].wait = Backoff(op[o].attempts)
         /\ (op[o].status # "absent" /\ op'[o].attempts # op[o].attempts) =>
               /\ op'[o].attempts = op[o].attempts + 1
               /\ op'[o].status = "processing"
               /\ op'[o].lease # op[o].lease
<1>1. Init => ProcessingIsLeased
  BY DEF Init, ProcessingIsLeased, NoOperation
<1>2. IInv /\ ProcessingIsLeased /\ [Next]_vars => ProcessingIsLeased'
  <2> SUFFICES ASSUME IInv, ProcessingIsLeased, [Next]_vars, NEW o \in Ops
               PROVE  /\ op'[o].status = "processing" => op'[o].lease = op'[o].attempts
                      /\ op'[o].status = "pending" => op'[o].lease = 0
    BY DEF ProcessingIsLeased
  <2>1. Lives(o)
    BY LifeOfARow
  <2> QED
    BY <2>1 DEF Lives, Waited, Recorded, Leased, Retried, Staged, Failed,
                Made, Accepted, ProcessingIsLeased
<1>3. IInv /\ ProcessingIsLeased /\ [Next]_vars => [Spread]_vars
  <2> SUFFICES ASSUME IInv, ProcessingIsLeased, [Next]_vars, NEW o \in Ops
               PROVE  /\ (op[o].status = "processing" /\ op'[o].status = "pending") =>
                            /\ op[o].attempts < MaxAttempts
                            /\ op'[o].wait = Backoff(op[o].attempts)
                      /\ (op[o].status # "absent" /\ op'[o].attempts # op[o].attempts) =>
                            /\ op'[o].attempts = op[o].attempts + 1
                            /\ op'[o].status = "processing"
                            /\ op'[o].lease # op[o].lease
    OBVIOUS
  <2>1. Lives(o)
    BY LifeOfARow
  <2>2. ASSUME op[o].status = "processing", op'[o].status = "pending"
        PROVE  op[o].attempts < MaxAttempts /\ op'[o].wait = Backoff(op[o].attempts)
    <3>1. Retried(o)
      BY <2>1, <2>2 DEF Lives, Waited, Recorded, Leased, Retried, Staged, Failed,
                        Made, Accepted
    <3>2. PICK w \in Workers : /\ job[w] # Idle /\ job[w].token = op[o].lease
                               /\ job[w].attempts < MaxAttempts
                               /\ op'[o].wait = Backoff(job[w].attempts)
      BY <3>1 DEF Retried
    <3>3. job[w].attempts = op[o].attempts
      BY <2>2, <3>2 DEF IInv, TokensAreSpent, ProcessingIsLeased
    <3> QED
      BY <3>2, <3>3
  <2>3. ASSUME op[o].status # "absent", op'[o].attempts # op[o].attempts
        PROVE  /\ op'[o].attempts = op[o].attempts + 1
               /\ op'[o].status = "processing"
               /\ op'[o].lease # op[o].lease
    <3>1. Leased(o)
      BY <2>1, <2>3 DEF Lives, Waited, Recorded, Leased, Retried, Staged, Failed,
                        Made, Accepted
    <3>2. op[o].attempts \in Nat /\ op[o].lease \in Nat /\ op[o].lease <= op[o].attempts
      BY DEF IInv, TypeOK, Operation, TokensAreSpent
    <3> QED
      BY <3>1, <3>2 DEF Leased
  <2> QED
    BY <2>2, <2>3
<1> QED
  BY SpecIInv, <1>1, <1>2, <1>3, PTL DEF Spec, RetriesBackOff

\* No worker is overtaken while its lease lasts.
THEOREM LeaseLasts == Spec => SlowUploadKeepsItsLease
<1> DEFINE Kept == \A o \in Ops :
                      op[o].status = "processing" /\ op[o].leaseLeft > 0
                      /\ op'[o].status = "processing" => op'[o].lease = op[o].lease
<1>1. IInv /\ [Next]_vars => [Kept]_vars
  <2> SUFFICES ASSUME IInv, [Next]_vars, NEW o \in Ops, op[o].status = "processing",
                      op[o].leaseLeft > 0, op'[o].status = "processing"
               PROVE  op'[o].lease = op[o].lease
    OBVIOUS
  <2>1. Lives(o)
    BY LifeOfARow
  <2>2. ~ Leasable(o)
    BY DEF Leasable, IInv, TypeOK, Operation
  <2> QED
    BY <2>1, <2>2 DEF Lives, Waited, Recorded, Leased, Retried, Staged, Failed,
                      Made, Accepted
<1> QED
  BY SpecIInv, <1>1, PTL DEF Spec, SlowUploadKeepsItsLease

\* What an owner accepts is applied to the version the review had open, and
\* never to a work taken down or deleted meanwhile.
THEOREM AcceptanceIsReviewed == Spec => AcceptedAsReviewed
<1> DEFINE AsReviewed == \A o \in Ops :
              (op[o].status = "preview" /\ op'[o].status = "success")
                 => work[op[o].target] = [version |-> reviewed[o], state |-> "open"]
<1>1. IInv /\ [Next]_vars => [AsReviewed]_vars
  <2> SUFFICES ASSUME IInv, [Next]_vars, NEW o \in Ops, op[o].status = "preview",
                      op'[o].status = "success"
               PROVE  work[op[o].target] = [version |-> reviewed[o], state |-> "open"]
    OBVIOUS
  <2>1. Lives(o)
    BY LifeOfARow
  <2>2. Accepted(o)
    BY <2>1 DEF Lives, Waited, Recorded, Leased, Leasable, Retried, Staged, Failed,
                Made
  <2>3. work[op[o].target] \in WorkState
    BY <2>2 DEF Accepted, IInv, TypeOK
  <2> QED
    BY <2>2, <2>3 DEF Accepted, CandidateLock, WorkState
<1> QED
  BY SpecIInv, <1>1, PTL DEF Spec, AcceptedAsReviewed
------------------------------------------------------------------------------
(* The queue implements OneShotJobs.                                        *)

Held(x) == op'[x].status = op[x].status

\* Only a purge moves several uploads in one step.
LEMMA OneRowMoves ==
    ASSUME IInv, [Next]_vars
    PROVE  \/ \A x \in Ops : Held(x)
           \/ \E o \in Ops : \A x \in Ops \ {o} : Held(x)
           \/ \E S \in SUBSET Ops : Purge(S)
<1>1. op \in [Ops -> Operation]
  BY DEF IInv, TypeOK
<1>2. ASSUME op' = op PROVE \A x \in Ops : Held(x)
  BY <1>2 DEF Held
<1>3. ASSUME NEW o \in Ops, NEW row, op' = [op EXCEPT ![o] = row]
      PROVE  \A x \in Ops \ {o} : Held(x)
  BY <1>1, <1>3 DEF Held
<1>4. ASSUME NEW w \in Workers, Worker(w) \/ DropJob(w)
      PROVE  op' = op \/ \E o \in Ops : \A x \in Ops \ {o} : Held(x)
  <2>1. job[w] # Idle => job[w].op \in Ops
    BY DEF IInv, TypeOK, Job
  <2>2. CASE \E o \in Ops : LeaseNextUpload(w, o)
    BY <1>1, <2>2 DEF LeaseNextUpload, Held
  <2>3. CASE LoseLease(w) \/ DropJob(w)
    BY <2>3 DEF LoseLease, DropJob
  <2>4. ASSUME FailUpload(w) PROVE \E o \in Ops : \A x \in Ops \ {o} : Held(x)
    BY <1>1, <2>1, <2>4 DEF FailUpload, Held
  <2>5. CASE FinishInternalFailure(w)
    <3>1. CASE FailUpload(w)
      BY <2>4, <3>1
    <3>2. CASE ~ FailUpload(w)
      BY <1>1, <2>1, <2>5, <3>2 DEF FinishInternalFailure, Held
    <3> QED
      BY <3>1, <3>2
  <2>6. CASE FinalizeUpload(w)
    BY <1>1, <2>1, <2>6 DEF FinalizeUpload, Held
  <2>7. CASE StageReplacement(w)
    <3>1. CASE FailUpload(w)
      BY <2>4, <3>1
    <3>2. CASE ~ FailUpload(w)
      BY <1>1, <2>1, <2>7, <3>2 DEF StageReplacement, Held
    <3> QED
      BY <3>1, <3>2
  <2> QED
    BY <1>4, <2>2, <2>3, <2>4, <2>5, <2>6, <2>7 DEF Worker
<1>5. ASSUME Owner
      PROVE  op' = op \/ \E o \in Ops : \A x \in Ops \ {o} : Held(x)
  <2>1. ASSUME NEW o \in Ops, NEW k, NEW v, Record(o, k, v)
        PROVE  \A x \in Ops \ {o} : Held(x)
    BY <1>1, <2>1 DEF Record, Held
  <2>2. ASSUME NEW o \in Ops, AcceptReplacement(o) \/ CancelReplacement(o)
        PROVE  \A x \in Ops \ {o} : Held(x)
    BY <1>1, <2>2 DEF AcceptReplacement, CancelReplacement, Held
  <2> QED
    BY <1>5, <2>1, <2>2 DEF Owner, AcceptUpload, AcceptOriginalFile, OpenReview,
                            SaveDraftedChanges, ChangeState
<1>6. CASE Tick
  BY <1>1, <1>6 DEF Tick, Held, Operation
<1>7. CASE Crash \/ UNCHANGED vars
  BY <1>2, <1>7 DEF Crash, vars
<1> QED
  BY <1>2, <1>4, <1>5, <1>6, <1>7 DEF Next

LEMMA StagesOfStatuses ==
    /\ Stage("absent") = "unknown"
    /\ Stage("pending") = "open" /\ Stage("processing") = "open"
    /\ Stage("preview") = "review" /\ Stage("success") = "done"
    /\ Stage("failed") = "dropped" /\ Stage("cancelled") = "dropped"
BY DEF Stage

\* What has become of an upload decides how often it has been recorded, so
\* only the stages have to be followed.
LEMMA StepKeepsPromise ==
    ASSUME IInv, IInv', [Next]_vars
    PROVE  [Promise!Next]_(Promise!jobVars)
<1> DEFINE before == [o \in Ops |-> Stage(op[o].status)]
           after  == [o \in Ops |-> Stage(op'[o].status)]
<1>1. /\ op \in [Ops -> Operation] /\ op' \in [Ops -> Operation]
      /\ produced \in [Ops -> Nat] /\ produced' \in [Ops -> Nat]
  BY DEF IInv, TypeOK
<1>2. \A o \in Ops : /\ produced[o] = IF op[o].status = "success" THEN 1 ELSE 0
                     /\ produced'[o] = IF op'[o].status = "success" THEN 1 ELSE 0
  BY DEF IInv, OneResultPerUpload
<1>3. CASE \A x \in Ops : Held(x)
  <2>1. before = after
    BY <1>3 DEF Held
  <2>2. produced' = produced
    BY <1>1, <1>2, <1>3 DEF Held
  <2> QED
    BY <2>1, <2>2 DEF Promise!jobVars
<1>4. ASSUME NEW o \in Ops, \A x \in Ops \ {o} : Held(x), ~ Held(o)
      PROVE  [Promise!Next]_(Promise!jobVars)
  <2>1. after = [before EXCEPT ![o] = Stage(op'[o].status)]
    <3>1. \A x \in Ops : after[x] = IF x = o THEN Stage(op'[o].status) ELSE before[x]
      <4> SUFFICES ASSUME NEW x \in Ops
                   PROVE  after[x] = IF x = o THEN Stage(op'[o].status) ELSE before[x]
        OBVIOUS
      <4>1. x # o => op'[x].status = op[x].status
        BY <1>4 DEF Held
      <4> QED
        BY <4>1
    <3> QED
      BY <3>1
  <2>2. op'[o].status # "success" /\ op[o].status # "success" => produced' = produced
    BY <1>1, <1>2, <1>4 DEF Held
  <2>3. op'[o].status = "success" /\ op[o].status # "success"
           => produced' = [produced EXCEPT ![o] = @ + 1]
    BY <1>1, <1>2, <1>4 DEF Held
  <2>4. Lives(o)
    BY LifeOfARow
  <2>5. CASE Recorded(o)
    <3>1. Promise!Submit(o)
      BY <2>1, <2>2, <2>5, StagesOfStatuses DEF Recorded, Promise!Submit
    <3> QED
      BY <3>1 DEF Promise!Next
  <2>6. CASE Staged(o)
    <3>1. Promise!Stage(o)
      BY <2>1, <2>2, <2>6, StagesOfStatuses DEF Staged, Promise!Stage
    <3> QED
      BY <3>1 DEF Promise!Next
  <2>7. CASE Made(o) \/ Accepted(o)
    <3>1. Promise!Finish(o)
      BY <2>1, <2>3, <2>7, StagesOfStatuses
         DEF Made, Accepted, Promise!Finish, Promise!Unfinished
    <3> QED
      BY <3>1 DEF Promise!Next
  <2>8. CASE Failed(o)
    <3>1. Promise!GiveUp({o})
      <4>1. after = [x \in Ops |-> IF x \in {o} THEN "dropped" ELSE before[x]]
        BY <2>1, <2>8, StagesOfStatuses DEF Failed
      <4>2. before[o] \in {"open", "review"}
        BY <2>8, StagesOfStatuses DEF Failed
      <4>3. produced' = produced
        BY <2>2, <2>8 DEF Failed
      <4> QED
        BY <4>1, <4>2, <4>3 DEF Promise!GiveUp, Promise!Unfinished
    <3> QED
      BY <3>1 DEF Promise!Next
  <2>9. CASE Leased(o) \/ Retried(o)
    <3>1. op[o].status \in {"pending", "processing"}
      BY <2>9 DEF Leased, Leasable, Retried
    <3>2. op'[o].status \in {"pending", "processing"}
      BY <2>9 DEF Leased, Retried
    <3>3. Stage(op'[o].status) = before[o]
      BY <3>1, <3>2, StagesOfStatuses
    <3>4. after = before
      BY <2>1, <3>3
    <3>5. produced' = produced
      BY <2>2, <3>1, <3>2
    <3> QED
      BY <3>4, <3>5 DEF Promise!jobVars
  <2> QED
    BY <1>4, <2>4, <2>5, <2>6, <2>7, <2>8, <2>9 DEF Lives, Waited, Held
<1>5. ASSUME NEW S \in SUBSET Ops, Purge(S) PROVE Promise!Next
  <2>1. \A o \in S : op[o].status \in {"pending", "processing", "preview"}
    BY <1>5 DEF Purge, IInv, UnsettledUploadsNameTheirBlob
  <2>2. after = [o \in Ops |-> IF o \in S THEN "dropped" ELSE before[o]]
    BY <1>5, StagesOfStatuses DEF Purge, Settle
  <2>3. \A o \in S : before[o] \in {"open", "review"}
    BY <2>1, StagesOfStatuses
  <2>4. Promise!GiveUp(S)
    BY <1>5, <2>2, <2>3 DEF Purge, Promise!GiveUp, Promise!Unfinished
  <2> QED
    BY <2>4 DEF Promise!Next
<1> QED
  BY <1>3, <1>4, <1>5, OneRowMoves

\* The queue keeps what OneShotJobs promises, for any number of uploads and
\* whatever fails: each step of it is one of the promise's steps or none.
\* That open jobs move on needs fairness and is left to the model checker.
THEOREM KeepsThePromise == Spec => Promise!Safe
<1>1. Init => Promise!Init
  BY StagesOfStatuses DEF Init, NoOperation, Promise!Init
<1>2. IInv /\ IInv' /\ [Next]_vars => [Promise!Next]_(Promise!jobVars)
  BY StepKeepsPromise
<1> QED
  BY SpecIInv, <1>1, <1>2, PTL DEF Spec, Promise!Safe
=================================================================================
