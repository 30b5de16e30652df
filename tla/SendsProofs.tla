------------------------------ MODULE SendsProofs ------------------------------
(***************************************************************************)
(* What Sends guarantees for any number of apps, works, sends and          *)
(* requests, and for any settings.                                         *)
(*                                                                         *)
(* The argument for the types: a takedown notice speaks of a takedown that *)
(* happened (DownWasTaken), and a claim takes no send that was taken       *)
(* MaxAttempts times (ClaimedRows).                                        *)
(***************************************************************************)
EXTENDS Sends, TLAPS

\* A work that is down was taken down at least once.
DownWasTaken == \A w \in Works : work[w].state = "down" => work[w].takedowns > 0

IInv == TypeOK /\ DownWasTaken

------------------------------------------------------------------------------
(* Types.                                                                   *)

LEMMA AnyAreThere == AnyApp \in Apps /\ AnyWork \in Works
BY SendsAssumption DEF AnyApp, AnyWork

LEMMA SettingsAreNumbers ==
    /\ Lease \in Nat /\ Retention \in Nat
    /\ MaxAttempts \in Nat /\ Batch \in Nat \ {0} /\ MaxTakedowns \in Nat
    /\ MaxChanges \in Nat /\ MaxTrouble \in Nat
BY SendsAssumption

LEMMA IdleIsRequest ==
    ASSUME NEW a \in Apps, NEW w \in Works
    PROVE  /\ Idle(a, w) \in Request
           /\ Idle(a, w).phase = "idle" /\ Idle(a, w).app = a
           /\ ~ Idle(a, w).superseded
BY DEF Idle, Request, Phases

\* What a claim writes into its request.
LEMMA FilledIsRequest ==
    ASSUME NEW q \in Request, NEW phase \in Phases, NEW sends \in SUBSET SendIds,
           NEW notices \in SUBSET (Works \X (1..MaxTakedowns))
    PROVE  /\ [q EXCEPT !.phase = phase, !.sends = sends, !.notices = notices] \in Request
           /\ [q EXCEPT !.phase = phase, !.passed = sends] \in Request
BY DEF Request

LEMMA ChangeIsTyped == ASSUME IInv, Change PROVE spent' \in Spent
<1>1. spent \in Spent
  BY DEF IInv, TypeOK
<1>2. spent' = [changes |-> spent.changes + 1, trouble |-> spent.trouble, lost |-> spent.lost]
  BY <1>1 DEF Change, Spent
<1> QED
  BY <1>1, <1>2, SettingsAreNumbers DEF Change, Spent

Taken(answers) == UNION {{req[r].app} \X req[r].notices : r \in answers}

LEMMA TroubleSpends ==
    ASSUME IInv, NEW answers, Trouble(answers)
    PROVE  spent' = [changes |-> spent.changes, trouble |-> spent.trouble + 1,
                     lost |-> spent.lost \cup Taken(answers)]
BY DEF IInv, TypeOK, Spent, Trouble, Taken

LEMMA TroubleIsTyped ==
    ASSUME IInv, NEW answers \in SUBSET Requests, Trouble(answers) PROVE spent' \in Spent
<1>1. spent \in Spent
  BY DEF IInv, TypeOK
<1>2. Taken(answers) \in SUBSET (Apps \X (Works \X (1..MaxTakedowns)))
  BY DEF IInv, TypeOK, Request, Taken
<1>3. spent.trouble + 1 \in 0..MaxTrouble
  BY <1>1, SettingsAreNumbers DEF Trouble, Spent
<1> QED
  BY <1>1, <1>2, <1>3, TroubleSpends DEF Spent

LEMMA InitIInv == Init => IInv
<1> SUFFICES ASSUME Init PROVE IInv
  OBVIOUS
<1>1. send \in [SendIds -> SendRow]
  BY AnyAreThere, SendsAssumption DEF Init, Unused, SendRow, Live, Settled
<1>2. req \in [Requests -> Request]
  BY AnyAreThere, IdleIsRequest DEF Init
<1>3. library \in [Apps -> [Works -> {Absent} \cup 0..MaxTakedowns]]
  BY DEF Init
<1>4. work \in [Works -> [state : {"public", "deleted", "down"},
                          takedowns : 0..MaxTakedowns]]
  BY SendsAssumption DEF Init
<1>5. spent \in Spent
  BY SendsAssumption DEF Init, Spent
<1>6. DownWasTaken
  BY DEF Init, DownWasTaken
<1> QED
  BY <1>1, <1>2, <1>3, <1>4, <1>5, <1>6 DEF Init, IInv, TypeOK

\* The rows a claim leaves.
LEMMA ClaimedRows ==
    ASSUME IInv, NEW r \in Requests, NEW claimed \in Batches(r)
    PROVE  /\ Claimed(r, claimed) \in [SendIds -> SendRow]
           /\ Released(r, claimed) \in SUBSET SendIds
           /\ Able(req[r].app) \ claimed \in SUBSET SendIds
<1>1. claimed \subseteq SendIds /\ \A s \in claimed : Claimable(req[r].app, s)
  BY DEF Batches, Able
<1>2. ASSUME NEW s \in SendIds PROVE send[s] \in SendRow
  BY DEF IInv, TypeOK
<1>3. ASSUME NEW s \in claimed PROVE Release(r, s) \in SendRow
  <2>1. send[s] \in SendRow /\ send[s].attempts < MaxAttempts
    BY <1>1, <1>2 DEF Claimable
  <2>2. send[s].attempts + 1 \in 0..MaxAttempts
    BY <2>1, SettingsAreNumbers DEF SendRow
  <2>3. CASE Sendable(send[s].work) /\ req[r].declared
    <3>1. Release(r, s) = [state |-> "released", app |-> send[s].app, work |-> send[s].work,
                           attempts |-> send[s].attempts + 1, lease |-> Lease,
                           expires |-> send[s].expires]
      BY <2>1, <2>3 DEF Release, SendRow
    <3> QED
      BY <2>1, <2>2, <3>1, SettingsAreNumbers DEF SendRow, Live
  <2>4. CASE ~ (Sendable(send[s].work) /\ req[r].declared)
    <3>1. Release(r, s) = [state |-> "failed", app |-> send[s].app, work |-> send[s].work,
                           attempts |-> send[s].attempts + 1, lease |-> 0,
                           expires |-> send[s].expires]
      BY <2>1, <2>4 DEF Release, SendRow
    <3> QED
      BY <2>1, <2>2, <3>1, SettingsAreNumbers DEF SendRow, Settled
  <2> QED
    BY <2>3, <2>4
<1>4. ASSUME NEW s \in SendIds PROVE [send[s] EXCEPT !.state = "failed"] \in SendRow
  BY <1>2 DEF SendRow, Settled
<1>5. Claimed(r, claimed) \in [SendIds -> SendRow]
  BY <1>2, <1>3, <1>4 DEF Claimed
<1> QED
  BY <1>1, <1>5 DEF Released, Able

\* The entries and notices of an answer, from a library that has its type.
LEMMA NoticesAreTyped ==
    ASSUME IInv, NEW lib \in [Apps -> [Works -> {Absent} \cup 0..MaxTakedowns]],
           NEW a \in Apps
    PROVE  /\ Notified(lib, a) \in [Apps -> [Works -> {Absent} \cup 0..MaxTakedowns]]
           /\ Takedowns(Pending(lib, a)) \in SUBSET (Works \X (1..MaxTakedowns))
<1>1. \A w \in Works : work[w].takedowns \in 0..MaxTakedowns
  BY DEF IInv, TypeOK
<1>2. \A w \in Pending(lib, a) : w \in Works /\ work[w].takedowns \in 1..MaxTakedowns
  BY <1>1, SendsAssumption DEF Pending, IInv, DownWasTaken
<1>3. [w \in Works |-> IF w \in Pending(lib, a) THEN work[w].takedowns ELSE lib[a][w]]
         \in [Works -> {Absent} \cup 0..MaxTakedowns]
  BY <1>1
<1> QED
  BY <1>2, <1>3 DEF Notified, Takedowns

LEMMA ReleaseHoldIsTyped ==
    ASSUME IInv, NEW r \in Requests
    PROVE  ReleaseHold(r) \in [Apps -> Requests \cup {None}]
BY DEF ReleaseHold, IInv, TypeOK, Request

\* A step that changes requests and the hub only.
LEMMA RequestStepKeepsIInv ==
    ASSUME IInv, req' \in [Requests -> Request], hub' \in [Apps -> Requests \cup {None}],
           UNCHANGED <<app, work, send, library, got, told, spent>>
    PROVE  IInv'
BY DEF IInv, TypeOK, DownWasTaken

\* A step that changes sends and requests only.
LEMMA SendStepKeepsIInv ==
    ASSUME IInv, send' \in [SendIds -> SendRow], req' \in [Requests -> Request],
           UNCHANGED <<app, work, library, hub, got, told, spent>>
    PROVE  IInv'
BY DEF IInv, TypeOK, DownWasTaken

LEMMA StateIsTyped ==
    ASSUME IInv, NEW s \in SendIds, NEW state \in {"none", "gone"} \cup Live \cup Settled
    PROVE  [send[s] EXCEPT !.state = state] \in SendRow
<1>1. send[s] \in SendRow
  BY DEF IInv, TypeOK
<1>2. [send[s] EXCEPT !.state = state] =
         [state |-> state, app |-> send[s].app, work |-> send[s].work,
          attempts |-> send[s].attempts, lease |-> send[s].lease,
          expires |-> send[s].expires]
  BY <1>1 DEF SendRow
<1> QED
  BY <1>1, <1>2 DEF SendRow

LEMMA EndsIsTyped ==
    ASSUME IInv, NEW r \in Requests, Ends(r)
    PROVE  req' \in [Requests -> Request]
BY AnyAreThere, IdleIsRequest DEF Ends, IInv, TypeOK

LEMMA QueueingKeepsIInv ==
    ASSUME IInv, NEW r \in Requests, NEW a \in Apps, NEW w \in Works,
           Queue(r, a, w) \/ InsertSend(r) \/ Signal(r)
    PROVE  IInv'
<1>1. CASE Queue(r, a, w)
  <2>1. [Idle(a, w) EXCEPT !.phase = "queueing"] \in Request
    BY IdleIsRequest DEF Request, Phases
  <2> QED
    BY <1>1, <2>1, RequestStepKeepsIInv DEF Queue, IInv, TypeOK
<1>2. CASE InsertSend(r)
  <2>1. req[r] \in Request
    BY DEF IInv, TypeOK
  <2>2. Queued(req[r].app, req[r].work) \in SendRow
    BY <2>1, SettingsAreNumbers DEF Queued, SendRow, Live, Request
  <2>3. [req[r] EXCEPT !.phase = "queued"] \in Request
    BY <2>1 DEF Request, Phases
  <2>4. send' \in [SendIds -> SendRow] /\ req' \in [Requests -> Request]
    BY <1>2, <2>2, <2>3, EndsIsTyped DEF InsertSend, IInv, TypeOK
  <2> QED
    BY <1>2, <2>4, SendStepKeepsIInv DEF InsertSend
<1>3. CASE Signal(r)
  <2>1. ASSUME NEW x \in Requests
        PROVE  req[x] \in Request /\ [req[x] EXCEPT !.signalled = TRUE] \in Request
    <3>1. req[x] \in Request
      BY DEF IInv, TypeOK
    <3> QED
      BY <3>1 DEF Request
  <2>2. req' \in [Requests -> Request]
    BY <1>3, <2>1, AnyAreThere, IdleIsRequest DEF Signal
  <2> QED
    BY <1>3, <2>2, RequestStepKeepsIInv DEF Signal, IInv, TypeOK
<1> QED
  BY <1>1, <1>2, <1>3

LEMMA CollectingKeepsIInv ==
    ASSUME IInv, NEW r \in Requests, NEW a \in Apps, NEW acks \in SUBSET SendIds,
           Collect(r, a, acks) \/ Hold(r) \/ StartWait(r) \/ Wake(r) \/ GiveUp(r)
    PROVE  IInv'
<1>1. \A x \in Requests : req[x] \in Request
  BY DEF IInv, TypeOK
<1>2. CASE Collect(r, a, acks)
  <2>1. Acknowledge(a, acks) \in [SendIds -> SendRow]
    BY StateIsTyped DEF Acknowledge, IInv, TypeOK, Settled
  <2>2. [Idle(a, AnyWork) EXCEPT !.phase = "collecting", !.declared = app[a].declares]
           \in Request
    <3>1. app[a].declares \in BOOLEAN
      BY DEF IInv, TypeOK
    <3>2. Idle(a, AnyWork) \in Request
      BY AnyAreThere, IdleIsRequest
    <3> QED
      BY <3>1, <3>2 DEF Request, Phases
  <2> QED
    BY <1>2, <2>1, <2>2, SendStepKeepsIInv DEF Collect, IInv, TypeOK
<1>3. CASE Hold(r)
  <2>1. \A x \in Requests : /\ [req[x] EXCEPT !.phase = "claiming"] \in Request
                            /\ [req[x] EXCEPT !.superseded = TRUE] \in Request
    BY <1>1 DEF Request, Phases
  <2>2. req' \in [Requests -> Request]
    BY <1>1, <1>3, <2>1, EndsIsTyped DEF Hold
  <2>3. hub' \in [Apps -> Requests \cup {None}]
    BY <1>3 DEF Hold, IInv, TypeOK
  <2> QED
    BY <1>3, <2>2, <2>3, RequestStepKeepsIInv DEF Hold
<1>4. CASE StartWait(r)
  <2>1. [req[r] EXCEPT !.phase = "waiting"] \in Request
    BY <1>1 DEF Request, Phases
  <2> QED
    BY <1>4, <2>1, RequestStepKeepsIInv DEF StartWait, IInv, TypeOK
<1>5. CASE Wake(r)
  <2>1. PICK still \in BOOLEAN : Again(r, still)
    BY <1>1, <1>5 DEF Wake, Request
  <2>2. [req[r] EXCEPT !.phase = "claiming", !.signalled = still, !.passed = {}]
           \in Request
    BY <1>1 DEF Request, Phases
  <2>3. req' = [req EXCEPT ![r] = [req[r] EXCEPT !.phase = "claiming",
                                     !.signalled = still, !.passed = {}]]
    BY <2>1 DEF Again, IInv, TypeOK
  <2>4. req' \in [Requests -> Request]
    BY <2>2, <2>3 DEF IInv, TypeOK
  <2> QED
    BY <1>5, <2>4, RequestStepKeepsIInv DEF Wake, IInv, TypeOK
<1>6. CASE GiveUp(r)
  BY <1>6, EndsIsTyped, ReleaseHoldIsTyped, RequestStepKeepsIInv DEF GiveUp
<1> QED
  BY <1>2, <1>3, <1>4, <1>5, <1>6

LEMMA AnsweringKeepsIInv ==
    ASSUME IInv, NEW r \in Requests,
           Claim(r) \/ Answer(r) \/ LoseAnswer(r)
           \/ \E a \in Apps : Sync(r, a)
           \/ \E entries, removed \in SUBSET Works : Report(r, entries, removed)
    PROVE  IInv'
<1>1. \A x \in Requests : req[x] \in Request
  BY DEF IInv, TypeOK
<1>2. req[r].app \in Apps
  BY <1>1 DEF Request
<1>3. CASE Claim(r)
  <2>1. PICK claimed \in Batches(r) :
           /\ send' = Claimed(r, claimed)
           /\ library' = Notified(library, req[r].app)
           /\ \/ Give(r, Released(r, claimed), Takedowns(Pending(library, req[r].app)))
              \/ Empty(r, claimed)
    BY <1>3 DEF Claim
  <2>2. send' \in [SendIds -> SendRow]
    BY <2>1, ClaimedRows
  <2>3. library' \in [Apps -> [Works -> {Absent} \cup 0..MaxTakedowns]]
    BY <1>2, <2>1, NoticesAreTyped DEF IInv, TypeOK
  <2>4. Takedowns(Pending(library, req[r].app)) \in SUBSET (Works \X (1..MaxTakedowns))
    BY <1>2, NoticesAreTyped DEF IInv, TypeOK
  <2>5. req' \in [Requests -> Request] /\ hub' \in [Apps -> Requests \cup {None}]
    <3>1. CASE Give(r, Released(r, claimed), Takedowns(Pending(library, req[r].app)))
      <4>1. [req[r] EXCEPT !.phase = "answering", !.sends = Released(r, claimed),
                           !.notices = Takedowns(Pending(library, req[r].app))] \in Request
        BY <1>1, <2>4, ClaimedRows, FilledIsRequest DEF Phases
      <4>2. req' = [req EXCEPT ![r] = [req[r] EXCEPT !.phase = "answering",
                       !.sends = Released(r, claimed),
                       !.notices = Takedowns(Pending(library, req[r].app))]]
        BY <3>1 DEF Give, IInv, TypeOK
      <4> QED
        BY <3>1, <4>1, <4>2, ReleaseHoldIsTyped DEF Give, IInv, TypeOK
    <3>2. CASE Empty(r, claimed)
      <4>1. [req[r] EXCEPT !.phase = "emptied", !.passed = Able(req[r].app) \ claimed]
              \in Request
        BY <1>1, <2>4, ClaimedRows, FilledIsRequest DEF Phases
      <4>2. req' = [req EXCEPT ![r] = [req[r] EXCEPT !.phase = "emptied",
                                         !.passed = Able(req[r].app) \ claimed]]
        BY <3>2 DEF Empty, IInv, TypeOK
      <4> QED
        BY <3>2, <4>1, <4>2 DEF Empty, IInv, TypeOK
    <3> QED
      BY <2>1, <3>1, <3>2
  <2> QED
    BY <1>3, <2>2, <2>3, <2>5 DEF Claim, IInv, TypeOK, DownWasTaken
<1>4. CASE Answer(r)
  <2>1. req[r].sends \in SUBSET SendIds
        /\ req[r].notices \in SUBSET (Works \X (1..MaxTakedowns))
    BY <1>1 DEF Request
  <2>2. got' \in [Apps -> SUBSET SendIds]
        /\ told' \in [Apps -> SUBSET (Works \X (1..MaxTakedowns))]
    BY <1>2, <1>4, <2>1 DEF Answer, IInv, TypeOK
  <2>3. req' \in [Requests -> Request]
    BY <1>4, EndsIsTyped DEF Answer
  <2> QED
    BY <1>4, <2>2, <2>3 DEF Answer, IInv, TypeOK, DownWasTaken
<1>5. CASE LoseAnswer(r)
  <2>1. req' \in [Requests -> Request]
    BY <1>5, EndsIsTyped DEF LoseAnswer
  <2>2. spent' \in Spent
    BY <1>2, <1>5, TroubleIsTyped DEF LoseAnswer
  <2> QED
    BY <1>5, <2>1, <2>2 DEF LoseAnswer, IInv, TypeOK, DownWasTaken
<1>6. ASSUME NEW a \in Apps, Sync(r, a) PROVE IInv'
  <2>1. [Idle(a, AnyWork) EXCEPT !.phase = "syncing"] \in Request
    BY AnyAreThere, IdleIsRequest DEF Request, Phases
  <2> QED
    BY <1>6, <2>1, RequestStepKeepsIInv DEF Sync, IInv, TypeOK
<1>7. ASSUME NEW entries \in SUBSET Works, NEW removed \in SUBSET Works,
             Report(r, entries, removed)
      PROVE  IInv'
  <2> DEFINE a == req[r].app
             mine == [w \in Works |->
                        CASE w \in removed -> Absent
                          [] w \in entries /\ library[a][w] = Absent
                                /\ work[w].state \in {"public", "down"} -> 0
                          [] OTHER -> library[a][w]]
             kept == [library EXCEPT ![a] = mine]
  <2>1. mine \in [Works -> {Absent} \cup 0..MaxTakedowns]
    <3>1. library[a] \in [Works -> {Absent} \cup 0..MaxTakedowns]
      BY <1>2 DEF IInv, TypeOK
    <3>2. 0 \in 0..MaxTakedowns
      BY SettingsAreNumbers
    <3>3. ASSUME NEW w \in Works PROVE mine[w] \in {Absent} \cup 0..MaxTakedowns
      <4>1. library[a][w] \in {Absent} \cup 0..MaxTakedowns
        BY <3>1
      <4>2. mine[w] \in {Absent, 0, library[a][w]}
        OBVIOUS
      <4> HIDE DEF mine
      <4> QED
        BY <3>2, <4>1, <4>2
    <3> QED
      BY <3>3
  <2>2. kept \in [Apps -> [Works -> {Absent} \cup 0..MaxTakedowns]]
    <3> HIDE DEF mine
    <3> QED
      BY <1>2, <2>1 DEF IInv, TypeOK
  <2>3. /\ library' = Notified(kept, a)
        /\ req' = [req EXCEPT ![r].phase = "answering",
                              ![r].notices = Takedowns(Pending(kept, a))]
        /\ UNCHANGED <<app, work, send, hub, got, told, spent>>
    BY <1>2, <1>7 DEF Report, IInv, TypeOK
  <2> HIDE DEF kept
  <2>4. library' \in [Apps -> [Works -> {Absent} \cup 0..MaxTakedowns]]
        /\ Takedowns(Pending(kept, a)) \in SUBSET (Works \X (1..MaxTakedowns))
    BY <1>2, <2>2, <2>3, NoticesAreTyped
  <2>5. [req[r] EXCEPT !.phase = "answering", !.notices = Takedowns(Pending(kept, a))]
          \in Request
    BY <1>1, <2>4 DEF Request, Phases
  <2>6. req' = [req EXCEPT ![r] = [req[r] EXCEPT !.phase = "answering",
                                     !.notices = Takedowns(Pending(kept, a))]]
    BY <2>3 DEF IInv, TypeOK
  <2>7. req' \in [Requests -> Request]
    BY <2>5, <2>6 DEF IInv, TypeOK
  <2> QED
    BY <2>3, <2>4, <2>7 DEF IInv, TypeOK, DownWasTaken
<1> QED
  BY <1>3, <1>4, <1>5, <1>6, <1>7

LEMMA RowsKeepIInv ==
    ASSUME IInv, send' \in [SendIds -> SendRow],
           UNCHANGED <<app, work, library, hub, req, got, told, spent>>
    PROVE  IInv'
BY SendStepKeepsIInv DEF IInv, TypeOK

LEMMA PeopleKeepIInv ==
    ASSUME IInv, People
    PROVE  IInv'
<1>1. ASSUME NEW s \in SendIds, Discard(s) PROVE IInv'
  BY <1>1, StateIsTyped, RowsKeepIInv DEF Discard, IInv, TypeOK
<1>2. \A w \in Works : work[w] \in [state : {"public", "deleted", "down"},
                                    takedowns : 0..MaxTakedowns]
  BY DEF IInv, TypeOK
<1>3. ASSUME NEW w \in Works, TakeDown(w) PROVE IInv'
  <2>1. work'[w] = [state |-> "down", takedowns |-> work[w].takedowns + 1]
        /\ \A x \in Works \ {w} : work'[x] = work[x]
    BY <1>3 DEF TakeDown, IInv, TypeOK
  <2>2. work[w].takedowns + 1 \in 1..MaxTakedowns
    BY <1>2, <1>3, SettingsAreNumbers DEF TakeDown
  <2>3. work' \in [Works -> [state : {"public", "deleted", "down"},
                             takedowns : 0..MaxTakedowns]]
    <3>1. work' = [work EXCEPT ![w] = work'[w]]
      BY <1>3, <2>1 DEF TakeDown
    <3>2. work'[w] \in [state : {"public", "deleted", "down"},
                        takedowns : 0..MaxTakedowns]
      BY <2>1, <2>2
    <3> QED
      BY <3>1, <3>2 DEF IInv, TypeOK
  <2>4. DownWasTaken'
    BY <2>1, <2>2 DEF IInv, DownWasTaken
  <2>5. send' \in [SendIds -> SendRow]
    BY <1>3, StateIsTyped DEF TakeDown, Settled, IInv, TypeOK
  <2> QED
    BY <1>3, <2>3, <2>4, <2>5 DEF TakeDown, IInv, TypeOK
<1>4. ASSUME NEW w \in Works, LiftTakedown(w) \/ SoftDeleteWork(w) \/ RestoreWork(w)
      PROVE  IInv'
  <2>1. PICK to \in {"public", "deleted"} : work' = [work EXCEPT ![w].state = to]
    BY <1>4 DEF LiftTakedown, SoftDeleteWork, RestoreWork, SetWork
  <2>2. UNCHANGED <<app, send, library, hub, req, got, told, spent>>
    BY <1>4 DEF LiftTakedown, SoftDeleteWork, RestoreWork, SetWork
  <2>3. work' \in [Works -> [state : {"public", "deleted", "down"},
                             takedowns : 0..MaxTakedowns]]
        /\ DownWasTaken'
    BY <1>2, <2>1 DEF IInv, TypeOK, DownWasTaken
  <2> QED
    BY <2>2, <2>3 DEF IInv, TypeOK
<1>5. ASSUME Change PROVE spent' \in Spent
  BY <1>5, ChangeIsTyped
<1>6. ASSUME NEW a \in Apps, UpdateCapabilities(a) PROVE IInv'
  <2>1. app' \in [Apps -> [live : BOOLEAN, declares : BOOLEAN]]
    BY <1>6 DEF UpdateCapabilities, IInv, TypeOK
  <2> QED
    BY <1>5, <1>6, <2>1 DEF UpdateCapabilities, IInv, TypeOK, DownWasTaken
<1>7. ASSUME NEW a \in Apps, Revoke(a) PROVE IInv'
  <2>1. app' \in [Apps -> [live : BOOLEAN, declares : BOOLEAN]]
    BY <1>7 DEF Revoke, IInv, TypeOK
  <2>2. send' \in [SendIds -> SendRow]
    BY <1>7, StateIsTyped DEF Revoke, IInv, TypeOK
  <2>3. library' \in [Apps -> [Works -> {Absent} \cup 0..MaxTakedowns]]
    BY <1>7 DEF Revoke, IInv, TypeOK
  <2> QED
    BY <1>5, <1>7, <2>1, <2>2, <2>3 DEF Revoke, IInv, TypeOK, DownWasTaken
<1> QED
  BY <1>1, <1>3, <1>4, <1>6, <1>7 DEF People

LEMMA TimeKeepsIInv ==
    ASSUME IInv, Tick \/ DeleteExpiredSends \/ Crash
    PROVE  IInv'
<1>1. CASE Tick
  <2>1. ASSUME NEW s \in SendIds
        PROVE  [send[s] EXCEPT !.lease = Less(@), !.expires = Less(@)] \in SendRow
    <3>1. send[s] \in SendRow
      BY DEF IInv, TypeOK
    <3>2. PICK lease \in 0..Lease, expires \in 0..Retention :
             lease = Less(send[s].lease) /\ expires = Less(send[s].expires)
      BY <3>1, SettingsAreNumbers DEF SendRow, Less
    <3>3. [send[s] EXCEPT !.lease = lease, !.expires = expires] \in SendRow
      BY <3>1 DEF SendRow
    <3> QED
      BY <3>2, <3>3
  <2>2. send' \in [SendIds -> SendRow]
    BY <1>1, <2>1 DEF Tick, IInv, TypeOK
  <2> QED
    BY <1>1, <2>2, RowsKeepIInv DEF Tick
<1>2. CASE DeleteExpiredSends
  BY <1>2, StateIsTyped, RowsKeepIInv DEF DeleteExpiredSends, IInv, TypeOK
<1>3. CASE Crash
  <2>1. spent' \in Spent
    BY <1>3, TroubleIsTyped DEF Crash
  <2>2. req' \in [Requests -> Request] /\ hub' \in [Apps -> Requests \cup {None}]
    BY <1>3, AnyAreThere, IdleIsRequest DEF Crash
  <2> QED
    BY <1>3, <2>1, <2>2 DEF Crash, IInv, TypeOK, DownWasTaken
<1> QED
  BY <1>1, <1>2, <1>3

LEMMA NextKeepsIInv == IInv /\ [Next]_vars => IInv'
<1> SUFFICES ASSUME IInv, [Next]_vars PROVE IInv'
  OBVIOUS
<1>1. ASSUME NEW r \in Requests, Starts(r) PROVE IInv'
  <2>1. ASSUME NEW a \in Apps, NEW acks \in SUBSET got[a], Collect(r, a, acks)
        PROVE  IInv'
    <3>1. acks \in SUBSET SendIds
      BY DEF IInv, TypeOK
    <3> QED
      BY <2>1, <3>1, CollectingKeepsIInv
  <2> QED
    BY <1>1, <2>1, QueueingKeepsIInv, AnsweringKeepsIInv DEF Starts
<1>2. ASSUME NEW r \in Requests, GoesOn(r) \/ Waits(r) \/ LoseAnswer(r) PROVE IInv'
  <2>1. AnyApp \in Apps /\ AnyWork \in Works /\ {} \in SUBSET SendIds
    BY AnyAreThere
  <2> QED
    BY <1>2, <2>1, QueueingKeepsIInv, CollectingKeepsIInv, AnsweringKeepsIInv
       DEF GoesOn, Waits
<1>3. CASE UNCHANGED vars
  BY <1>3 DEF vars, IInv, TypeOK, DownWasTaken
<1> QED
  BY <1>1, <1>2, <1>3, PeopleKeepIInv, TimeKeepsIInv DEF Next

LEMMA SpecIInv == Spec => []IInv
BY InitIInv, NextKeepsIInv, PTL DEF Spec

\* Every variable keeps its type; in particular no send is taken more than
\* MaxAttempts times, whatever leases run out and answers are lost.
THEOREM TypeCorrect == Spec => []TypeOK
<1>1. IInv => TypeOK
  BY DEF IInv
<1> QED
  BY SpecIInv, <1>1, PTL

------------------------------------------------------------------------------
(***************************************************************************)
(* One live send of a work, and no wait that sleeps through one.           *)
(*                                                                         *)
(* RowsMove says what a step may do to a send, and RequestsMove what it    *)
(* may do to a request that waits or is about to signal.  A request that   *)
(* is registered with the hub is between its hold and its release, and the *)
(* only one of its app that is not superseded (Registration), so whoever   *)
(* signals reaches the request that waits.                                 *)
(***************************************************************************)

\* A request that has not reached the hub is superseded by nobody.
Fresh == \A r \in Requests : req[r].phase = "collecting" => ~ req[r].superseded

Registration == WaitsAreRegistered /\ Fresh

\* QueueSend inserted the row.
Inserted(s) ==
    /\ send[s].state = "none"
    /\ \E r \in Requests :
          /\ req[r].phase = "queueing" /\ req' = [req EXCEPT ![r].phase = "queued"]
          /\ send' = [send EXCEPT ![s] = Queued(req[r].app, req[r].work)]
          /\ \A t \in LiveSends(req[r].app) : send[t].work # req[r].work

\* Only what was live is live after, and what settled stays so or goes.
Moved(s) ==
    /\ send'[s].app = send[s].app /\ send'[s].work = send[s].work
    /\ send'[s].state \in Live => send[s].state \in Live
    /\ send[s].state \in Settled => send'[s].state \in {send[s].state, "gone"}
    /\ send'[s].state = "queued" => /\ send[s].state = "queued"
                                    /\ send'[s].attempts = send[s].attempts
                                    /\ send'[s].expires > 0 => send[s].expires > 0

Changed(s, state) == send'[s] = [send[s] EXCEPT !.state = state]

LEMMA ChangedMoves ==
    ASSUME IInv, NEW s \in SendIds, NEW state \in {"delivered", "failed", "gone"},
           Changed(s, state),
           send[s].state \in Live \/ state = "gone"
    PROVE  Moved(s)
<1>1. send[s] \in SendRow
  BY DEF IInv, TypeOK
<1>2. /\ send'[s].state = state /\ send'[s].app = send[s].app
      /\ send'[s].work = send[s].work
  BY <1>1 DEF Changed, SendRow
<1> QED
  BY <1>2 DEF Moved, Live, Settled

LEMMA ClaimMoves ==
    ASSUME IInv, NEW r \in Requests, NEW claimed \in Batches(r),
           send' = Claimed(r, claimed), NEW s \in SendIds
    PROVE  /\ Moved(s)
           /\ s \in claimed => send'[s].state # "queued"
           /\ s \notin claimed /\ send'[s].state = "queued" => send'[s] = send[s]
<1>1. send[s] \in SendRow
  BY DEF IInv, TypeOK
<1>2. CASE s \in claimed
  <2>1. send[s].state \in Live
    BY <1>2 DEF Batches, Able, Claimable, Live
  <2>2. send'[s] = Release(r, s)
    BY <1>2 DEF Claimed
  <2>3. /\ Release(r, s).state \in {"released", "failed"}
        /\ Release(r, s).app = send[s].app /\ Release(r, s).work = send[s].work
    BY <1>1 DEF Release, SendRow
  <2> QED
    BY <1>2, <2>1, <2>2, <2>3 DEF Moved, Live, Settled
<1>3. CASE s \notin claimed /\ Exhausted(req[r].app, s)
  <2>1. send'[s] = [send[s] EXCEPT !.state = "failed"] /\ send[s].state \in Live
    BY <1>3 DEF Claimed, Exhausted, Live
  <2>2. send'[s].state = "failed"
    BY <1>1, <2>1 DEF SendRow
  <2> QED
    BY <1>3, <2>1, <2>2, ChangedMoves DEF Changed
<1>4. CASE s \notin claimed /\ ~ Exhausted(req[r].app, s)
  BY <1>4 DEF Claimed, Moved
<1> QED
  BY <1>2, <1>3, <1>4

LEMMA RowsMove ==
    ASSUME IInv, [Next]_vars, NEW s \in SendIds
    PROVE  Moved(s) \/ Inserted(s)
<1>1. send \in [SendIds -> SendRow]
  BY DEF IInv, TypeOK
<1>2. ASSUME send' = send PROVE Moved(s)
  BY <1>2 DEF Moved
<1>3. ASSUME NEW r \in Requests, InsertSend(r) PROVE Moved(s) \/ Inserted(s)
  <2>1. CASE send' = send
    BY <1>2, <2>1
  <2>2. CASE send' # send
    <3>1. PICK t \in SendIds :
             /\ send[t].state = "none"
             /\ send' = [send EXCEPT ![t] = Queued(req[r].app, req[r].work)]
      BY <1>3, <2>2 DEF InsertSend
    <3>2. /\ req[r].phase = "queueing" /\ req' = [req EXCEPT ![r].phase = "queued"]
          /\ \A x \in LiveSends(req[r].app) : send[x].work # req[r].work
      BY <1>3, <2>2 DEF InsertSend
    <3>3. CASE s = t
      BY <3>1, <3>2, <3>3 DEF Inserted
    <3>4. CASE s # t
      BY <1>1, <3>1, <3>4 DEF Moved
    <3> QED
      BY <3>3, <3>4
  <2> QED
    BY <2>1, <2>2
<1>4. ASSUME NEW a \in Apps, NEW acks, send' = Acknowledge(a, acks) PROVE Moved(s)
  <2>1. send'[s] = send[s]
        \/ (send[s].state = "released" /\ Changed(s, "delivered"))
    BY <1>4 DEF Acknowledge, Changed
  <2> QED
    BY <2>1, ChangedMoves DEF Moved, Live
<1>5. ASSUME NEW r \in Requests, Claim(r) PROVE Moved(s)
  BY <1>5, ClaimMoves DEF Claim
<1>6. ASSUME NEW w \in Works, TakeDown(w) PROVE Moved(s)
  <2>1. send'[s] = send[s]
        \/ (send[s].state = "queued" /\ Changed(s, "failed"))
    BY <1>6 DEF TakeDown, Changed
  <2> QED
    BY <2>1, ChangedMoves DEF Moved, Live
<1>7. ASSUME \/ \E t \in SendIds : Discard(t)
             \/ \E a \in Apps : Revoke(a)
             \/ DeleteExpiredSends
      PROVE  Moved(s)
  <2>1. send'[s] = send[s] \/ Changed(s, "gone")
    BY <1>1, <1>7 DEF Discard, Revoke, DeleteExpiredSends, Changed
  <2> QED
    BY <2>1, ChangedMoves DEF Moved
<1>8. CASE Tick
  <2>1. send[s] \in SendRow
    BY <1>1
  <2>2. CASE send'[s] = send[s]
    BY <2>2 DEF Moved
  <2>3. CASE send'[s] # send[s]
    <3>1. PICK lease, expires : /\ expires = Less(send[s].expires)
                                /\ send'[s] = [send[s] EXCEPT !.lease = lease,
                                                              !.expires = expires]
      BY <1>8, <2>3 DEF Tick
    <3>2. /\ send'[s].state = send[s].state /\ send'[s].app = send[s].app
          /\ send'[s].work = send[s].work /\ send'[s].attempts = send[s].attempts
          /\ send'[s].expires = expires
      BY <2>1, <3>1 DEF SendRow
    <3>3. expires > 0 => send[s].expires > 0
      BY <2>1, <3>1 DEF Less, SendRow
    <3> QED
      BY <3>2, <3>3 DEF Moved
  <2> QED
    BY <2>2, <2>3
<1>9. ASSUME NEW r \in Requests,
             \/ \E a \in Apps, w \in Works : Queue(r, a, w)
             \/ Signal(r) \/ Hold(r) \/ StartWait(r) \/ Wake(r) \/ GiveUp(r)
             \/ Answer(r) \/ LoseAnswer(r) \/ \E a \in Apps : Sync(r, a)
             \/ \E entries, removed \in SUBSET Works : Report(r, entries, removed)
      PROVE  Moved(s)
  BY <1>2, <1>9 DEF Queue, Signal, Hold, StartWait, Wake, GiveUp, Answer, LoseAnswer,
                    Sync, Report
<1>10. ASSUME \/ \E w \in Works : LiftTakedown(w) \/ SoftDeleteWork(w) \/ RestoreWork(w)
              \/ \E a \in Apps : UpdateCapabilities(a)
              \/ Crash
       PROVE  Moved(s)
  BY <1>2, <1>10 DEF LiftTakedown, SoftDeleteWork, RestoreWork, SetWork,
                     UpdateCapabilities, Crash
<1>11. CASE UNCHANGED vars
  BY <1>2, <1>11 DEF vars
<1>12. ASSUME NEW r \in Requests, Starts(r) \/ GoesOn(r) \/ Waits(r)
       PROVE  Moved(s) \/ Inserted(s)
  <2>1. ASSUME NEW a \in Apps, NEW acks, Collect(r, a, acks) PROVE Moved(s)
    BY <1>4, <2>1 DEF Collect
  <2> QED
    BY <1>3, <1>5, <1>9, <1>12, <2>1 DEF Starts, GoesOn, Waits
<1>13. CASE People
  BY <1>6, <1>7, <1>10, <1>13 DEF People
<1> QED
  BY <1>7, <1>8, <1>9, <1>10, <1>11, <1>12, <1>13 DEF Next

\* However many requests queue one work for one app at once, and whatever
\* happens to the sends meanwhile, one of them waits.
THEOREM OneSend == Spec => []OneLiveSend
<1>1. Init => OneLiveSend
  BY DEF Init, OneLiveSend, Unused, Live
<1>2. IInv /\ OneLiveSend /\ [Next]_vars => OneLiveSend'
  <2> SUFFICES ASSUME IInv, OneLiveSend, [Next]_vars,
                      NEW s \in SendIds, NEW t \in SendIds, s # t,
                      send'[s].state \in Live, send'[t].state \in Live,
                      send'[s].app = send'[t].app
               PROVE  send'[s].work # send'[t].work
    BY DEF OneLiveSend
  <2>1. CASE Moved(s) /\ Moved(t)
    BY <2>1 DEF Moved, OneLiveSend
  <2>2. ASSUME NEW x \in SendIds, NEW y \in SendIds, x # y, Inserted(x),
               send'[y].state \in Live, send'[x].app = send'[y].app
        PROVE  send'[x].work # send'[y].work
    <3>1. PICK r \in Requests :
             /\ send' = [send EXCEPT ![x] = Queued(req[r].app, req[r].work)]
             /\ \A z \in LiveSends(req[r].app) : send[z].work # req[r].work
      BY <2>2 DEF Inserted
    <3>2. send'[y] = send[y] /\ send'[x] = Queued(req[r].app, req[r].work)
      BY <2>2, <3>1 DEF IInv, TypeOK
    <3>3. y \in LiveSends(req[r].app)
      BY <2>2, <3>2 DEF LiveSends, Queued
    <3> QED
      BY <3>1, <3>2, <3>3 DEF Queued
  <2> QED
    BY <2>1, <2>2, RowsMove
<1> QED
  BY SpecIInv, <1>1, <1>2, PTL DEF Spec

\* A settled send stays as it is until it goes.
THEOREM SettledForGood == Spec => SettledStay
<1> DEFINE Stays == \A s \in SendIds :
              send[s].state \in Settled => send'[s].state \in {send[s].state, "gone"}
<1>1. IInv /\ [Next]_vars => [Stays]_vars
  BY RowsMove DEF Moved, Inserted, Settled
<1> QED
  BY SpecIInv, <1>1, PTL DEF Spec, SettledStay

------------------------------------------------------------------------------
(* The hub.                                                                 *)

\* What a step that ends requests E, or changes them without touching what the
\* hub knows of them, keeps.
LEMMA OrdinaryStepKeepsRegistration ==
    ASSUME IInv, Registration, hub' = hub,
           NEW E \in SUBSET Requests, \A r \in E : req[r].phase \notin Holding,
           \A r \in E : /\ req'[r].phase \notin Holding
                        /\ req'[r].phase = "collecting" => ~ req'[r].superseded,
           \A r \in Requests \ E :
              /\ req'[r].phase \in Holding <=> req[r].phase \in Holding
              /\ req'[r].phase = "collecting" => req[r].phase = "collecting"
              /\ req'[r].app = req[r].app
              /\ req'[r].superseded = req[r].superseded
    PROVE  Registration'
<1>1. \A a \in Apps : hub[a] # None => hub[a] \in Requests \ E
  BY DEF IInv, TypeOK, Registration, WaitsAreRegistered
<1>2. \A r \in Requests : req'[r].phase \in Holding => r \notin E
  OBVIOUS
<1> QED
  BY <1>1, <1>2 DEF Registration, WaitsAreRegistered, Fresh

\* What the end of a hold keeps: the request leaves the phases of Holding.
LEMMA ReleaseKeepsRegistration ==
    ASSUME IInv, Registration, NEW r \in Requests, req[r].phase \in Holding,
           hub' = ReleaseHold(r),
           req'[r].phase \notin Holding, req'[r].phase # "collecting",
           \A x \in Requests \ {r} : req'[x] = req[x]
    PROVE  Registration'
<1>1. req[r] \in Request /\ req[r].app \in Apps
  BY DEF IInv, TypeOK, Request
<1>2. \A a \in Apps : hub'[a] # None => hub'[a] = hub[a] /\ hub'[a] # r
                                        /\ hub[a] \in Requests
  BY <1>1 DEF ReleaseHold, IInv, TypeOK, Registration, WaitsAreRegistered
<1>3. \A x \in Requests \ {r} : hub[req[x].app] = x => hub'[req[x].app] = x
  <2> SUFFICES ASSUME NEW x \in Requests \ {r}, hub[req[x].app] = x
               PROVE  hub'[req[x].app] = x
    OBVIOUS
  <2>1. req[x].app \in Apps
    BY DEF IInv, TypeOK, Request
  <2> QED
    BY <1>1, <2>1 DEF ReleaseHold, IInv, TypeOK
<1>4. WaitsAreRegistered'
  BY <1>2, <1>3 DEF Registration, WaitsAreRegistered
<1>5. Fresh'
  BY DEF Registration, Fresh
<1> QED
  BY <1>4, <1>5 DEF Registration

LEMMA HoldKeepsRegistration ==
    ASSUME IInv, Registration, NEW r \in Requests, Hold(r)
    PROVE  Registration'
<1> DEFINE a == req[r].app
<1>1. req[r].phase = "collecting" /\ req[r].phase \notin Holding /\ ~ req[r].superseded
  BY DEF Hold, Registration, Fresh, Holding
<1>2. \A x \in Requests : req[x] \in Request /\ req[x].app \in Apps
  BY DEF IInv, TypeOK, Request
<1>3. CASE Ends(r) /\ hub' = hub
  <2>1. req'[r] = Idle(AnyApp, AnyWork) /\ \A x \in Requests \ {r} : req'[x] = req[x]
    BY <1>3 DEF Ends, IInv, TypeOK
  <2>2. req'[r].phase = "idle"
    BY <2>1, AnyAreThere, IdleIsRequest
  <2>3. {r} \in SUBSET Requests
    OBVIOUS
  <2> QED
    BY <1>1, <1>3, <2>1, <2>2, <2>3, OrdinaryStepKeepsRegistration DEF Holding
<1>4. CASE ~ (Ends(r) /\ hub' = hub)
  <2>1. /\ hub' = [hub EXCEPT ![a] = r]
        /\ req' = [x \in Requests |->
                     IF x = r THEN [req[r] EXCEPT !.phase = "claiming"]
                     ELSE IF x = hub[a] THEN [req[x] EXCEPT !.superseded = TRUE]
                     ELSE req[x]]
    BY <1>4 DEF Hold
  <2>2. /\ req'[r].phase = "claiming" /\ req'[r].app = a /\ ~ req'[r].superseded
        /\ req'[r].phase \in Holding
    BY <1>1, <1>2, <2>1 DEF Request, Holding
  <2>3. \A x \in Requests \ {r} :
           /\ req'[x].phase = req[x].phase /\ req'[x].app = req[x].app
           /\ x # hub[a] => req'[x] = req[x]
           /\ x = hub[a] => req'[x].superseded
    BY <1>2, <2>1 DEF Request
  <2>4. hub'[a] = r /\ \A b \in Apps \ {a} : hub'[b] = hub[b]
    BY <1>2, <2>1 DEF IInv, TypeOK
  <2>5. \A b \in Apps : hub[b] # None => hub[b] \in Requests /\ req[hub[b]].app = b
                                         /\ hub[b] # r
    BY <1>1 DEF IInv, TypeOK, Registration, WaitsAreRegistered
  <2>6. \A x \in Requests :
           req'[x].phase \in Holding => (hub'[req'[x].app] = x \/ req'[x].superseded)
    BY <1>2, <2>2, <2>3, <2>4 DEF Registration, WaitsAreRegistered
  <2>7. \A b \in Apps : hub'[b] # None =>
           /\ req'[hub'[b]].phase \in Holding
           /\ req'[hub'[b]].app = b /\ ~ req'[hub'[b]].superseded
    <3> SUFFICES ASSUME NEW b \in Apps, hub'[b] # None
                 PROVE  /\ req'[hub'[b]].phase \in Holding
                        /\ req'[hub'[b]].app = b /\ ~ req'[hub'[b]].superseded
      OBVIOUS
    <3>1. CASE b = a
      BY <2>2, <2>4, <3>1
    <3>2. CASE b # a
      <4>1. hub'[b] = hub[b] /\ hub[b] \in Requests \ {r} /\ hub[b] # hub[a]
        BY <1>2, <2>4, <2>5, <3>2 DEF IInv, TypeOK
      <4> QED
        BY <2>3, <4>1 DEF Registration, WaitsAreRegistered
    <3> QED
      BY <3>1, <3>2
  <2>8. Fresh'
    <3>1. \A x \in Requests : x = hub[a] => req[x].phase \in Holding
      BY <1>2, SendsAssumption DEF Registration, WaitsAreRegistered, IInv, TypeOK
    <3> QED
      BY <2>2, <2>3, <3>1 DEF Registration, Fresh, Holding
  <2> QED
    BY <2>6, <2>7, <2>8 DEF Registration, WaitsAreRegistered
<1> QED
  BY <1>3, <1>4

LEMMA ClaimKeepsRegistration ==
    ASSUME IInv, Registration, NEW r \in Requests, Claim(r)
    PROVE  Registration'
<1>1. req \in [Requests -> Request] /\ req[r].phase \in Holding
  BY DEF IInv, TypeOK, Claim, Holding
<1>2. PICK claimed \in Batches(r) :
         \/ Give(r, Released(r, claimed), Takedowns(Pending(library, req[r].app)))
         \/ Empty(r, claimed)
  BY DEF Claim
<1>3. CASE Give(r, Released(r, claimed), Takedowns(Pending(library, req[r].app)))
  <2>1. req'[r].phase = "answering" /\ \A x \in Requests \ {r} : req'[x] = req[x]
    BY <1>1, <1>3 DEF Give, Request
  <2>2. req'[r].phase \notin Holding /\ req'[r].phase # "collecting"
    BY <2>1 DEF Holding
  <2>3. hub' = ReleaseHold(r)
    BY <1>3 DEF Give
  <2> QED
    BY <1>1, <2>1, <2>2, <2>3, ReleaseKeepsRegistration
<1>4. CASE Empty(r, claimed)
  <2>1. /\ req'[r].phase = "emptied" /\ req'[r].app = req[r].app
        /\ req'[r].superseded = req[r].superseded
        /\ \A x \in Requests \ {r} : req'[x] = req[x]
    BY <1>1, <1>4 DEF Empty, Request
  <2>2. {} \in SUBSET Requests /\ hub' = hub
    BY <1>4 DEF Empty
  <2>3. "emptied" \in Holding
    BY DEF Holding
  <2> QED
    BY <1>1, <2>1, <2>2, <2>3, OrdinaryStepKeepsRegistration
<1> QED
  BY <1>2, <1>3, <1>4

\* The steps of a request that neither holds nor gives its hold up.
LEMMA RequestKeepsRegistration ==
    ASSUME IInv, Registration, NEW r \in Requests,
           Starts(r) \/ GoesOn(r) \/ Waits(r) \/ LoseAnswer(r)
    PROVE  Registration'
<1>1. req \in [Requests -> Request] /\ \A x \in Requests : req[x] \in Request
  BY DEF IInv, TypeOK
<1>2. ASSUME hub' = hub, req[r].phase \notin Holding,
             \A x \in Requests \ {r} : req'[x] = req[x],
             req'[r].phase \notin Holding,
             req'[r].phase = "collecting" => ~ req'[r].superseded
      PROVE  Registration'
  <2>1. {r} \in SUBSET Requests
    OBVIOUS
  <2> QED
    BY <1>2, <2>1, OrdinaryStepKeepsRegistration
<1>3. ASSUME Ends(r), hub' = hub, req[r].phase \notin Holding PROVE Registration'
  <2>1. req'[r] = Idle(AnyApp, AnyWork) /\ \A x \in Requests \ {r} : req'[x] = req[x]
    BY <1>1, <1>3 DEF Ends
  <2>2. req'[r].phase = "idle"
    BY <2>1, AnyAreThere, IdleIsRequest
  <2> QED
    BY <1>2, <1>3, <2>1, <2>2 DEF Holding
<1>4. ASSUME NEW a \in Apps, NEW w \in Works, Queue(r, a, w) PROVE Registration'
  <2>1. req'[r].phase = "queueing" /\ \A x \in Requests \ {r} : req'[x] = req[x]
    BY <1>1, <1>4, IdleIsRequest DEF Queue, Request
  <2> QED
    BY <1>2, <1>4, <2>1 DEF Queue, Holding
<1>5. ASSUME NEW a \in Apps, NEW acks, Collect(r, a, acks) PROVE Registration'
  <2>1. Idle(a, AnyWork) \in Request /\ ~ Idle(a, AnyWork).superseded
    BY AnyAreThere, IdleIsRequest
  <2>2. /\ req'[r].phase = "collecting" /\ ~ req'[r].superseded
        /\ \A x \in Requests \ {r} : req'[x] = req[x]
    BY <1>1, <1>5, <2>1 DEF Collect, Request
  <2> QED
    BY <1>2, <1>5, <2>2 DEF Collect, Holding
<1>6. ASSUME NEW a \in Apps, Sync(r, a) PROVE Registration'
  <2>1. Idle(a, AnyWork) \in Request
    BY AnyAreThere, IdleIsRequest
  <2>2. req'[r].phase = "syncing" /\ \A x \in Requests \ {r} : req'[x] = req[x]
    BY <1>1, <1>6, <2>1 DEF Sync, Request
  <2> QED
    BY <1>2, <1>6, <2>2 DEF Sync, Holding
<1>7. ASSUME InsertSend(r) PROVE Registration'
  <2>1. CASE Ends(r)
    BY <1>3, <1>7, <2>1 DEF InsertSend, Holding
  <2>2. CASE ~ Ends(r)
    <3>1. req'[r].phase = "queued" /\ \A x \in Requests \ {r} : req'[x] = req[x]
      BY <1>1, <1>7, <2>2 DEF InsertSend, Request
    <3> QED
      BY <1>2, <1>7, <3>1 DEF InsertSend, Holding
  <2> QED
    BY <2>1, <2>2
<1>8. ASSUME Signal(r) PROVE Registration'
  <2>1. req'[r] = Idle(AnyApp, AnyWork)
    BY <1>8 DEF Signal
  <2>2. req'[r].phase = "idle"
    BY <2>1, AnyAreThere, IdleIsRequest
  <2>3. \A x \in Requests \ {r} : req'[x].phase = req[x].phase /\ req'[x].app = req[x].app
                                  /\ req'[x].superseded = req[x].superseded
    BY <1>1, <1>8 DEF Signal, Request
  <2>4. {r} \in SUBSET Requests /\ hub' = hub /\ req[r].phase \notin Holding
    BY <1>8 DEF Signal, Holding
  <2> QED
    BY <2>2, <2>3, <2>4, OrdinaryStepKeepsRegistration DEF Holding
<1>9. ASSUME StartWait(r) \/ Wake(r) PROVE Registration'
  <2>1. /\ req'[r].phase \in {"waiting", "claiming"} /\ req'[r].app = req[r].app
        /\ req'[r].superseded = req[r].superseded
        /\ \A x \in Requests \ {r} : req'[x] = req[x]
    BY <1>1, <1>9 DEF StartWait, Wake, Again, Request
  <2>2. {} \in SUBSET Requests /\ hub' = hub /\ req[r].phase \in Holding
    BY <1>9 DEF StartWait, Wake, Holding
  <2>3. {"waiting", "claiming"} \subseteq Holding /\ "collecting" \notin Holding
    BY DEF Holding
  <2> QED
    BY <2>1, <2>2, <2>3, OrdinaryStepKeepsRegistration
<1>10. ASSUME GiveUp(r) PROVE Registration'
  <2>1. req'[r] = Idle(AnyApp, AnyWork) /\ \A x \in Requests \ {r} : req'[x] = req[x]
    BY <1>1, <1>10 DEF GiveUp, Ends
  <2>2. req'[r].phase = "idle"
    BY <2>1, AnyAreThere, IdleIsRequest
  <2>3. req'[r].phase \notin Holding /\ req[r].phase \in Holding /\ hub' = ReleaseHold(r)
    BY <1>10, <2>2 DEF GiveUp, Holding
  <2> QED
    BY <2>1, <2>2, <2>3, ReleaseKeepsRegistration
<1>11. ASSUME Answer(r) \/ LoseAnswer(r) PROVE Registration'
  BY <1>3, <1>11 DEF Answer, LoseAnswer, Holding
<1>12. ASSUME NEW entries, NEW removed, Report(r, entries, removed) PROVE Registration'
  <2>1. req'[r].phase = "answering" /\ \A x \in Requests \ {r} : req'[x] = req[x]
    <3>1. PICK notices : req' = [req EXCEPT ![r].phase = "answering", ![r].notices = notices]
      BY <1>12 DEF Report
    <3> QED
      BY <1>1, <3>1 DEF Request
  <2> QED
    BY <1>2, <1>12, <2>1 DEF Report, Holding
<1>13. ASSUME Starts(r) PROVE Registration'
  BY <1>4, <1>5, <1>6, <1>13 DEF Starts
<1>14. ASSUME GoesOn(r) PROVE Registration'
  BY <1>7, <1>8, <1>9, <1>11, <1>12, <1>14, HoldKeepsRegistration, ClaimKeepsRegistration
     DEF GoesOn
<1> QED
  BY <1>9, <1>10, <1>11, <1>13, <1>14 DEF Waits

LEMMA NextKeepsRegistration == IInv /\ Registration /\ [Next]_vars => Registration'
<1> SUFFICES ASSUME IInv, Registration, [Next]_vars PROVE Registration'
  OBVIOUS
<1>1. ASSUME req' = req, hub' = hub PROVE Registration'
  BY <1>1 DEF Registration, WaitsAreRegistered, Fresh
<1>2. CASE People
  BY <1>1, <1>2 DEF People, Discard, TakeDown, LiftTakedown, SoftDeleteWork,
     RestoreWork, SetWork, UpdateCapabilities, Revoke
<1>3. CASE DeleteExpiredSends \/ Tick \/ UNCHANGED vars
  BY <1>1, <1>3 DEF DeleteExpiredSends, Tick, vars
<1>4. CASE Crash
  <2>1. \A r \in Requests : req'[r].phase = "idle"
    BY <1>4, AnyAreThere, IdleIsRequest DEF Crash
  <2>2. \A a \in Apps : hub'[a] = None
    BY <1>4 DEF Crash
  <2> QED
    BY <2>1, <2>2 DEF Registration, WaitsAreRegistered, Fresh, Holding
<1> QED
  BY <1>2, <1>3, <1>4, RequestKeepsRegistration DEF Next

LEMMA SpecRegistration == Spec => []Registration
<1>1. Init => Registration
  <2> SUFFICES ASSUME Init PROVE Registration
    OBVIOUS
  <2>1. \A r \in Requests : req[r].phase = "idle"
    BY AnyAreThere, IdleIsRequest DEF Init
  <2>2. \A a \in Apps : hub[a] = None
    BY DEF Init
  <2> QED
    BY <2>1, <2>2 DEF Registration, WaitsAreRegistered, Fresh, Holding
<1> QED
  BY SpecIInv, <1>1, NextKeepsRegistration, PTL DEF Spec

\* A request that is superseded never takes its successor's place away, and
\* none leaves its own behind.
THEOREM WaitsRegistered == Spec => []WaitsAreRegistered
<1>1. Registration => WaitsAreRegistered
  BY DEF Registration
<1> QED
  BY SpecRegistration, <1>1, PTL

------------------------------------------------------------------------------
(* No lost signal.                                                          *)

Waiting(r) == req[r].phase \in {"emptied", "waiting"} /\ hub[req[r].app] = r
                /\ ~ req[r].signalled

\* Request r waited before the step and knows no more than it did.
WaitsOn(r) ==
    /\ Waiting(r)
    /\ req'[r].app = req[r].app /\ req'[r].passed = req[r].passed

\* The step is the claim that left r with nothing.
WasEmptied(r) ==
    /\ req[r].phase = "claiming" /\ req'[r].app = req[r].app
    /\ \E claimed \in Batches(r) :
          /\ send' = Claimed(r, claimed)
          /\ req'[r].passed = Able(req[r].app) \ claimed

\* A request that has queued and is about to signal, before the step and after.
SignalsOn(q) == req[q].phase = "queued" => /\ req'[q].phase = "queued"
                                           /\ req'[q].app = req[q].app

\* The signal of request x, for the app that r waits for or another.
Signalled(x, r) ==
    /\ req[x].phase = "queued" /\ req[x].app # req[r].app
    /\ \A q \in Requests \ {x} : SignalsOn(q)

LEMMA RequestsMove ==
    ASSUME IInv, [Next]_vars, NEW r \in Requests, Waiting(r)'
    PROVE  /\ WaitsOn(r) \/ WasEmptied(r)
           /\ (\A q \in Requests : SignalsOn(q)) \/ \E x \in Requests : Signalled(x, r)
<1>1. req \in [Requests -> Request] /\ \A x \in Requests : req[x] \in Request
  BY DEF IInv, TypeOK
<1> DEFINE Goal == /\ WaitsOn(r) \/ WasEmptied(r)
                   /\ (\A q \in Requests : SignalsOn(q))
                      \/ \E x \in Requests : Signalled(x, r)
<1>2. ASSUME NEW y \in Requests, \A x \in Requests \ {y} : req'[x] = req[x],
             hub' = hub \/ hub' = ReleaseHold(y), req[y].phase # "queued",
             req'[y].phase \notin {"emptied", "waiting"}
      PROVE  Goal
  <2>1. r # y /\ req'[r] = req[r]
    BY <1>2 DEF Waiting
  <2>2. hub'[req[r].app] = r => hub[req[r].app] = r
    <3>1. req[y].app \in Apps /\ req[r].app \in Apps /\ r # None
      BY <1>1, SendsAssumption DEF Request
    <3> QED
      BY <1>2, <3>1 DEF ReleaseHold, IInv, TypeOK
  <2>3. WaitsOn(r)
    BY <2>1, <2>2 DEF Waiting, WaitsOn
  <2>4. \A q \in Requests : SignalsOn(q)
    BY <1>2 DEF SignalsOn
  <2> QED
    BY <2>3, <2>4
<1>3. ASSUME NEW y \in Requests, Ends(y), hub' = hub \/ hub' = ReleaseHold(y),
             req[y].phase # "queued"
      PROVE  Goal
  <2>1. req'[y] = Idle(AnyApp, AnyWork) /\ \A x \in Requests \ {y} : req'[x] = req[x]
    BY <1>1, <1>3 DEF Ends
  <2>2. req'[y].phase = "idle"
    BY <2>1, AnyAreThere, IdleIsRequest
  <2> QED
    BY <1>2, <1>3, <2>1, <2>2
<1>4. ASSUME NEW y \in Requests, Starts(y) PROVE Goal
  <2>1. \A a \in Apps, w \in Works : Idle(a, w) \in Request
    BY IdleIsRequest
  <2>2. PICK a \in Apps : \/ \E w \in Works : Queue(y, a, w)
                          \/ \E acks \in SUBSET got[a] : Collect(y, a, acks)
                          \/ Sync(y, a)
    BY <1>4 DEF Starts
  <2>3. /\ req[y].phase = "idle" /\ hub' = hub
        /\ \A x \in Requests \ {y} : req'[x] = req[x]
    BY <1>1, <2>2 DEF Queue, Collect, Sync
  <2>4. req'[y].phase \in {"queueing", "collecting", "syncing"}
    <3>1. \A w \in Works : Idle(a, w) \in Request
      BY <2>1, <2>2
    <3>2. CASE \E w \in Works : Queue(y, a, w)
      <4>1. PICK w \in Works : Queue(y, a, w)
        BY <3>2
      <4>2. req' = [req EXCEPT ![y] = [Idle(a, w) EXCEPT !.phase = "queueing"]]
        BY <4>1 DEF Queue
      <4> QED
        BY <1>1, <3>1, <4>2 DEF Request
    <3>3. CASE \E acks \in SUBSET got[a] : Collect(y, a, acks)
      <4>1. PICK acks \in SUBSET got[a] : Collect(y, a, acks)
        BY <3>3
      <4> QED
        BY <1>1, <3>1, <4>1, AnyAreThere DEF Collect, Request
    <3>4. CASE Sync(y, a)
      BY <1>1, <3>1, <3>4, AnyAreThere DEF Sync, Request
    <3> QED
      BY <2>2, <3>2, <3>3, <3>4
  <2> QED
    BY <1>2, <2>3, <2>4
<1>5. ASSUME NEW y \in Requests, InsertSend(y) PROVE Goal
  <2>1. CASE Ends(y)
    BY <1>3, <1>5, <2>1 DEF InsertSend
  <2>2. CASE ~ Ends(y)
    <3>1. req'[y].phase = "queued" /\ \A x \in Requests \ {y} : req'[x] = req[x]
      BY <1>1, <1>5, <2>2 DEF InsertSend, Request
    <3> QED
      BY <1>2, <1>5, <3>1 DEF InsertSend
  <2> QED
    BY <2>1, <2>2
<1>6. ASSUME NEW y \in Requests, Signal(y) PROVE Goal
  <2>1. req'[y] = Idle(AnyApp, AnyWork) /\ req[y].phase = "queued" /\ hub' = hub
    BY <1>6 DEF Signal
  <2>2. req'[y].phase = "idle"
    BY <2>1, AnyAreThere, IdleIsRequest
  <2>3. \A x \in Requests \ {y} :
           /\ req'[x].phase = req[x].phase /\ req'[x].app = req[x].app
           /\ req'[x].passed = req[x].passed
           /\ req[x].signalled => req'[x].signalled
           /\ x = hub[req[y].app] => req'[x].signalled
    BY <1>1, <1>6 DEF Signal, Request
  <2>4. r # y
    BY <2>2 DEF Waiting
  <2>5. WaitsOn(r) /\ req[y].app # req[r].app
    BY <2>1, <2>3, <2>4 DEF Waiting, WaitsOn
  <2>6. Signalled(y, r)
    BY <2>1, <2>3, <2>5 DEF Signalled, SignalsOn
  <2> QED
    BY <2>5, <2>6
<1>7. ASSUME NEW y \in Requests, Hold(y) PROVE Goal
  <2>1. CASE Ends(y) /\ hub' = hub
    BY <1>3, <1>7, <2>1 DEF Hold
  <2>2. CASE ~ (Ends(y) /\ hub' = hub)
    <3>1. /\ req[y].phase = "collecting" /\ hub' = [hub EXCEPT ![req[y].app] = y]
          /\ req' = [x \in Requests |->
                       IF x = y THEN [req[y] EXCEPT !.phase = "claiming"]
                       ELSE IF x = hub[req[y].app] THEN [req[x] EXCEPT !.superseded = TRUE]
                       ELSE req[x]]
      BY <1>7, <2>2 DEF Hold
    <3>2. req'[y].phase = "claiming" /\ req[y].app \in Apps
      BY <1>1, <3>1 DEF Request
    <3>3. \A x \in Requests \ {y} :
             /\ req'[x].phase = req[x].phase /\ req'[x].app = req[x].app
             /\ req'[x].passed = req[x].passed /\ req'[x].signalled = req[x].signalled
      BY <1>1, <3>1 DEF Request
    <3>4. r # y /\ req[r].app \in Apps
      BY <1>1, <3>2 DEF Waiting, Request
    <3>5. hub'[req[r].app] = r => hub[req[r].app] = r
      BY <3>1, <3>2, <3>4 DEF IInv, TypeOK
    <3>6. WaitsOn(r)
      BY <3>3, <3>4, <3>5 DEF Waiting, WaitsOn
    <3>7. \A q \in Requests : SignalsOn(q)
      BY <3>1, <3>3 DEF SignalsOn
    <3> QED
      BY <3>6, <3>7
  <2> QED
    BY <2>1, <2>2
<1>8. ASSUME NEW y \in Requests, Claim(y) PROVE Goal
  <2>1. PICK claimed \in Batches(y) :
           /\ send' = Claimed(y, claimed)
           /\ \/ Give(y, Released(y, claimed), Takedowns(Pending(library, req[y].app)))
              \/ Empty(y, claimed)
    BY <1>8 DEF Claim
  <2>2. req[y].phase = "claiming"
    BY <1>8 DEF Claim
  <2>3. CASE Give(y, Released(y, claimed), Takedowns(Pending(library, req[y].app)))
    <3>1. req'[y].phase = "answering" /\ \A x \in Requests \ {y} : req'[x] = req[x]
      BY <1>1, <2>3 DEF Give, Request
    <3>2. hub' = ReleaseHold(y)
      BY <2>3 DEF Give
    <3> QED
      BY <1>2, <2>2, <3>1, <3>2
  <2>4. CASE Empty(y, claimed)
    <3>1. /\ req'[y].phase = "emptied" /\ req'[y].app = req[y].app
          /\ req'[y].passed = Able(req[y].app) \ claimed
          /\ \A x \in Requests \ {y} : req'[x] = req[x]
          /\ hub' = hub
      BY <1>1, <2>4 DEF Empty, Request
    <3>2. \A q \in Requests : SignalsOn(q)
      BY <2>2, <3>1 DEF SignalsOn
    <3>3. CASE r = y
      BY <2>1, <2>2, <3>1, <3>2, <3>3 DEF WasEmptied
    <3>4. CASE r # y
      BY <3>1, <3>2, <3>4 DEF Waiting, WaitsOn
    <3> QED
      BY <3>3, <3>4
  <2> QED
    BY <2>1, <2>3, <2>4
<1>9. ASSUME NEW y \in Requests, StartWait(y) PROVE Goal
  <2>1. /\ req[y].phase = "emptied" /\ hub' = hub
        /\ \A x \in Requests : /\ req'[x].app = req[x].app
                               /\ req'[x].passed = req[x].passed
                               /\ req'[x].signalled = req[x].signalled
                               /\ x # y => req'[x].phase = req[x].phase
    BY <1>1, <1>9 DEF StartWait, Request
  <2>2. WaitsOn(r)
    BY <2>1 DEF Waiting, WaitsOn
  <2>3. \A q \in Requests : SignalsOn(q)
    BY <2>1 DEF SignalsOn
  <2> QED
    BY <2>2, <2>3
<1>10. ASSUME NEW y \in Requests, Wake(y) PROVE Goal
  <2>1. /\ req[y].phase = "waiting" /\ hub' = hub /\ req'[y].phase = "claiming"
        /\ \A x \in Requests \ {y} : req'[x] = req[x]
    BY <1>1, <1>10 DEF Wake, Again, Request
  <2> QED
    BY <1>2, <2>1
<1>11. ASSUME NEW y \in Requests, GiveUp(y) \/ Answer(y) \/ LoseAnswer(y) PROVE Goal
  BY <1>3, <1>11 DEF GiveUp, Answer, LoseAnswer
<1>12. ASSUME NEW y \in Requests, NEW entries, NEW removed, Report(y, entries, removed)
       PROVE  Goal
  <2>1. PICK notices : req' = [req EXCEPT ![y].phase = "answering", ![y].notices = notices]
    BY <1>12 DEF Report
  <2>2. req'[y].phase = "answering" /\ \A x \in Requests \ {y} : req'[x] = req[x]
    BY <1>1, <2>1 DEF Request
  <2> QED
    BY <1>2, <1>12, <2>2 DEF Report
<1>13. ASSUME req' = req, hub' = hub PROVE Goal
  BY <1>13 DEF Waiting, WaitsOn, SignalsOn
<1>14. ASSUME People \/ DeleteExpiredSends \/ Tick \/ UNCHANGED vars PROVE Goal
  <2>1. req' = req /\ hub' = hub
    BY <1>14 DEF People, Discard, TakeDown, LiftTakedown, SoftDeleteWork, RestoreWork,
       SetWork, UpdateCapabilities, Revoke, DeleteExpiredSends, Tick, vars
  <2> QED
    BY <1>13, <2>1
<1>15. ASSUME Crash PROVE Goal
  <2>1. req'[r].phase = "idle"
    BY <1>15, AnyAreThere, IdleIsRequest DEF Crash
  <2> QED
    BY <2>1 DEF Waiting
<1> HIDE DEF Goal
<1>16. ASSUME NEW y \in Requests, GoesOn(y) \/ Waits(y) PROVE Goal
  BY <1>5, <1>6, <1>7, <1>8, <1>9, <1>10, <1>11, <1>12, <1>16 DEF GoesOn, Waits
<1>17. Goal
  <2>1. CASE \E y \in Requests : Starts(y) \/ GoesOn(y) \/ Waits(y) \/ LoseAnswer(y)
    BY <1>4, <1>11, <1>16, <2>1
  <2>2. CASE Next
    BY <1>14, <1>15, <2>1, <2>2 DEF Next
  <2>3. CASE UNCHANGED vars
    BY <1>14, <2>3
  <2> QED
    BY <2>2, <2>3
<1> QED
  BY <1>17 DEF Goal

\* A live app was live before.
LEMMA LiveWasLive ==
    ASSUME IInv, [Next]_vars, NEW a \in Apps, app'[a].live
    PROVE  app[a].live
<1>1. app \in [Apps -> [live : BOOLEAN, declares : BOOLEAN]]
  BY DEF IInv, TypeOK
<1>2. ASSUME NEW b \in Apps, Revoke(b) \/ UpdateCapabilities(b) PROVE app[a].live
  BY <1>1, <1>2 DEF Revoke, UpdateCapabilities
<1>3. ASSUME app' = app PROVE app[a].live
  BY <1>3
<1>4. ASSUME NEW r \in Requests, Starts(r) \/ GoesOn(r) \/ Waits(r) \/ LoseAnswer(r)
      PROVE  app' = app
  BY <1>4 DEF Starts, GoesOn, Waits, LoseAnswer, Queue, Collect, Sync, InsertSend, Signal,
     Hold, Claim, StartWait, Answer, Report, Wake, GiveUp
<1>5. CASE People
  <2>1. app' = app \/ \E b \in Apps : Revoke(b) \/ UpdateCapabilities(b)
    BY <1>5 DEF People, Discard, TakeDown, LiftTakedown, SoftDeleteWork, RestoreWork,
       SetWork
  <2> QED
    BY <1>2, <1>3, <2>1
<1>6. CASE DeleteExpiredSends \/ Tick \/ Crash \/ UNCHANGED vars
  BY <1>3, <1>6 DEF DeleteExpiredSends, Tick, Crash, vars
<1> QED
  BY <1>3, <1>4, <1>5, <1>6 DEF Next

\* No app sleeps through a send that was queued since its request last looked,
\* whichever requests and sends interleave.
THEOREM NoSignalIsLost == Spec => []NoLostSignal
<1>1. Init => NoLostSignal
  BY DEF Init, NoLostSignal, Unused
<1>2. IInv /\ NoLostSignal /\ [Next]_vars => NoLostSignal'
  <2> SUFFICES ASSUME IInv, NoLostSignal, [Next]_vars, NEW r \in Requests,
                      NEW s \in SendIds, Waiting(r)', send'[s].state = "queued",
                      Claimable(req[r].app, s)', s \notin req'[r].passed
               PROVE  \E q \in Requests : req'[q].phase = "queued"
                                          /\ req'[q].app = req'[r].app
    BY DEF NoLostSignal, Waiting
  <2>1. req \in [Requests -> Request] /\ req[r].app \in Apps
    BY DEF IInv, TypeOK, Request
  <2>2. WaitsOn(r) \/ WasEmptied(r)
    BY RequestsMove
  <2>3. send'[s].app = req[r].app /\ req'[r].app = req[r].app /\ app'[req[r].app].live
        /\ send'[s].expires > 0 /\ send'[s].attempts < MaxAttempts
    BY <2>2 DEF WaitsOn, WasEmptied, Claimable
  <2>4. app[req[r].app].live
    BY <2>1, <2>3, LiveWasLive
  <2>5. CASE Inserted(s)
    <3>1. PICK q \in Requests : /\ req[q].phase = "queueing"
                                /\ req' = [req EXCEPT ![q].phase = "queued"]
                                /\ send' = [send EXCEPT ![s] = Queued(req[q].app, req[q].work)]
      BY <2>5 DEF Inserted
    <3>2. req'[q].phase = "queued" /\ req'[q].app = req[q].app
      BY <2>1, <3>1 DEF Request
    <3>3. send'[s].app = req[q].app
      BY <3>1 DEF Queued, IInv, TypeOK
    <3> QED
      BY <2>3, <3>2, <3>3
  <2>6. CASE Moved(s) /\ WaitsOn(r)
    <3>1. send[s].state = "queued" /\ Claimable(req[r].app, s) /\ s \notin req[r].passed
      BY <2>3, <2>4, <2>6 DEF Moved, Claimable, WaitsOn
    <3>2. PICK q \in Requests : req[q].phase = "queued" /\ req[q].app = req[r].app
      BY <2>6, <3>1 DEF NoLostSignal, WaitsOn, Waiting
    <3> QED
      BY <2>3, <3>2, RequestsMove DEF Signalled, SignalsOn
  <2>7. CASE Moved(s) /\ WasEmptied(r)
    <3>1. PICK claimed \in Batches(r) : /\ send' = Claimed(r, claimed)
                                        /\ req'[r].passed = Able(req[r].app) \ claimed
      BY <2>7 DEF WasEmptied
    <3>2. s \notin claimed /\ send'[s] = send[s]
      BY <3>1, ClaimMoves
    <3>3. Claimable(req[r].app, s)
      BY <2>3, <2>4, <3>2 DEF Claimable
    <3> QED
      BY <3>1, <3>2, <3>3 DEF Able
  <2> QED
    BY <2>2, <2>5, <2>6, <2>7, RowsMove
<1> QED
  BY SpecIInv, <1>1, <1>2, PTL DEF Spec

------------------------------------------------------------------------------
(* Takedown notices.                                                        *)

\* A request that answers goes on answering the same, or its answer has arrived or is lost.
AnswerKept(r) ==
    req[r].phase = "answering" =>
        \/ /\ req'[r].phase = "answering" /\ req'[r].app = req[r].app
           /\ req'[r].notices = req[r].notices
        \/ req[r].notices \subseteq told'[req[r].app]
        \/ {req[r].app} \X req[r].notices \subseteq spent'.lost

LEMMA OtherRequests ==
    ASSUME IInv, NEW x \in Requests, req[x].phase # "answering", NEW new,
           req' = [req EXCEPT ![x] = new], NEW r \in Requests
    PROVE  AnswerKept(r)
BY DEF IInv, TypeOK, AnswerKept

LEMMA StartsKeepAnswers ==
    ASSUME IInv, NEW x \in Requests, Starts(x), NEW r \in Requests PROVE AnswerKept(r)
<1>1. ASSUME NEW a \in Apps, NEW w \in Works, Queue(x, a, w) PROVE AnswerKept(r)
  BY <1>1, OtherRequests DEF Queue
<1>2. ASSUME NEW a \in Apps, NEW acks, Collect(x, a, acks) PROVE AnswerKept(r)
  BY <1>2, OtherRequests DEF Collect
<1>3. ASSUME NEW a \in Apps, Sync(x, a) PROVE AnswerKept(r)
  BY <1>3, OtherRequests DEF Sync
<1> QED
  BY <1>1, <1>2, <1>3 DEF Starts

LEMMA FlagsKeepAnswers ==
    ASSUME IInv, NEW r \in Requests,
           \/ req'[r] = req[r]
           \/ req'[r] = [req[r] EXCEPT !.signalled = TRUE]
           \/ req'[r] = [req[r] EXCEPT !.superseded = TRUE]
    PROVE  AnswerKept(r)
BY DEF IInv, TypeOK, Request, AnswerKept

LEMMA StepsKeepAnswers ==
    ASSUME IInv, NEW x \in Requests,
           \/ InsertSend(x) \/ Signal(x) \/ Hold(x) \/ Claim(x) \/ StartWait(x) \/ Answer(x)
           \/ Waits(x) \/ LoseAnswer(x)
           \/ \E entries, removed \in SUBSET Works : Report(x, entries, removed),
           NEW r \in Requests
    PROVE  AnswerKept(r)
<1>1. req \in [Requests -> Request]
  BY DEF IInv, TypeOK
<1>2. ASSUME Ends(x), req[x].phase # "answering" PROVE AnswerKept(r)
  BY <1>2, OtherRequests DEF Ends
<1>3. ASSUME NEW phase, req' = [req EXCEPT ![x].phase = phase], req[x].phase # "answering"
      PROVE  AnswerKept(r)
  BY <1>3, OtherRequests
<1>4. ASSUME NEW sends, NEW notices, Give(x, sends, notices), req[x].phase = "claiming"
       PROVE  AnswerKept(r)
  <2> DEFINE new == [req[x] EXCEPT !.phase = "answering", !.sends = sends, !.notices = notices]
  <2>1. req' = [req EXCEPT ![x] = new]
    BY <1>1, <1>4 DEF Give
  <2> HIDE DEF new
  <2> QED
    BY <1>4, <2>1, OtherRequests
<1>5. ASSUME NEW claimed, Empty(x, claimed), req[x].phase = "claiming" PROVE AnswerKept(r)
  <2> DEFINE new == [req[x] EXCEPT !.phase = "emptied", !.passed = Able(req[x].app) \ claimed]
  <2>1. req' = [req EXCEPT ![x] = new]
    BY <1>1, <1>5 DEF Empty
  <2> HIDE DEF new
  <2> QED
    BY <1>5, <2>1, OtherRequests
<1>6. CASE InsertSend(x) \/ StartWait(x)
  BY <1>2, <1>3, <1>6 DEF InsertSend, StartWait
<1>7. CASE Signal(x)
  <2>1. CASE r = x
    BY <1>7, <2>1 DEF Signal, AnswerKept
  <2>2. CASE r # x
    BY <1>7, <2>2, FlagsKeepAnswers DEF Signal
  <2> QED
    BY <2>1, <2>2
<1>8. CASE Hold(x)
  <2>1. req[x].phase = "collecting"
    BY <1>8 DEF Hold
  <2>2. CASE r = x
    BY <2>1, <2>2 DEF AnswerKept
  <2>3. CASE Ends(x)
    BY <1>2, <2>1, <2>3
  <2>4. CASE r # x /\ ~ Ends(x)
    BY <1>8, <2>4, FlagsKeepAnswers DEF Hold
  <2> QED
    BY <2>2, <2>3, <2>4
<1>9. CASE Claim(x)
  <2>1. req[x].phase = "claiming"
    BY <1>9 DEF Claim
  <2>2. \/ \E sends, notices : Give(x, sends, notices)
        \/ \E claimed : Empty(x, claimed)
    BY <1>9 DEF Claim
  <2> QED
    BY <2>1, <2>2, <1>4, <1>5
<1>10. CASE Waits(x)
  <2>1. ASSUME NEW signalled, Again(x, signalled), req[x].phase = "waiting" PROVE AnswerKept(r)
    <3> DEFINE new == [req[x] EXCEPT !.phase = "claiming", !.signalled = signalled, !.passed = {}]
    <3>1. req' = [req EXCEPT ![x] = new]
      BY <1>1, <2>1 DEF Again
    <3> HIDE DEF new
    <3> QED
      BY <2>1, <3>1, OtherRequests
  <2> QED
    BY <1>2, <1>10, <2>1 DEF Waits, Wake, GiveUp
<1>11. ASSUME NEW entries \in SUBSET Works, NEW removed \in SUBSET Works,
             Report(x, entries, removed)
      PROVE  AnswerKept(r)
  <2>1. req[x].phase = "syncing"
    BY <1>11 DEF Report
  <2>2. PICK notices : req' = [req EXCEPT ![x].phase = "answering", ![x].notices = notices]
    BY <1>11 DEF Report
  <2> DEFINE new == [req[x] EXCEPT !.phase = "answering", !.notices = notices]
  <2>3. req' = [req EXCEPT ![x] = new]
    BY <1>1, <2>2
  <2> HIDE DEF new
  <2> QED
    BY <2>1, <2>3, OtherRequests
<1>12. CASE r # x /\ Ends(x)
  BY <1>1, <1>12 DEF Ends, AnswerKept
<1>13. CASE Answer(x)
  <2>1. req[x].app \in Apps /\ told \in [Apps -> SUBSET (Works \X (1..MaxTakedowns))]
    BY <1>1 DEF IInv, TypeOK, Request
  <2>2. r = x => req[r].notices \subseteq told'[req[r].app]
    BY <1>13, <2>1 DEF Answer
  <2> QED
    BY <1>12, <1>13, <2>2 DEF Answer, AnswerKept
<1>14. CASE LoseAnswer(x)
  <2>1. {req[x].app} \X req[x].notices \subseteq spent'.lost
    BY <1>14, TroubleSpends DEF LoseAnswer, Taken
  <2> QED
    BY <1>12, <1>14, <2>1 DEF LoseAnswer, AnswerKept
<1> QED
  BY <1>6, <1>7, <1>8, <1>9, <1>10, <1>11, <1>13, <1>14

LEMMA AnswersAreKept ==
    ASSUME IInv, [Next]_vars, NEW r \in Requests PROVE AnswerKept(r)
<1>1. ASSUME NEW x \in Requests, Starts(x) \/ GoesOn(x) \/ Waits(x) \/ LoseAnswer(x)
      PROVE  AnswerKept(r)
  BY <1>1, StartsKeepAnswers, StepsKeepAnswers DEF GoesOn
<1>2. CASE UNCHANGED req
  BY <1>2, FlagsKeepAnswers
<1>3. CASE Crash
  BY <1>3, TroubleSpends DEF Crash, AnswerKept, Taken
<1>4. CASE People
  BY <1>2, <1>4 DEF People, Discard, TakeDown, LiftTakedown, SoftDeleteWork, RestoreWork, SetWork,
     UpdateCapabilities, Revoke
<1> QED
  BY <1>1, <1>2, <1>3, <1>4 DEF Next, DeleteExpiredSends, Tick, vars

\* What has been told stays told, and what is lost stays lost.
LEMMA HeardStays ==
    ASSUME IInv, [Next]_vars, NEW a \in Apps
    PROVE  told[a] \subseteq told'[a] /\ spent.lost \subseteq spent'.lost
<1>1. /\ told \in [Apps -> SUBSET (Works \X (1..MaxTakedowns))]
      /\ spent \in Spent
  BY DEF IInv, TypeOK
<1>2. CASE UNCHANGED <<told, spent>>
  BY <1>2
<1>3. ASSUME NEW x \in Requests, Starts(x) \/ GoesOn(x) \/ Waits(x) \/ LoseAnswer(x)
      PROVE  told[a] \subseteq told'[a] /\ spent.lost \subseteq spent'.lost
  <2>1. CASE Answer(x)
    BY <1>1, <2>1 DEF Answer
  <2>2. CASE LoseAnswer(x)
    BY <2>2, TroubleSpends DEF LoseAnswer
  <2> QED
    BY <1>2, <1>3, <2>1, <2>2 DEF Starts, GoesOn, Waits, Queue, Collect, Sync, InsertSend, Signal,
       Hold, Claim, StartWait, Report, Wake, GiveUp
<1>4. CASE Crash
  BY <1>4, TroubleSpends DEF Crash
<1>5. CASE People
  <2>1. ASSUME Change PROVE spent'.lost = spent.lost
    BY <1>1, <2>1 DEF Change, Spent
  <2> QED
    BY <1>2, <1>5, <2>1 DEF People, Discard, TakeDown, LiftTakedown, SoftDeleteWork, RestoreWork,
       SetWork, UpdateCapabilities, Revoke
<1> QED
  BY <1>2, <1>3, <1>4, <1>5 DEF Next, DeleteExpiredSends, Tick, vars

LEMMA AccountedStays ==
    ASSUME IInv, [Next]_vars, NEW a \in Apps, NEW notice, Accounted(a, notice)
    PROVE  Accounted(a, notice)'
<1>1. CASE notice \in told[a] \/ <<a, notice>> \in spent.lost
  BY <1>1, HeardStays DEF Accounted
<1>2. ASSUME NEW r \in Requests,
             req[r].phase = "answering", req[r].app = a, notice \in req[r].notices
      PROVE  Accounted(a, notice)'
  BY <1>2, AnswersAreKept DEF AnswerKept, Accounted
<1> QED
  BY <1>1, <1>2 DEF Accounted

\* A mark is made by a request that answers with its notice.
Marked(a, w) ==
    library'[a][w] > 0 =>
        \/ library'[a][w] = library[a][w]
        \/ \E r \in Requests :
              /\ req'[r].phase = "answering" /\ req'[r].app = a
              /\ <<w, library'[a][w]>> \in req'[r].notices

\* An entry that a takedown is noted in is marked, any other stays.
LEMMA NotifiedMarks ==
    ASSUME NEW lib \in [Apps -> [Works -> {Absent} \cup Nat]], NEW a \in Apps,
           NEW b \in Apps, NEW w \in Works
    PROVE  \/ Notified(lib, a)[b][w] = lib[b][w]
           \/ /\ b = a
              /\ <<w, Notified(lib, a)[b][w]>> \in Takedowns(Pending(lib, a))
BY DEF Notified, Takedowns, Pending

LEMMA ClaimMarks ==
    ASSUME IInv, NEW x \in Requests, Claim(x), NEW a \in Apps, NEW w \in Works
    PROVE  Marked(a, w)
<1> DEFINE mine == req[x].app
           pending == Pending(library, mine)
<1>1. /\ req \in [Requests -> Request] /\ req[x] \in Request /\ mine \in Apps
      /\ library \in [Apps -> [Works -> {Absent} \cup Nat]]
  BY SettingsAreNumbers DEF IInv, TypeOK, Request
<1>2. PICK claimed \in Batches(x) :
         /\ library' = Notified(library, mine)
         /\ IF Found(x, claimed)
            THEN Give(x, Released(x, claimed), Takedowns(pending)) ELSE Empty(x, claimed)
  BY DEF Claim
<1>3. \/ library'[a][w] = library[a][w]
      \/ a = mine /\ <<w, library'[a][w]>> \in Takedowns(pending)
  BY <1>1, <1>2, NotifiedMarks
<1>4. CASE a = mine /\ <<w, library'[a][w]>> \in Takedowns(pending)
  <2>1. Found(x, claimed)
    BY <1>4 DEF Found, Takedowns
  <2>2. req'[x] = [req[x] EXCEPT !.phase = "answering", !.sends = Released(x, claimed),
                                 !.notices = Takedowns(pending)]
    BY <1>1, <1>2, <2>1 DEF Give
  <2>3. req'[x].phase = "answering" /\ req'[x].app = mine /\ req'[x].notices = Takedowns(pending)
    BY <1>1, <2>2 DEF Request
  <2> QED
    BY <1>4, <2>3 DEF Marked
<1> QED
  BY <1>3, <1>4 DEF Marked

LEMMA ReportMarks ==
    ASSUME IInv, NEW x \in Requests, NEW entries \in SUBSET Works, NEW removed \in SUBSET Works,
           Report(x, entries, removed), NEW a \in Apps, NEW w \in Works
    PROVE  Marked(a, w)
<1> DEFINE app0 == req[x].app
           mine == [v \in Works |->
                      CASE v \in removed -> Absent
                        [] v \in entries /\ library[app0][v] = Absent
                              /\ work[v].state \in {"public", "down"} -> 0
                        [] OTHER -> library[app0][v]]
           kept == [library EXCEPT ![app0] = mine]
<1>1. /\ req \in [Requests -> Request] /\ req[x] \in Request /\ app0 \in Apps
      /\ library \in [Apps -> [Works -> {Absent} \cup Nat]]
  BY SettingsAreNumbers DEF IInv, TypeOK, Request
<1>2. /\ library' = Notified(kept, app0)
      /\ req' = [req EXCEPT ![x].phase = "answering",
                            ![x].notices = Takedowns(Pending(kept, app0))]
  BY <1>1 DEF Report
<1>3. mine \in [Works -> {Absent} \cup Nat]
      /\ \A v \in Works : mine[v] \in {Absent, 0, library[app0][v]}
  BY <1>1
<1>4. /\ kept \in [Apps -> [Works -> {Absent} \cup Nat]]
      /\ kept[a][w] \in {Absent, 0, library[a][w]}
  BY <1>1, <1>3
<1>5. /\ req'[x].phase = "answering" /\ req'[x].app = app0
      /\ req'[x].notices = Takedowns(Pending(kept, app0))
  BY <1>1, <1>2 DEF Request
<1> HIDE DEF kept
<1>6. \/ library'[a][w] = kept[a][w]
      \/ a = app0 /\ <<w, library'[a][w]>> \in Takedowns(Pending(kept, app0))
  BY <1>1, <1>2, <1>4, NotifiedMarks
<1>7. CASE a = app0 /\ <<w, library'[a][w]>> \in Takedowns(Pending(kept, app0))
  BY <1>5, <1>7 DEF Marked
<1>8. CASE library'[a][w] = kept[a][w]
  BY <1>4, <1>8 DEF Marked, Absent
<1> QED
  BY <1>6, <1>7, <1>8

LEMMA AllMarks == ASSUME IInv, [Next]_vars, NEW a \in Apps, NEW w \in Works PROVE Marked(a, w)
<1>1. CASE UNCHANGED library
  BY <1>1 DEF Marked
<1>2. ASSUME NEW x \in Requests, Starts(x) \/ GoesOn(x) \/ Waits(x) \/ LoseAnswer(x)
      PROVE  Marked(a, w)
  BY <1>1, <1>2, ClaimMarks, ReportMarks DEF Starts, GoesOn, Waits, Queue, Collect, Sync,
     InsertSend, Signal, Hold, StartWait, Answer, Wake, GiveUp, LoseAnswer
<1>3. ASSUME NEW b \in Apps, Revoke(b) PROVE Marked(a, w)
  <2>1. library \in [Apps -> [Works -> {Absent} \cup 0..MaxTakedowns]]
    BY DEF IInv, TypeOK
  <2>2. library'[a][w] \in {Absent, library[a][w]}
    BY <1>3, <2>1 DEF Revoke
  <2> QED
    BY <2>2 DEF Marked, Absent
<1>4. CASE People
  BY <1>1, <1>3, <1>4 DEF People, Discard, TakeDown, LiftTakedown, SoftDeleteWork, RestoreWork,
     SetWork, UpdateCapabilities
<1> QED
  BY <1>1, <1>2, <1>4 DEF Next, DeleteExpiredSends, Tick, Crash, vars

\* However requests of an app overlap: a takedown marked as told has reached the app, or is on
\* its way, or went with an answer that was lost (TakeTakedownNotices, Collect).
THEOREM NoticesArrive == Spec => []NoticesReachTheApp
<1>1. Init => NoticesReachTheApp
  BY DEF Init, NoticesReachTheApp, Absent
<1>2. IInv /\ NoticesReachTheApp /\ [Next]_vars => NoticesReachTheApp'
  <2> SUFFICES ASSUME IInv, NoticesReachTheApp, [Next]_vars, NEW a \in Apps, NEW w \in Works,
                      library'[a][w] > 0
               PROVE  Accounted(a, <<w, library[a][w]>>)'
    BY DEF NoticesReachTheApp
  <2>1. CASE library'[a][w] = library[a][w]
    <3>1. PICK notice : notice = <<w, library[a][w]>>
      OBVIOUS
    <3>2. Accounted(a, notice)
      BY <2>1, <3>1 DEF NoticesReachTheApp
    <3>3. Accounted(a, notice)'
      BY <3>2, AccountedStays
    <3> QED
      BY <2>1, <3>1, <3>3 DEF Accounted
  <2>2. CASE \E r \in Requests :
                /\ req'[r].phase = "answering" /\ req'[r].app = a
                /\ <<w, library'[a][w]>> \in req'[r].notices
    BY <2>2 DEF Accounted
  <2> QED
    BY <2>1, <2>2, AllMarks DEF Marked
<1> QED
  BY SpecIInv, <1>1, <1>2, PTL DEF Spec
================================================================================
