-------------------------------- MODULE Sends --------------------------------
(***************************************************************************)
(* Sending works to connected apps: api/internal/connect (sends, collect,  *)
(* waiting, library, takedown, cleanup).                                   *)
(*                                                                         *)
(* An owner queues a work for an app.  The app collects with a request     *)
(* that the server holds until there is something to give; what it gives   *)
(* is leased until the app acknowledges it, and given again when the lease *)
(* runs out.  The app reports its library, and takedown notices ride on    *)
(* either answer.  Every statement or transaction is one action; a request *)
(* keeps in memory what it read before (app, declared).                    *)
(***************************************************************************)
EXTENDS Integers, FiniteSets

CONSTANTS
    Apps,              \* connected apps
    Works,             \* works that may be sent, all of them extensions
    SendIds,           \* bound: rows of sends ever inserted
    Requests,          \* bound: requests at a time
    None,              \* no request
    Lease,             \* Settings.Lease in ticks
    Retention,         \* Settings.Retention in ticks
    Batch,             \* Settings.Batch
    MaxAttempts,       \* Settings.MaxAttempts
    PendingPerApp,     \* Settings.PendingPerApp
    ConcurrentHolds,   \* Settings.ConcurrentHolds
    MaxTakedowns,      \* bound: takedowns of each work
    MaxChanges,        \* bound: changes to an app's capabilities or credentials
    MaxTrouble         \* bound: lost answers and restarts

ASSUME SendsAssumption ==
    /\ Apps # {} /\ Works # {} /\ None \notin Requests
    /\ \A n \in {Lease, Batch, MaxAttempts, PendingPerApp, ConcurrentHolds} :
          n \in Nat \ {0}
    /\ Retention \in Nat /\ Retention > Lease
    /\ \A n \in {MaxTakedowns, MaxChanges, MaxTrouble} : n \in Nat

VARIABLES
    app,      \* connected_apps: live, and the capability declared
    work,     \* works: state, and how often it was taken down (taken_down_at)
    send,     \* sends
    library,  \* app_library_entries: absent, or the takedown notified, 0 for none
    hub,      \* hub.waiting: the request that waits for each app
    req,      \* requests under way
    got,      \* sends each app has received and stored
    told,     \* takedowns each app has received
    spent     \* changes and trouble so far, and history: the notices lost by them

vars == <<app, work, send, library, hub, req, got, told, spent>>

Live == {"queued", "released"}
Settled == {"delivered", "failed"}
Absent == -1

Phases == {"idle", "queueing", "queued", "collecting", "claiming", "emptied",
           "waiting", "answering", "syncing"}
\* The phases in which a request is between hold and release of the hub.
Holding == {"claiming", "emptied", "waiting"}

Idle(a, w) == [phase |-> "idle", app |-> a, work |-> w, declared |-> FALSE,
               signalled |-> FALSE, superseded |-> FALSE,
               sends |-> {}, notices |-> {}, passed |-> {}]
AnyApp == CHOOSE a \in Apps : TRUE
AnyWork == CHOOSE w \in Works : TRUE

Unused == [state |-> "none", app |-> AnyApp, work |-> AnyWork, attempts |-> 0,
           lease |-> 0, expires |-> 0]

Init ==
    /\ app = [a \in Apps |-> [live |-> TRUE, declares |-> TRUE]]
    /\ work = [w \in Works |-> [state |-> "public", takedowns |-> 0]]
    /\ send = [s \in SendIds |-> Unused]
    /\ library = [a \in Apps |-> [w \in Works |-> Absent]]
    /\ hub = [a \in Apps |-> None]
    /\ req = [r \in Requests |-> Idle(AnyApp, AnyWork)]
    /\ got = [a \in Apps |-> {}]
    /\ told = [a \in Apps |-> {}]
    /\ spent = [changes |-> 0, trouble |-> 0, lost |-> {}]

Sendable(w) == work[w].state = "public"

LiveSends(a) == {s \in SendIds : send[s].app = a /\ send[s].state \in Live}

Ends(r) == req' = [req EXCEPT ![r] = Idle(AnyApp, AnyWork)]

------------------------------------------------------------------------------
(* Queue, for the owner or for the app itself.                              *)

\* The reads: the app is live and declares what the work needs, the work can
\* be sent, and there is room in the queue.
Queue(r, a, w) ==
    /\ req[r].phase = "idle"
    /\ app[a].live /\ app[a].declares
    /\ Sendable(w)
    /\ Cardinality(LiveSends(a)) < PendingPerApp
    /\ req' = [req EXCEPT ![r] = [Idle(a, w) EXCEPT !.phase = "queueing"]]
    /\ UNCHANGED <<app, work, send, library, hub, got, told, spent>>

Queued(a, w) == [state |-> "queued", app |-> a, work |-> w, attempts |-> 0,
                 lease |-> 0, expires |-> Retention]

\* Mutant: the insert does not mind a live send of the work.
InsertSendAlwaysBug(r) ==
    /\ req[r].phase = "queueing"
    /\ \E s \in SendIds :
          /\ send[s].state = "none"
          /\ send' = [send EXCEPT ![s] = Queued(req[r].app, req[r].work)]
    /\ req' = [req EXCEPT ![r].phase = "queued"]
    /\ UNCHANGED <<app, work, library, hub, got, told, spent>>

\* QueueSend: a live send of the same work is answered instead (liveSend),
\* without a signal.
InsertSend(r) ==
    /\ req[r].phase = "queueing"
    /\ IF \E s \in LiveSends(req[r].app) : send[s].work = req[r].work
       THEN Ends(r) /\ UNCHANGED send
       ELSE /\ \E s \in SendIds :
                 /\ send[s].state = "none"
                 /\ send' = [send EXCEPT ![s] = Queued(req[r].app, req[r].work)]
            /\ req' = [req EXCEPT ![r].phase = "queued"]
    /\ UNCHANGED <<app, work, library, hub, got, told, spent>>

\* Mutant: the channel holds nothing, only a request in its wait hears.
SignalUnbufferedBug(r) ==
    LET waiter == hub[req[r].app] IN
    /\ req[r].phase = "queued"
    /\ req' = [x \in Requests |->
                  IF x = r THEN Idle(AnyApp, AnyWork)
                  ELSE IF x = waiter /\ req[x].phase = "waiting"
                       THEN [req[x] EXCEPT !.signalled = TRUE]
                  ELSE req[x]]
    /\ UNCHANGED <<app, work, send, library, hub, got, told, spent>>

\* hub.signal: the waiting request's channel holds one signal.
Signal(r) ==
    LET waiter == hub[req[r].app] IN
    /\ req[r].phase = "queued"
    /\ req' = [x \in Requests |->
                  IF x = r THEN Idle(AnyApp, AnyWork)
                  ELSE IF x = waiter THEN [req[x] EXCEPT !.signalled = TRUE]
                  ELSE req[x]]
    /\ UNCHANGED <<app, work, send, library, hub, got, told, spent>>

\* The owner discards a send, in whatever state it is.
Discard(s) ==
    /\ send[s].state \in Live \cup Settled
    /\ send' = [send EXCEPT ![s].state = "gone"]
    /\ UNCHANGED <<app, work, library, hub, req, got, told, spent>>

------------------------------------------------------------------------------
(* Collect.                                                                 *)

\* AcknowledgeSends: the lease may have run out meanwhile.
Acknowledge(a, acks) ==
    [s \in SendIds |->
        IF s \in acks /\ send[s].app = a /\ send[s].state = "released"
        THEN [send[s] EXCEPT !.state = "delivered"] ELSE send[s]]

\* The credential is read, then what the app acknowledges is settled.
Collect(r, a, acks) ==
    /\ req[r].phase = "idle"
    /\ app[a].live
    /\ acks \subseteq got[a]
    /\ send' = Acknowledge(a, acks)
    /\ req' = [req EXCEPT ![r] = [Idle(a, AnyWork) EXCEPT
                  !.phase = "collecting", !.declared = app[a].declares]]
    /\ UNCHANGED <<app, work, library, hub, got, told, spent>>

\* hub.hold: refused at the limit; an earlier request of the app is
\* superseded.
Hold(r) ==
    LET a == req[r].app IN
    /\ req[r].phase = "collecting"
    /\ IF hub[a] = None /\ Cardinality({b \in Apps : hub[b] # None}) >= ConcurrentHolds
       THEN Ends(r) /\ UNCHANGED hub
       ELSE /\ req' = [x \in Requests |->
                          IF x = r THEN [req[r] EXCEPT !.phase = "claiming"]
                          ELSE IF x = hub[a] THEN [req[x] EXCEPT !.superseded = TRUE]
                          ELSE req[x]]
            /\ hub' = [hub EXCEPT ![a] = r]
    /\ UNCHANGED <<app, work, send, library, got, told, spent>>

\* Mutant: a superseded request takes its successor's place away.
ReleaseHoldAnyBug(r) == [hub EXCEPT ![req[r].app] = None]

\* hub.release, deferred in Collect.
ReleaseHold(r) ==
    IF hub[req[r].app] = r THEN [hub EXCEPT ![req[r].app] = None] ELSE hub

\* ClaimSends.
Claimable(a, s) ==
    /\ send[s].app = a /\ app[a].live
    /\ send[s].expires > 0
    /\ send[s].attempts < MaxAttempts
    /\ \/ send[s].state = "queued"
       \/ send[s].state = "released" /\ send[s].lease = 0

\* AbandonExhaustedSends.
Exhausted(a, s) ==
    /\ send[s].app = a /\ send[s].state = "released"
    /\ send[s].lease = 0 /\ send[s].attempts >= MaxAttempts

\* release: what a claimed send becomes.
Release(r, s) ==
    IF Sendable(send[s].work) /\ req[r].declared
    THEN [send[s] EXCEPT !.state = "released", !.attempts = @ + 1, !.lease = Lease]
    ELSE [send[s] EXCEPT !.state = "failed", !.attempts = @ + 1, !.lease = 0]

\* TakeTakedownNotices: takedowns of what the app reports installed that it
\* was not told of.
Pending(lib, a) ==
    {w \in Works : /\ lib[a][w] # Absent /\ work[w].state = "down"
                   /\ lib[a][w] # work[w].takedowns}

Notified(lib, a) ==
    [lib EXCEPT ![a] = [w \in Works |-> IF w \in Pending(lib, a)
                                        THEN work[w].takedowns ELSE @[w]]]

\* The takedowns that the notices of works ws speak of.
Takedowns(ws) == {<<w, work[w].takedowns>> : w \in ws}

\* What a claim leaves of the sends, and what it finds to give.
Claimed(r, claimed) ==
    [s \in SendIds |->
        IF s \in claimed THEN Release(r, s)
        ELSE IF Exhausted(req[r].app, s)
             THEN [send[s] EXCEPT !.state = "failed"]
             ELSE send[s]]
Released(r, claimed) == {s \in claimed : Release(r, s).state = "released"}

Able(a) == {s \in SendIds : Claimable(a, s)}

\* ClaimSends takes as many as there are, up to Batch, and skips what another
\* request of the app has locked in a claim of its own.
Batches(r) ==
    LET a == req[r].app
        rival == \E x \in Requests \ {r} : req[x].phase = "claiming" /\ req[x].app = a IN
    {claimed \in SUBSET Able(a) :
        \/ Cardinality(claimed) = Batch
        \/ Cardinality(claimed) < Batch /\ (rival \/ claimed = Able(a))}

Give(r, sends, notices) ==
    /\ req' = [req EXCEPT ![r].phase = "answering",
                          ![r].sends = sends, ![r].notices = notices]
    /\ hub' = ReleaseHold(r)

\* passed is history: the sends the claim left to a later one.
Empty(r, claimed) ==
    /\ req' = [req EXCEPT ![r].phase = "emptied",
                          ![r].passed = Able(req[r].app) \ claimed]
    /\ UNCHANGED hub

\* Mutant: only a send ends the wait.
FoundSendsBug(r, claimed) == Released(r, claimed) # {}

Found(r, claimed) == Released(r, claimed) # {} \/ Pending(library, req[r].app) # {}

\* claim, one transaction.  With something to give Collect returns, else it
\* waits.
Claim(r) ==
    LET a == req[r].app IN
    /\ req[r].phase = "claiming"
    /\ \E claimed \in Batches(r) :
        /\ send' = Claimed(r, claimed)
        /\ library' = Notified(library, a)
        /\ IF Found(r, claimed)
           THEN Give(r, Released(r, claimed), Takedowns(Pending(library, a)))
           ELSE Empty(r, claimed)
    /\ UNCHANGED <<app, work, got, told, spent>>

\* The select that waits.
StartWait(r) ==
    /\ req[r].phase = "emptied"
    /\ req' = [req EXCEPT ![r].phase = "waiting"]
    /\ UNCHANGED <<app, work, send, library, hub, got, told, spent>>

Again(r, signalled) ==
    req' = [req EXCEPT ![r].phase = "claiming", ![r].signalled = signalled,
                       ![r].passed = {}]

\* A signal or the recheck ticker: only a signal empties the channel.
Wake(r) ==
    /\ req[r].phase = "waiting"
    /\ \/ req[r].signalled /\ Again(r, FALSE)
       \/ Again(r, req[r].signalled)
    /\ UNCHANGED <<app, work, send, library, hub, got, told, spent>>

\* Superseded, or waited out, or the client has gone, or the claim fails:
\* nothing to give.
GiveUp(r) ==
    /\ req[r].phase \in {"claiming", "waiting"}
    /\ hub' = ReleaseHold(r)
    /\ Ends(r)
    /\ UNCHANGED <<app, work, send, library, got, told, spent>>

\* The app has the answer and has stored what came with it.
Answer(r) ==
    LET a == req[r].app IN
    /\ req[r].phase = "answering"
    /\ got' = [got EXCEPT ![a] = @ \cup req[r].sends]
    /\ told' = [told EXCEPT ![a] = @ \cup req[r].notices]
    /\ Ends(r)
    /\ UNCHANGED <<app, work, send, library, hub, spent>>

------------------------------------------------------------------------------
(* Sync: the app reports its library.                                       *)

\* The credential is read, and the report checked.
Sync(r, a) ==
    /\ req[r].phase = "idle"
    /\ app[a].live
    /\ req' = [req EXCEPT ![r] = [Idle(a, AnyWork) EXCEPT !.phase = "syncing"]]
    /\ UNCHANGED <<app, work, send, library, hub, got, told, spent>>

\* One transaction.  An entry that is there keeps what it was notified of; a
\* deleted work is ignored; a snapshot prunes the rest.
Report(r, entries, removed) ==
    LET a == req[r].app
        kept == [library EXCEPT ![a] = [w \in Works |->
                    CASE w \in removed -> Absent
                      [] w \in entries /\ @[w] = Absent
                            /\ work[w].state \in {"public", "down"} -> 0
                      [] OTHER -> @[w]]] IN
    /\ req[r].phase = "syncing"
    /\ library' = Notified(kept, a)
    /\ req' = [req EXCEPT ![r].phase = "answering",
                          ![r].notices = Takedowns(Pending(kept, a))]
    /\ UNCHANGED <<app, work, send, hub, got, told, spent>>

------------------------------------------------------------------------------
(* Owners and staff.                                                        *)

\* Staff take a work down; its sends that were never taken stop.
TakeDown(w) ==
    /\ work[w].state = "public" /\ work[w].takedowns < MaxTakedowns
    /\ work' = [work EXCEPT ![w] = [state |-> "down", takedowns |-> @.takedowns + 1]]
    /\ send' = [s \in SendIds |->
                   IF send[s].work = w /\ send[s].state = "queued"
                   THEN [send[s] EXCEPT !.state = "failed"] ELSE send[s]]
    /\ UNCHANGED <<app, library, hub, req, got, told, spent>>

SetWork(w, from, to) ==
    /\ work[w].state = from
    /\ work' = [work EXCEPT ![w].state = to]
    /\ UNCHANGED <<app, send, library, hub, req, got, told, spent>>

LiftTakedown(w) == SetWork(w, "down", "public")
SoftDeleteWork(w) == SetWork(w, "public", "deleted")
RestoreWork(w) == SetWork(w, "deleted", "public")

Change == /\ spent.changes < MaxChanges
          /\ spent' = [spent EXCEPT !.changes = @ + 1]

\* The app declares or withdraws the capability its works need.
UpdateCapabilities(a) ==
    /\ app[a].live
    /\ Change
    /\ app' = [app EXCEPT ![a].declares = ~ @]
    /\ UNCHANGED <<work, send, library, hub, req, got, told>>

\* One statement: the app's sends and its library go along.
Revoke(a) ==
    /\ app[a].live
    /\ Change
    /\ app' = [app EXCEPT ![a] = [live |-> FALSE, declares |-> FALSE]]
    /\ send' = [s \in SendIds |->
                   IF send[s].app = a /\ send[s].state # "none"
                   THEN [send[s] EXCEPT !.state = "gone"] ELSE send[s]]
    /\ library' = [library EXCEPT ![a] = [w \in Works |-> Absent]]
    /\ UNCHANGED <<work, hub, req, got, told>>

------------------------------------------------------------------------------
(* Cleanup, time and failure.                                               *)

\* Mutant: only what was never taken expires.
DeleteExpiredSendsQueuedBug ==
    /\ \E s \in SendIds : send[s].state = "queued" /\ send[s].expires = 0
    /\ send' = [s \in SendIds |->
                   IF send[s].state = "queued" /\ send[s].expires = 0
                   THEN [send[s] EXCEPT !.state = "gone"] ELSE send[s]]
    /\ UNCHANGED <<app, work, library, hub, req, got, told, spent>>

DeleteExpiredSends ==
    /\ \E s \in SendIds : send[s].state \in Live \cup Settled /\ send[s].expires = 0
    /\ send' = [s \in SendIds |->
                   IF send[s].state \in Live \cup Settled /\ send[s].expires = 0
                   THEN [send[s] EXCEPT !.state = "gone"] ELSE send[s]]
    /\ UNCHANGED <<app, work, library, hub, req, got, told, spent>>

Less(n) == IF n > 0 THEN n - 1 ELSE n

Tick ==
    /\ send' = [s \in SendIds |->
                   IF send[s].state \in Live \cup Settled
                   THEN [send[s] EXCEPT !.lease = Less(@), !.expires = Less(@)]
                   ELSE send[s]]
    /\ UNCHANGED <<app, work, library, hub, req, got, told, spent>>

\* What the app would have been told by answers that it now does not get.
Trouble(answers) ==
    /\ spent.trouble < MaxTrouble
    /\ spent' = [spent EXCEPT !.trouble = @ + 1,
                    !.lost = @ \cup UNION {{req[r].app} \X req[r].notices : r \in answers}]

\* The answer is lost on its way.
LoseAnswer(r) ==
    /\ req[r].phase = "answering"
    /\ Trouble({r})
    /\ Ends(r)
    /\ UNCHANGED <<app, work, send, library, hub, got, told>>

\* The server stops; its requests end and the database stays.
Crash ==
    /\ Trouble(Requests)
    /\ req' = [r \in Requests |-> Idle(AnyApp, AnyWork)]
    /\ hub' = [a \in Apps |-> None]
    /\ UNCHANGED <<app, work, send, library, got, told>>

------------------------------------------------------------------------------

Starts(r) ==
    \E a \in Apps :
        \/ \E w \in Works : Queue(r, a, w)
        \/ \E acks \in SUBSET got[a] : Collect(r, a, acks)
        \/ Sync(r, a)

GoesOn(r) ==
    \/ InsertSend(r) \/ Signal(r) \/ Hold(r) \/ Claim(r) \/ StartWait(r) \/ Answer(r)
    \/ \E entries, removed \in SUBSET Works :
          entries \cap removed = {} /\ Report(r, entries, removed)

Waits(r) == Wake(r) \/ GiveUp(r)

People ==
    \/ \E s \in SendIds : Discard(s)
    \/ \E w \in Works : \/ TakeDown(w) \/ LiftTakedown(w)
                        \/ SoftDeleteWork(w) \/ RestoreWork(w)
    \/ \E a \in Apps : UpdateCapabilities(a) \/ Revoke(a)

Next ==
    \/ \E r \in Requests : Starts(r) \/ GoesOn(r) \/ Waits(r) \/ LoseAnswer(r)
    \/ People \/ DeleteExpiredSends \/ Tick \/ Crash

Spec == Init /\ [][Next]_vars

\* The cleanup loop runs, time passes and a request that has begun ends.
FairSpec ==
    /\ Spec
    /\ WF_vars(DeleteExpiredSends) /\ WF_vars(Tick)
    /\ \A r \in Requests : WF_vars(GoesOn(r)) /\ WF_vars(GiveUp(r))

------------------------------------------------------------------------------
SendRow == [state : {"none", "gone"} \cup Live \cup Settled, app : Apps,
            work : Works, attempts : 0..MaxAttempts, lease : 0..Lease,
            expires : 0..Retention]
Request == [phase : Phases, app : Apps, work : Works, declared : BOOLEAN,
            signalled : BOOLEAN, superseded : BOOLEAN,
            sends : SUBSET SendIds, passed : SUBSET SendIds,
            notices : SUBSET (Works \X (1..MaxTakedowns))]
Spent == [changes : 0..MaxChanges, trouble : 0..MaxTrouble,
          lost : SUBSET (Apps \X (Works \X (1..MaxTakedowns)))]

\* Every variable keeps its type; no send is taken more than MaxAttempts times.
TypeOK ==
    /\ app \in [Apps -> [live : BOOLEAN, declares : BOOLEAN]]
    /\ work \in [Works -> [state : {"public", "deleted", "down"},
                           takedowns : 0..MaxTakedowns]]
    /\ send \in [SendIds -> SendRow]
    /\ library \in [Apps -> [Works -> {Absent} \cup 0..MaxTakedowns]]
    /\ hub \in [Apps -> Requests \cup {None}]
    /\ req \in [Requests -> Request]
    /\ got \in [Apps -> SUBSET SendIds]
    /\ told \in [Apps -> SUBSET (Works \X (1..MaxTakedowns))]
    /\ spent \in Spent

\* However many requests queue a work at once, one send of it waits
\* (TestSendingTheSameWorkTwiceQueuesItOnce).
OneLiveSend ==
    \A s, t \in SendIds :
        (s # t /\ {send[s].state, send[t].state} \subseteq Live
               /\ send[s].app = send[t].app) => send[s].work # send[t].work

\* A request that waits has not slept through a send: of what was queued since
\* it last looked, it is signalled or the queueing request is about to signal
\* it (hub, Collect).  What its last claim passed over, because the batch was
\* full of works that can no longer be sent or a rival claim had it locked, is
\* left to the recheck.
NoLostSignal ==
    \A r \in Requests, s \in SendIds :
        (/\ req[r].phase \in {"emptied", "waiting"} /\ hub[req[r].app] = r /\ ~ req[r].signalled
         /\ send[s].state = "queued" /\ Claimable(req[r].app, s) /\ s \notin req[r].passed)
            => \E q \in Requests : req[q].phase = "queued" /\ req[q].app = req[r].app

\* A request in a wait is the one its app is registered with, or knows that a
\* later one took its place; so one app never holds two places
\* (TestReleasingLeavesAWaitThatAlreadySupersededItRegistered).
WaitsAreRegistered ==
    /\ \A r \in Requests :
          req[r].phase \in Holding => (hub[req[r].app] = r \/ req[r].superseded)
    /\ \A a \in Apps :
          hub[a] # None => /\ req[hub[a]].phase \in Holding
                           /\ req[hub[a]].app = a /\ ~ req[hub[a]].superseded

\* A settled send stays as it is until it goes (AcknowledgeSends, FailSend).
SettledStay ==
    [][\A s \in SendIds :
          send[s].state \in Settled => send'[s].state \in {send[s].state, "gone"}]_vars

\* The app has been told, an answer under way tells it, or the answer that told it was lost.
Accounted(a, notice) ==
    \/ notice \in told[a]
    \/ \E r \in Requests :
          req[r].phase = "answering" /\ req[r].app = a /\ notice \in req[r].notices
    \/ <<a, notice>> \in spent.lost

\* "Each takedown is carried once" (app-integration.md:640), and is marked as carried before
\* the answer leaves: a mark whose notice the app never gets means that an answer was lost,
\* however collects and reports of the app overlap, wait, and are superseded.
NoticesReachTheApp ==
    \A a \in Apps, w \in Works : library[a][w] > 0 => Accounted(a, <<w, library[a][w]>>)

\* No send stays on record for good (DeleteExpiredSends).
SendsGo == \A s \in SendIds : send[s].state \in Live \cup Settled ~> send[s].state = "gone"
==============================================================================
