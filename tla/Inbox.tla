-------------------------------- MODULE Inbox --------------------------------
(***************************************************************************)
(* Notifications: api/internal/notify, and the places that record them.    *)
(*                                                                         *)
(* A change records an event in its own transaction.  A loop of the server *)
(* deletes a batch of recorded events and writes the inbox entries they    *)
(* make, in one transaction: to the account an event names, or to those    *)
(* who follow the work or its creator.  Updates of one work fold into the  *)
(* account's unread entry about it.  Two loops run while a new server      *)
(* takes over from an old one.                                             *)
(*                                                                         *)
(* An event is named by its place in the order of recording, which stands  *)
(* for recorded_at, and an entry's created_at is that of its latest event. *)
(***************************************************************************)
EXTENDS Integers, Sequences, FiniteSets, FiniteSetsExt, SequencesExt

CONSTANTS
    Accounts,   \* readers and creators
    Works,      \* published works
    Creator,    \* the owner of each work
    NoOne,      \* the account of an event for followers
    NoWork,     \* the work of an event about a profile
    Passes,     \* loops of RunFanOut
    Batch,      \* fanOutBatch and cleanupBatch
    Retention,  \* Retention, in ticks
    MaxEvents,  \* bound: changes that are recorded
    MaxChoices  \* bound: follows begun, and changes of what is installed

Settings ==
    /\ Creator \in [Works -> Accounts]
    /\ NoOne \notin Accounts /\ NoWork \notin Works
    /\ Batch \in Nat \ {0} /\ Retention \in Nat /\ MaxEvents \in Nat /\ MaxChoices \in Nat

VARIABLES
    recorded,  \* every event so far, as it was recorded
    queue,     \* the events that are still in notification_events
    taken,     \* what each pass has deleted in its open transaction
    inbox,     \* notifications
    follow,    \* work_follows
    installed, \* works that a live connected app of an account reports
    fans,      \* creator_follows
    hidden,    \* works taken down or deleted
    age,       \* ticks since each event was recorded
    choices    \* choices of what to follow so far

vars == <<recorded, queue, taken, inbox, follow, installed, fans, hidden, age, choices>>

Types == {"work_taken_down", "work_restored", "work_updated", "work_published",
          "profile_restricted", "profile_restored", "github_release_held"}

Event == [type : Types, account : Accounts \cup {NoOne}, work : Works \cup {NoWork}]

\* of: the events the entry stands for; words: the one it shows
Entry == [account : Accounts, type : Types, work : Works \cup {NoWork},
          of : SUBSET (1..MaxEvents), words : 1..MaxEvents, count : Nat,
          read : BOOLEAN]

Init ==
    /\ recorded = <<>>
    /\ queue = {}
    /\ taken = [r \in Passes |-> {}]
    /\ inbox = {}
    /\ follow = [a \in Accounts |-> [w \in Works |-> "none"]]
    /\ installed = [a \in Accounts |-> {}]
    /\ fans = [a \in Accounts |-> {}]
    /\ hidden = {}
    /\ age = <<>>
    /\ choices = 0

------------------------------------------------------------------------------
(* Changes that are recorded.                                               *)

Record(type, a, w) ==
    /\ Len(recorded) < MaxEvents
    /\ recorded' = Append(recorded, [type |-> type, account |-> a, work |-> w])
    /\ queue' = queue \cup {Len(recorded) + 1}
    /\ age' = Append(age, 0)
    /\ UNCHANGED <<taken, inbox, follow, installed, fans, choices>>

\* A version that changed the file and was not published quietly.
TellFollowers(w) ==
    /\ w \notin hidden
    /\ Record("work_updated", NoOne, w)
    /\ UNCHANGED hidden

\* The first publication of a listed work.
Publish(w) ==
    /\ w \notin hidden
    /\ ~ \E n \in DOMAIN recorded : recorded[n].work = w
    /\ Record("work_published", NoOne, w)
    /\ UNCHANGED hidden

TakeDown(w) ==
    /\ w \notin hidden
    /\ hidden' = hidden \cup {w}
    /\ Record("work_taken_down", Creator[w], w)

LiftTakedown(w) ==
    /\ w \in hidden
    /\ hidden' = hidden \ {w}
    /\ Record("work_restored", Creator[w], w)

\* A release that finds unpublished edits, or a draft, is held for its owner.
HoldRelease(w) ==
    /\ Record("github_release_held", Creator[w], w)
    /\ UNCHANGED hidden

RestrictProfile(a) ==
    /\ Record("profile_restricted", a, NoWork)
    /\ UNCHANGED hidden

Restricted(a) ==
    \E n \in DOMAIN recorded :
        /\ recorded[n].type = "profile_restricted" /\ recorded[n].account = a
        /\ \A k \in (n + 1)..Len(recorded) :
              ~ (recorded[k].type = "profile_restored" /\ recorded[k].account = a)

RestoreProfile(a) ==
    /\ Restricted(a)
    /\ Record("profile_restored", a, NoWork)
    /\ UNCHANGED hidden

------------------------------------------------------------------------------
(* Who hears of it.                                                         *)

\* Stopping is not counted: it can happen only so often.
Choose == choices < MaxChoices /\ choices' = choices + 1

Chosen == <<recorded, queue, taken, inbox, hidden, age>>

SetFollow(a, w, state) ==
    /\ IF state = "stopped" THEN UNCHANGED choices ELSE Choose
    /\ a # Creator[w]
    /\ w \notin hidden
    /\ follow' = [follow EXCEPT ![a][w] = state]
    /\ UNCHANGED <<Chosen, installed, fans>>

\* An app reports that it has the work, or no longer.
Install(a, w) ==
    /\ Choose
    /\ installed' = [installed EXCEPT ![a] = IF w \in @ THEN @ \ {w} ELSE @ \cup {w}]
    /\ UNCHANGED <<Chosen, follow, fans>>

FollowCreator(a, c) ==
    /\ Choose
    /\ a # c
    /\ fans' = [fans EXCEPT ![a] = @ \cup {c}]
    /\ UNCHANGED <<Chosen, follow, installed>>

StopFollowingCreator(a, c) ==
    /\ c \in fans[a]
    /\ fans' = [fans EXCEPT ![a] = @ \ {c}]
    /\ UNCHANGED <<Chosen, follow, installed, choices>>

\* The view work_followers: an install follows unless the account stopped.
WorkFollowers(w) ==
    {a \in Accounts \ {Creator[w]} :
        \/ follow[a][w] = "following"
        \/ (w \in installed[a] /\ follow[a][w] # "stopped")}

Hearers(e) ==
    IF e.account # NoOne THEN {e.account}
    ELSE IF e.type = "work_published" THEN {a \in Accounts : Creator[e.work] \in fans[a]}
    ELSE WorkFollowers(e.work)

------------------------------------------------------------------------------
(* The fan-out.                                                             *)

FreshEntry(n, a) ==
    [account |-> a, type |-> recorded[n].type, work |-> recorded[n].work,
     of |-> {n}, words |-> n, count |-> 1, read |-> FALSE]

FoldsNeverBug(entry, n) == FALSE

\* The unique index on unread updates is what the insert conflicts with.
FoldsInto(entry, n) ==
    /\ entry.work = recorded[n].work
    /\ entry.type = "work_updated" /\ recorded[n].type = "work_updated"
    /\ ~ entry.read

Folded(entry, n) ==
    [account |-> entry.account, type |-> entry.type, work |-> entry.work,
     of |-> entry.of \cup {n}, words |-> n, count |-> entry.count + 1, read |-> entry.read]

\* One insert for all who hear of the event.
WriteEntries(entries, n) ==
    LET hearers == Hearers(recorded[n])
        folding == {x \in entries : x.account \in hearers /\ FoldsInto(x, n)}
    IN  (entries \ folding)
        \cup {Folded(x, n) : x \in folding}
        \cup {FreshEntry(n, a) : a \in {h \in hearers : \A x \in folding : x.account # h}}

\* for update skip locked: not in another pass's hands
Free(n) == \A r \in Passes : n \notin taken[r]

\* The oldest of the free events, as many as a batch takes.
TakeDueEvents(r) ==
    /\ taken[r] = {}
    /\ LET free == {n \in queue : Free(n)} IN
       \E S \in SUBSET free :
          /\ S # {}
          /\ \A n \in S, k \in free \ S : n < k
          /\ Cardinality(S) = Batch \/ (S = free /\ Cardinality(S) < Batch)
          /\ taken' = [taken EXCEPT ![r] = S]
    /\ UNCHANGED <<recorded, queue, inbox, follow, installed, fans, hidden, age, choices>>

\* The deleted rows come back in no order anyone has asked for.
FanOutBatch(r) ==
    /\ taken[r] # {}
    /\ \E line \in SetToSeqs(taken[r]) : inbox' = FoldLeft(WriteEntries, inbox, line)
    /\ queue' = queue \ taken[r]
    /\ taken' = [taken EXCEPT ![r] = {}]
    /\ UNCHANGED <<recorded, follow, installed, fans, hidden, age, choices>>

\* A pass fails or its server stops: the transaction is rolled back.
RollBack(r) ==
    /\ taken[r] # {}
    /\ taken' = [taken EXCEPT ![r] = {}]
    /\ UNCHANGED <<recorded, queue, inbox, follow, installed, fans, hidden, age, choices>>

------------------------------------------------------------------------------
(* The reader.                                                              *)

\* The view inbox_entries: a hidden work's entries are only its owner's.
Visible(x) == x.work \in Works => Creator[x.work] = x.account \/ x.work \notin hidden

Mine(a) == {x \in inbox : x.account = a /\ Visible(x)}

Kept == <<recorded, queue, taken, follow, installed, fans, hidden, age, choices>>

MarkRead(a, S) ==
    /\ \E x \in S : ~ x.read
    /\ inbox' = (inbox \ S) \cup {[x EXCEPT !.read = TRUE] : x \in S}
    /\ UNCHANGED Kept

MarkOneRead(a) == \E x \in Mine(a) : MarkRead(a, {x})

MarkAllRead(a) == MarkRead(a, Mine(a))

RemoveEntry(a) ==
    /\ \E x \in Mine(a) : inbox' = inbox \ {x}
    /\ UNCHANGED Kept

Clear(a) ==
    /\ Mine(a) # {}
    /\ inbox' = inbox \ Mine(a)
    /\ UNCHANGED Kept

\* Entries whose latest event was recorded longer ago than the retention.
Cleanup ==
    LET expired == {x \in inbox : age[x.words] > Retention} IN
    /\ \E S \in SUBSET expired :
          /\ S # {}
          /\ Cardinality(S) = Batch \/ (S = expired /\ Cardinality(S) < Batch)
          /\ inbox' = inbox \ S
    /\ UNCHANGED Kept

Tick ==
    /\ \E n \in DOMAIN age : age[n] <= Retention
    /\ age' = [n \in DOMAIN age |-> IF age[n] <= Retention THEN age[n] + 1 ELSE age[n]]
    /\ UNCHANGED <<recorded, queue, taken, inbox, follow, installed, fans, hidden, choices>>

------------------------------------------------------------------------------
Next ==
    \/ \E w \in Works : TellFollowers(w) \/ Publish(w) \/ TakeDown(w) \/ LiftTakedown(w)
                        \/ HoldRelease(w)
    \/ \E a \in Accounts : RestrictProfile(a) \/ RestoreProfile(a) \/ MarkOneRead(a)
                           \/ MarkAllRead(a) \/ RemoveEntry(a) \/ Clear(a)
    \/ \E a \in Accounts, w \in Works : Install(a, w) \/ SetFollow(a, w, "following")
                                        \/ SetFollow(a, w, "stopped")
    \/ \E a, c \in Accounts : FollowCreator(a, c) \/ StopFollowingCreator(a, c)
    \/ \E r \in Passes : TakeDueEvents(r) \/ FanOutBatch(r) \/ RollBack(r)
    \/ Cleanup
    \/ Tick

\* Passes keep running, and do not fail for ever.
Fairness == \A r \in Passes : WF_vars(TakeDueEvents(r)) /\ SF_vars(FanOutBatch(r))

Spec == Init /\ [][Next]_vars /\ Fairness

------------------------------------------------------------------------------
TypeOK ==
    /\ recorded \in Seq(Event) /\ Len(recorded) <= MaxEvents
    /\ queue \subseteq DOMAIN recorded
    /\ taken \in [Passes -> SUBSET queue]
    /\ inbox \subseteq Entry
    /\ follow \in [Accounts -> [Works -> {"none", "following", "stopped"}]]
    /\ installed \in [Accounts -> SUBSET Works]
    /\ fans \in [Accounts -> SUBSET Accounts]
    /\ hidden \subseteq Works
    /\ DOMAIN age = DOMAIN recorded
    /\ choices \in 0..MaxChoices

\* An account hears of an event once: no two of its entries stand for the same
\* event, an entry counts exactly the events it stands for, an event still in
\* the queue is in no inbox, and an account has one unread update of a work.
ToldOnce ==
    /\ \A x \in inbox : x.count = Cardinality(x.of) /\ x.words \in x.of /\ x.of \cap queue = {}
    /\ \A x, y \in inbox : x # y /\ x.account = y.account =>
          /\ x.of \cap y.of = {}
          /\ x.work = y.work /\ x.type = "work_updated" /\ y.type = "work_updated"
                => x.read \/ y.read

\* What a reader has opened stays as it was read until it is removed: a later
\* update makes an entry of its own.
ReadStaysRead ==
    [][\A x \in inbox : x.read =>
          x \in inbox' \/ ~ \E y \in inbox' : y.account = x.account /\ y.of \cap x.of # {}]_vars

\* An event leaves the queue only with its entries written for those who
\* follow then, though passes fail and work on the same queue.
NoEventIsLost ==
    [][\A n \in queue \ queue' : \A a \in Hearers(recorded[n]) :
          \E x \in inbox' : x.account = a /\ n \in x.of]_vars

\* And it does leave the queue.
EventsArrive == \A n \in 1..MaxEvents : n \in queue ~> n \notin queue
==============================================================================
