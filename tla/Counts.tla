-------------------------------- MODULE Counts --------------------------------
(***************************************************************************)
(* How views, downloads, sends and visits are counted (page/counts,        *)
(* download/record, staff/visits, readerkey), and what the nightly rollup  *)
(* makes of the counts (staff/report and the database's functions).        *)
(*                                                                         *)
(* A reader counts once a day for a work.  The key that says so comes from *)
(* a secret made for the day by the day's first request, and goes with the *)
(* secret when a later day begins.  A request takes the day from its own   *)
(* clock and then runs each statement on its own, so it may still be at    *)
(* work on a day that is over.  The last request and every rollup may meet *)
(* in any order; a request lasts seconds, so it sees one midnight at most. *)
(***************************************************************************)
EXTENDS Integers, FiniteSets, FiniteSetsExt

CONSTANTS
    Works, Readers, ConnectedApps,
    Site,        \* what a visit counts for
    Requests,    \* requests that can be at work at the same time
    MaxDay,      \* bound: days
    MaxStarts,   \* bound: requests, sends and changes of works
    Retention,   \* days an event is kept
    Window,      \* days a ranking looks back
    KeptDays,    \* days a ranking is kept
    None

CountSettings ==
    /\ Site \notin Works /\ IsFiniteSet(Readers) /\ IsFiniteSet(Requests)
    /\ {MaxDay, MaxStarts, Retention, Window, KeptDays} \subseteq Nat

VARIABLES
    today,
    secret,       \* reader_secrets: 0 is none, the others are told apart
    made,         \* the secrets made for a day so far
    keys,         \* reader_keys
    request,
    events, totals,
    countedSends,
    rankings,
    starts,
    overnight     \* history: the requests that were at work when a day ended

countVars ==
    <<today, secret, made, keys, request, events, totals, countedSends, rankings, starts,
      overnight>>

Days == 0..MaxDay

Counters == {<<"visit", Site>>} \cup ({"view", "download", "send"} \X Works)

NoCounts == [d \in Days |-> [c \in Counters |-> 0]]

Activity == [views : Nat, downloads : Nat]

Unranked == [w \in Works |-> [views |-> 0, downloads |-> 0]]

CountInit ==
    /\ today = 0
    /\ secret = [d \in Days |-> 0] /\ made = [d \in Days |-> 0]
    /\ keys = {}
    /\ request = [q \in Requests |-> None]
    /\ events = NoCounts /\ totals = NoCounts
    /\ countedSends = {}
    /\ rankings = [d \in Days |-> Unranked]
    /\ starts = 0
    /\ overnight = [d \in Days |-> 0]

------------------------------------------------------------------------------
(* A display, a handoff or a visit is counted.                              *)

Begin(q, counter, reader) ==
    /\ request[q] = None
    /\ starts < MaxStarts
    /\ starts' = starts + 1
    /\ request' = [request EXCEPT ![q] =
          [phase |-> "make", counter |-> counter, reader |-> reader, day |-> today,
           secret |-> 0, again |-> FALSE]]
    /\ UNCHANGED <<today, secret, made, keys, events, totals, countedSends, rankings, overnight>>

RecordView(q, w, reader) == Begin(q, <<"view", w>>, reader)

RecordDownload(q, w, reader) == Begin(q, <<"download", w>>, reader)

RecordVisit(q, reader) == Begin(q, <<"visit", Site>>, reader)

At(q, phase) == request[q] # None /\ request[q].phase = phase

Becomes(q, phase) == request' = [request EXCEPT ![q].phase = phase]

Finish(q) == request' = [request EXCEPT ![q] = None]

\* Today: the first request of a day makes its secret, and then forgets the days before.
MakeSecret(q) ==
    /\ At(q, "make")
    /\ LET d == request[q].day IN
       IF secret[d] = 0
       THEN /\ made' = [made EXCEPT ![d] = @ + 1]
            /\ secret' = [secret EXCEPT ![d] = made[d] + 1]
            /\ Becomes(q, "forget")
       ELSE Becomes(q, "read") /\ UNCHANGED <<made, secret>>
    /\ UNCHANGED <<today, keys, events, totals, countedSends, rankings, starts, overnight>>

Forget(day) ==
    /\ secret' = [d \in Days |-> IF d < day THEN 0 ELSE secret[d]]
    /\ keys' = {k \in keys : k.day >= day}

ForgetEarlier(q) ==
    /\ At(q, "forget")
    /\ Forget(request[q].day)
    /\ Becomes(q, "read")
    /\ UNCHANGED <<today, made, events, totals, countedSends, rankings, starts, overnight>>

\* A secret that is gone before it is read fails the request.
ReadSecret(q) ==
    /\ At(q, "read")
    /\ LET d == request[q].day IN
       IF secret[d] = 0 THEN Finish(q)
       ELSE request' = [request EXCEPT ![q].phase = "count", ![q].secret = secret[d]]
    /\ UNCHANGED <<today, secret, made, keys, events, totals, countedSends, rankings, starts, overnight>>

Key(r) == [day |-> r.day, counter |-> r.counter, reader |-> r.reader, secret |-> r.secret]

\* The key's day is gone: a download starts once more, anything else is not counted.
SecretGone(q) ==
    IF request[q].counter[1] = "download" /\ ~ request[q].again
    THEN request' = [request EXCEPT ![q].phase = "make", ![q].again = TRUE]
    ELSE Finish(q)

RecordTodayBug(q) ==
    LET r == request[q] IN
    IF Key(r) \in keys THEN UNCHANGED <<keys, events>>
    ELSE /\ keys' = keys \cup {Key(r)}
         /\ events' = [events EXCEPT ![today][r.counter] = @ + 1]

Record(q) ==
    LET r == request[q] IN
    IF Key(r) \in keys THEN UNCHANGED <<keys, events>>
    ELSE /\ keys' = keys \cup {Key(r)}
         /\ events' = [events EXCEPT ![r.day][r.counter] = @ + 1]

\* One statement looks at the work, keeps the key and counts.
CountOnce(q, open) ==
    /\ At(q, "count")
    /\ IF request[q].counter[2] \notin open THEN Finish(q) /\ UNCHANGED <<keys, events>>
       ELSE IF secret[request[q].day] = 0 THEN SecretGone(q) /\ UNCHANGED <<keys, events>>
       ELSE Record(q) /\ Finish(q)
    /\ UNCHANGED <<today, secret, made, totals, countedSends, rankings, starts, overnight>>

\* The trigger on sends: a delivery counts once for an app, a work and a day.
RecordSend(app, w) ==
    /\ starts < MaxStarts
    /\ starts' = starts + 1
    /\ LET send == <<today, app, w>> IN
       IF send \in countedSends THEN UNCHANGED <<countedSends, events>>
       ELSE /\ countedSends' = countedSends \cup {send}
            /\ events' = [events EXCEPT ![today][<<"send", w>>] = @ + 1]
    /\ UNCHANGED <<today, secret, made, keys, request, totals, rankings, overnight>>

------------------------------------------------------------------------------
(* The rollup, in one transaction.                                          *)

Folded ==
    [d \in Days |-> [c \in Counters |->
        IF d < today /\ events[d][c] > 0 THEN events[d][c] ELSE totals[d][c]]]

Retained ==
    [d \in Days |-> IF d < today - Retention THEN NoCounts[d] ELSE events[d]]

\* work_day_counts: the total where there is one, the events where there is none.
DayCount(t, e, d, c) == IF t[d][c] # 0 THEN t[d][c] ELSE e[d][c]

Since(t, e, c) ==
    MapThenSumSet(LAMBDA d : DayCount(t, e, d, c), {d \in Days : d >= today - Window /\ d < today})

RankWorks(t, e) ==
    rankings' = [d \in Days |->
        IF d = today
        THEN [w \in Works |->
                [views |-> Since(t, e, <<"view", w>>),
                 downloads |-> Since(t, e, <<"download", w>>) + Since(t, e, <<"send", w>>)]]
        ELSE IF d < today - KeptDays THEN Unranked ELSE rankings[d]]

Rollup ==
    /\ totals' = Folded
    /\ events' = Retained
    /\ Forget(today)
    /\ countedSends' = {s \in countedSends : s[1] >= today}
    /\ RankWorks(Folded, Retained)
    /\ UNCHANGED <<today, made, request, starts, overnight>>

Midnight ==
    /\ today < MaxDay
    /\ \A q \in Requests : request[q] # None => request[q].day = today
    /\ today' = today + 1
    /\ overnight' = [overnight EXCEPT ![today] = Cardinality({q \in Requests : request[q] # None})]
    /\ UNCHANGED <<secret, made, keys, request, events, totals, countedSends, rankings, starts>>

CountStep(open) ==
    \/ \E q \in Requests, reader \in Readers :
          \/ \E w \in Works : RecordView(q, w, reader) \/ RecordDownload(q, w, reader)
          \/ RecordVisit(q, reader)
    \/ \E q \in Requests : MakeSecret(q) \/ ForgetEarlier(q) \/ ReadSecret(q) \/ CountOnce(q, open)
    \/ \E app \in ConnectedApps, w \in Works : RecordSend(app, w)
    \/ Rollup \/ Midnight

------------------------------------------------------------------------------
CountTypeOK ==
    /\ today \in Days
    /\ secret \in [Days -> Nat] /\ made \in [Days -> Nat]
    /\ keys \subseteq [day : Days, counter : Counters, reader : Readers, secret : Nat]
    /\ request \in [Requests -> {None} \cup
          [phase : {"make", "forget", "read", "count"}, counter : Counters, reader : Readers,
           day : Days, secret : Nat, again : BOOLEAN]]
    /\ events \in [Days -> [Counters -> Nat]] /\ totals \in [Days -> [Counters -> Nat]]
    /\ countedSends \subseteq Days \X ConnectedApps \X Works
    /\ rankings \in [Days -> [Works -> Activity]]
    /\ starts \in 0..MaxStarts
    /\ overnight \in [Days -> Nat]

\* No reader counts twice on a day, neither while it lasts nor after it, but that a request that
\* was at work when it ended may count its reader once more: the secret is then gone, and the new
\* one knows nobody.  Each counts at most once, in the events and in the totals made of them.
EachDayIsOnce ==
    \A d \in Days, c \in Counters :
        c[1] # "send" => DayCount(totals, events, d, c) <= Cardinality(Readers) + overnight[d]

===============================================================================
