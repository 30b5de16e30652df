----------------------------- MODULE Connections -----------------------------
(***************************************************************************)
(* How a program becomes an app of an account, and keeps being one:        *)
(* connect/apps.go and connect/credentials.go.                             *)
(*                                                                         *)
(* A program asks by a code its user types (device) or through the browser *)
(* (browser), a creator answers, and the program collects its tokens once. *)
(* A refresh token is replaced by every use.  The answer that carries the  *)
(* new one may be lost, and a program may use its token twice at a time;   *)
(* either way a used token comes back, and the app is revoked.             *)
(* A refresh locks the app's row; the other operations are one statement.  *)
(* The ninety days in which a used token is recognised do not end here.    *)
(***************************************************************************)
EXTENDS Naturals, FiniteSets

CONSTANTS
    Creators,
    Asks,              \* requests for a connection, of both kinds
    Apps,              \* apps that may be made
    Calls,             \* calls of apps at the same time
    Permissions,
    LibrarySync,       \* library:sync
    None,
    CodeAttemptLimit,  \* codeAttemptLimit
    MaxInterval,       \* the longest poll interval, in steps of five seconds
    MaxTokens          \* bound: refresh tokens ever made, which are 1..MaxTokens

VARIABLES
    ask,      \* connection_requests and connection_authorizations
    proof,    \* the creators that hold an approval token of a request
    tries,    \* connection_rate_limits: codes a creator has entered in this hour
    app,      \* connected_apps
    access,   \* the apps with an access token that has not expired
    history,  \* app_refresh_history: used tokens and their apps
    library,  \* the apps with entries in app_library_entries
    minted,   \* refresh tokens made so far
    call,     \* what each call of an app has read
    held,     \* the refresh token each program has
    said,     \* every answer creators gave to a request
    doubled,  \* apps whose program lost an answer or used a token twice at a time
    reused    \* apps for which a used token came back

asking == <<ask, proof, tries, said>>
connected == <<app, access, history, library, minted, held, doubled, reused>>
vars == <<asking, connected, call>>

Ask == [kind : {"device", "browser"}, answer : {"none", "approved", "denied"},
        by : Creators \cup {None}, granted : SUBSET Permissions,
        redeemed : BOOLEAN, expired : BOOLEAN, polled : BOOLEAN, interval : 1..MaxInterval]

\* What ends a connection: its owner, a used token that comes back, ninety idle days.
Ends == {"owner", "reuse", "idle"}

App == [from : Asks, owner : Creators, permissions : SUBSET Permissions,
        token : 1..MaxTokens, live : BOOLEAN, idle : BOOLEAN, end : {None} \cup Ends]

Call == [op : {"refresh", "sync"}, app : Apps, token : 0..MaxTokens, locked : BOOLEAN]

Settings ==
    /\ LibrarySync \in Permissions
    /\ CodeAttemptLimit \in Nat /\ MaxInterval \in Nat \ {0} /\ MaxTokens \in Nat
    /\ None \notin Ask \cup App \cup Call \cup Ends

Init ==
    /\ ask = [q \in Asks |-> None]
    /\ proof = [q \in Asks |-> {}]
    /\ tries = [u \in Creators |-> 0]
    /\ app = [i \in Apps |-> None]
    /\ access = {} /\ history = {} /\ library = {} /\ doubled = {} /\ reused = {}
    /\ minted = 0
    /\ call = [c \in Calls |-> None]
    /\ held = [i \in Apps |-> 0]
    /\ said = [q \in Asks |-> {}]

Live(i) == app[i] # None /\ app[i].live

------------------------------------------------------------------------------
(* Asking.                                                                  *)

\* Requests of a kind that have expired are deleted when another one starts.
WithoutExpired(kind) ==
    [q \in Asks |-> IF ask[q] # None /\ ask[q].kind = kind /\ ask[q].expired THEN None ELSE ask[q]]

NewAsk(kind) ==
    [kind |-> kind, answer |-> "none", by |-> None, granted |-> {}, redeemed |-> FALSE,
     expired |-> FALSE, polled |-> FALSE, interval |-> 1]

\* A code is never used again: an ask that is over is not asked a second time.
StartAs(q, kind) ==
    /\ ask[q] = None /\ said[q] = {} /\ proof[q] = {}
    /\ ask' = [WithoutExpired(kind) EXCEPT ![q] = NewAsk(kind)]
    /\ UNCHANGED <<proof, tries, said, connected, call>>

Start(q) == StartAs(q, "device")

StartAuthorization(q) == StartAs(q, "browser")

RequestExpires(q) ==
    /\ ask[q] # None /\ ~ ask[q].expired
    /\ ask' = [ask EXCEPT ![q].expired = TRUE]
    /\ UNCHANGED <<proof, tries, said, connected, call>>

OpenTwiceBug(q, u) == ask[q] # None /\ ~ ask[q].expired /\ ~ ask[q].redeemed

\* What the review, the approval and the denial all look for.
Open(q, u) ==
    /\ ask[q] # None /\ ~ ask[q].expired /\ ~ ask[q].redeemed
    /\ ask[q].answer = "none"
    /\ ask[q].by \in {None, u}

TakeRate(u) == tries[u] < CodeAttemptLimit /\ tries' = [tries EXCEPT ![u] = @ + 1]

HourEnds ==
    /\ \E u \in Creators : tries[u] > 0 /\ tries' = [tries EXCEPT ![u] = 0]
    /\ UNCHANGED <<ask, proof, said, connected, call>>

\* A code that matches gives the creator a proof of having entered it.
ReviewAs(u, q, kind) ==
    /\ TakeRate(u)
    /\ Open(q, u) /\ ask[q].kind = kind
    /\ proof' = [proof EXCEPT ![q] = @ \cup {u}]
    /\ UNCHANGED <<ask, said, connected, call>>

Pending(u, q) == ReviewAs(u, q, "device")

PendingAuthorization(u, q) == ReviewAs(u, q, "browser")

Answer(u, q, kind, answer, granted) ==
    /\ u \in proof[q]
    /\ Open(q, u) /\ ask[q].kind = kind
    /\ ask' = [ask EXCEPT ![q].by = u, ![q].answer = answer, ![q].granted = granted]
    /\ said' = [said EXCEPT ![q] = @ \cup {<<u, answer>>}]
    /\ UNCHANGED <<proof, tries, connected, call>>

Approve(u, q, granted) == Answer(u, q, "device", "approved", granted)

ApproveAuthorization(u, q, granted) == Answer(u, q, "browser", "approved", granted)

Deny(u, q) == Answer(u, q, "device", "denied", {})

DenyAuthorization(u, q) == Answer(u, q, "browser", "denied", {})

------------------------------------------------------------------------------
(* Collecting the tokens.                                                   *)

InsertConnectedApp(i, q) ==
    [app EXCEPT ![i] =
        [from |-> q, owner |-> ask[q].by, permissions |-> ask[q].granted,
         token |-> minted + 1, live |-> TRUE, idle |-> FALSE, end |-> None]]

\* A new app with the first tokens; they reach the program unless the answer is lost.
IssueCredentials(q, lost) ==
    /\ minted < MaxTokens
    /\ minted' = minted + 1
    /\ \E i \in Apps :
          /\ app[i] = None
          /\ app' = InsertConnectedApp(i, q)
          /\ access' = access \cup {i}
          /\ held' = IF lost THEN held ELSE [held EXCEPT ![i] = minted + 1]
          /\ doubled' = IF lost THEN doubled \cup {i} ELSE doubled
    /\ UNCHANGED <<history, library, reused>>

RecordConnectionPoll(q, soon) ==
    [ask EXCEPT ![q].polled = TRUE,
                ![q].interval = IF soon /\ @ < MaxInterval THEN @ + 1 ELSE @]

\* The row of the request is locked from the first read to the last write.
Poll(q, soon, lost) ==
    /\ ask[q] # None /\ ask[q].kind = "device"
    /\ ~ ask[q].redeemed /\ ~ ask[q].expired /\ ask[q].answer # "denied"
    /\ soon => ask[q].polled
    /\ LET polled == RecordConnectionPoll(q, soon) IN
       IF soon \/ ask[q].answer = "none" THEN ask' = polled /\ UNCHANGED connected
       ELSE /\ ask' = [polled EXCEPT ![q].redeemed = TRUE]
            /\ IssueCredentials(q, lost)
    /\ UNCHANGED <<proof, tries, said, call>>

Exchange(q, lost) ==
    /\ ask[q] # None /\ ask[q].kind = "browser"
    /\ ~ ask[q].redeemed /\ ~ ask[q].expired /\ ask[q].answer = "approved"
    /\ ask' = [ask EXCEPT ![q].redeemed = TRUE]
    /\ IssueCredentials(q, lost)
    /\ UNCHANGED <<proof, tries, said, call>>

------------------------------------------------------------------------------
(* Keeping the connection.                                                  *)

RowFree(i) == \A c \in Calls : call[c] # None => ~ (call[c].app = i /\ call[c].locked)

Done(c) == call' = [call EXCEPT ![c] = None]

\* A program sends the token it has, perhaps while it still waits for an answer.
AskRefresh(c, i) ==
    /\ call[c] = None /\ held[i] # 0
    /\ call' = [call EXCEPT ![c] = [op |-> "refresh", app |-> i, token |-> held[i], locked |-> FALSE]]
    /\ doubled' = IF \E d \in Calls : call[d] # None /\ call[d].op = "refresh" /\ call[d].app = i
                  THEN doubled \cup {i} ELSE doubled
    /\ UNCHANGED <<asking, app, access, history, library, minted, held, reused>>

\* Everything the app has goes; the history of its tokens stays.
RevokeConnectedAppByID(i, end) ==
    IF Live(i)
    THEN /\ app' = [app EXCEPT ![i].live = FALSE, ![i].end = end]
         /\ access' = access \ {i}
         /\ library' = library \ {i}
    ELSE UNCHANGED <<app, access, library>>

ConnectedAppForUsedRefreshToken(token, i) == <<token, i>> \in history

HandleRefreshReuse(c) ==
    LET i == call[c].app IN
    /\ IF ConnectedAppForUsedRefreshToken(call[c].token, i)
       THEN RevokeConnectedAppByID(i, "reuse") ELSE UNCHANGED <<app, access, library>>
    /\ reused' = IF call[c].token # app[i].token THEN reused \cup {i} ELSE reused

Refreshing(c, locked) == call[c] # None /\ call[c].op = "refresh" /\ call[c].locked = locked

LockConnectedAppByRefreshToken(i, token) == Live(i) /\ app[i].token = token

\* The row is waited for, and looked at as it is then.
LockRefresh(c) ==
    /\ Refreshing(c, FALSE)
    /\ LET i == call[c].app IN
       /\ RowFree(i)
       /\ IF ~ LockConnectedAppByRefreshToken(i, call[c].token)
          THEN HandleRefreshReuse(c) /\ Done(c)
          ELSE IF app[i].idle
          THEN RevokeConnectedAppByID(i, "idle") /\ Done(c) /\ UNCHANGED reused
          ELSE call' = [call EXCEPT ![c].locked = TRUE] /\ UNCHANGED <<app, access, library, reused>>
    /\ UNCHANGED <<asking, history, minted, held, doubled>>

RotateAppRefreshToken(i, token) ==
    /\ app' = [app EXCEPT ![i].token = minted + 1, ![i].idle = FALSE]
    /\ history' = history \cup {<<token, i>>}

RotateCredentials(c, lost) ==
    /\ Refreshing(c, TRUE)
    /\ minted < MaxTokens
    /\ minted' = minted + 1
    /\ LET i == call[c].app IN
       /\ RotateAppRefreshToken(i, call[c].token)
       /\ access' = access \cup {i}
       /\ held' = IF lost THEN held ELSE [held EXCEPT ![i] = minted + 1]
       /\ doubled' = IF lost THEN doubled \cup {i} ELSE doubled
    /\ Done(c)
    /\ UNCHANGED <<asking, library, reused>>

\* The transaction of a refresh is rolled back, or a sync breaks off.
CallFails(c) == call[c] # None /\ Done(c) /\ UNCHANGED <<asking, connected>>

TouchConnectedAppByAccessToken(i) ==
    /\ i \in access /\ Live(i) /\ RowFree(i)
    /\ app' = [app EXCEPT ![i].idle = FALSE]

\* A valid access token shows the app as seen.
Authenticate(i) ==
    /\ TouchConnectedAppByAccessToken(i)
    /\ UNCHANGED <<asking, access, history, library, minted, held, doubled, reused>>

StartSync(c, i) ==
    /\ call[c] = None
    /\ Authenticate(i) /\ LibrarySync \in app[i].permissions
    /\ call' = [call EXCEPT ![c] = [op |-> "sync", app |-> i, token |-> 0, locked |-> FALSE]]

\* The report is recorded for the app that was authenticated before.
Sync(c) ==
    /\ call[c] # None /\ call[c].op = "sync"
    /\ library' = library \cup {call[c].app}
    /\ Done(c)
    /\ UNCHANGED <<asking, app, access, history, minted, held, doubled, reused>>

Revoke(i) ==
    /\ Live(i) /\ RowFree(i)
    /\ RevokeConnectedAppByID(i, "owner")
    /\ UNCHANGED <<asking, call, history, minted, held, doubled, reused>>

SetPermissions(i, granted) ==
    /\ Live(i) /\ RowFree(i)
    /\ app' = [app EXCEPT ![i].permissions = granted]
    /\ library' = IF LibrarySync \in granted THEN library ELSE library \ {i}
    /\ UNCHANGED <<asking, call, access, history, minted, held, doubled, reused>>

\* Ninety days without a sign of the app.
AppIdles(i) ==
    /\ Live(i) /\ ~ app[i].idle /\ i \notin access
    /\ app' = [app EXCEPT ![i].idle = TRUE]
    /\ UNCHANGED <<asking, call, access, history, library, minted, held, doubled, reused>>

AccessExpires(i) ==
    /\ i \in access
    /\ access' = access \ {i}
    /\ UNCHANGED <<asking, call, app, history, library, minted, held, doubled, reused>>

------------------------------------------------------------------------------
(* What may be called, with its inputs.                                     *)

StartConnectionRequest == \E q \in Asks : Start(q)

StartConnectionAuthorization == \E q \in Asks : StartAuthorization(q)

GetConnectionRequest == \E u \in Creators, q \in Asks : Pending(u, q)

GetConnectionAuthorization == \E u \in Creators, q \in Asks : PendingAuthorization(u, q)

ApproveConnectionRequest ==
    \E u \in Creators, q \in Asks, granted \in SUBSET Permissions : Approve(u, q, granted)

ApproveConnectionAuthorization ==
    \E u \in Creators, q \in Asks, granted \in SUBSET Permissions :
        ApproveAuthorization(u, q, granted)

DenyConnectionRequest == \E u \in Creators, q \in Asks : Deny(u, q)

DenyConnectionAuthorization == \E u \in Creators, q \in Asks : DenyAuthorization(u, q)

PollConnectionRequest == \E q \in Asks, soon, lost \in BOOLEAN : Poll(q, soon, lost)

ExchangeConnectionAuthorization == \E q \in Asks, lost \in BOOLEAN : Exchange(q, lost)

RefreshAppCredentials ==
    \E c \in Calls :
        \/ \E i \in Apps : AskRefresh(c, i)
        \/ LockRefresh(c)
        \/ \E lost \in BOOLEAN : RotateCredentials(c, lost)

GetConnectedApp == \E i \in Apps : Authenticate(i) /\ UNCHANGED call

SyncLibrary == \E c \in Calls : Sync(c) \/ \E i \in Apps : StartSync(c, i)

RevokeConnectedApp == \E i \in Apps : Revoke(i)

SetConnectedAppPermissions ==
    \E i \in Apps, granted \in SUBSET Permissions : SetPermissions(i, granted)

Next ==
    \/ StartConnectionRequest \/ StartConnectionAuthorization
    \/ GetConnectionRequest \/ GetConnectionAuthorization
    \/ ApproveConnectionRequest \/ ApproveConnectionAuthorization
    \/ DenyConnectionRequest \/ DenyConnectionAuthorization
    \/ PollConnectionRequest \/ ExchangeConnectionAuthorization
    \/ RefreshAppCredentials \/ GetConnectedApp \/ SyncLibrary
    \/ RevokeConnectedApp \/ SetConnectedAppPermissions
    \/ \E c \in Calls : CallFails(c)
    \/ \E q \in Asks : RequestExpires(q)
    \/ \E i \in Apps : AppIdles(i) \/ AccessExpires(i)
    \/ HourEnds

Spec == Init /\ [][Next]_vars

------------------------------------------------------------------------------
TypeOK ==
    /\ ask \in [Asks -> Ask \cup {None}]
    /\ proof \in [Asks -> SUBSET Creators]
    /\ tries \in [Creators -> 0..CodeAttemptLimit]
    /\ app \in [Apps -> App \cup {None}]
    /\ access \subseteq Apps /\ library \subseteq Apps
    /\ history \subseteq (1..MaxTokens) \X Apps
    /\ minted \in 0..MaxTokens
    /\ held \in [Apps -> 0..MaxTokens]

\* One answer is given to a request, whoever else had entered its code, and a
\* request connects one app, for the creator who approved it.
OneAppPerAnswer ==
    /\ \A q \in Asks : Cardinality(said[q]) <= 1
    /\ \A i, j \in Apps : app[i] # None =>
          /\ said[app[i].from] = {<<app[i].owner, "approved">>}
          /\ app[j] # None /\ i # j => app[j].from # app[i].from

\* A program that loses no answer and sends no token twice keeps its
\* connection, with the token that is current, until its owner or its own
\* silence ends it; a used token that comes back ends the connection.
ConnectionsEndForACause ==
    \A i \in Apps : app[i] # None =>
        /\ i \notin doubled => app[i].end # "reuse" /\ (Live(i) => held[i] = app[i].token)
        /\ i \in reused => ~ Live(i)
        /\ ~ Live(i) => i \notin access /\ app[i].end # None
==============================================================================
