----------------------------- MODULE PeopleProofs -----------------------------
(***************************************************************************)
(* Whose an address, a handle and a way to sign in are; how a profile came *)
(* to be restricted; how an app is connected, and what ends it.            *)
(*                                                                         *)
(* Accounts.  What a request looked up under its locks still holds when it *)
(* commits (Secured): whoever makes an address verified, takes a handle or *)
(* attaches a Discord account holds the lock on it (Guarded), and no two   *)
(* requests hold the same lock (LocksApart).  Every account that exists    *)
(* has a password or a Discord account from the day it is made, and an     *)
(* address from Discord is verified (InOrder).                             *)
(*                                                                         *)
(* Profiles.  Of the requests for one account one has its row, an owner's  *)
(* only while the profile is not restricted (RowsApart); each stored       *)
(* picture is one request's or has been shown (PicturesApart).             *)
(*                                                                         *)
(* Connections.  What a request for a connection says of its answer is     *)
(* what its creator said (AnswerKept), and the app made of it has taken it *)
(* (FromAnAnswer).  Each token on its way is the app's or one it had       *)
(* (TokensKnown, CallKnown); a program that was careful has the current    *)
(* one, and a single refresh with it on its way (Careful).                 *)
(***************************************************************************)
EXTENDS People, Sequences, FiniteSetTheorems, TLAPS

-----------------------------------------------------------------------------
(* The inductive invariant.                                                  *)

HasEntry(u) == user[u].password # None \/ \E s \in Subjects : identity[s] = u

InOrder(u) ==
    Exists(u) =>
        /\ user[u].verified => user[u].email # None
        /\ user[u].source = "discord" => user[u].verified
        /\ HasEntry(u)
        /\ u \in bore[user[u].handle]

\* What names an account names one that exists.
NamesExist ==
    /\ \A l \in links : Exists(l.user)
    /\ \A u \in live \cup resets : Exists(u)
    /\ \A s \in Subjects : identity[s] # None => Exists(identity[s])

HandlesInOrder ==
    \A h \in Handles :
        /\ \A u, v \in bore[h] : u = v
        /\ bore[h] # {} => HandleUnavailable(h)

Tables ==
    /\ VerifiedAddressIsSole
    /\ NamesExist
    /\ HandlesInOrder
    /\ \A u \in Users : InOrder(u)

LocksApart ==
    \A q, r \in Requests :
        q # r /\ req[q] # None /\ req[r] # None => req[q].locks \cap req[r].locks = {}

\* Requests of an account that is signed in, or was found.
OfUser == {"verify", "change email", "rename", "set password", "reset", "sign in", "detach",
           "attach"}

Locked(r, lock) == lock \in req[r].locks

\* The address, the handle, the subject or the account's handle that r is about to take
\* is still free for it.
EmailSecured(r, e) == Locked(r, EmailLock(e)) /\ ~ VerifiedEmailExists(e)
HandleSecured(r, h) == h \in Handles /\ Locked(r, HandleLock(h)) /\ ~ HandleUnavailable(h)
SubjectSecured(r, s) == Locked(r, SubjectLock(s)) /\ identity[s] = None
RowSecured(r, u) == Locked(r, RowLock(u)) /\ req[r].old = user[u].handle

Secured(r) ==
    /\ req[r].op = "sign up" =>
          HandleSecured(r, req[r].handle) /\ EmailSecured(r, req[r].email)
    /\ req[r].op = "verify" => Locked(r, EmailLock(req[r].email))
    /\ req[r].op = "change email" => EmailSecured(r, req[r].email)
    /\ req[r].op = "rename" => HandleSecured(r, req[r].handle) /\ RowSecured(r, req[r].user)
    /\ req[r].op = "attach" => SubjectSecured(r, req[r].subject)
    /\ req[r].op = "discord" /\ req[r].user # None /\ req[r].sync =>
          req[r].email # None /\ EmailSecured(r, req[r].email)
    /\ req[r].op = "discord" /\ req[r].user = None =>
          /\ HandleSecured(r, req[r].handle) /\ SubjectSecured(r, req[r].subject)
          /\ req[r].email # None => EmailSecured(r, req[r].email)

RequestInOrder(r) ==
    req[r] # None =>
        /\ req[r].op \in OfUser => Exists(req[r].user)
        /\ req[r].op \in {"begin", "discord"} /\ req[r].user # None => Exists(req[r].user)
        /\ req[r].op = "discord" /\ req[r].locks = {} => req[r].user = None
        /\ req[r].locks # {} => Secured(r)

IInv ==
    /\ TypeOK
    /\ Tables
    /\ LocksApart
    /\ \A r \in Requests : RequestInOrder(r)

-----------------------------------------------------------------------------
(* Requests and their locks.                                                 *)

LEMMA RequestTypes ==
    ASSUME TypeOK, NEW r \in Requests, req[r] # None
    PROVE  /\ req[r] \in Request /\ req[r].locks \in SUBSET Locks
           /\ req[r].op \in OfUser => req[r].user \in Users
           /\ req[r].op \in {"begin", "discord"} => req[r].user \in Users \cup {None}
           /\ req[r].op \in {"sign up", "verify", "change email"} => req[r].email \in Emails
           /\ req[r].op = "discord" => req[r].email \in Emails \cup {None}
           /\ req[r].op \in {"sign up", "rename"} => req[r].handle \in Handles
           /\ req[r].op = "discord" => req[r].handle \in Handles \cup {None}
           /\ req[r].op \in {"attach", "discord"} => req[r].subject \in Subjects
           /\ req[r].op \in {"sign up", "set password"} => req[r].password \in Passwords
           /\ req[r].op = "rename" => req[r].old \in Handles \cup {None}
           /\ req[r].op = "discord" => req[r].sync \in BOOLEAN
<1>1. req[r] \in Request
  BY DEF TypeOK
<1> QED
  BY <1>1 DEF Request, OfUser

LEMMA LockedRequest ==
    ASSUME NEW x \in Request, NEW L \in SUBSET Locks
    PROVE  LET y == [x EXCEPT !.locks = L] IN
           /\ y \in Request /\ y.locks = L /\ y.op = x.op
           /\ x.op \in OfUser \cup {"begin", "discord"} => y.user = x.user
           /\ x.op \in {"sign up", "verify", "change email", "discord"} => y.email = x.email
           /\ x.op \in {"sign up", "rename", "discord"} => y.handle = x.handle
           /\ x.op \in {"attach", "discord"} => y.subject = x.subject
           /\ x.op = "rename" => y.old = x.old
           /\ x.op = "discord" => y.sync = x.sync
BY DEF Request, OfUser

LEMMA LocksAreLocks ==
    /\ \A h \in Handles : HandleLock(h) \in Locks
    /\ \A e \in Emails : EmailLock(e) \in Locks
    /\ \A s \in Subjects : SubjectLock(s) \in Locks
    /\ \A u \in Users : UserLock(u) \in Locks /\ RowLock(u) \in Locks
BY DEF HandleLock, EmailLock, SubjectLock, UserLock, RowLock, Locks

\* A step whose request holds locks changes nothing that other requests secured.
Guarded(locks) ==
    /\ \A u \in Users : Exists(u) => Exists(u)'
    /\ \A u \in Users : Exists(u) => \/ user'[u].handle = user[u].handle
                                     \/ RowLock(u) \in locks
    /\ \A e \in Emails :
           VerifiedEmailExists(e)' => VerifiedEmailExists(e) \/ EmailLock(e) \in locks
    /\ \A h \in Handles :
           HandleUnavailable(h)' => HandleUnavailable(h) \/ HandleLock(h) \in locks
    /\ \A s \in Subjects : identity'[s] # None => identity[s] # None \/ SubjectLock(s) \in locks

LEMMA StaysInOrder ==
    ASSUME IInv, NEW locks, Guarded(locks), NEW q \in Requests, req'[q] = req[q],
           req[q] # None => req[q].locks \cap locks = {}
    PROVE  RequestInOrder(q)'
<1> SUFFICES ASSUME req[q] # None PROVE RequestInOrder(q)'
  BY DEF RequestInOrder
<1>1. TypeOK /\ RequestInOrder(q) /\ req[q].locks \cap locks = {}
  BY DEF IInv
<1> DEFINE x == req[q]
<1>2. \A e \in Emails : EmailSecured(q, e) => EmailSecured(q, e)'
  BY <1>1 DEF EmailSecured, Locked, Guarded
<1>3. \A h \in Handles : HandleSecured(q, h) => HandleSecured(q, h)'
  BY <1>1 DEF HandleSecured, Locked, Guarded
<1>4. \A s \in Subjects : SubjectSecured(q, s) => SubjectSecured(q, s)'
  BY <1>1 DEF SubjectSecured, Locked, Guarded
<1>5. \A u \in Users : Exists(u) /\ RowSecured(q, u) => RowSecured(q, u)'
  BY <1>1 DEF RowSecured, Locked, Guarded
<1>6. Secured(q) => Secured(q)'
  <2> SUFFICES ASSUME Secured(q) PROVE Secured(q)'
    OBVIOUS
  <2>1. x.op = "sign up" => HandleSecured(q, x.handle)' /\ EmailSecured(q, x.email)'
    BY <1>1, <1>2, <1>3, RequestTypes DEF Secured
  <2>2. x.op = "verify" => Locked(q, EmailLock(x.email))'
    BY DEF Secured, Locked
  <2>3. x.op = "change email" => EmailSecured(q, x.email)'
    BY <1>1, <1>2, RequestTypes DEF Secured
  <2>4. x.op = "rename" => HandleSecured(q, x.handle)' /\ RowSecured(q, x.user)'
    BY <1>1, <1>3, <1>5, RequestTypes DEF Secured, RequestInOrder, OfUser
  <2>5. x.op = "attach" => SubjectSecured(q, x.subject)'
    BY <1>1, <1>4, RequestTypes DEF Secured
  <2>6. x.op = "discord" /\ x.user # None /\ x.sync
            => x.email # None /\ EmailSecured(q, x.email)'
    BY <1>1, <1>2, RequestTypes DEF Secured
  <2>7. x.op = "discord" /\ x.user = None =>
          /\ HandleSecured(q, x.handle)' /\ SubjectSecured(q, x.subject)'
          /\ x.email # None => EmailSecured(q, x.email)'
    <3> SUFFICES ASSUME x.op = "discord", x.user = None
                 PROVE  /\ HandleSecured(q, x.handle)' /\ SubjectSecured(q, x.subject)'
                        /\ x.email # None => EmailSecured(q, x.email)'
      OBVIOUS
    <3>1. /\ x.email \in Emails \cup {None} /\ x.subject \in Subjects
      BY <1>1, RequestTypes
    <3>2. /\ HandleSecured(q, x.handle) /\ SubjectSecured(q, x.subject)
          /\ x.email # None => EmailSecured(q, x.email)
      BY DEF Secured
    <3>3. x.handle \in Handles
      BY <3>2 DEF HandleSecured
    <3> QED
      BY <1>2, <1>3, <1>4, <3>1, <3>2, <3>3
  <2> QED
    BY <2>1, <2>2, <2>3, <2>4, <2>5, <2>6, <2>7 DEF Secured
<1>7. /\ x.op \in OfUser => Exists(x.user)'
      /\ x.op \in {"begin", "discord"} /\ x.user # None => Exists(x.user)'
      /\ x.op = "discord" /\ x.locks = {} => x.user = None
  BY <1>1, RequestTypes DEF RequestInOrder, Guarded
<1> QED
  BY <1>1, <1>6, <1>7 DEF RequestInOrder

\* A request commits or fails: its locks go.
LEMMA DoneKeeps ==
    ASSUME IInv, NEW r \in Requests, req[r] # None, Done(r), Guarded(req[r].locks)
    PROVE  LocksApart' /\ \A q \in Requests : RequestInOrder(q)'
<1>1. TypeOK /\ LocksApart
  BY DEF IInv
<1>2. req'[r] = None /\ \A q \in Requests \ {r} : req'[q] = req[q]
  BY <1>1 DEF Done, TypeOK
<1>3. LocksApart'
  BY <1>1, <1>2 DEF LocksApart
<1>4. ASSUME NEW q \in Requests PROVE RequestInOrder(q)'
  <2>1. CASE q = r
    BY <1>2, <2>1 DEF RequestInOrder
  <2>2. CASE q # r
    BY <1>1, <1>2, <2>2, StaysInOrder DEF LocksApart
  <2> QED
    BY <2>1, <2>2
<1> QED
  BY <1>3, <1>4

LEMMA OthersKeep ==
    ASSUME IInv, req' = req, Guarded({})
    PROVE  LocksApart' /\ \A q \in Requests : RequestInOrder(q)'
BY StaysInOrder DEF IInv, LocksApart

LEMMA TablesStay ==
    ASSUME IInv, UNCHANGED tables PROVE Tables' /\ Guarded({})
<1>1. Tables
  BY DEF IInv
<1>2. UNCHANGED <<user, identity, retired, links, made, resets, live, bore>>
  BY DEF tables
<1>3. Guarded({})
  BY <1>2 DEF Guarded, Exists, VerifiedEmailExists, Verified, HandleUnavailable
<1>4. VerifiedAddressIsSole'
  BY <1>1, <1>2 DEF Tables, VerifiedAddressIsSole, VerifiedEmailExists, Verified, Exists
<1>5. NamesExist'
  BY <1>1, <1>2 DEF Tables, NamesExist, Exists
<1>6. HandlesInOrder'
  BY <1>1, <1>2 DEF Tables, HandlesInOrder, HandleUnavailable, Exists
<1>7. \A u \in Users : InOrder(u)'
  BY <1>1, <1>2 DEF Tables, InOrder, HasEntry, Exists
<1> QED
  BY <1>3, <1>4, <1>5, <1>6, <1>7 DEF Tables

\* A request that begins has read what exists, and holds no lock.
LEMMA AskKeeps ==
    ASSUME IInv, NEW r \in Requests, NEW wish \in Request, wish.locks = {},
           req' = [req EXCEPT ![r] = wish], UNCHANGED tables,
           wish.op \in OfUser => Exists(wish.user),
           wish.op \in {"begin", "discord"} /\ wish.user # None => Exists(wish.user),
           wish.op = "discord" => wish.user = None
    PROVE  IInv'
<1>1. TypeOK /\ LocksApart
  BY DEF IInv
<1>2. req'[r] = wish /\ \A q \in Requests \ {r} : req'[q] = req[q]
  BY <1>1 DEF TypeOK
<1>3. TypeOK'
  BY <1>1, <1>2 DEF TypeOK, tables
<1>4. Tables' /\ Guarded({})
  BY TablesStay
<1>5. LocksApart'
  BY <1>1, <1>2 DEF LocksApart
<1>6. ASSUME NEW q \in Requests PROVE RequestInOrder(q)'
  <2>1. CASE q = r
    BY <1>2, <2>1 DEF RequestInOrder, Exists, tables
  <2>2. CASE q # r
    BY <1>2, <1>4, <2>2, StaysInOrder
  <2> QED
    BY <2>1, <2>2
<1> QED
  BY <1>3, <1>4, <1>5, <1>6 DEF IInv

\* A request that takes its locks has them to itself.
LEMMA CheckKeeps ==
    ASSUME IInv, NEW r \in Requests, req[r] # None, NEW wish \in Request,
           NEW locks \in SUBSET Locks, NEW fine \in BOOLEAN, Check(r, locks, fine, wish),
           fine => RequestInOrder(r)'
    PROVE  IInv'
<1>1. TypeOK /\ LocksApart
  BY DEF IInv
<1> DEFINE y == [wish EXCEPT !.locks = locks]
<1>2. y \in Request /\ y.locks = locks
  BY LockedRequest
<1> HIDE DEF y
<1>3. /\ UNCHANGED tables /\ req' = [req EXCEPT ![r] = IF fine THEN y ELSE None]
      /\ req'[r] = (IF fine THEN y ELSE None) /\ \A q \in Requests \ {r} : req'[q] = req[q]
  BY <1>1 DEF Check, TypeOK, y
<1>4. TypeOK'
  BY <1>1, <1>2, <1>3 DEF TypeOK, tables
<1>5. Tables' /\ Guarded({})
  BY <1>3, TablesStay
<1>6. LocksApart'
  <2>1. \A q \in Requests \ {r} : req[q] # None => req[q].locks \cap locks = {}
    BY DEF Check, Free
  <2> QED
    BY <1>1, <1>2, <1>3, <2>1 DEF LocksApart
<1>7. ASSUME NEW q \in Requests PROVE RequestInOrder(q)'
  <2>1. CASE q = r
    BY <1>3, <2>1 DEF RequestInOrder
  <2>2. CASE q # r
    BY <1>3, <1>5, <2>2, StaysInOrder
  <2> QED
    BY <2>1, <2>2
<1> QED
  BY <1>4, <1>5, <1>6, <1>7 DEF IInv

-----------------------------------------------------------------------------
(* Requests that begin, and requests that take their locks.                  *)

LEMMA AsksKeep ==
    ASSUME IInv, NEW r \in Requests,
           \/ AskSignUp(r) \/ AskVerifyEmail(r) \/ AskChangeUnverifiedEmail(r)
           \/ AskRenameHandle(r) \/ AskSetPassword(r) \/ AskPasswordReset(r)
           \/ AskSignIn(r) \/ AskDetachDiscord(r) \/ BeginDiscord(r)
    PROVE  IInv'
<1>0. /\ TypeOK
      /\ NamesExist
      /\ links \subseteq [id : 1..MaxLinks, user : Users, email : Emails]
      /\ live \subseteq Users /\ {} \in SUBSET Locks
  BY DEF IInv, Tables, TypeOK
<1> DEFINE Good(wish) == /\ wish \in Request /\ wish.locks = {}
                         /\ wish.op \in OfUser => Exists(wish.user)
                         /\ wish.op \in {"begin", "discord"} /\ wish.user # None
                               => Exists(wish.user)
                         /\ wish.op # "discord"
<1>1. ASSUME NEW wish, Ask(r, wish), Good(wish) PROVE IInv'
  BY <1>1, AskKeeps DEF Ask
<1>2. ASSUME NEW h \in Handles, NEW e \in Emails, NEW p \in Passwords
      PROVE  Good([op |-> "sign up", handle |-> h, email |-> e, password |-> p, locks |-> {}])
  BY <1>0 DEF Request, OfUser
<1>3. ASSUME NEW l \in links
      PROVE  Good([op |-> "verify", link |-> l.id, user |-> l.user, email |-> l.email,
                   locks |-> {}])
  <2>1. l.id \in Nat /\ l.user \in Users /\ l.email \in Emails /\ Exists(l.user)
    BY <1>0 DEF NamesExist
  <2> QED
    BY <1>0, <2>1 DEF Request, OfUser
<1>4. ASSUME NEW u \in live, NEW e \in Emails
      PROVE  Good([op |-> "change email", user |-> u, email |-> e, locks |-> {}])
  BY <1>0 DEF Request, OfUser, NamesExist
<1>5. ASSUME NEW u \in live, NEW h \in Handles
      PROVE  Good([op |-> "rename", user |-> u, handle |-> h, old |-> None, locks |-> {}])
  BY <1>0 DEF Request, OfUser, NamesExist
<1>6. ASSUME NEW u \in live, NEW p \in Passwords
      PROVE  Good([op |-> "set password", user |-> u, password |-> p, locks |-> {}])
  BY <1>0 DEF Request, OfUser, NamesExist
<1>7. ASSUME NEW u \in Users, Exists(u), NEW op \in {"reset", "sign in", "detach"}
      PROVE  Good([op |-> op, user |-> u, locks |-> {}])
  BY <1>0, <1>7 DEF Request, OfUser
<1>8. ASSUME NEW u \in live \cup {None}
      PROVE  Good([op |-> "begin", user |-> u, locks |-> {}])
  BY <1>0 DEF Request, OfUser, NamesExist
<1> HIDE DEF Good
<1>9. CASE AskSignUp(r)
  BY <1>1, <1>2, <1>9 DEF AskSignUp
<1>10. CASE AskVerifyEmail(r)
  BY <1>1, <1>3, <1>10 DEF AskVerifyEmail
<1>11. CASE AskChangeUnverifiedEmail(r) \/ AskRenameHandle(r) \/ AskSetPassword(r)
  BY <1>1, <1>4, <1>5, <1>6, <1>11
     DEF AskChangeUnverifiedEmail, AskRenameHandle, AskSetPassword
<1>12. CASE AskPasswordReset(r) \/ AskSignIn(r)
  BY <1>1, <1>7, <1>12
     DEF AskPasswordReset, AskSignIn, VerifiedUserIDByEmail, UsersForSignIn, Verified
<1>13. CASE AskDetachDiscord(r)
  BY <1>0, <1>1, <1>7, <1>13 DEF AskDetachDiscord, NamesExist
<1>14. CASE BeginDiscord(r)
  BY <1>1, <1>8, <1>14 DEF BeginDiscord
<1> QED
  BY <1>9, <1>10, <1>11, <1>12, <1>13, <1>14

\* The browser comes back from Discord, for the account it left with or for none.
LEMMA CompleteKeeps ==
    ASSUME IInv, NEW r \in Requests, CompleteDiscord(r) PROVE IInv'
<1>1. /\ TypeOK /\ RequestInOrder(r) /\ req[r] # None /\ req[r].op = "begin"
      /\ UNCHANGED tables
  BY DEF IInv, CompleteDiscord, Asked
<1>2. /\ req[r].user \in Users \cup {None}
      /\ req[r].user # None => Exists(req[r].user)
  BY <1>1, RequestTypes DEF RequestInOrder
<1>3. PICK s \in Subjects, e \in Emails \cup {None} :
         req' = [req EXCEPT ![r] =
            IF req[r].user # None
            THEN [op |-> "attach", user |-> req[r].user, subject |-> s, locks |-> {}]
            ELSE [op |-> "discord", subject |-> s, email |-> e, user |-> None,
                  handle |-> None, sync |-> FALSE, locks |-> {}]]
  BY DEF CompleteDiscord
<1>4. CASE req[r].user # None
  <2> DEFINE wish == [op |-> "attach", user |-> req[r].user, subject |-> s, locks |-> {}]
  <2>1. /\ wish \in Request /\ wish.locks = {} /\ wish.op = "attach" /\ wish.user = req[r].user
        /\ req' = [req EXCEPT ![r] = wish]
    BY <1>2, <1>3, <1>4 DEF Request
  <2> HIDE DEF wish
  <2> QED
    BY <1>1, <1>2, <1>4, <2>1, AskKeeps
<1>5. CASE req[r].user = None
  <2> DEFINE wish == [op |-> "discord", subject |-> s, email |-> e, user |-> None,
                      handle |-> None, sync |-> FALSE, locks |-> {}]
  <2>1. /\ wish \in Request /\ wish.locks = {} /\ wish.op = "discord" /\ wish.user = None
        /\ req' = [req EXCEPT ![r] = wish]
    BY <1>3, <1>5 DEF Request
  <2> HIDE DEF wish
  <2> QED
    BY <1>1, <2>1, AskKeeps DEF OfUser
<1> QED
  BY <1>4, <1>5

\* Request r goes on with wish and the locks.
TakesUp(r, wish, locks) ==
    /\ UNCHANGED tables
    /\ req'[r].locks = locks /\ req'[r].op = wish.op
    /\ wish.op \in OfUser \cup {"begin", "discord"} => req'[r].user = wish.user
    /\ wish.op \in {"sign up", "verify", "change email", "discord"}
          => req'[r].email = wish.email
    /\ wish.op \in {"sign up", "rename", "discord"} => req'[r].handle = wish.handle
    /\ wish.op \in {"attach", "discord"} => req'[r].subject = wish.subject
    /\ wish.op = "rename" => req'[r].old = wish.old
    /\ wish.op = "discord" => req'[r].sync = wish.sync

\* What is left to show of a check: the request finds what it asks for, and has the
\* locks on it.
LEMMA FineKeeps ==
    ASSUME IInv, NEW r \in Requests, req[r] # None, NEW wish \in Request,
           NEW locks \in SUBSET Locks, NEW fine \in BOOLEAN, Check(r, locks, fine, wish),
           wish.op # "begin", locks # {},
           wish.op \in OfUser => Exists(wish.user),
           wish.op = "discord" /\ wish.user # None => Exists(wish.user),
           fine /\ TakesUp(r, wish, locks) => Secured(r)'
    PROVE  IInv'
<1>1. TypeOK
  BY DEF IInv
<1>2. ASSUME fine PROVE RequestInOrder(r)'
  <2>1. req'[r] = [wish EXCEPT !.locks = locks] /\ UNCHANGED tables
    BY <1>1, <1>2 DEF Check, TypeOK
  <2>2. TakesUp(r, wish, locks)
    BY <2>1, LockedRequest DEF TakesUp
  <2>3. UNCHANGED user
    BY <2>1 DEF tables
  <2>4. (/\ req[r].op \in OfUser => Exists(req[r].user)
         /\ req[r].op \in {"begin", "discord"} /\ req[r].user # None => Exists(req[r].user)
         /\ req[r].op = "discord" /\ req[r].locks = {} => req[r].user = None)'
    BY <2>2, <2>3 DEF TakesUp, Exists
  <2>5. Secured(r)'
    BY <1>2, <2>2
  <2> QED
    BY <2>4, <2>5 DEF RequestInOrder
<1> QED
  BY <1>2, CheckKeeps

\* What a request finds free under its locks.
LEMMA ChecksKeep ==
    ASSUME IInv, NEW r \in Requests,
           \/ CheckSignUp(r) \/ CheckVerifyEmail(r) \/ CheckChangeUnverifiedEmail(r)
           \/ CheckRenameHandle(r) \/ CheckAttachDiscord(r) \/ CheckDetachDiscord(r)
           \/ CheckDiscordKnown(r) \/ CheckDiscordNew(r)
    PROVE  IInv'
<1> DEFINE x == req[r]
<1>0. /\ TypeOK /\ Tables /\ RequestInOrder(r) /\ x # None /\ x \in Request
  <2>1. TypeOK /\ req[r] # None
    BY DEF IInv, Asked, CheckSignUp, CheckVerifyEmail, CheckChangeUnverifiedEmail,
           CheckRenameHandle, CheckAttachDiscord, CheckDetachDiscord, CheckDiscordKnown,
           CheckDiscordNew
  <2> QED
    BY <2>1, RequestTypes DEF IInv
<1>1. CASE CheckSignUp(r)
  <2> DEFINE locks == {HandleLock(x.handle), EmailLock(x.email)}
             fine == ~ HandleUnavailable(x.handle) /\ ~ VerifiedEmailExists(x.email)
  <2>1. x.op = "sign up" /\ Check(r, locks, fine, x)
    BY <1>1 DEF CheckSignUp, Asked
  <2>2. x.handle \in Handles /\ x.email \in Emails /\ locks \in SUBSET Locks /\ locks # {}
    BY <1>0, <2>1, RequestTypes, LocksAreLocks
  <2>3. fine /\ TakesUp(r, x, locks) => Secured(r)'
    BY <2>1, <2>2 DEF TakesUp, Secured, HandleSecured, EmailSecured, Locked, tables,
       HandleUnavailable, VerifiedEmailExists, Verified, Exists
  <2> HIDE DEF fine, locks
  <2>4. fine \in BOOLEAN
    BY DEF fine, HandleUnavailable, VerifiedEmailExists
  <2> QED
    BY <1>0, <2>1, <2>2, <2>3, <2>4, FineKeeps DEF OfUser
<1>2. CASE CheckVerifyEmail(r)
  <2> DEFINE locks == {EmailLock(x.email)}
             fine == VerificationByHash(x.link)
  <2>1. x.op = "verify" /\ Check(r, locks, fine, x)
    BY <1>2 DEF CheckVerifyEmail, Asked
  <2>2. x.email \in Emails /\ locks \in SUBSET Locks /\ locks # {}
    BY <1>0, <2>1, RequestTypes, LocksAreLocks
  <2>3. fine /\ TakesUp(r, x, locks) => Secured(r)'
    BY <2>1, <2>2 DEF TakesUp, Secured, Locked
  <2> HIDE DEF fine, locks
  <2>4. fine \in BOOLEAN
    BY DEF fine, VerificationByHash
  <2> QED
    BY <1>0, <2>1, <2>2, <2>3, <2>4, FineKeeps DEF OfUser, RequestInOrder
<1>3. CASE CheckChangeUnverifiedEmail(r)
  <2> DEFINE locks == {EmailLock(x.email)}
             fine == ~ VerifiedEmailExists(x.email)
  <2>1. x.op = "change email" /\ Check(r, locks, fine, x)
    BY <1>3 DEF CheckChangeUnverifiedEmail, Asked
  <2>2. x.email \in Emails /\ locks \in SUBSET Locks /\ locks # {}
    BY <1>0, <2>1, RequestTypes, LocksAreLocks
  <2>3. fine /\ TakesUp(r, x, locks) => Secured(r)'
    BY <2>1, <2>2 DEF TakesUp, Secured, EmailSecured, Locked, tables, VerifiedEmailExists,
       Verified, Exists
  <2> HIDE DEF fine, locks
  <2>4. fine \in BOOLEAN
    BY DEF fine, VerifiedEmailExists
  <2> QED
    BY <1>0, <2>1, <2>2, <2>3, <2>4, FineKeeps DEF OfUser, RequestInOrder
<1>4. CASE CheckRenameHandle(r)
  <2> DEFINE u == x.user
             old == user[u].handle
             locks == {RowLock(u), HandleLock(old), HandleLock(x.handle)}
             fine == old # x.handle /\ ~ HandleUnavailable(x.handle)
             wish == [x EXCEPT !.old = old]
  <2>1. x.op = "rename" /\ Check(r, locks, fine, wish)
    BY <1>4 DEF CheckRenameHandle, Asked
  <2>2. u \in Users /\ Exists(u) /\ x.handle \in Handles
    BY <1>0, <2>1, RequestTypes DEF RequestInOrder, OfUser
  <2>3. old \in Handles
    BY <1>0, <2>2 DEF TypeOK, User, Exists
  <2>4. locks \in SUBSET Locks /\ locks # {}
    BY <2>2, <2>3, LocksAreLocks
  <2>5. /\ wish \in Request /\ wish.op = "rename" /\ wish.user = u /\ wish.handle = x.handle
        /\ wish.old = old
    <3>1. x \in [op : {"rename"}, user : Users, handle : Handles, old : Handles \cup {None},
                 locks : SUBSET Locks]
      BY <1>0, <2>1 DEF Request
    <3> HIDE DEF x, u, old
    <3>2. /\ wish \in [op : {"rename"}, user : Users, handle : Handles,
                       old : Handles \cup {None}, locks : SUBSET Locks]
          /\ wish.op = "rename" /\ wish.user = x.user /\ wish.handle = x.handle
          /\ wish.old = old
      BY <2>3, <3>1
    <3> QED
      BY <3>2 DEF Request, u
  <2>6. fine /\ TakesUp(r, wish, locks) => Secured(r)'
    <3> HIDE DEF wish
    <3> QED
      BY <2>2, <2>5 DEF TakesUp, Secured, HandleSecured, RowSecured, Locked, tables,
         HandleUnavailable, Exists, OfUser
  <2>7. fine \in BOOLEAN
    BY DEF HandleUnavailable
  <2> HIDE DEF fine, locks, wish, u
  <2> QED
    BY <1>0, <2>1, <2>2, <2>4, <2>5, <2>6, <2>7, FineKeeps DEF OfUser
<1>5. CASE CheckAttachDiscord(r)
  <2> DEFINE locks == {UserLock(x.user), SubjectLock(x.subject)}
             fine == UserByOAuthIdentity(x.subject) = None
  <2>1. x.op = "attach" /\ Check(r, locks, fine, x)
    BY <1>5 DEF CheckAttachDiscord, Asked
  <2>2. x.subject \in Subjects /\ x.user \in Users /\ locks \in SUBSET Locks /\ locks # {}
    BY <1>0, <2>1, RequestTypes, LocksAreLocks DEF OfUser
  <2>3. fine /\ TakesUp(r, x, locks) => Secured(r)'
    BY <2>1, <2>2 DEF TakesUp, Secured, SubjectSecured, Locked, tables, UserByOAuthIdentity
  <2>4. fine \in BOOLEAN
    OBVIOUS
  <2> HIDE DEF fine, locks
  <2> QED
    BY <1>0, <2>1, <2>2, <2>3, <2>4, FineKeeps DEF OfUser, RequestInOrder
<1>6. CASE CheckDetachDiscord(r)
  <2> DEFINE mine == DiscordSubjectsForUser(x.user)
             locks == {UserLock(x.user)} \cup {SubjectLock(s) : s \in mine}
             fine == mine # {}
  <2>1. x.op = "detach" /\ Check(r, locks, fine, x)
    BY <1>6 DEF CheckDetachDiscord, Asked
  <2>2. x.user \in Users /\ locks \in SUBSET Locks /\ locks # {}
    BY <1>0, <2>1, RequestTypes, LocksAreLocks DEF OfUser, DiscordSubjectsForUser
  <2>3. fine /\ TakesUp(r, x, locks) => Secured(r)'
    BY <2>1 DEF TakesUp, Secured
  <2>4. fine \in BOOLEAN
    OBVIOUS
  <2> HIDE DEF fine, locks
  <2> QED
    BY <1>0, <2>1, <2>2, <2>3, <2>4, FineKeeps DEF OfUser, RequestInOrder
<1>7. CASE CheckDiscordKnown(r)
  <2> DEFINE u == UserByOAuthIdentity(x.subject)
             sync == MaySync(u, x.email)
             locks == {SubjectLock(x.subject)}
                         \cup (IF sync THEN EmailLocks(x.email) ELSE {})
             fine == sync => ~ VerifiedEmailExists(x.email)
             wish == [x EXCEPT !.user = u, !.sync = sync]
  <2>1. x.op = "discord" /\ Check(r, locks, fine, wish) /\ u # None
    BY <1>7 DEF CheckDiscordKnown, Asked
  <2>2. x.subject \in Subjects /\ x.email \in Emails \cup {None}
    BY <1>0, <2>1, RequestTypes
  <2>3. u \in Users /\ Exists(u)
    BY <1>0, <2>1, <2>2 DEF UserByOAuthIdentity, TypeOK, Tables, NamesExist
  <2>4. sync \in BOOLEAN /\ fine \in BOOLEAN /\ (sync => x.email # None)
    BY DEF MaySync, FollowsDiscord, VerifiedEmailExists
  <2>5. locks \in SUBSET Locks /\ locks # {}
    BY <2>2, LocksAreLocks DEF EmailLocks
  <2>6. /\ wish \in Request /\ wish.op = "discord" /\ wish.user = u /\ wish.sync = sync
        /\ wish.email = x.email
    <3> DEFINE Kind == [op : {"discord"}, subject : Subjects, email : Emails \cup {None},
                        user : Users \cup {None}, handle : Handles \cup {None},
                        sync : BOOLEAN, locks : SUBSET Locks]
    <3>1. x \in Kind
      BY <1>0, <2>1 DEF Request
    <3> HIDE DEF x, u, sync
    <3>2. /\ wish \in Kind /\ wish.op = "discord" /\ wish.user = u /\ wish.sync = sync
          /\ wish.email = x.email
      BY <2>3, <2>4, <3>1
    <3> QED
      BY <3>2 DEF Request
  <2>7. sync => EmailLock(x.email) \in locks
    BY <2>4 DEF EmailLocks
  <2>8. fine /\ TakesUp(r, wish, locks) => Secured(r)'
    <3> HIDE DEF wish, locks, sync
    <3> QED
      BY <2>1, <2>4, <2>6, <2>7 DEF TakesUp, Secured, EmailSecured, Locked, tables,
         VerifiedEmailExists, Verified, Exists
  <2> HIDE DEF fine, locks, wish, u
  <2> QED
    BY <1>0, <2>1, <2>3, <2>4, <2>5, <2>6, <2>8, FineKeeps DEF OfUser
<1>8. CASE CheckDiscordNew(r)
  <2>1. PICK h \in Handles :
          /\ ~ HandleUnavailable(h)
          /\ Check(r, {SubjectLock(x.subject), HandleLock(h)} \cup EmailLocks(x.email),
                   ~ VerifiedEmailExists(x.email), [x EXCEPT !.handle = h])
    BY <1>8 DEF CheckDiscordNew
  <2>2. /\ x.op = "discord" /\ identity[x.subject] = None /\ x.locks = {}
    BY <1>8 DEF CheckDiscordNew, Asked, UserByOAuthIdentity, Check
  <2>3. /\ x.subject \in Subjects /\ x.email \in Emails \cup {None}
        /\ x.user = None
    BY <1>0, <2>2, RequestTypes DEF RequestInOrder
  <2>4. PICK s \in Subjects, e \in Emails \cup {None} : s = x.subject /\ e = x.email
    BY <2>3
  <2> DEFINE locks == {SubjectLock(s), HandleLock(h)} \cup EmailLocks(e)
             fine == ~ VerifiedEmailExists(e)
             wish == [x EXCEPT !.handle = h]
  <2>5. /\ locks \in SUBSET Locks /\ fine \in BOOLEAN /\ locks # {}
        /\ {SubjectLock(s), HandleLock(h)} \subseteq locks
        /\ e # None => EmailLock(e) \in locks
    BY LocksAreLocks DEF EmailLocks, VerifiedEmailExists
  <2>6. /\ wish \in Request /\ wish.op = "discord" /\ wish.user = None /\ wish.handle = h
        /\ wish.email = e /\ wish.subject = s /\ wish.sync = x.sync
    <3> DEFINE Kind == [op : {"discord"}, subject : Subjects, email : Emails \cup {None},
                        user : Users \cup {None}, handle : Handles \cup {None},
                        sync : BOOLEAN, locks : SUBSET Locks]
    <3>1. x \in Kind
      BY <1>0, <2>2 DEF Request
    <3>0. x.user = None /\ x.email = e /\ x.subject = s
      BY <2>3, <2>4
    <3> HIDE DEF x
    <3>2. /\ wish \in Kind /\ wish.op = "discord" /\ wish.user = x.user /\ wish.handle = h
          /\ wish.email = x.email /\ wish.subject = x.subject /\ wish.sync = x.sync
      BY <3>1
    <3> QED
      BY <3>0, <3>2 DEF Request
  <2>7. Check(r, locks, fine, wish)
    BY <2>1, <2>4
  <2> HIDE DEF wish, locks
  <2>8. fine /\ TakesUp(r, wish, locks) => Secured(r)'
    <3> SUFFICES ASSUME fine, TakesUp(r, wish, locks) PROVE Secured(r)'
      OBVIOUS
    <3>1. /\ req'[r].op = "discord" /\ req'[r].handle = h /\ req'[r].subject = s
          /\ req'[r].email = e /\ req'[r].locks = locks /\ req'[r].user = None
          /\ UNCHANGED <<user, identity, retired>>
      BY <2>6 DEF TakesUp, tables, OfUser
    <3>2. HandleSecured(r, h)'
      BY <2>1, <2>5, <3>1 DEF HandleSecured, Locked, HandleUnavailable, Exists
    <3>3. SubjectSecured(r, s)'
      BY <2>2, <2>4, <2>5, <3>1 DEF SubjectSecured, Locked
    <3>4. e # None => EmailSecured(r, e)'
      BY <2>5, <3>1 DEF EmailSecured, Locked, VerifiedEmailExists, Verified, Exists
    <3> QED
      BY <3>1, <3>2, <3>3, <3>4 DEF Secured
  <2> HIDE DEF fine
  <2> QED
    BY <1>0, <2>5, <2>6, <2>7, <2>8, FineKeeps DEF OfUser
<1> QED
  BY <1>1, <1>2, <1>3, <1>4, <1>5, <1>6, <1>7, <1>8

-----------------------------------------------------------------------------
(* Requests that commit.                                                     *)

\* The tables are as they should be, and the request stays within its locks.
LEMMA CommitKeeps ==
    ASSUME IInv, NEW r \in Requests, req[r] # None, Done(r), Guarded(req[r].locks), Tables',
           user' \in [Users -> User \cup {None}],
           identity' \in [Subjects -> Users \cup {None}],
           retired' \subseteq Handles,
           links' \subseteq [id : 1..MaxLinks, user : Users, email : Emails],
           made' \in 0..MaxLinks,
           resets' \subseteq Users, live' \subseteq Users,
           bore' \in [Handles -> SUBSET Users]
    PROVE  IInv'
<1>1. req' \in [Requests -> Request \cup {None}]
  BY DEF IInv, TypeOK, Done
<1>2. TypeOK'
  BY <1>1 DEF TypeOK
<1> QED
  BY <1>2, DoneKeeps DEF IInv

\* What an account is known by, and whether it is there.
Same(v) ==
    /\ Exists(v)' <=> Exists(v)
    /\ Exists(v) => /\ user'[v].handle = user[v].handle
                    /\ user'[v].email = user[v].email
                    /\ user'[v].verified = user[v].verified
                    /\ user'[v].source = user[v].source

\* Passwords, sessions and links that end leave everything else alone.
LEMMA CalmKeeps ==
    ASSUME IInv, NEW locks, \A v \in Users : Same(v), links' \subseteq links,
           UNCHANGED <<retired, bore>>,
           \A s \in Subjects :
               identity'[s] # None => identity[s] # None \/ SubjectLock(s) \in locks,
           \A v \in Users : Exists(v) /\ HasEntry(v) => HasEntry(v)',
           \A u \in live' \cup resets' : Exists(u)',
           \A s \in Subjects : identity'[s] # None => user'[identity'[s]] # None
    PROVE  Tables' /\ Guarded(locks)
<1>1. Tables /\ TypeOK
  BY DEF IInv
<1>2. \A e : VerifiedEmailExists(e)' <=> VerifiedEmailExists(e)
  BY DEF VerifiedEmailExists, Verified, Same
<1>3. \A h : HandleUnavailable(h)' <=> HandleUnavailable(h)
  BY DEF HandleUnavailable, Same
<1>4. VerifiedAddressIsSole'
  BY <1>1, <1>2 DEF Tables, VerifiedAddressIsSole, Verified, Same, NamesExist, TypeOK
<1>5. NamesExist'
  BY <1>1 DEF Tables, NamesExist, Same, TypeOK, Exists
<1>6. HandlesInOrder'
  BY <1>1, <1>3 DEF Tables, HandlesInOrder
<1>7. \A u \in Users : InOrder(u)'
  BY <1>1 DEF Tables, InOrder, Same
<1>8. Guarded(locks)
  BY <1>2, <1>3 DEF Guarded, Same
<1> QED
  BY <1>4, <1>5, <1>6, <1>7, <1>8 DEF Tables

LEMMA CalmSteps ==
    ASSUME IInv,
           \/ \E r \in Requests : SetPassword(r) \/ RequestPasswordReset(r) \/ SignIn(r)
           \/ \E u \in Users : SignOut(u) \/ \E p \in Passwords : CompletePasswordReset(u, p)
           \/ LinkExpires
           \/ ResetExpires
    PROVE  IInv'
<1>1. /\ TypeOK /\ NamesExist
      /\ \A r \in Requests : RequestInOrder(r)
  BY DEF IInv, Tables
<1>2. ASSUME UNCHANGED user PROVE \A v \in Users : Same(v)
  BY <1>2 DEF Same, Exists
<1>3. ASSUME UNCHANGED <<user, identity>>
      PROVE  /\ \A v \in Users : Exists(v) /\ HasEntry(v) => HasEntry(v)'
             /\ \A s \in Subjects : identity'[s] # None => user'[identity'[s]] # None
  BY <1>1, <1>3 DEF HasEntry, Exists, NamesExist
<1>4. ASSUME NEW r \in Requests, SetPassword(r) PROVE IInv'
  <2>0. /\ req[r] # None /\ req[r].user \in Users /\ req[r].password \in Passwords
        /\ Exists(req[r].user)
    BY <1>1, <1>4, RequestTypes DEF SetPassword, Asked, OfUser, RequestInOrder
  <2>1. PICK u \in Users, p \in Passwords :
           u = req[r].user /\ p = req[r].password /\ Exists(u)
    BY <2>0
  <2>2. /\ user' = SetFirstPassword(u, p) /\ Done(r)
        /\ UNCHANGED <<identity, retired, links, made, resets, live, bore>>
    BY <1>4, <2>1 DEF SetPassword
  <2>3. user[u] \in User /\ user \in [Users -> User \cup {None}]
    BY <1>1, <2>1 DEF TypeOK, Exists
  <2>4. [user[u] EXCEPT !.password = p] \in User /\ [user[u] EXCEPT !.password = p] # None
    BY <2>1, <2>3, AccountsAssumption DEF User
  <2>5. /\ user' \in [Users -> User \cup {None}]
        /\ \A v \in Users : /\ Exists(v)' <=> Exists(v)
                            /\ user[v].password # None => user'[v].password # None
        /\ \A v \in Users \ {u} : user'[v] = user[v]
        /\ user'[u] = user[u] \/ user'[u] = [user[u] EXCEPT !.password = p]
    BY <2>1, <2>2, <2>3, <2>4, AccountsAssumption DEF SetFirstPassword, Exists, User
  <2>6. \A v \in Users : Same(v)
    <3>1. ASSUME NEW v \in Users, v # u PROVE Same(v)
      BY <2>5, <3>1 DEF Same, Exists
    <3>2. /\ user'[u].handle = user[u].handle /\ user'[u].email = user[u].email
          /\ user'[u].verified = user[u].verified /\ user'[u].source = user[u].source
      BY <2>3, <2>5 DEF User
    <3>3. Same(u)
      BY <2>1, <2>5, <3>2 DEF Same
    <3> QED
      BY <3>1, <3>3
  <2>7. /\ \A v \in Users : Exists(v) /\ HasEntry(v) => HasEntry(v)'
        /\ \A s \in Subjects : identity'[s] # None => user'[identity'[s]] # None
        /\ \A v \in live' \cup resets' : Exists(v)'
    BY <1>1, <2>2, <2>5 DEF HasEntry, NamesExist, Exists, TypeOK
  <2>8. Tables' /\ Guarded(req[r].locks)
    BY <2>2, <2>6, <2>7, CalmKeeps
  <2> QED
    BY <1>1, <2>0, <2>2, <2>5, <2>8, CommitKeeps DEF TypeOK
<1>5. ASSUME NEW r \in Requests, RequestPasswordReset(r) \/ SignIn(r) PROVE IInv'
  <2>1. /\ req[r] # None /\ req[r].user \in Users /\ Exists(req[r].user) /\ Done(r)
        /\ UNCHANGED <<user, identity, retired, links, made, bore>>
        /\ live' \subseteq live \cup {req[r].user}
        /\ resets' \subseteq resets \cup {req[r].user}
    BY <1>1, <1>5, RequestTypes
       DEF RequestPasswordReset, SignIn, InsertSession, Asked, OfUser, RequestInOrder
  <2>2. Tables' /\ Guarded(req[r].locks)
    <3>1. \A v \in live' \cup resets' : Exists(v)'
      BY <1>1, <2>1 DEF NamesExist, Exists
    <3> QED
      BY <1>2, <1>3, <2>1, <3>1, CalmKeeps
  <2> QED
    BY <1>1, <2>1, <2>2, CommitKeeps DEF TypeOK
<1>6. ASSUME NEW u \in Users, NEW p \in Passwords, CompletePasswordReset(u, p) PROVE IInv'
  <2>1. /\ Exists(u) /\ user[u] \in User /\ user \in [Users -> User \cup {None}]
        /\ user' = [user EXCEPT ![u] = [user[u] EXCEPT !.password = p]]
        /\ resets' = resets \ {u}
        /\ UNCHANGED <<identity, retired, links, made, live, bore, req>>
    BY <1>1, <1>6
       DEF CompletePasswordReset, TakePasswordReset, ReplacePassword, NamesExist, TypeOK, Exists
  <2>2. [user[u] EXCEPT !.password = p] \in User /\ [user[u] EXCEPT !.password = p] # None
    BY <2>1, AccountsAssumption DEF User
  <2>3. /\ user' \in [Users -> User \cup {None}]
        /\ \A v \in Users : /\ Exists(v)' <=> Exists(v)
                            /\ user[v].password # None => user'[v].password # None
    BY <2>1, <2>2, AccountsAssumption DEF Exists, User
  <2>4. \A v \in Users : Same(v)
    BY <2>1, <2>3 DEF Same, User
  <2>5. /\ \A v \in Users : Exists(v) /\ HasEntry(v) => HasEntry(v)'
        /\ \A s \in Subjects : identity'[s] # None => user'[identity'[s]] # None
        /\ \A v \in live' \cup resets' : Exists(v)'
    BY <1>1, <2>1, <2>3 DEF HasEntry, NamesExist, Exists, TypeOK
  <2>6. Tables' /\ Guarded({})
    BY <2>1, <2>4, <2>5, CalmKeeps
  <2>7. TypeOK'
    BY <1>1, <2>1, <2>3 DEF TypeOK
  <2> QED
    BY <2>1, <2>6, <2>7, OthersKeep DEF IInv
<1>7. ASSUME \/ \E u \in Users : SignOut(u)
             \/ LinkExpires \/ ResetExpires
      PROVE  IInv'
  <2>1. /\ UNCHANGED <<user, identity, retired, made, bore, req>>
        /\ live' \subseteq live /\ links' \subseteq links /\ resets' \subseteq resets
    BY <1>7 DEF SignOut, LinkExpires, ResetExpires
  <2>2. TypeOK'
    BY <1>1, <2>1 DEF TypeOK
  <2>3. \A v \in live' \cup resets' : Exists(v)'
    BY <1>1, <2>1 DEF NamesExist, Exists
  <2>4. Tables' /\ Guarded({})
    BY <1>2, <1>3, <2>1, <2>3, CalmKeeps
  <2> QED
    BY <2>1, <2>2, <2>4, OthersKeep DEF IInv
<1> QED
  BY <1>4, <1>5, <1>6, <1>7

LEMMA DiscordSteps ==
    ASSUME IInv, NEW r \in Requests, AttachDiscord(r) \/ DetachDiscord(r) \/ Fail(r)
    PROVE  IInv'
<1> DEFINE u == req[r].user
<1>1. /\ TypeOK /\ NamesExist /\ RequestInOrder(r) /\ \A v \in Users : InOrder(v)
  BY DEF IInv, Tables
<1>2. CASE AttachDiscord(r)
  <2> DEFINE s == req[r].subject
  <2>1. /\ req[r] # None /\ u \in Users /\ s \in Subjects /\ Exists(u)
        /\ identity[s] = None /\ SubjectLock(s) \in req[r].locks
    BY <1>1, <1>2, RequestTypes
       DEF AttachDiscord, Checked, Asked, OfUser, RequestInOrder, Secured, SubjectSecured,
           Locked
  <2>2. /\ identity' = [identity EXCEPT ![s] = u] /\ Done(r)
        /\ UNCHANGED <<user, retired, links, made, resets, live, bore>>
    BY <1>2 DEF AttachDiscord, InsertOAuthIdentity
  <2> HIDE DEF u, s
  <2>3. \A v \in Users : Same(v)
    BY <2>2 DEF Same, Exists
  <2>4. /\ identity' \in [Subjects -> Users \cup {None}]
        /\ \A t \in Subjects : /\ t # s => identity'[t] = identity[t]
                               /\ identity'[t] # None => user'[identity'[t]] # None
    BY <1>1, <2>1, <2>2 DEF TypeOK, NamesExist, Exists
  <2>5. /\ \A v \in Users : Exists(v) /\ HasEntry(v) => HasEntry(v)'
    BY <1>1, <2>1, <2>2, <2>4, AccountsAssumption DEF HasEntry, TypeOK
  <2>6. \A v \in live' \cup resets' : Exists(v)'
    BY <1>1, <2>2 DEF NamesExist, Exists
  <2>7. Tables' /\ Guarded(req[r].locks)
    BY <2>1, <2>2, <2>3, <2>4, <2>5, <2>6, CalmKeeps
  <2> QED
    BY <1>1, <2>1, <2>2, <2>4, <2>7, CommitKeeps DEF TypeOK
<1>3. CASE DetachDiscord(r)
  <2>1. /\ req[r] # None /\ Done(r)
        /\ identity' = IF Verified(u) /\ user[u].password # None
                       THEN DeleteOAuthIdentitiesForUser(u) ELSE identity
        /\ UNCHANGED <<user, retired, links, made, resets, live, bore>>
    BY <1>3 DEF DetachDiscord, Checked, Asked
  <2> HIDE DEF u
  <2>2. \A v \in Users : Same(v)
    BY <2>1 DEF Same, Exists
  <2>3. /\ identity' \in [Subjects -> Users \cup {None}]
        /\ \A t \in Subjects : identity'[t] \in {identity[t], None}
        /\ \A t \in Subjects : identity'[t] # None => user'[identity'[t]] # None
    BY <1>1, <2>1 DEF TypeOK, NamesExist, Exists, DeleteOAuthIdentitiesForUser
  <2>4. ASSUME NEW v \in Users, Exists(v), HasEntry(v) PROVE HasEntry(v)'
    BY <1>1, <2>1, <2>4 DEF HasEntry, TypeOK, DeleteOAuthIdentitiesForUser
  <2>5. \A v \in live' \cup resets' : Exists(v)'
    BY <1>1, <2>1 DEF NamesExist, Exists
  <2>6. Tables' /\ Guarded(req[r].locks)
    BY <2>1, <2>2, <2>3, <2>4, <2>5, CalmKeeps
  <2> QED
    BY <1>1, <2>1, <2>3, <2>6, CommitKeeps DEF TypeOK
<1>4. CASE Fail(r)
  <2>1. /\ req[r] # None
        /\ Done(r)
        /\ UNCHANGED <<user, identity, retired, links, made, resets, live, bore>>
    BY <1>4 DEF Fail, tables
  <2>2. Tables' /\ Guarded({})
    BY <2>1, TablesStay DEF tables
  <2>3. Guarded(req[r].locks)
    BY <2>2 DEF Guarded
  <2> QED
    BY <1>1, <2>1, <2>2, <2>3, CommitKeeps DEF TypeOK
<1> QED
  BY <1>2, <1>3, <1>4

-----------------------------------------------------------------------------
(* Requests that give an account an address, a handle or both.               *)

\* What becomes of the accounts a request is not about: one that has yet to verify its
\* address may lose it.
Like(v) ==
    /\ Exists(v)' <=> Exists(v)
    /\ Exists(v) => /\ user'[v].handle = user[v].handle
                    /\ user'[v].password = user[v].password
                    /\ user'[v].verified = user[v].verified
                    /\ user'[v].email \in {user[v].email, None}
                    /\ user'[v].source \in {user[v].source, None}
                    /\ user[v].verified => user'[v].email = user[v].email

BoreGrows == \A v \in Users, g \in Handles : v \in bore[g] => v \in bore'[g]

\* A new account, or one that renames, takes a handle that was free.
LEMMA HandleTaken ==
    ASSUME IInv, NEW u \in Users, NEW h \in Handles, ~ HandleUnavailable(h),
           user'[u] # None, user'[u].handle = h,
           \A v \in Users \ {u} : Like(v),
           Exists(u) => user[u].handle \in retired',
           retired \subseteq retired',
           \A g \in retired' : g \in retired \/ (Exists(u) /\ g = user[u].handle),
           bore' = [bore EXCEPT ![h] = bore[h] \cup {u}]
    PROVE  /\ HandlesInOrder' /\ BoreGrows /\ u \in bore'[h]
           /\ \A g \in Handles : HandleUnavailable(g)' => HandleUnavailable(g) \/ g = h
<1>1. HandlesInOrder /\ bore \in [Handles -> SUBSET Users]
  BY DEF IInv, Tables, TypeOK
<1>2. bore'[h] = {u} /\ \A g \in Handles \ {h} : bore'[g] = bore[g]
  BY <1>1 DEF HandlesInOrder
<1>3. BoreGrows /\ u \in bore'[h]
  BY <1>1, <1>2 DEF BoreGrows, HandlesInOrder
<1>4. \A g \in Handles : HandleUnavailable(g)' => HandleUnavailable(g) \/ g = h
  BY DEF HandleUnavailable, Like
<1>5. HandleUnavailable(h)'
  BY DEF HandleUnavailable, Exists
<1>6. \A g \in Handles : HandleUnavailable(g) => HandleUnavailable(g)'
  BY DEF HandleUnavailable, Like
<1>7. HandlesInOrder'
  BY <1>1, <1>2, <1>5, <1>6 DEF HandlesInOrder
<1> QED
  BY <1>3, <1>4, <1>7

LEMMA HandlesStay ==
    ASSUME IInv, NEW u \in Users, \A v \in Users \ {u} : Like(v), UNCHANGED <<retired, bore>>,
           Exists(u), user'[u] # None, user'[u].handle = user[u].handle
    PROVE  /\ HandlesInOrder' /\ BoreGrows
           /\ \A g \in Handles : HandleUnavailable(g)' => HandleUnavailable(g)
<1>1. \A v \in Users : /\ Exists(v)' <=> Exists(v)
                       /\ Exists(v) => user'[v].handle = user[v].handle
  BY DEF Like, Exists
<1>2. \A g \in Handles : HandleUnavailable(g)' <=> HandleUnavailable(g)
  BY <1>1 DEF HandleUnavailable
<1> QED
  BY <1>2 DEF HandlesInOrder, BoreGrows, IInv, Tables

\* The account names an address that nobody has verified, or none.
LEMMA Naming ==
    ASSUME IInv, NEW u \in Users, NEW e \in Emails \cup {None}, ~ Verified(u),
           user'[u] # None, ~ user'[u].verified, user'[u].email = e,
           e # None => ~ VerifiedEmailExists(e),
           \A v \in Users \ {u} : user'[v] = user[v],
           \A l \in links' : \/ l \in links /\ l.user # u
                             \/ l.user = u /\ l.email = e /\ e # None
    PROVE  /\ VerifiedAddressIsSole'
           /\ \A f \in Emails : VerifiedEmailExists(f)' => VerifiedEmailExists(f)
           /\ \A v \in Users \ {u} : Like(v)
<1>1. /\ VerifiedAddressIsSole /\ TypeOK /\ \A v \in Users : InOrder(v)
      /\ links \subseteq [id : 1..MaxLinks, user : Users, email : Emails]
  BY DEF IInv, Tables, TypeOK
<1>2. \A v \in Users : Verified(v)' => v # u /\ Verified(v) /\ user'[v] = user[v]
  BY DEF Verified, Exists
<1>3. \A f : VerifiedEmailExists(f)' => VerifiedEmailExists(f)
  BY <1>2 DEF VerifiedEmailExists
<1>4. \A v, w \in Users :
         v # w /\ Verified(v)' /\ Exists(w)' => user'[w].email # user'[v].email
  BY <1>1, <1>2 DEF VerifiedAddressIsSole, VerifiedEmailExists, Verified, Exists, InOrder
<1>5. \A l \in links' : ~ VerifiedEmailExists(l.email)' /\ user'[l.user].email = l.email
  BY <1>1, <1>3 DEF VerifiedAddressIsSole
<1> QED
  BY <1>3, <1>4, <1>5 DEF VerifiedAddressIsSole, Like, Exists

\* The account's address is verified, and nobody else names it any more.
LEMMA Verifying ==
    ASSUME IInv, NEW u \in Users, NEW e \in Emails, NEW users \in [Users -> User \cup {None}],
           users[u] # None, users[u].verified, users[u].email = e,
           ~ VerifiedEmailExists(e),
           \A v \in Users \ {u} : users[v] = user[v],
           user' = ClearPendingEmailCopies(users, e, u),
           links' = DeleteVerificationTokensForEmail(e),
           \A l \in links : l.user = u => l.email = e
    PROVE  /\ VerifiedAddressIsSole'
           /\ \A f \in Emails : VerifiedEmailExists(f)' => VerifiedEmailExists(f) \/ f = e
           /\ \A v \in Users \ {u} : Like(v)
           /\ user' \in [Users -> User \cup {None}] /\ user'[u] = users[u]
<1>1. /\ VerifiedAddressIsSole /\ TypeOK /\ \A v \in Users : InOrder(v)
      /\ links \subseteq [id : 1..MaxLinks, user : Users, email : Emails]
  BY DEF IInv, Tables, TypeOK
<1>2. user'[u] = users[u]
  BY DEF ClearPendingEmailCopies
<1>3. ASSUME NEW v \in Users, v # u
      PROVE  /\ user'[v] \in User \cup {None}
             /\ Like(v)
             /\ Exists(v) /\ ~ user[v].verified => user'[v].email # e
             /\ user'[v] = user[v] \/ user[v].email = e
  <2>1. user'[v] = IF user[v] # None /\ user[v].email = e /\ ~ user[v].verified
                   THEN [user[v] EXCEPT !.email = None, !.source = None] ELSE user[v]
    BY <1>3 DEF ClearPendingEmailCopies
  <2>2. user[v] \in User \cup {None}
    BY <1>1 DEF TypeOK
  <2>3. CASE user[v] # None /\ user[v].email = e /\ ~ user[v].verified
    <3> DEFINE y == [user[v] EXCEPT !.email = None, !.source = None]
    <3>1. /\ y \in User /\ y.handle = user[v].handle /\ y.email = None /\ y.source = None
          /\ y.verified = user[v].verified /\ y.password = user[v].password
      BY <2>2, <2>3 DEF User
    <3>2. user'[v] = y
      BY <2>1, <2>3
    <3> HIDE DEF y
    <3> QED
      BY <2>3, <3>1, <3>2, AccountsAssumption DEF Like, Exists
  <2>4. CASE ~ (user[v] # None /\ user[v].email = e /\ ~ user[v].verified)
    BY <2>1, <2>2, <2>4 DEF Like, Exists
  <2> QED
    BY <2>3, <2>4
<1>4. user' \in [Users -> User \cup {None}]
  <2>1. user' = [v \in Users |-> user'[v]]
    BY DEF ClearPendingEmailCopies
  <2> QED
    BY <1>2, <1>3, <2>1
<1>5. \A v \in Users : Verified(v)' => v = u \/ (Verified(v) /\ user'[v].email = user[v].email)
  BY <1>3 DEF Verified, Like
<1>6. \A f : VerifiedEmailExists(f)' => VerifiedEmailExists(f) \/ f = e
  BY <1>2, <1>5 DEF VerifiedEmailExists
<1>7. ASSUME NEW v \in Users, NEW w \in Users, v # w, Verified(v)', Exists(w)'
      PROVE  user'[w].email # user'[v].email
  <2>1. CASE v = u
    <3>1. Exists(w) /\ user[w].verified => user'[w].email = user[w].email /\ user[w].email # e
      BY <1>3, <1>7, <2>1 DEF VerifiedEmailExists, Verified, Like
    <3> QED
      BY <1>2, <1>3, <1>7, <2>1, <3>1 DEF Like
  <2>2. CASE v # u
    <3>1. Verified(v) /\ user'[v].email = user[v].email /\ user[v].email # e
          /\ user[v].email # None
      BY <1>1, <1>5, <1>7, <2>2 DEF VerifiedEmailExists, Verified, InOrder
    <3> QED
      BY <1>1, <1>2, <1>3, <1>7, <2>2, <3>1 DEF VerifiedAddressIsSole, Like
  <2> QED
    BY <2>1, <2>2
<1>8. ASSUME NEW l \in links'
      PROVE  ~ VerifiedEmailExists(l.email)' /\ user'[l.user].email = l.email
  <2>1. l \in links /\ l.email # e /\ l.user \in Users
    BY <1>1 DEF DeleteVerificationTokensForEmail
  <2>2. l.user # u /\ user[l.user].email = l.email /\ ~ VerifiedEmailExists(l.email)
    BY <1>1, <2>1 DEF VerifiedAddressIsSole
  <2> QED
    BY <1>3, <1>6, <2>1, <2>2
<1> QED
  BY <1>2, <1>3, <1>4, <1>6, <1>7, <1>8 DEF VerifiedAddressIsSole

\* A request about account u commits.
LEMMA AccountKeeps ==
    ASSUME IInv, NEW r \in Requests, req[r] # None, Done(r), NEW u \in Users,
           user' \in [Users -> User \cup {None}], user'[u] # None,
           \A v \in Users \ {u} : Like(v),
           InOrder(u)', VerifiedAddressIsSole', HandlesInOrder', BoreGrows,
           bore' \in [Handles -> SUBSET Users], retired' \subseteq Handles,
           links' \subseteq [id : 1..MaxLinks, user : Users, email : Emails],
           \A l \in links' : l \in links \/ l.user = u,
           made' \in 0..MaxLinks, live' \subseteq live \cup {u}, resets' = resets,
           \A s \in Subjects : identity'[s] = identity[s]
               \/ (identity[s] = None /\ identity'[s] = u /\ SubjectLock(s) \in req[r].locks),
           identity' \in [Subjects -> Users \cup {None}],
           Exists(u) => user'[u].handle = user[u].handle \/ RowLock(u) \in req[r].locks,
           \A e \in Emails : VerifiedEmailExists(e)'
               => VerifiedEmailExists(e) \/ EmailLock(e) \in req[r].locks,
           \A h \in Handles : HandleUnavailable(h)'
               => HandleUnavailable(h) \/ HandleLock(h) \in req[r].locks
    PROVE  IInv'
<1>1. TypeOK /\ NamesExist /\ \A v \in Users : InOrder(v)
  BY DEF IInv, Tables
<1>2. \A v \in Users : Exists(v) => Exists(v)'
  BY DEF Like, Exists
<1>3. NamesExist'
  BY <1>1, <1>2 DEF NamesExist, Exists, TypeOK
<1>4. ASSUME NEW v \in Users PROVE InOrder(v)'
  <2>1. CASE v = u
    BY <2>1
  <2>2. CASE v # u
    <3> SUFFICES ASSUME Exists(v)' PROVE InOrder(v)'
      BY DEF InOrder
    <3>1. Exists(v) /\ Like(v) /\ InOrder(v)
      BY <1>1, <2>2 DEF Like
    <3>2. HasEntry(v)'
      BY <1>1, <3>1, AccountsAssumption DEF HasEntry, Like, InOrder
    <3>3. user[v].handle \in Handles
      BY <1>1, <3>1 DEF TypeOK, User, Exists
    <3> QED
      BY <3>1, <3>2, <3>3, AccountsAssumption DEF InOrder, Like, BoreGrows
  <2> QED
    BY <2>1, <2>2
<1>5. Guarded(req[r].locks)
  BY <1>2, AccountsAssumption DEF Guarded, Like
<1>6. Tables'
  BY <1>3, <1>4 DEF Tables
<1> QED
  BY <1>1, <1>5, <1>6, CommitKeeps DEF TypeOK

LEMMA LinkInserted ==
    ASSUME TypeOK, NEW u \in Users, NEW e \in Emails, InsertEmailVerificationToken(u, e)
    PROVE  /\ links' \subseteq [id : 1..MaxLinks, user : Users, email : Emails]
           /\ \A l \in links' : \/ l \in links /\ l.user # u
                                \/ l.user = u /\ l.email = e /\ e # None
           /\ made' \in 0..MaxLinks
<1>1. /\ links \subseteq [id : 1..MaxLinks, user : Users, email : Emails]
      /\ made \in 0..MaxLinks /\ made < MaxLinks /\ made' = made + 1 /\ MaxLinks \in Nat
      /\ e # None
  BY AccountsAssumption DEF TypeOK, InsertEmailVerificationToken
<1> DEFINE link == [id |-> made + 1, user |-> u, email |-> e]
<1>2. made + 1 \in 1..MaxLinks
  BY <1>1
<1>3. /\ link \in [id : 1..MaxLinks, user : Users, email : Emails]
      /\ link.user = u /\ link.email = e
  BY <1>2
<1>4. links' = {l \in links : l.user # u} \cup {link}
  BY DEF InsertEmailVerificationToken, DeleteVerificationTokensForUser
<1> HIDE DEF link
<1> QED
  BY <1>1, <1>2, <1>3, <1>4

LEMMA SignUpKeeps ==
    ASSUME IInv, NEW r \in Requests, SignUp(r) PROVE IInv'
<1> DEFINE h == req[r].handle
           e == req[r].email
           p == req[r].password
<1>1. /\ TypeOK /\ RequestInOrder(r) /\ NamesExist
      /\ req[r] # None /\ req[r].op = "sign up" /\ req[r].locks # {}
  BY DEF IInv, Tables, SignUp, Checked, Asked
<1>2. /\ h \in Handles /\ e \in Emails /\ p \in Passwords
      /\ HandleSecured(r, h) /\ EmailSecured(r, e)
  BY <1>1, RequestTypes DEF RequestInOrder, Secured
<1>3. PICK u \in Users :
          /\ ~ Exists(u) /\ user' = InsertUser(u, h, e, p)
          /\ InsertEmailVerificationToken(u, e) /\ InsertSession(u) /\ Bears(u, h)
  BY DEF SignUp
<1>4. Done(r) /\ UNCHANGED <<identity, retired, resets>>
  BY DEF SignUp
<1> HIDE DEF h, e, p
<1> DEFINE new == [handle |-> h, email |-> e, verified |-> FALSE, source |-> "creator",
                   password |-> p]
<1>5. /\ new \in User /\ new # None /\ new.handle = h /\ new.email = e /\ ~ new.verified
      /\ new.source = "creator" /\ new.password # None
  <2>1. new \in User
    BY <1>2 DEF User
  <2>2. p # None
    BY <1>2, AccountsAssumption
  <2> QED
    BY <2>1, <2>2, AccountsAssumption
<1>6. user' = [user EXCEPT ![u] = new]
  BY <1>3 DEF InsertUser
<1> HIDE DEF new
<1>7. /\ user' \in [Users -> User \cup {None}] /\ user'[u] = new
      /\ \A v \in Users \ {u} : user'[v] = user[v]
  BY <1>1, <1>5, <1>6 DEF TypeOK
<1>8. /\ links' \subseteq [id : 1..MaxLinks, user : Users, email : Emails]
      /\ \A l \in links' : \/ l \in links /\ l.user # u
                           \/ l.user = u /\ l.email = e /\ e # None
      /\ made' \in 0..MaxLinks
  BY <1>1, <1>2, <1>3, LinkInserted
<1>9. /\ VerifiedAddressIsSole'
      /\ \A f \in Emails : VerifiedEmailExists(f)' => VerifiedEmailExists(f)
      /\ \A v \in Users \ {u} : Like(v)
  BY <1>2, <1>3, <1>5, <1>7, <1>8, Naming DEF EmailSecured, Verified
<1>10. bore' = [bore EXCEPT ![h] = bore[h] \cup {u}] /\ live' = live \cup {u}
  BY <1>3 DEF Bears, InsertSession
<1>11. /\ HandlesInOrder' /\ BoreGrows /\ u \in bore'[h]
       /\ \A g \in Handles : HandleUnavailable(g)' => HandleUnavailable(g) \/ g = h
  BY <1>2, <1>3, <1>4, <1>5, <1>7, <1>9, <1>10, HandleTaken DEF HandleSecured
<1>12. InOrder(u)'
  BY <1>2, <1>5, <1>7, <1>11 DEF InOrder, HasEntry
<1>13. bore' \in [Handles -> SUBSET Users] /\ retired' \subseteq Handles
       /\ identity' \in [Subjects -> Users \cup {None}]
  BY <1>1, <1>4, <1>10 DEF TypeOK
<1>14. \A g \in Handles :
           HandleUnavailable(g)' => HandleUnavailable(g) \/ HandleLock(g) \in req[r].locks
  BY <1>2, <1>11 DEF HandleSecured, Locked
<1> QED
  BY <1>1, <1>3, <1>4, <1>5, <1>7, <1>8, <1>9, <1>10, <1>11, <1>12, <1>13, <1>14, AccountKeeps

LEMMA ChangeEmailKeeps ==
    ASSUME IInv, NEW r \in Requests, ChangeUnverifiedEmail(r) PROVE IInv'
<1>1. /\ TypeOK /\ RequestInOrder(r) /\ \A v \in Users : InOrder(v)
      /\ req[r] # None /\ req[r].op = "change email" /\ req[r].locks # {}
  BY DEF IInv, Tables, ChangeUnverifiedEmail, Checked, Asked
<1>2. PICK u \in Users, e \in Emails :
         u = req[r].user /\ e = req[r].email /\ Exists(u) /\ EmailSecured(r, e)
  BY <1>1, RequestTypes DEF RequestInOrder, Secured, OfUser
<1>3. /\ Done(r) /\ UNCHANGED <<identity, retired, resets, live, bore>>
      /\ IF Verified(u) THEN UNCHANGED <<user, links, made>>
         ELSE user' = UpdateUnverifiedEmail(u, e) /\ InsertEmailVerificationToken(u, e)
  BY <1>2 DEF ChangeUnverifiedEmail
<1>4. CASE Verified(u)
  <2>1. UNCHANGED tables
    BY <1>3, <1>4 DEF tables
  <2>2. Tables' /\ Guarded({})
    BY <2>1, TablesStay
  <2>3. Guarded(req[r].locks)
    BY <2>2 DEF Guarded
  <2> QED
    BY <1>1, <1>3, <1>4, <2>2, <2>3, CommitKeeps DEF TypeOK
<1>5. CASE ~ Verified(u)
  <2> DEFINE new == [user[u] EXCEPT !.email = e, !.source = "creator"]
  <2>1. user[u] \in User
    BY <1>1, <1>2 DEF TypeOK, Exists
  <2>2. /\ new \in User /\ new # None /\ new.handle = user[u].handle /\ new.email = e
        /\ ~ new.verified /\ new.source = "creator" /\ new.password = user[u].password
    BY <1>2, <1>5, <2>1, AccountsAssumption DEF User, Verified
  <2>3. user' = [user EXCEPT ![u] = new]
    BY <1>3, <1>5 DEF UpdateUnverifiedEmail
  <2> HIDE DEF new
  <2>4. /\ user' \in [Users -> User \cup {None}] /\ user'[u] = new
        /\ \A v \in Users \ {u} : user'[v] = user[v]
    BY <1>1, <1>2, <2>2, <2>3 DEF TypeOK
  <2>5. /\ links' \subseteq [id : 1..MaxLinks, user : Users, email : Emails]
        /\ \A l \in links' : \/ l \in links /\ l.user # u
                             \/ l.user = u /\ l.email = e /\ e # None
        /\ made' \in 0..MaxLinks
    <3>1. InsertEmailVerificationToken(u, e)
      BY <1>3, <1>5
    <3> QED
      BY <1>1, <3>1, LinkInserted
  <2>6. /\ VerifiedAddressIsSole'
        /\ \A f \in Emails : VerifiedEmailExists(f)' => VerifiedEmailExists(f)
        /\ \A v \in Users \ {u} : Like(v)
    BY <1>2, <1>5, <2>2, <2>4, <2>5, Naming DEF EmailSecured
  <2>7. /\ HandlesInOrder' /\ BoreGrows
        /\ \A g \in Handles : HandleUnavailable(g)' => HandleUnavailable(g)
    BY <1>2, <1>3, <2>2, <2>4, <2>6, HandlesStay
  <2>8. InOrder(u)'
    BY <1>1, <1>2, <1>3, <2>2, <2>4 DEF InOrder, HasEntry
  <2>9. bore' \in [Handles -> SUBSET Users] /\ retired' \subseteq Handles
        /\ identity' \in [Subjects -> Users \cup {None}]
    BY <1>1, <1>3 DEF TypeOK
  <2> QED
    BY <1>1, <1>2, <1>3, <2>2, <2>4, <2>5, <2>6, <2>7, <2>8, <2>9, AccountKeeps
<1> QED
  BY <1>4, <1>5

LEMMA RenameKeeps ==
    ASSUME IInv, NEW r \in Requests, RenameHandle(r) PROVE IInv'
<1>1. /\ TypeOK /\ RequestInOrder(r) /\ VerifiedAddressIsSole /\ \A v \in Users : InOrder(v)
      /\ req[r] # None /\ req[r].op = "rename" /\ req[r].locks # {}
  BY DEF IInv, Tables, RenameHandle, Checked, Asked
<1>2. PICK u \in Users, h \in Handles, old \in Handles \cup {None} :
         /\ u = req[r].user /\ h = req[r].handle /\ old = req[r].old
         /\ Exists(u) /\ HandleSecured(r, h)
         /\ RowLock(u) \in req[r].locks /\ old = user[u].handle
  BY <1>1, RequestTypes DEF RequestInOrder, Secured, OfUser, RowSecured, Locked
<1>3. /\ retired' = retired \cup {old} /\ user' = [user EXCEPT ![u].handle = h]
      /\ bore' = [bore EXCEPT ![h] = bore[h] \cup {u}]
      /\ Done(r) /\ UNCHANGED <<identity, links, made, resets, live>>
  BY <1>2 DEF RenameHandle, InsertRetiredHandle, UpdateUserHandle, Bears
<1> DEFINE new == [user[u] EXCEPT !.handle = h]
<1>4. user[u] \in User /\ old \in Handles
  BY <1>1, <1>2 DEF TypeOK, Exists, User
<1>5. /\ new \in User /\ new # None /\ new.handle = h /\ new.email = user[u].email
      /\ new.verified = user[u].verified /\ new.source = user[u].source
      /\ new.password = user[u].password
  BY <1>2, <1>4, AccountsAssumption DEF User
<1>6. user' = [user EXCEPT ![u] = new]
  BY <1>3
<1> HIDE DEF new
<1>7. /\ user' \in [Users -> User \cup {None}] /\ user'[u] = new
      /\ \A v \in Users \ {u} : user'[v] = user[v]
  BY <1>1, <1>2, <1>5, <1>6 DEF TypeOK
<1>8. \A v \in Users \ {u} : Like(v)
  BY <1>7 DEF Like, Exists
<1>9. \A v \in Users : /\ Exists(v)' <=> Exists(v)
                       /\ Exists(v) => /\ user'[v].email = user[v].email
                                       /\ user'[v].verified = user[v].verified
  BY <1>2, <1>5, <1>7 DEF Exists
<1>10. \A f : VerifiedEmailExists(f)' <=> VerifiedEmailExists(f)
  BY <1>9 DEF VerifiedEmailExists, Verified
<1>11. VerifiedAddressIsSole'
  <2>1. \A l \in links : Exists(l.user) /\ l.user \in Users
    BY DEF IInv, Tables, NamesExist, TypeOK
  <2> QED
    BY <1>1, <1>3, <1>9, <1>10, <2>1 DEF VerifiedAddressIsSole, Verified
<1>12. /\ HandlesInOrder' /\ BoreGrows /\ u \in bore'[h]
       /\ \A g \in Handles : HandleUnavailable(g)' => HandleUnavailable(g) \/ g = h
  <2>1. /\ Exists(u) => user[u].handle \in retired'
        /\ retired \subseteq retired'
        /\ \A g \in retired' : g \in retired \/ (Exists(u) /\ g = user[u].handle)
        /\ bore' = [bore EXCEPT ![h] = bore[h] \cup {u}]
    BY <1>2, <1>3
  <2>2. ~ HandleUnavailable(h) /\ user'[u] # None /\ user'[u].handle = h
    BY <1>2, <1>5, <1>7 DEF HandleSecured
  <2> QED
    BY <1>8, <2>1, <2>2, HandleTaken
<1>13. InOrder(u)'
  BY <1>1, <1>2, <1>3, <1>5, <1>7, <1>12 DEF InOrder, HasEntry
<1>14. /\ bore' \in [Handles -> SUBSET Users] /\ retired' \subseteq Handles
       /\ identity' \in [Subjects -> Users \cup {None}] /\ made' \in 0..MaxLinks
       /\ links' \subseteq [id : 1..MaxLinks, user : Users, email : Emails]
  BY <1>1, <1>2, <1>3, <1>4 DEF TypeOK
<1>15. \A g \in Handles :
           HandleUnavailable(g)' => HandleUnavailable(g) \/ HandleLock(g) \in req[r].locks
  BY <1>2, <1>12 DEF HandleSecured, Locked
<1> QED
  BY <1>1, <1>2, <1>3, <1>5, <1>7, <1>8, <1>10, <1>11, <1>12, <1>13, <1>14, <1>15, AccountKeeps

\* From here on a request changes nothing for its own account but its address.
LEMMA VerifyEmailKeeps ==
    ASSUME IInv, NEW r \in Requests, VerifyEmail(r) PROVE IInv'
<1>1. /\ TypeOK /\ RequestInOrder(r) /\ VerifiedAddressIsSole /\ \A v \in Users : InOrder(v)
      /\ req[r] # None /\ req[r].op = "verify" /\ req[r].locks # {}
  BY DEF IInv, Tables, VerifyEmail, Checked, Asked
<1>2. PICK u \in Users, e \in Emails :
         u = req[r].user /\ e = req[r].email /\ Exists(u) /\ EmailLock(e) \in req[r].locks
  BY <1>1, RequestTypes DEF RequestInOrder, Secured, OfUser, Locked
<1> DEFINE verified == VerifyUserEmail(u, e)
<1>3. /\ Done(r) /\ UNCHANGED <<identity, retired, made, resets, live, bore>>
      /\ IF verified # user
         THEN /\ user' = ClearPendingEmailCopies(verified, e, u)
              /\ links' = DeleteVerificationTokensForEmail(e)
         ELSE UNCHANGED <<user, links>>
  BY <1>2 DEF VerifyEmail
<1>4. CASE verified = user
  <2>1. UNCHANGED tables
    BY <1>3, <1>4 DEF tables
  <2>2. Tables' /\ Guarded({})
    BY <2>1, TablesStay
  <2>3. Guarded(req[r].locks)
    BY <2>2 DEF Guarded
  <2> QED
    BY <1>1, <1>3, <1>4, <2>2, <2>3, CommitKeeps DEF TypeOK
<1>5. CASE verified # user
  <2> DEFINE new == [user[u] EXCEPT !.verified = TRUE]
  <2>1. user[u] \in User /\ user \in [Users -> User \cup {None}]
    BY <1>1, <1>2 DEF TypeOK, Exists
  <2>2. /\ user[u].email = e /\ ~ user[u].verified /\ ~ VerifiedEmailExists(e)
        /\ verified = [user EXCEPT ![u] = new]
    BY <1>5 DEF VerifyUserEmail
  <2>3. /\ new \in User /\ new # None /\ new.handle = user[u].handle /\ new.email = e
        /\ new.verified /\ new.source = user[u].source /\ new.password = user[u].password
    BY <2>1, <2>2, AccountsAssumption DEF User
  <2> HIDE DEF new
  <2>4. /\ verified \in [Users -> User \cup {None}] /\ verified[u] = new
        /\ \A v \in Users \ {u} : verified[v] = user[v]
    BY <2>1, <2>2, <2>3
  <2>5. \A l \in links : l.user = u => l.email = e
    BY <1>1, <2>2 DEF VerifiedAddressIsSole
  <2>6. /\ user' = ClearPendingEmailCopies(verified, e, u)
        /\ links' = DeleteVerificationTokensForEmail(e)
    BY <1>3, <1>5
  <2>11. /\ verified[u] # None
         /\ verified[u].verified
         /\ verified[u].email = e
         /\ ~ VerifiedEmailExists(e)
    BY <2>2, <2>3, <2>4
  <2> HIDE DEF verified
  <2>7. /\ VerifiedAddressIsSole'
        /\ \A f \in Emails : VerifiedEmailExists(f)' => VerifiedEmailExists(f) \/ f = e
        /\ \A v \in Users \ {u} : Like(v)
        /\ user' \in [Users -> User \cup {None}] /\ user'[u] = new
    BY <2>4, <2>5, <2>6, <2>11, Verifying
  <2>8. /\ HandlesInOrder' /\ BoreGrows
        /\ \A g \in Handles : HandleUnavailable(g)' => HandleUnavailable(g)
    BY <1>2, <1>3, <2>3, <2>7, HandlesStay
  <2>9. InOrder(u)'
    BY <1>1, <1>2, <1>3, <2>3, <2>7, AccountsAssumption DEF InOrder, HasEntry
  <2>10. /\ bore' \in [Handles -> SUBSET Users] /\ retired' \subseteq Handles
         /\ identity' \in [Subjects -> Users \cup {None}] /\ made' \in 0..MaxLinks
         /\ links' \subseteq [id : 1..MaxLinks, user : Users, email : Emails]
         /\ links' \subseteq links
    BY <1>1, <1>3, <2>6 DEF TypeOK, DeleteVerificationTokensForEmail
  <2> QED
    BY <1>1, <1>2, <1>3, <2>3, <2>7, <2>8, <2>9, <2>10, AccountKeeps
<1> QED
  BY <1>4, <1>5

LEMMA SignInDiscordKeeps ==
    ASSUME IInv, NEW r \in Requests, SignInDiscord(r) PROVE IInv'
<1>1. /\ TypeOK /\ RequestInOrder(r) /\ Tables /\ \A v \in Users : InOrder(v)
      /\ req[r] # None /\ req[r].op = "discord" /\ req[r].locks # {} /\ req[r].user # None
  BY DEF IInv, Tables, SignInDiscord, Checked, Asked
<1>2. PICK u \in Users, e \in Emails \cup {None} :
         /\ u = req[r].user /\ e = req[r].email /\ Exists(u)
         /\ req[r].sync => e # None /\ EmailSecured(r, e)
  BY <1>1, RequestTypes DEF RequestInOrder, Secured
<1>3. /\ Done(r) /\ UNCHANGED <<identity, retired, made, resets, bore>>
      /\ \/ ~ req[r].sync /\ InsertSession(u) /\ UNCHANGED <<user, links>>
         \/ /\ req[r].sync /\ FollowsDiscord(u)
            /\ user' = ClearPendingEmailCopies(UpdateDiscordEmail(u, e), e, u)
            /\ links' = DeleteVerificationTokensForEmail(e)
            /\ InsertSession(u)
         \/ UNCHANGED <<user, links, live>>
  BY <1>2 DEF SignInDiscord
<1>4. CASE UNCHANGED <<user, links>> /\ live' \subseteq live \cup {u}
  <2>1. \A v \in Users : Same(v)
    BY <1>4 DEF Same, Exists
  <2>2. /\ \A v \in Users : Exists(v) /\ HasEntry(v) => HasEntry(v)'
        /\ \A s \in Subjects : identity'[s] # None => user'[identity'[s]] # None
        /\ \A v \in live' \cup resets' : Exists(v)'
    BY <1>1, <1>2, <1>3, <1>4 DEF HasEntry, Tables, NamesExist, Exists
  <2>3. Tables' /\ Guarded(req[r].locks)
    BY <1>3, <1>4, <2>1, <2>2, CalmKeeps
  <2> QED
    BY <1>1, <1>2, <1>3, <1>4, <2>3, CommitKeeps DEF TypeOK
<1>5. CASE /\ req[r].sync /\ FollowsDiscord(u)
           /\ user' = ClearPendingEmailCopies(UpdateDiscordEmail(u, e), e, u)
           /\ links' = DeleteVerificationTokensForEmail(e)
           /\ InsertSession(u)
  <2> DEFINE new == [user[u] EXCEPT !.email = e, !.verified = TRUE, !.source = "discord"]
             users == UpdateDiscordEmail(u, e)
  <2>1. /\ user[u] \in User /\ user \in [Users -> User \cup {None}]
        /\ e \in Emails /\ e # None /\ ~ VerifiedEmailExists(e) /\ EmailLock(e) \in req[r].locks
    BY <1>1, <1>2, <1>5 DEF TypeOK, Exists, EmailSecured, Locked
  <2>2. users = [user EXCEPT ![u] = new]
    BY <1>5 DEF UpdateDiscordEmail
  <2>3. /\ new \in User /\ new # None /\ new.handle = user[u].handle /\ new.email = e
        /\ new.verified /\ new.password = user[u].password
    BY <2>1, AccountsAssumption DEF User
  <2> HIDE DEF new
  <2>4. /\ users \in [Users -> User \cup {None}] /\ users[u] = new
        /\ \A v \in Users \ {u} : users[v] = user[v]
    BY <2>1, <2>2, <2>3
  <2>5. ASSUME NEW l \in links, l.user = u PROVE l.email = e
    <3>1. l.email \in Emails /\ user[u].email = l.email /\ ~ VerifiedEmailExists(l.email)
      BY <1>1, <2>5 DEF Tables, VerifiedAddressIsSole, TypeOK
    <3>2. user[u].email # None /\ ~ user[u].verified
      BY <1>2, <3>1, AccountsAssumption DEF VerifiedEmailExists, Verified
    <3> QED
      BY <1>1, <1>2, <1>5, <3>2 DEF FollowsDiscord, InOrder
  <2>6. /\ user' = ClearPendingEmailCopies(users, e, u)
        /\ links' = DeleteVerificationTokensForEmail(e) /\ live' = live \cup {u}
    BY <1>5 DEF InsertSession
  <2> HIDE DEF users
  <2>7. /\ VerifiedAddressIsSole'
        /\ \A f \in Emails : VerifiedEmailExists(f)' => VerifiedEmailExists(f) \/ f = e
        /\ \A v \in Users \ {u} : Like(v)
        /\ user' \in [Users -> User \cup {None}] /\ user'[u] = new
    BY <2>1, <2>3, <2>4, <2>5, <2>6, Verifying
  <2>8. /\ HandlesInOrder' /\ BoreGrows
        /\ \A g \in Handles : HandleUnavailable(g)' => HandleUnavailable(g)
    BY <1>2, <1>3, <2>3, <2>7, HandlesStay
  <2>9. InOrder(u)'
    BY <1>1, <1>2, <1>3, <2>1, <2>3, <2>7 DEF InOrder, HasEntry
  <2>10. /\ bore' \in [Handles -> SUBSET Users] /\ retired' \subseteq Handles
         /\ identity' \in [Subjects -> Users \cup {None}] /\ made' \in 0..MaxLinks
         /\ links' \subseteq [id : 1..MaxLinks, user : Users, email : Emails]
         /\ links' \subseteq links
    BY <1>1, <1>3, <2>6 DEF TypeOK, DeleteVerificationTokensForEmail
  <2> QED
    BY <1>1, <1>2, <1>3, <2>1, <2>3, <2>6, <2>7, <2>8, <2>9, <2>10, AccountKeeps
<1> QED
  BY <1>3, <1>4, <1>5 DEF InsertSession

LEMMA SignUpDiscordKeeps ==
    ASSUME IInv, NEW r \in Requests, SignUpDiscord(r) PROVE IInv'
<1>1. /\ TypeOK /\ RequestInOrder(r) /\ Tables
      /\ req[r] # None /\ req[r].op = "discord" /\ req[r].locks # {} /\ req[r].user = None
  BY DEF IInv, SignUpDiscord, Checked, Asked
<1>2. PICK h \in Handles, e \in Emails \cup {None}, s \in Subjects :
         /\ h = req[r].handle /\ e = req[r].email /\ s = req[r].subject
         /\ HandleSecured(r, h) /\ SubjectSecured(r, s)
         /\ e # None => EmailSecured(r, e)
  <2>1. /\ HandleSecured(r, req[r].handle) /\ SubjectSecured(r, req[r].subject)
        /\ req[r].email # None => EmailSecured(r, req[r].email)
    BY <1>1 DEF RequestInOrder, Secured
  <2>2. /\ req[r].handle \in Handles
        /\ req[r].email \in Emails \cup {None}
        /\ req[r].subject \in Subjects
    BY <1>1, <2>1, RequestTypes DEF HandleSecured
  <2> QED
    BY <2>1, <2>2
<1>3. PICK u \in Users :
          /\ ~ Exists(u)
          /\ LET added == InsertDiscordUser(u, h, e) IN
             IF e = None THEN user' = added /\ UNCHANGED links
             ELSE /\ user' = ClearPendingEmailCopies(added, e, u)
                  /\ links' = DeleteVerificationTokensForEmail(e)
          /\ InsertOAuthIdentity(s, u) /\ InsertSession(u) /\ Bears(u, h)
  BY <1>2 DEF SignUpDiscord
<1>4. Done(r) /\ UNCHANGED <<retired, made, resets>>
  BY DEF SignUpDiscord
<1> DEFINE new == [handle |-> h, email |-> e, verified |-> e # None,
                   source |-> IF e = None THEN None ELSE "discord", password |-> None]
           added == InsertDiscordUser(u, h, e)
<1>5. /\ new \in User /\ new # None /\ new.handle = h /\ new.email = e
      /\ new.verified <=> e # None
      /\ new.source = "discord" => e # None
  <2>1. new \in User
    BY DEF User
  <2> QED
    BY <2>1, AccountsAssumption
<1>6. added = [user EXCEPT ![u] = new]
  BY DEF InsertDiscordUser
<1> HIDE DEF new
<1>7. /\ added \in [Users -> User \cup {None}] /\ added[u] = new
      /\ \A v \in Users \ {u} : added[v] = user[v]
  BY <1>1, <1>5, <1>6 DEF TypeOK
<1> HIDE DEF added
<1>8. \A l \in links : l.user # u
  BY <1>1, <1>3 DEF Tables, NamesExist
<1>9. /\ VerifiedAddressIsSole'
      /\ \A f \in Emails :
             VerifiedEmailExists(f)' => VerifiedEmailExists(f) \/ (f = e /\ e # None)
      /\ \A v \in Users \ {u} : Like(v)
      /\ user' \in [Users -> User \cup {None}] /\ user'[u] = new
      /\ links' \subseteq links
  <2>1. CASE e = None
    <3>1. user' = added /\ UNCHANGED links
      BY <1>3, <2>1 DEF added
    <3> QED
      BY <1>3, <1>5, <1>7, <1>8, <2>1, <3>1, Naming DEF Verified
  <2>2. CASE e # None
    <3>1. /\ user' = ClearPendingEmailCopies(added, e, u)
          /\ links' = DeleteVerificationTokensForEmail(e)
      BY <1>3, <2>2 DEF added
    <3>2. ~ VerifiedEmailExists(e) /\ e \in Emails
      BY <1>2, <2>2 DEF EmailSecured
    <3>3. links' \subseteq links
      BY <3>1 DEF DeleteVerificationTokensForEmail
    <3> QED
      BY <1>5, <1>7, <1>8, <2>2, <3>1, <3>2, <3>3, Verifying
  <2> QED
    BY <2>1, <2>2
<1>10. /\ bore' = [bore EXCEPT ![h] = bore[h] \cup {u}] /\ live' = live \cup {u}
       /\ identity' = [identity EXCEPT ![s] = u]
  BY <1>3 DEF Bears, InsertSession, InsertOAuthIdentity
<1>11. /\ HandlesInOrder' /\ BoreGrows /\ u \in bore'[h]
       /\ \A g \in Handles : HandleUnavailable(g)' => HandleUnavailable(g) \/ g = h
  BY <1>2, <1>3, <1>4, <1>5, <1>9, <1>10, HandleTaken DEF HandleSecured
<1>12. /\ identity' \in [Subjects -> Users \cup {None}] /\ identity'[s] = u
       /\ \A t \in Subjects \ {s} : identity'[t] = identity[t]
       /\ bore' \in [Handles -> SUBSET Users] /\ retired' \subseteq Handles
       /\ made' \in 0..MaxLinks
       /\ links' \subseteq [id : 1..MaxLinks, user : Users, email : Emails]
  BY <1>1, <1>4, <1>9, <1>10 DEF TypeOK
<1>13. InOrder(u)'
  BY <1>5, <1>9, <1>11, <1>12 DEF InOrder, HasEntry
<1>14. /\ identity[s] = None /\ SubjectLock(s) \in req[r].locks
       /\ HandleLock(h) \in req[r].locks
       /\ e # None => EmailLock(e) \in req[r].locks
  BY <1>2 DEF HandleSecured, SubjectSecured, EmailSecured, Locked
<1> QED
  BY <1>1, <1>3, <1>4, <1>5, <1>9, <1>10, <1>11, <1>12, <1>13, <1>14, AccountKeeps

-----------------------------------------------------------------------------
(* The invariant holds throughout.                                           *)

LEMMA InitInv == Init => IInv
<1> SUFFICES ASSUME Init PROVE IInv
  OBVIOUS
<1>1. TypeOK
  BY AccountsAssumption DEF Init, TypeOK
<1>2. \A u \in Users : ~ Exists(u)
  BY DEF Init, Exists
<1>3. Tables
  BY <1>2 DEF Init, Tables, VerifiedAddressIsSole, NamesExist, HandlesInOrder, InOrder,
     HandleUnavailable, Verified
<1>4. \A r \in Requests : req[r] = None
  BY DEF Init
<1>5. LocksApart /\ \A r \in Requests : RequestInOrder(r)
  BY <1>4 DEF LocksApart, RequestInOrder
<1> QED
  BY <1>1, <1>3, <1>5 DEF IInv

LEMMA StepInv == IInv /\ [Next]_vars => IInv'
<1> SUFFICES ASSUME IInv, [Next]_vars PROVE IInv'
  OBVIOUS
<1>1. ASSUME NEW r \in Requests,
             \/ AskSignUp(r) \/ AskVerifyEmail(r) \/ AskChangeUnverifiedEmail(r)
             \/ AskRenameHandle(r) \/ AskSetPassword(r) \/ AskPasswordReset(r)
             \/ AskSignIn(r) \/ AskDetachDiscord(r) \/ BeginDiscord(r)
      PROVE  IInv'
  BY <1>1, AsksKeep
<1>2. ASSUME NEW r \in Requests,
             \/ CheckSignUp(r) \/ CheckVerifyEmail(r) \/ CheckChangeUnverifiedEmail(r)
             \/ CheckRenameHandle(r) \/ CheckAttachDiscord(r) \/ CheckDetachDiscord(r)
             \/ CheckDiscordKnown(r) \/ CheckDiscordNew(r)
      PROVE  IInv'
  BY <1>2, ChecksKeep
<1>3. ASSUME NEW r \in Requests,
             \/ SignUp(r) \/ VerifyEmail(r) \/ ChangeUnverifiedEmail(r) \/ RenameHandle(r)
             \/ CompleteDiscord(r) \/ SignInDiscord(r) \/ SignUpDiscord(r)
      PROVE  IInv'
  BY <1>3, SignUpKeeps, VerifyEmailKeeps, ChangeEmailKeeps, RenameKeeps, CompleteKeeps,
     SignInDiscordKeeps, SignUpDiscordKeeps
<1>4. ASSUME NEW r \in Requests, AttachDiscord(r) \/ DetachDiscord(r) \/ Fail(r) PROVE IInv'
  BY <1>4, DiscordSteps
<1>5. ASSUME \/ \E r \in Requests : SetPassword(r) \/ RequestPasswordReset(r) \/ SignIn(r)
             \/ \E u \in Users : SignOut(u) \/ \E p \in Passwords : CompletePasswordReset(u, p)
             \/ LinkExpires
             \/ ResetExpires
      PROVE  IInv'
  BY <1>5, CalmSteps
<1>6. CASE UNCHANGED vars
  <2>1. UNCHANGED tables /\ req' = req
    BY <1>6 DEF vars
  <2>2. Tables' /\ Guarded({})
    BY <2>1, TablesStay
  <2>3. TypeOK'
    BY <2>1 DEF IInv, TypeOK, tables
  <2> QED
    BY <2>1, <2>2, <2>3, OthersKeep DEF IInv
<1>7. CASE Next
  BY <1>1, <1>2, <1>3, <1>4, <1>5, <1>7 DEF Next
<1> QED
  BY <1>6, <1>7

LEMMA Invariant == Spec => []IInv
BY InitInv, StepInv, PTL DEF Spec

\* Accounts and requests are as they are described.
THEOREM TypeCorrect == Spec => []TypeOK
<1>1. IInv => TypeOK
  BY DEF IInv
<1> QED
  BY <1>1, Invariant, PTL

\* Whoever verifies an address, by its link or through Discord, is the only account that
\* names it from then on, whatever other requests were looking at when it was verified
\* (VerifyEmail, SyncDiscordEmail, the index on verified addresses).
THEOREM AddressesAreSole == Spec => []VerifiedAddressIsSole
<1>1. IInv => VerifiedAddressIsSole
  BY DEF IInv, Tables
<1> QED
  BY <1>1, Invariant, PTL

\* Detaching Discord, resetting a password or losing an address never locks an account
\* out (DetachDiscord).
THEOREM EntryIsKept == Spec => []CanSignInAgain
<1>1. IInv => CanSignInAgain
  BY DEF IInv, Tables, InOrder, HasEntry, Verified, CanSignInAgain, DiscordSubjectsForUser
<1> QED
  BY <1>1, Invariant, PTL

\* A handle is nobody else's once an account bore it, retired or not (RenameHandle,
\* HandleUnavailable).
THEOREM HandlesAreForGood == Spec => []HandlesStayWithTheirAccount
<1>1. ASSUME IInv, NEW h \in Handles PROVE Cardinality(bore[h]) <= 1
  <2>1. \A u, v \in bore[h] : u = v
    BY <1>1 DEF IInv, Tables, HandlesInOrder
  <2>2. CASE bore[h] = {}
    BY <2>2, FS_EmptySet
  <2>3. CASE bore[h] # {}
    <3>1. PICK u : bore[h] = {u}
      BY <2>1, <2>3
    <3>2. Cardinality({u}) = 1
      BY FS_Singleton
    <3> QED
      BY <3>1, <3>2
  <2> QED
    BY <2>2, <2>3
<1>2. IInv => HandlesStayWithTheirAccount
  BY <1>1 DEF HandlesStayWithTheirAccount
<1> QED
  BY <1>2, Invariant, PTL

-----------------------------------------------------------------------------
(* Profiles.                                                                 *)

Wants(r, op) == profileReq[r] # None /\ profileReq[r].op = op

\* Of the requests for one account one has its row, and an owner's only while the profile is
\* not restricted.
RowsApart ==
    /\ \A r, q \in Requests :
          profileReq[r] # None /\ profileReq[r].locked /\ profileReq[q] # None
             /\ profileReq[q].locked /\ profileReq[r].account = profileReq[q].account => r = q
    /\ \A r \in Requests :
          profileReq[r] # None /\ profileReq[r].locked
             /\ profileReq[r].op \notin {"restrict", "restore"}
          => profileReq[r].account \notin restricted

\* Each stored picture is one request's, or has been shown.
PicturesApart ==
    /\ \A a \in Owners : media[a] = {shown[a]} \ {0} /\ shown[a] <= edits
    /\ \A r \in Requests : Wants(r, "picture") =>
          /\ profileReq[r].edit \in 1..edits
          /\ \A a \in Owners : shown[a] # profileReq[r].edit
          /\ \A q \in Requests :
                Wants(q, "picture") /\ profileReq[q].edit = profileReq[r].edit => q = r

Chosen ==
    \A a \in Owners :
        /\ IsFiniteSet(recommended[a]) /\ Cardinality(recommended[a]) <= RecommendLimit
        /\ \A w \in recommended[a] : OwnerOf[w] # a
        /\ \A i \in 1..Len(featured[a]) : OwnerOf[featured[a][i]] = a

ProfileInv ==
    Profile!TypeOK /\ RowsApart /\ PicturesApart /\ Chosen /\ Profile!AuditsTellTheStory

LEMMA SelectionsAre ==
    ASSUME Profile!Settings
    PROVE  <<>> \in Profile!Selections /\ Profile!Selections \subseteq Seq(Works)
<1>1. ASSUME NEW s \in Profile!BoundedSeq(Works, FeaturedLimit) PROVE s \in Seq(Works)
  <2>1. PICK m \in 0..FeaturedLimit : s \in [1..m -> Works]
    BY DEF Profile!BoundedSeq, Profile!SeqOf
  <2> QED  BY <2>1
<1>2. <<>> \in Profile!BoundedSeq(Works, FeaturedLimit)
  <2>1. 0 \in 0..FeaturedLimit /\ <<>> \in [1..0 -> Works]
    BY DEF Profile!Settings
  <2> QED  BY <2>1 DEF Profile!BoundedSeq, Profile!SeqOf
<1>3. Profile!IsInjective(<<>>)
  BY DEF Profile!IsInjective
<1> QED  BY <1>1, <1>2, <1>3 DEF Profile!Selections

LEMMA ProfileInit == ASSUME Profile!Settings PROVE Profile!Init => ProfileInv
<1> SUFFICES ASSUME Profile!Init PROVE ProfileInv
  OBVIOUS
<1>1. Profile!TypeOK
  BY SelectionsAre DEF Profile!Init, Profile!TypeOK, Profile!Settings
<1>2. RowsApart /\ PicturesApart
  BY DEF Profile!Init, RowsApart, PicturesApart, Wants
<1>3. Chosen
  BY FS_EmptySet DEF Profile!Init, Chosen, Profile!Settings
<1>4. Profile!AuditsTellTheStory
  BY DEF Profile!Init, Profile!AuditsTellTheStory
<1> QED  BY <1>1, <1>2, <1>3, <1>4 DEF ProfileInv

-----------------------------------------------------------------------------
\* A request begins.
LEMMA StartedKeeps ==
    ASSUME Profile!Settings, ProfileInv, NEW r \in Requests, NEW new \in Profile!Request,
           ~ new.locked, Profile!Start(r, new), UNCHANGED <<Profile!profile, Profile!staff,
                                                            browse, changes>>,
           \/ new.op # "picture" /\ UNCHANGED edits
           \/ edits < MaxEdits /\ edits' = edits + 1 /\ new.edit = edits + 1
    PROVE  ProfileInv'
<1>1. profileReq[r] = None /\ profileReq' = [profileReq EXCEPT ![r] = new]
  BY DEF Profile!Start
<1>2. /\ profileReq' \in [Requests -> Profile!Request \cup {None}]
      /\ \A q \in Requests : profileReq'[q] = IF q = r THEN new ELSE profileReq[q]
  BY <1>1 DEF ProfileInv, Profile!TypeOK
<1>3. edits' \in 0..MaxEdits /\ edits <= edits' /\ edits \in Nat
  BY DEF ProfileInv, Profile!TypeOK, Profile!Settings
<1>4. UNCHANGED <<text, shown, media, featured, recommended, restricted, audits, browse,
                  changes>>
  BY DEF Profile!profile, Profile!staff
<1>5. Profile!TypeOK'
  BY <1>2, <1>3, <1>4 DEF ProfileInv, Profile!TypeOK
<1>6. RowsApart'
  BY <1>2, <1>4 DEF ProfileInv, RowsApart
<1>7. PicturesApart'
  <2>1. \A a \in Owners :
            /\ media'[a] = {shown'[a]} \ {0} /\ shown'[a] <= edits'
            /\ shown[a] <= edits /\ shown[a] \in Nat
    BY <1>3, <1>4 DEF ProfileInv, PicturesApart, Profile!TypeOK
  <2>2. ASSUME NEW q \in Requests, Wants(q, "picture")'
        PROVE  /\ profileReq'[q].edit \in 1..edits'
               /\ \A a \in Owners : shown'[a] # profileReq'[q].edit
               /\ \A p \in Requests :
                     Wants(p, "picture")' /\ profileReq'[p].edit = profileReq'[q].edit => p = q
    <3>1. CASE new.op # "picture"
      <4>1. \A p \in Requests : Wants(p, "picture")' => p # r /\ Wants(p, "picture")
        BY <3>1, <1>2 DEF Wants
      <4>2. profileReq'[q] = profileReq[q] /\ Wants(q, "picture")
        BY <4>1, <2>2, <1>2
      <4>3. profileReq[q].edit \in 1..edits'
        BY <4>2, <1>3 DEF ProfileInv, PicturesApart
      <4> QED  BY <4>1, <4>2, <4>3, <2>2, <1>2, <1>4 DEF ProfileInv, PicturesApart
    <3>2. CASE new.op = "picture"
      <4>1. new.edit = edits + 1 /\ edits' = edits + 1
        BY <3>2
      <4>2. \A p \in Requests : p # r /\ Wants(p, "picture")' =>
               Wants(p, "picture") /\ profileReq'[p] = profileReq[p]
                   /\ profileReq[p].edit \in 1..edits
        BY <1>2 DEF Wants, ProfileInv, PicturesApart
      <4>3. CASE q = r
        BY <4>1, <4>2, <4>3, <2>1, <1>2, <1>3, <1>4
      <4>4. CASE q # r
        BY <4>1, <4>2, <4>4, <2>2, <1>2, <1>3, <1>4 DEF ProfileInv, PicturesApart
      <4> QED  BY <4>3, <4>4
    <3> QED  BY <3>1, <3>2
  <2> QED  BY <2>1, <2>2 DEF PicturesApart
<1>8. Chosen' /\ Profile!AuditsTellTheStory'
  BY <1>4 DEF ProfileInv, Chosen, Profile!AuditsTellTheStory
<1> QED  BY <1>5, <1>6, <1>7, <1>8 DEF ProfileInv

\* A request is over.
LEMMA OverIs ==
    ASSUME ProfileInv, NEW r \in Requests, Profile!Done(r)
    PROVE  /\ profileReq' \in [Requests -> Profile!Request \cup {None}]
           /\ \A q \in Requests : profileReq'[q] = IF q = r THEN None ELSE profileReq[q]
           /\ \A q \in Requests :
                  \A op : Wants(q, op)' => q # r /\ Wants(q, op) /\ profileReq'[q] = profileReq[q]
<1>1. /\ profileReq' \in [Requests -> Profile!Request \cup {None}]
      /\ \A q \in Requests : profileReq'[q] = IF q = r THEN None ELSE profileReq[q]
  BY DEF Profile!Done, ProfileInv, Profile!TypeOK
<1> QED  BY <1>1 DEF Wants

LEMMA OverKeepsRows ==
    ASSUME ProfileInv, NEW r \in Requests, profileReq[r] # None, Profile!Done(r),
           \/ UNCHANGED restricted
           \/ profileReq[r].locked /\ restricted' \subseteq restricted \cup {profileReq[r].account}
    PROVE  RowsApart'
BY OverIs DEF ProfileInv, RowsApart

LEMMA OverKeepsPictures ==
    ASSUME ProfileInv, NEW r \in Requests, Profile!Done(r), UNCHANGED <<shown, media, edits>>
    PROVE  PicturesApart'
<1>1. \A q \in Requests :
          Wants(q, "picture")' => q # r /\ Wants(q, "picture") /\ profileReq'[q] = profileReq[q]
  BY OverIs
<1> QED  BY <1>1 DEF ProfileInv, PicturesApart

LEMMA FailKeeps ==
    ASSUME Profile!Settings, ProfileInv, NEW r \in Requests, profileReq[r] # None,
           Profile!Done(r),
           UNCHANGED <<Profile!profile, Profile!staff, browse, edits, changes>>
    PROVE  ProfileInv'
<1>1. UNCHANGED <<text, shown, media, featured, recommended, restricted, audits, browse,
                  edits, changes>>
  BY DEF Profile!profile, Profile!staff
<1>2. Profile!TypeOK'
  BY <1>1, OverIs DEF ProfileInv, Profile!TypeOK
<1>3. RowsApart' /\ PicturesApart'
  BY <1>1, OverKeepsRows, OverKeepsPictures
<1>4. Chosen' /\ Profile!AuditsTellTheStory'
  BY <1>1 DEF ProfileInv, Chosen, Profile!AuditsTellTheStory
<1> QED  BY <1>2, <1>3, <1>4 DEF ProfileInv

LEMMA LockKeeps ==
    ASSUME Profile!Settings, ProfileInv, NEW r \in Requests, Profile!Lock(r)
    PROVE  ProfileInv'
<1>1. /\ profileReq[r] # None /\ profileReq[r] \in Profile!Request /\ ~ profileReq[r].locked
      /\ UNCHANGED <<Profile!profile, Profile!staff, browse, edits, changes>>
      /\ Profile!Unlocked(profileReq[r].account)
  BY DEF Profile!Lock, ProfileInv, Profile!TypeOK
<1>2. CASE profileReq[r].op \notin {"restrict", "restore"}
             /\ profileReq[r].account \in restricted
  <2>1. Profile!Done(r)
    BY <1>2 DEF Profile!Lock, Profile!Done
  <2> QED  BY <2>1, <1>1, FailKeeps
<1>3. CASE ~ (profileReq[r].op \notin {"restrict", "restore"} /\ profileReq[r].account \in restricted)
  <2> DEFINE new == [profileReq[r] EXCEPT !.locked = TRUE]
  <2>1. /\ new \in Profile!Request
        /\ new.op = profileReq[r].op
        /\ new.account = profileReq[r].account
        /\ new.edit = profileReq[r].edit
    BY <1>1 DEF Profile!Request
  <2>2. profileReq' = [profileReq EXCEPT ![r] = new]
    BY <1>3 DEF Profile!Lock
  <2>3. new # None
    BY <2>1 DEF Profile!Settings
  <2> HIDE DEF new
  <2>4. /\ profileReq' \in [Requests -> Profile!Request \cup {None}]
        /\ \A q \in Requests : profileReq'[q] = IF q = r THEN new ELSE profileReq[q]
    BY <2>1, <2>2 DEF ProfileInv, Profile!TypeOK
  <2>5. UNCHANGED <<text, shown, media, featured, recommended, restricted, audits, browse,
                    edits, changes>>
    BY <1>1 DEF Profile!profile, Profile!staff
  <2>6. Profile!TypeOK'
    BY <2>4, <2>5 DEF ProfileInv, Profile!TypeOK
  <2>7. RowsApart'
    BY <1>1, <1>3, <2>1, <2>4, <2>5 DEF ProfileInv, RowsApart, Profile!Unlocked
  <2>8. \A q \in Requests :
            Wants(q, "picture")' => Wants(q, "picture") /\ profileReq'[q].edit = profileReq[q].edit
    BY <1>1, <2>1, <2>4 DEF Wants
  <2>9. PicturesApart'
    BY <2>5, <2>8 DEF ProfileInv, PicturesApart
  <2>10. Chosen' /\ Profile!AuditsTellTheStory'
    BY <2>5 DEF ProfileInv, Chosen, Profile!AuditsTellTheStory
  <2> QED  BY <2>6, <2>7, <2>9, <2>10 DEF ProfileInv
<1> QED  BY <1>2, <1>3

LEMMA ReadyIs ==
    ASSUME ProfileInv, NEW r \in Requests, NEW op, Profile!Ready(r, op)
    PROVE  /\ profileReq[r] # None /\ profileReq[r] \in Profile!Request /\ profileReq[r].locked
           /\ profileReq[r].op = op /\ profileReq[r].account \in Owners
           /\ op \notin {"restrict", "restore"} => profileReq[r].account \notin restricted
BY DEF Profile!Ready, ProfileInv, Profile!TypeOK, Profile!Request, RowsApart

LEMMA SaveProfileKeeps ==
    ASSUME Profile!Settings, ProfileInv, NEW r \in Requests, Profile!SaveProfile(r)
    PROVE  ProfileInv'
<1>1. /\ profileReq[r] # None /\ profileReq[r] \in Profile!Request /\ Profile!Done(r)
      /\ text' = [text EXCEPT ![profileReq[r].account] = profileReq[r].edit]
      /\ UNCHANGED <<shown, media, featured, recommended, restricted, audits, browse, edits,
                     changes>>
  BY ReadyIs DEF Profile!SaveProfile, Profile!staff
<1>2. profileReq[r].edit \in 0..MaxEdits
  BY <1>1 DEF Profile!Request
<1>3. Profile!TypeOK'
  BY <1>1, <1>2, OverIs DEF ProfileInv, Profile!TypeOK
<1>4. RowsApart' /\ PicturesApart'
  BY <1>1, OverKeepsRows, OverKeepsPictures
<1>5. Chosen' /\ Profile!AuditsTellTheStory'
  BY <1>1 DEF ProfileInv, Chosen, Profile!AuditsTellTheStory
<1> QED  BY <1>3, <1>4, <1>5 DEF ProfileInv

\* What is shown instead is nothing, or what no request but this one has stored.
LEMMA ReplaceKeeps ==
    ASSUME Profile!Settings, ProfileInv, NEW r \in Requests, NEW a \in Owners,
           NEW picture \in 0..MaxEdits, Profile!ReplacePicture(a, picture), Profile!Done(r),
           profileReq[r] # None,
           picture = 0 \/ (profileReq[r].op = "picture" /\ profileReq[r].edit = picture),
           shown[a] # picture,
           UNCHANGED <<text, featured, recommended, restricted, audits, browse, edits, changes>>
    PROVE  ProfileInv'
<1>1. /\ shown \in [Owners -> 0..MaxEdits] /\ media \in [Owners -> SUBSET (1..MaxEdits)]
      /\ edits \in 0..MaxEdits
  BY DEF ProfileInv, Profile!TypeOK
<1>2. shown' = [shown EXCEPT ![a] = picture]
  BY DEF Profile!ReplacePicture
<1>3. media' = [media EXCEPT ![a] = {picture} \ {0}]
  <2>1. media[a] = {shown[a]} \ {0}
    BY DEF ProfileInv, PicturesApart
  <2>2. (media[a] \cup ({picture} \ {0})) \ {shown[a]} = {picture} \ {0}
    BY <2>1
  <2> QED  BY <2>2 DEF Profile!ReplacePicture
<1>4. shown' \in [Owners -> 0..MaxEdits] /\ media' \in [Owners -> SUBSET (1..MaxEdits)]
  <2>1. {picture} \ {0} \in SUBSET (1..MaxEdits)
    BY DEF Profile!Settings
  <2> QED  BY <2>1, <1>1, <1>2, <1>3
<1>5. Profile!TypeOK'
  BY <1>4, OverIs DEF ProfileInv, Profile!TypeOK
<1>6. picture <= edits
  BY <1>1 DEF ProfileInv, PicturesApart, Wants
<1>7. \A b \in Owners : /\ shown'[b] = IF b = a THEN picture ELSE shown[b]
                        /\ media'[b] = IF b = a THEN {picture} \ {0} ELSE media[b]
  BY <1>1, <1>2, <1>3
<1>8. PicturesApart'
  <2>1. \A q \in Requests :
            Wants(q, "picture")' => q # r /\ Wants(q, "picture") /\ profileReq'[q] = profileReq[q]
    BY OverIs
  <2>2. ASSUME NEW q \in Requests, Wants(q, "picture")'
        PROVE  /\ profileReq'[q].edit \in 1..edits /\ profileReq'[q].edit # picture
               /\ \A b \in Owners : shown[b] # profileReq'[q].edit
               /\ \A p \in Requests :
                     Wants(p, "picture")' /\ profileReq'[p].edit = profileReq'[q].edit => p = q
    BY <2>1, <2>2, <1>1 DEF ProfileInv, PicturesApart, Wants
  <2>3. \A b \in Owners : media'[b] = {shown'[b]} \ {0} /\ shown'[b] <= edits
    BY <1>6, <1>7 DEF ProfileInv, PicturesApart
  <2> QED  BY <2>2, <2>3, <1>7 DEF PicturesApart
<1>9. RowsApart'
  BY OverKeepsRows
<1>10. Chosen' /\ Profile!AuditsTellTheStory'
  BY DEF ProfileInv, Chosen, Profile!AuditsTellTheStory
<1> QED  BY <1>5, <1>8, <1>9, <1>10 DEF ProfileInv

LEMMA PictureKeeps ==
    ASSUME Profile!Settings, ProfileInv, NEW r \in Requests,
           Profile!SetPicture(r) \/ Profile!RemovePicture(r)
    PROVE  ProfileInv'
<1>1. PICK a \in Owners : a = profileReq[r].account
  BY ReadyIs DEF Profile!SetPicture, Profile!RemovePicture
<1>2. UNCHANGED <<text, featured, recommended, restricted, audits, browse, edits,
                  changes>> /\ Profile!Done(r)
      /\ profileReq[r] # None /\ profileReq[r] \in Profile!Request
  BY ReadyIs DEF Profile!SetPicture, Profile!RemovePicture, Profile!staff
<1>3. CASE Profile!SetPicture(r)
  <2>1. PICK picture \in 0..MaxEdits : picture = profileReq[r].edit
    BY <1>2 DEF Profile!Request
  <2>2. Wants(r, "picture") /\ Profile!ReplacePicture(a, picture)
    BY <1>1, <1>3, <2>1, ReadyIs DEF Profile!SetPicture, Wants
  <2>3. shown[a] # picture
    BY <2>1, <2>2 DEF ProfileInv, PicturesApart
  <2> QED  BY <2>1, <2>2, <2>3, <1>2, ReplaceKeeps DEF Wants
<1>4. CASE Profile!RemovePicture(r) /\ shown[a] = 0
  <2>1. UNCHANGED <<shown, media>>
    BY <1>1, <1>4 DEF Profile!RemovePicture
  <2> QED  BY <1>2, <2>1, FailKeeps DEF Profile!profile, Profile!staff
<1>5. CASE Profile!RemovePicture(r) /\ shown[a] # 0
  <2>1. Profile!ReplacePicture(a, 0)
    BY <1>1, <1>5 DEF Profile!RemovePicture
  <2>2. 0 \in 0..MaxEdits
    BY DEF Profile!Settings
  <2> QED  BY <2>1, <2>2, <1>2, <1>5, ReplaceKeeps
<1> QED  BY <1>3, <1>4, <1>5

LEMMA FeatureKeeps ==
    ASSUME Profile!Settings, ProfileInv, NEW r \in Requests, Profile!SaveFeatured(r)
    PROVE  ProfileInv'
<1>1. PICK a \in Owners : a = profileReq[r].account
  BY ReadyIs DEF Profile!SaveFeatured
<1>2. /\ profileReq[r] # None /\ profileReq[r] \in Profile!Request /\ Profile!Done(r)
      /\ UNCHANGED <<text, shown, media, recommended, restricted, audits, browse, edits,
                     changes>>
  BY ReadyIs DEF Profile!SaveFeatured, Profile!staff
<1>3. PICK works \in Profile!Selections : works = profileReq[r].works
  BY <1>2 DEF Profile!Request
<1>4. \/ featured' = [featured EXCEPT ![a] = works]
             /\ \A i \in DOMAIN works : OwnerOf[works[i]] = a
      \/ UNCHANGED featured
  <2>1. CASE Profile!ToSet(works) \subseteq {w \in browse : OwnerOf[w] = a}
    BY <1>1, <1>3, <2>1 DEF Profile!SaveFeatured, Profile!ToSet
  <2>2. CASE ~ (Profile!ToSet(works) \subseteq {w \in browse : OwnerOf[w] = a})
    BY <1>1, <1>3, <2>2 DEF Profile!SaveFeatured
  <2> QED  BY <2>1, <2>2
<1>5. Profile!TypeOK'
  <2>1. featured' \in [Owners -> Profile!Selections]
    BY <1>4 DEF ProfileInv, Profile!TypeOK
  <2> QED  BY <2>1, <1>2, OverIs DEF ProfileInv, Profile!TypeOK
<1>6. works \in Seq(Works) /\ featured \in [Owners -> Profile!Selections]
  BY SelectionsAre DEF ProfileInv, Profile!TypeOK
<1>7. Chosen'
  <2>1. CASE UNCHANGED featured
    BY <1>2, <2>1 DEF ProfileInv, Chosen
  <2>2. CASE featured' = [featured EXCEPT ![a] = works]
               /\ \A i \in DOMAIN works : OwnerOf[works[i]] = a
    <3>1. \A b \in Owners : featured'[b] = IF b = a THEN works ELSE featured[b]
      BY <2>2, <1>6
    <3>2. \A i \in 1..Len(works) : OwnerOf[works[i]] = a
      BY <2>2, <1>6
    <3> QED  BY <1>2, <3>1, <3>2 DEF ProfileInv, Chosen
  <2> QED  BY <1>4, <2>1, <2>2
<1>8. RowsApart' /\ PicturesApart'
  BY <1>2, OverKeepsRows, OverKeepsPictures
<1>9. Profile!AuditsTellTheStory'
  BY <1>2 DEF ProfileInv, Profile!AuditsTellTheStory
<1> QED  BY <1>5, <1>7, <1>8, <1>9 DEF ProfileInv

LEMMA SameNotions ==
    ASSUME NEW S
    PROVE  Profile!Cardinality(S) = Cardinality(S) /\ Profile!IsFiniteSet(S) = IsFiniteSet(S)
BY DEF Profile!Cardinality, Cardinality, Profile!IsFiniteSet, IsFiniteSet

LEMMA RecommendKeeps ==
    ASSUME Profile!Settings, ProfileInv, NEW r \in Requests,
           Profile!AddRecommendation(r) \/ Profile!RemoveRecommendation(r)
    PROVE  ProfileInv'
<1>1. PICK a \in Owners : a = profileReq[r].account
  BY ReadyIs DEF Profile!AddRecommendation, Profile!RemoveRecommendation
<1>2. /\ profileReq[r] # None /\ Profile!Done(r)
      /\ UNCHANGED <<text, shown, media, featured, restricted, audits, browse, edits, changes>>
  BY ReadyIs DEF Profile!AddRecommendation, Profile!RemoveRecommendation, Profile!staff
<1>3. PICK w : w = profileReq[r].work
  OBVIOUS
<1>4. /\ recommended \in [Owners -> SUBSET Works] /\ browse \subseteq Works
      /\ IsFiniteSet(recommended[a]) /\ Cardinality(recommended[a]) <= RecommendLimit
      /\ Cardinality(recommended[a]) \in Nat
      /\ \A x \in recommended[a] : OwnerOf[x] # a
  BY FS_CardinalityType DEF ProfileInv, Profile!TypeOK, Chosen
<1> DEFINE kept == recommended[a] \cap browse
<1>5. IsFiniteSet(kept) /\ Cardinality(kept) <= RecommendLimit /\ Cardinality(kept) \in Nat
  BY <1>4, FS_Subset, FS_CardinalityType DEF Profile!Settings
<1>6. PICK new \in SUBSET Works :
        /\ recommended' = [recommended EXCEPT ![a] = new]
        /\ IsFiniteSet(new) /\ Cardinality(new) <= RecommendLimit
        /\ \A x \in new : OwnerOf[x] # a
  <2>1. UNCHANGED recommended => recommended' = [recommended EXCEPT ![a] = recommended[a]]
    BY <1>4
  <2>2. CASE Profile!AddRecommendation(r)
               /\ recommended' = [recommended EXCEPT ![a] = kept \cup {w}]
             /\ w \in browse
             /\ OwnerOf[w] # a
             /\ (w \in kept \/ Cardinality(kept) < RecommendLimit)
    <3>1. IsFiniteSet(kept \cup {w}) /\ Cardinality(kept \cup {w}) <= RecommendLimit
      <4>1. CASE w \in kept
        <5>1. kept \cup {w} = kept
          BY <4>1
        <5> QED  BY <5>1, <1>5
      <4>2. CASE w \notin kept
        <5>1. Cardinality(kept) < RecommendLimit /\ RecommendLimit \in Nat
          BY <4>2, <2>2 DEF Profile!Settings
        <5>2. IsFiniteSet(kept \cup {w}) /\ Cardinality(kept \cup {w}) = Cardinality(kept) + 1
          BY <4>2, <1>5, FS_AddElement
        <5> QED  BY <5>1, <5>2, <1>5
      <4> QED  BY <4>1, <4>2
    <3> QED  BY <2>2, <3>1, <1>4
  <2>3. CASE Profile!AddRecommendation(r)
    <3>1. \/ UNCHANGED recommended
          \/ /\ recommended' = [recommended EXCEPT ![a] = kept \cup {w}]
             /\ w \in browse /\ OwnerOf[w] # a
             /\ (w \in kept \/ Profile!Cardinality(kept) < RecommendLimit)
      BY <1>1, <1>3, <2>3 DEF Profile!AddRecommendation
    <3> QED  BY <3>1, <2>1, <2>2, <2>3, <1>4, SameNotions
  <2>4. CASE Profile!RemoveRecommendation(r)
    <3>1. recommended' = [recommended EXCEPT ![a] = recommended[a] \ {w}]
      BY <1>1, <1>3, <2>4 DEF Profile!RemoveRecommendation
    <3>2. /\ IsFiniteSet(recommended[a] \ {w})
          /\ Cardinality(recommended[a] \ {w}) <= RecommendLimit
      <4>1. recommended[a] \ {w} \subseteq recommended[a]
        OBVIOUS
      <4>2. /\ IsFiniteSet(recommended[a] \ {w})
            /\ Cardinality(recommended[a] \ {w}) <= Cardinality(recommended[a])
            /\ Cardinality(recommended[a] \ {w}) \in Nat
        BY <4>1, <1>4, FS_Subset, FS_CardinalityType
      <4> QED  BY <4>2, <1>4 DEF Profile!Settings
    <3> QED  BY <3>1, <3>2, <1>4
  <2> QED  BY <2>3, <2>4
<1>7. \A b \in Owners : recommended'[b] = IF b = a THEN new ELSE recommended[b]
  BY <1>4, <1>6
<1>8. Profile!TypeOK'
  BY <1>2, <1>6, OverIs DEF ProfileInv, Profile!TypeOK
<1>9. Chosen'
  BY <1>2, <1>6, <1>7 DEF ProfileInv, Chosen
<1>10. RowsApart' /\ PicturesApart'
  BY <1>2, OverKeepsRows, OverKeepsPictures
<1>11. Profile!AuditsTellTheStory'
  BY <1>2 DEF ProfileInv, Profile!AuditsTellTheStory
<1> QED  BY <1>8, <1>9, <1>10, <1>11 DEF ProfileInv

\* What the decisions of staff on record say of b, and that it is how b stands.
Restricts(b, i) == audits[i].subject = b /\ audits[i].action = "restrict"

LastUpTo(b, i, n) == \A k \in (i + 1)..n : audits[k].subject # b

Tells(b) ==
    /\ b \in restricted <=>
          \E i \in 1..Len(audits) : Restricts(b, i) /\ LastUpTo(b, i, Len(audits))
    /\ \A m \in 1..Len(audits) : audits[m] = [subject |-> b, action |-> "restore"] =>
          \E i \in 1..(m - 1) : Restricts(b, i) /\ LastUpTo(b, i, m - 1)

LEMMA TellsTheStory ==
    Profile!TypeOK => (Profile!AuditsTellTheStory <=> \A b \in Owners : Tells(b))
<1> SUFFICES ASSUME Profile!TypeOK
             PROVE  Profile!AuditsTellTheStory <=> \A b \in Owners : Tells(b)
  OBVIOUS
<1>1. /\ Len(audits) \in Nat
      /\ DOMAIN audits = 1..Len(audits)
      /\ (Len(audits) + 1) - 1 = Len(audits)
  BY DEF Profile!TypeOK
<1> DEFINE
      Last(b) == \E i \in DOMAIN audits :
                    /\ audits[i].subject = b /\ audits[i].action = "restrict"
                    /\ \A k \in (i + 1)..((Len(audits) + 1) - 1) : ~ (audits[k].subject = b)
      Before(b, n) == \E i \in 1..(n - 1) :
                    /\ audits[i].subject = b /\ audits[i].action = "restrict"
                    /\ \A k \in (i + 1)..(n - 1) : ~ (audits[k].subject = b)
      Restores(b, n) == audits[n] = [subject |-> b, action |-> "restore"]
<1>2. ASSUME NEW b \in Owners
      PROVE  Last(b) <=>
                \E i \in 1..Len(audits) : Restricts(b, i) /\ LastUpTo(b, i, Len(audits))
  BY <1>1 DEF Restricts, LastUpTo
<1>3. ASSUME NEW b \in Owners, NEW n \in 1..Len(audits)
      PROVE  Before(b, n) <=> \E i \in 1..(n - 1) : Restricts(b, i) /\ LastUpTo(b, i, n - 1)
  BY DEF Restricts, LastUpTo
<1>4. Profile!AuditsTellTheStory <=>
         \A b \in Owners :
            /\ b \in restricted <=> Last(b)
            /\ \A n \in DOMAIN audits : Restores(b, n) => Before(b, n)
  BY DEF Profile!AuditsTellTheStory
<1>5. \A b \in Owners :
         Tells(b) <=> /\ b \in restricted <=> Last(b)
                      /\ \A n \in 1..Len(audits) : Restores(b, n) => Before(b, n)
  <2> HIDE DEF Last, Before
  <2> QED  BY <1>2, <1>3 DEF Tells
<1> HIDE DEF Last, Before, Restores
<1> QED  BY <1>1, <1>4, <1>5

LEMMA DecisionTells ==
    ASSUME Profile!TypeOK, \A b \in Owners : Tells(b), NEW a \in Owners,
           NEW action \in {"restrict", "restore"},
           audits' = Append(audits, [subject |-> a, action |-> action]),
           restricted' = IF action = "restrict" THEN restricted \cup {a} ELSE restricted \ {a},
           action = "restore" => a \in restricted
    PROVE  \A b \in Owners : Tells(b)'
<1> DEFINE n == Len(audits)
<1>1. /\ n \in Nat /\ Len(audits') = n + 1
      /\ \A i \in 1..n : audits'[i] = audits[i]
      /\ audits'[n + 1] = [subject |-> a, action |-> action]
  BY DEF Profile!TypeOK
<1> DEFINE rest(b, i) == audits'[i].subject = b /\ audits'[i].action = "restrict"
           last(b, i, m) == \A k \in (i + 1)..m : audits'[k].subject # b
<1>2. SUFFICES ASSUME NEW b \in Owners PROVE Tells(b)'
  OBVIOUS
<1>3. Tells(b)
  OBVIOUS
<1>4. \A i \in 1..n : rest(b, i) <=> Restricts(b, i)
  BY <1>1 DEF Restricts
<1>5. \A i \in 1..n, m \in 0..n : last(b, i, m) <=> LastUpTo(b, i, m)
  BY <1>1 DEF LastUpTo
<1>6. b \in restricted' <=> \E i \in 1..(n + 1) : rest(b, i) /\ last(b, i, n + 1)
  <2>1. \A i \in 1..n : last(b, i, n + 1) <=> LastUpTo(b, i, n) /\ a # b
    BY <1>1 DEF LastUpTo
  <2>2. last(b, n + 1, n + 1)
    BY <1>1
  <2>3. rest(b, n + 1) <=> a = b /\ action = "restrict"
    BY <1>1
  <2> HIDE DEF rest, last
  <2>4. CASE a = b
    BY <2>1, <2>2, <2>3, <2>4, <1>1
  <2>5. CASE a # b
    <3>1. b \in restricted <=> \E i \in 1..n : Restricts(b, i) /\ LastUpTo(b, i, n)
      BY <1>3 DEF Tells
    <3>2. (\E i \in 1..(n + 1) : rest(b, i) /\ last(b, i, n + 1))
             <=> \E i \in 1..n : Restricts(b, i) /\ LastUpTo(b, i, n)
      BY <2>1, <2>3, <2>5, <1>1, <1>4
    <3> QED  BY <2>5, <3>1, <3>2
  <2> QED  BY <2>4, <2>5
<1>7. ASSUME NEW m \in 1..(n + 1), audits'[m] = [subject |-> b, action |-> "restore"]
      PROVE  \E i \in 1..(m - 1) : rest(b, i) /\ last(b, i, m - 1)
  <2>1. CASE m = n + 1
    <3>1. a = b /\ b \in restricted
      BY <1>1, <1>7, <2>1
    <3>2. PICK i \in 1..n : Restricts(b, i) /\ LastUpTo(b, i, n)
      BY <3>1, <1>3 DEF Tells
    <3> QED  BY <3>2, <2>1, <1>1, <1>4, <1>5
  <2>2. CASE m # n + 1
    <3>1. m \in 1..n /\ m - 1 \in 0..n /\ audits[m] = [subject |-> b, action |-> "restore"]
      BY <2>2, <1>1, <1>7
    <3>2. PICK i \in 1..(m - 1) : Restricts(b, i) /\ LastUpTo(b, i, m - 1)
      BY <3>1, <1>3 DEF Tells
    <3> QED  BY <3>1, <3>2, <1>1, <1>4, <1>5
  <2> QED  BY <2>1, <2>2
<1>8. Len(audits') = n + 1
  BY <1>1
<1>9. (\E i \in 1..Len(audits) : Restricts(b, i) /\ LastUpTo(b, i, Len(audits)))'
         <=> \E i \in 1..(n + 1) : rest(b, i) /\ last(b, i, n + 1)
  BY <1>8 DEF Restricts, LastUpTo
<1>10. ASSUME NEW m \in 1..(n + 1), NEW i \in 1..(m - 1), rest(b, i), last(b, i, m - 1)
       PROVE  (Restricts(b, i) /\ LastUpTo(b, i, m - 1))'
  BY <1>10 DEF Restricts, LastUpTo
<1> HIDE DEF n, rest, last
<1> QED  BY <1>6, <1>7, <1>8, <1>9, <1>10 DEF Tells

LEMMA DecideKeeps ==
    ASSUME Profile!Settings, ProfileInv, NEW r \in Requests,
           Profile!RestrictProfile(r) \/ Profile!RestoreProfile(r)
    PROVE  ProfileInv'
<1>1. PICK a \in Owners : a = profileReq[r].account
  BY ReadyIs DEF Profile!RestrictProfile, Profile!RestoreProfile
<1>2. /\ profileReq[r] # None /\ profileReq[r].locked /\ Profile!Done(r)
      /\ UNCHANGED <<text, shown, media, featured, recommended, browse, edits, changes>>
  BY ReadyIs DEF Profile!RestrictProfile, Profile!RestoreProfile, Profile!profile
<1>3. CASE UNCHANGED <<restricted, audits>>
  BY <1>2, <1>3, FailKeeps DEF Profile!profile, Profile!staff
<1>4. ASSUME NEW action \in {"restrict", "restore"},
             audits' = Append(audits, [subject |-> a, action |-> action]),
             restricted' = IF action = "restrict" THEN restricted \cup {a} ELSE restricted \ {a},
             action = "restore" => a \in restricted
      PROVE  ProfileInv'
  <2>1. /\ audits \in Seq([subject : Owners, action : {"restrict", "restore"}])
        /\ restricted \subseteq Owners
    BY DEF ProfileInv, Profile!TypeOK
  <2>2. Profile!TypeOK'
    BY <1>2, <1>4, <2>1, OverIs DEF ProfileInv, Profile!TypeOK
  <2>3. RowsApart' /\ PicturesApart'
    <3>1. restricted' \subseteq restricted \cup {profileReq[r].account}
      BY <1>1, <1>4
    <3> QED  BY <1>2, <3>1, OverKeepsRows, OverKeepsPictures
  <2>4. Chosen'
    BY <1>2 DEF ProfileInv, Chosen
  <2>5. Profile!AuditsTellTheStory'
    <3>1. \A b \in Owners : Tells(b)
      BY TellsTheStory DEF ProfileInv
    <3>2. \A b \in Owners : Tells(b)'
      BY <3>1, <1>4, DecisionTells DEF ProfileInv
    <3>3. (Profile!TypeOK => (Profile!AuditsTellTheStory <=> \A b \in Owners : Tells(b)))'
      BY TellsTheStory, PTL
    <3> QED  BY <2>2, <3>2, <3>3
  <2> QED  BY <2>2, <2>3, <2>4, <2>5 DEF ProfileInv
<1>5. CASE Profile!RestrictProfile(r)
  <2>1. /\ restricted' = restricted \cup {a}
        /\ audits' = Append(audits, [subject |-> a, action |-> "restrict"])
    BY <1>1, <1>5 DEF Profile!RestrictProfile, Profile!Audit
  <2> QED  BY <2>1, <1>4
<1>6. CASE Profile!RestoreProfile(r)
  <2>1. CASE a \in restricted
    <3>1. /\ restricted' = restricted \ {a}
          /\ audits' = Append(audits, [subject |-> a, action |-> "restore"])
      BY <1>1, <1>6, <2>1 DEF Profile!RestoreProfile, Profile!Audit
    <3> QED  BY <2>1, <3>1, <1>4
  <2>2. CASE a \notin restricted
    BY <1>1, <1>3, <1>6, <2>2 DEF Profile!RestoreProfile, Profile!staff
  <2> QED  BY <2>1, <2>2
<1> QED  BY <1>5, <1>6

LEMMA BrowseKeeps ==
    ASSUME Profile!Settings, ProfileInv, Profile!LeaveOrEnterBrowse
    PROVE  ProfileInv'
<1>1. UNCHANGED <<text, shown, media, featured, recommended, restricted, audits, edits,
                  profileReq>>
  BY DEF Profile!LeaveOrEnterBrowse, Profile!profile, Profile!staff
<1>2. Profile!TypeOK'
  BY <1>1 DEF ProfileInv, Profile!TypeOK, Profile!LeaveOrEnterBrowse, Profile!Settings
<1>3. RowsApart' /\ PicturesApart' /\ Chosen' /\ Profile!AuditsTellTheStory'
  BY <1>1 DEF ProfileInv, RowsApart, PicturesApart, Wants, Chosen, Profile!AuditsTellTheStory
<1> QED  BY <1>2, <1>3 DEF ProfileInv
LEMMA NoEdit == ASSUME Profile!Settings PROVE 0 \in 0..MaxEdits
BY DEF Profile!Settings

LEMMA CallIs ==
    ASSUME Profile!Settings, NEW a \in Owners, NEW op \in
              {"save", "picture", "remove picture", "feature", "recommend", "unrecommend",
               "restrict", "restore"}
    PROVE  /\ Profile!Call(op, a) \in Profile!Request /\ ~ Profile!Call(op, a).locked
           /\ Profile!Call(op, a).op = op
<1>1. <<>> \in Profile!Selections
  BY SelectionsAre
<1>2. 0 \in 0..MaxEdits
  BY NoEdit
<1> QED  BY <1>1, <1>2 DEF Profile!Call, Profile!Request

LEMMA AskedKeeps ==
    ASSUME Profile!Settings, ProfileInv, NEW r \in Requests, NEW a \in Owners,
           \/ Profile!AskSaveProfile(r, a) \/ Profile!AcceptPicture(r, a)
           \/ Profile!AskRemovePicture(r, a) \/ Profile!AskSaveFeatured(r, a)
           \/ Profile!AskAddRecommendation(r, a) \/ Profile!AskRemoveRecommendation(r, a)
           \/ Profile!AskDecide(r, a)
    PROVE  ProfileInv'
<1>1. ASSUME NEW op \in {"save", "picture"}, edits < MaxEdits, edits' = edits + 1,
             Profile!Start(r, [Profile!Call(op, a) EXCEPT !.edit = edits + 1]),
             UNCHANGED <<Profile!profile, Profile!staff, browse, changes>>
      PROVE  ProfileInv'
  <2> DEFINE c == Profile!Call(op, a)
             new == [c EXCEPT !.edit = edits + 1]
  <2>1. edits + 1 \in 0..MaxEdits
    BY <1>1 DEF ProfileInv, Profile!TypeOK, Profile!Settings
  <2>2. c \in Profile!Request /\ ~ c.locked
    BY CallIs
  <2> HIDE DEF c
  <2>3. new \in Profile!Request /\ ~ new.locked /\ new.edit = edits + 1
    BY <2>1, <2>2 DEF Profile!Request
  <2>4. Profile!Start(r, new)
    BY <1>1 DEF c
  <2> HIDE DEF new
  <2> QED  BY <2>3, <2>4, <1>1, StartedKeeps
<1>2. ASSUME NEW new \in Profile!Request, ~ new.locked, new.op # "picture", Profile!Start(r, new),
             UNCHANGED <<Profile!profile, Profile!staff, browse, edits, changes>>
      PROVE  ProfileInv'
  <2>1. UNCHANGED edits /\ UNCHANGED <<Profile!profile, Profile!staff, browse, changes>>
    BY <1>2
  <2> QED  BY <2>1, <1>2, StartedKeeps
<1>3. CASE Profile!AskSaveProfile(r, a)
  BY <1>1, <1>3 DEF Profile!AskSaveProfile
<1>4. CASE Profile!AcceptPicture(r, a)
  BY <1>1, <1>4 DEF Profile!AcceptPicture
<1>5. CASE Profile!AskRemovePicture(r, a)
  BY <1>2, <1>5, CallIs DEF Profile!AskRemovePicture
<1>6. CASE Profile!AskSaveFeatured(r, a)
  <2>1. PICK choice \in Profile!Selections :
          Profile!Start(r, [Profile!Call("feature", a) EXCEPT !.works = choice])
    BY <1>6 DEF Profile!AskSaveFeatured
  <2> DEFINE c == Profile!Call("feature", a)
             new == [c EXCEPT !.works = choice]
  <2>2. c \in Profile!Request /\ ~ c.locked /\ c.op = "feature"
    BY CallIs
  <2> HIDE DEF c
  <2>3. new \in Profile!Request /\ ~ new.locked /\ new.op = "feature"
    BY <2>2 DEF Profile!Request
  <2>4. Profile!Start(r, new)
    BY <2>1 DEF c
  <2> HIDE DEF new
  <2> QED  BY <1>2, <1>6, <2>3, <2>4 DEF Profile!AskSaveFeatured
<1>7. ASSUME NEW op \in {"recommend", "unrecommend"}, NEW w \in Works,
             Profile!Start(r, [Profile!Call(op, a) EXCEPT !.work = w]),
             UNCHANGED <<Profile!profile, Profile!staff, browse, edits, changes>>
      PROVE  ProfileInv'
  <2> DEFINE c == Profile!Call(op, a)
             new == [c EXCEPT !.work = w]
  <2>1. c \in Profile!Request /\ ~ c.locked /\ c.op = op
    BY CallIs
  <2> HIDE DEF c
  <2>2. new \in Profile!Request /\ ~ new.locked /\ new.op = op
    BY <2>1 DEF Profile!Request
  <2>3. Profile!Start(r, new)
    BY <1>7 DEF c
  <2> HIDE DEF new
  <2> QED  BY <1>2, <1>7, <2>2, <2>3
<1>8. CASE Profile!AskAddRecommendation(r, a) \/ Profile!AskRemoveRecommendation(r, a)
  BY <1>7, <1>8 DEF Profile!AskAddRecommendation, Profile!AskRemoveRecommendation
<1>9. CASE Profile!AskDecide(r, a)
  BY <1>2, <1>9, CallIs DEF Profile!AskDecide
<1> QED  BY <1>3, <1>4, <1>5, <1>6, <1>8, <1>9

LEMMA ProfileStep ==
    ASSUME Profile!Settings PROVE ProfileInv /\ [Profile!Next]_Profile!vars => ProfileInv'
<1> SUFFICES ASSUME ProfileInv, [Profile!Next]_Profile!vars PROVE ProfileInv'
  OBVIOUS
<1>1. CASE UNCHANGED Profile!vars
  <2>1. UNCHANGED <<text, shown, media, featured, recommended, restricted, audits, browse,
                    edits, changes, profileReq>>
    BY <1>1 DEF Profile!vars, Profile!profile, Profile!staff
  <2> QED
    BY <2>1 DEF ProfileInv, Profile!TypeOK, RowsApart, PicturesApart, Wants, Chosen,
       Profile!AuditsTellTheStory
<1>2. CASE \E r \in Requests : Profile!Fail(r)
  BY <1>2, FailKeeps DEF Profile!Fail
<1> QED
  BY <1>1, <1>2, AskedKeeps, LockKeeps, SaveProfileKeeps, PictureKeeps, FeatureKeeps,
     RecommendKeeps, DecideKeeps, BrowseKeeps DEF Profile!Next

LEMMA ProfileAlways == ASSUME Profile!Settings PROVE Profile!Spec => []ProfileInv
BY ProfileInit, ProfileStep, PTL DEF Profile!Spec

\* The record of decisions tells how each profile stands, by two of the staff at once either.
THEOREM AuditsTell == ASSUME Profile!Settings PROVE Profile!Spec => []AuditsTellTheStory
<1>1. ProfileInv => AuditsTellTheStory
  BY DEF ProfileInv, AuditsTellTheStory
<1> QED  BY <1>1, ProfileAlways, PTL

\* Requests at the same time leave no picture on record but the one shown, no more
\* recommendations than there is room for, and only what the owner may choose.
THEOREM InBounds == ASSUME Profile!Settings PROVE Profile!Spec => []Profile!ProfilesStayInBounds
<1>1. ProfileInv => Profile!ProfilesStayInBounds
  BY SameNotions DEF ProfileInv, PicturesApart, Chosen, Profile!ProfilesStayInBounds
<1> QED  BY <1>1, ProfileAlways, PTL

\* A restricted profile does not change, whatever its owner had begun before.
THEOREM RestrictedStay == ASSUME Profile!Settings PROVE Profile!Spec => Profile!RestrictedStays
<1> DEFINE Step == \A a \in restricted :
              /\ text'[a] = text[a] /\ shown'[a] = shown[a] /\ media'[a] = media[a]
              /\ featured'[a] = featured[a] /\ recommended'[a] = recommended[a]
<1>1. ProfileInv /\ [Profile!Next]_Profile!vars => [Step]_Profile!vars
  <2> SUFFICES ASSUME ProfileInv, Profile!Next, NEW a \in restricted
               PROVE  /\ text'[a] = text[a] /\ shown'[a] = shown[a] /\ media'[a] = media[a]
                      /\ featured'[a] = featured[a] /\ recommended'[a] = recommended[a]
    OBVIOUS
  <2>1. CASE UNCHANGED Profile!profile
    BY <2>1 DEF Profile!profile
  <2>2. ASSUME NEW r \in Requests, NEW op, op \notin {"restrict", "restore"}, Profile!Ready(r, op)
        PROVE  profileReq[r].account # a
    BY <2>2, ReadyIs
  <2>3. /\ text \in [Owners -> 0..MaxEdits] /\ shown \in [Owners -> 0..MaxEdits]
        /\ media \in [Owners -> SUBSET (1..MaxEdits)]
        /\ featured \in [Owners -> Profile!Selections]
        /\ recommended \in [Owners -> SUBSET Works] /\ a \in Owners
    BY DEF ProfileInv, Profile!TypeOK
  <2>4. ASSUME NEW r \in Requests,
               \/ Profile!SaveProfile(r) \/ Profile!SetPicture(r) \/ Profile!RemovePicture(r)
               \/ Profile!SaveFeatured(r) \/ Profile!AddRecommendation(r)
               \/ Profile!RemoveRecommendation(r)
        PROVE  /\ text'[a] = text[a] /\ shown'[a] = shown[a] /\ media'[a] = media[a]
               /\ featured'[a] = featured[a] /\ recommended'[a] = recommended[a]
    <3>1. profileReq[r].account # a
      BY <2>2, <2>4 DEF Profile!SaveProfile, Profile!SetPicture, Profile!RemovePicture,
         Profile!SaveFeatured, Profile!AddRecommendation, Profile!RemoveRecommendation
    <3>2. CASE Profile!SaveProfile(r)
      BY <3>1, <3>2, <2>3 DEF Profile!SaveProfile
    <3>3. CASE Profile!SetPicture(r) \/ Profile!RemovePicture(r)
      BY <3>1, <3>3, <2>3 DEF Profile!SetPicture, Profile!RemovePicture, Profile!ReplacePicture
    <3>4. CASE Profile!SaveFeatured(r)
      BY <3>1, <3>4, <2>3 DEF Profile!SaveFeatured
    <3>5. CASE Profile!AddRecommendation(r) \/ Profile!RemoveRecommendation(r)
      BY <3>1, <3>5, <2>3 DEF Profile!AddRecommendation, Profile!RemoveRecommendation
    <3> QED  BY <2>4, <3>2, <3>3, <3>4, <3>5
  <2> QED
    BY <2>1, <2>4 DEF Profile!Next, Profile!AskSaveProfile, Profile!AcceptPicture,
       Profile!AskRemovePicture, Profile!AskSaveFeatured, Profile!AskAddRecommendation,
       Profile!AskRemoveRecommendation, Profile!AskDecide, Profile!Lock, Profile!RestrictProfile,
       Profile!RestoreProfile, Profile!Fail, Profile!LeaveOrEnterBrowse
<1> QED  BY <1>1, ProfileAlways, PTL DEF Profile!Spec, Profile!RestrictedStays

-----------------------------------------------------------------------------
(* Connections.                                                              *)

ConnectTypes ==
    /\ ask \in [Asks -> Connect!Ask \cup {None}]
    /\ said \in [Asks -> SUBSET (Users \X {"approved", "denied"})]
    /\ app \in [Apps -> Connect!App \cup {None}]
    /\ call \in [Requests -> Connect!Call \cup {None}]
    /\ held \in [Apps -> 0..MaxTokens] /\ minted \in 0..MaxTokens

\* What a request says of its answer is what its creator said.
AnswerKept(q) ==
    /\ \A x, y \in said[q] : x = y
    /\ ask[q] # None =>
          said[q] = IF ask[q].answer = "none" THEN {} ELSE {<<ask[q].by, ask[q].answer>>}

FromAnAnswer(i) ==
    app[i] # None =>
        /\ said[app[i].from] = {<<app[i].owner, "approved">>}
        /\ ask[app[i].from] # None => ask[app[i].from].redeemed
        /\ \A j \in Apps : app[j] # None /\ i # j => app[j].from # app[i].from

AnswerInv ==
    /\ ConnectTypes
    /\ \A q \in Asks : AnswerKept(q)
    /\ \A i \in Apps : FromAnAnswer(i)

LEMMA ConnectTypesInit == ASSUME Connect!Settings PROVE Connect!Init => AnswerInv
BY DEF Connect!Settings, Connect!Init, AnswerInv, ConnectTypes, AnswerKept, FromAnAnswer

\* New asks.
LEMMA NewAskKeeps ==
    ASSUME Connect!Settings, AnswerInv, NEW q \in Asks, NEW kind \in {"device", "browser"},
           Connect!StartAs(q, kind)
    PROVE  AnswerInv'
<1> DEFINE new == Connect!NewAsk(kind)
<1>1. new \in Connect!Ask /\ new.answer = "none"
  BY DEF Connect!NewAsk, Connect!Ask, Connect!Settings
<1>2. new # None
  BY <1>1 DEF Connect!Settings
<1>3. \A p \in Asks : ask'[p] = IF p = q THEN new
                                ELSE IF ask[p] # None /\ ask[p].kind = kind /\ ask[p].expired
                                     THEN None ELSE ask[p]
  BY DEF Connect!StartAs, Connect!WithoutExpired
<1>4. ask' = [p \in Asks |-> ask'[p]]
  BY DEF Connect!StartAs, Connect!WithoutExpired
<1>5. ask' \in [Asks -> Connect!Ask \cup {None}]
  BY <1>1, <1>3, <1>4 DEF AnswerInv, ConnectTypes
<1>6. UNCHANGED <<said, app, call, held, minted>> /\ said[q] = {}
  BY DEF Connect!StartAs, Connect!connected
<1>7. ConnectTypes'
  BY <1>5, <1>6 DEF AnswerInv, ConnectTypes
<1> HIDE DEF new
<1>8. ASSUME NEW p \in Asks PROVE AnswerKept(p)'
  BY <1>1, <1>3, <1>6 DEF AnswerInv, AnswerKept
<1>9. ASSUME NEW i \in Apps PROVE FromAnAnswer(i)'
  <2> SUFFICES ASSUME app[i] # None PROVE FromAnAnswer(i)'
    BY <1>6 DEF FromAnAnswer
  <2>1. app[i].from \in Asks /\ app[i].from # q
    BY <1>6 DEF AnswerInv, FromAnAnswer, ConnectTypes, Connect!App
  <2> QED  BY <2>1, <1>3, <1>6 DEF AnswerInv, FromAnAnswer
<1> QED  BY <1>7, <1>8, <1>9 DEF AnswerInv

LEMMA ExpireKeeps ==
    ASSUME Connect!Settings, AnswerInv, NEW q \in Asks, Connect!RequestExpires(q)
    PROVE  AnswerInv'
<1> DEFINE new == [ask[q] EXCEPT !.expired = TRUE]
<1>1. ask[q] \in Connect!Ask
  BY DEF AnswerInv, ConnectTypes, Connect!RequestExpires
<1>2. /\ new \in Connect!Ask /\ new.answer = ask[q].answer /\ new.by = ask[q].by
      /\ new.redeemed = ask[q].redeemed
  BY <1>1 DEF Connect!Ask
<1>3. ask' = [ask EXCEPT ![q] = new]
  BY DEF Connect!RequestExpires
<1>4. UNCHANGED <<said, app, call, held, minted>> /\ ask[q] # None
  BY DEF Connect!RequestExpires, Connect!connected
<1> HIDE DEF new
<1>5. /\ ask' \in [Asks -> Connect!Ask \cup {None}]
      /\ ask'[q] = new
      /\ \A p \in Asks \ {q} : ask'[p] = ask[p]
  BY <1>2, <1>3 DEF AnswerInv, ConnectTypes
<1>6. ConnectTypes'
  BY <1>5, <1>4 DEF AnswerInv, ConnectTypes
<1>7. ASSUME NEW p \in Asks PROVE AnswerKept(p)'
  BY <1>2, <1>4, <1>5 DEF AnswerInv, AnswerKept
<1>8. ASSUME NEW i \in Apps PROVE FromAnAnswer(i)'
  BY <1>2, <1>4, <1>5 DEF AnswerInv, FromAnAnswer, ConnectTypes, Connect!App
<1> QED  BY <1>6, <1>7, <1>8 DEF AnswerInv

LEMMA AnswerKeeps ==
    ASSUME Connect!Settings, AnswerInv, NEW u \in Users, NEW q \in Asks, NEW kind,
           NEW answer \in {"approved", "denied"}, NEW granted \in SUBSET Permissions,
           Connect!Answer(u, q, kind, answer, granted)
    PROVE  AnswerInv'
<1> DEFINE new == [ask[q] EXCEPT !.by = u, !.answer = answer, !.granted = granted]
<1>1. ask[q] \in Connect!Ask /\ ask[q].answer = "none" /\ ~ ask[q].redeemed
  BY DEF AnswerInv, ConnectTypes, Connect!Answer, Connect!Open
<1>2. new \in Connect!Ask /\ new.answer = answer /\ new.by = u
  BY <1>1 DEF Connect!Ask
<1>3. ask' = [ask EXCEPT ![q] = new]
  BY DEF Connect!Answer
<1>4. UNCHANGED <<app, call, held, minted>> /\ ask[q] # None
  BY DEF Connect!Answer, Connect!connected, Connect!Open
<1> HIDE DEF new
<1>5. /\ ask' \in [Asks -> Connect!Ask \cup {None}]
      /\ ask'[q] = new
      /\ \A p \in Asks \ {q} : ask'[p] = ask[p]
  BY <1>2, <1>3 DEF AnswerInv, ConnectTypes
<1>6. said' = [said EXCEPT ![q] = {<<u, answer>>}]
  BY <1>1, <1>4 DEF AnswerInv, AnswerKept, Connect!Answer
<1>7. said' \in [Asks -> SUBSET (Users \X {"approved", "denied"})]
  BY <1>6 DEF AnswerInv, ConnectTypes
<1>8. ConnectTypes'
  BY <1>5, <1>4, <1>7 DEF AnswerInv, ConnectTypes
<1>9. \A p \in Asks : said'[p] = IF p = q THEN {<<u, answer>>} ELSE said[p]
  BY <1>6 DEF AnswerInv, ConnectTypes
<1>10. ASSUME NEW p \in Asks PROVE AnswerKept(p)'
  <2>1. CASE p = q
    BY <2>1, <1>2, <1>5, <1>9 DEF AnswerKept
  <2>2. CASE p # q
    BY <2>2, <1>5, <1>9 DEF AnswerInv, AnswerKept
  <2> QED  BY <2>1, <2>2
<1>11. ASSUME NEW i \in Apps PROVE FromAnAnswer(i)'
  <2> SUFFICES ASSUME app[i] # None PROVE FromAnAnswer(i)'
    BY <1>4 DEF FromAnAnswer
  <2>1. app[i].from \in Asks /\ app[i].from # q
    BY <1>1, <1>4 DEF AnswerInv, FromAnAnswer, ConnectTypes, Connect!App
  <2> QED  BY <2>1, <1>4, <1>5, <1>9 DEF AnswerInv, FromAnAnswer
<1> QED  BY <1>8, <1>10, <1>11 DEF AnswerInv

\* A poll or an exchange that only notes itself.
LEMMA NotedKeeps ==
    ASSUME Connect!Settings, AnswerInv, NEW q \in Asks, NEW new \in Connect!Ask,
           ask[q] # None, ask' = [ask EXCEPT ![q] = new],
           new.answer = ask[q].answer, new.by = ask[q].by, new.redeemed = ask[q].redeemed,
           UNCHANGED <<said, app, call, held, minted>>
    PROVE  AnswerInv'
<1>1. /\ ask' \in [Asks -> Connect!Ask \cup {None}]
      /\ ask'[q] = new
      /\ \A p \in Asks \ {q} : ask'[p] = ask[p]
  BY DEF AnswerInv, ConnectTypes
<1>2. ConnectTypes'
  BY <1>1 DEF AnswerInv, ConnectTypes
<1>3. ASSUME NEW p \in Asks PROVE AnswerKept(p)'
  BY <1>1 DEF AnswerInv, AnswerKept
<1>4. ASSUME NEW i \in Apps PROVE FromAnAnswer(i)'
  BY <1>1 DEF AnswerInv, FromAnAnswer, ConnectTypes, Connect!App
<1> QED  BY <1>2, <1>3, <1>4 DEF AnswerInv

\* An app is made, and its program has the token or its answer is lost.
Made(i, lost) ==
    /\ app[i] = None /\ app'[i] # None
    /\ app'[i].token = minted + 1 /\ app'[i].live /\ app'[i].end = None
    /\ \A j \in Apps \ {i} : app'[j] = app[j]
    /\ \A j \in Apps : held'[j] = IF j = i /\ ~ lost THEN minted + 1 ELSE held[j]
    /\ access' = access \cup {i}
    /\ doubled' = IF lost THEN doubled \cup {i} ELSE doubled

LEMMA IssueKeeps ==
    ASSUME Connect!Settings, AnswerInv, NEW q \in Asks, NEW lost, NEW new \in Connect!Ask,
           ask[q] # None, ask[q].answer = "approved", ~ ask[q].redeemed,
           ask' = [ask EXCEPT ![q] = new],
           new.answer = "approved", new.by = ask[q].by, new.redeemed,
           Connect!IssueCredentials(q, lost), UNCHANGED <<said, call>>
    PROVE  AnswerInv' /\ \E i \in Apps : Made(i, lost)
<1>1. /\ ask' \in [Asks -> Connect!Ask \cup {None}]
      /\ ask'[q] = new
      /\ \A p \in Asks \ {q} : ask'[p] = ask[p]
  BY DEF AnswerInv, ConnectTypes
<1>2. PICK i \in Apps :
        /\ app[i] = None
        /\ app' = Connect!InsertConnectedApp(i, q)
        /\ held' = IF lost THEN held ELSE [held EXCEPT ![i] = minted + 1]
        /\ access' = access \cup {i}
        /\ doubled' = IF lost THEN doubled \cup {i} ELSE doubled
  BY DEF Connect!IssueCredentials
<1>3. said[q] = {<<ask[q].by, "approved">>} /\ ask[q] \in Connect!Ask
  BY DEF AnswerInv, AnswerKept, ConnectTypes
<1>4. ask[q].by \in Users /\ ask[q].granted \in SUBSET Permissions
  <2>1. <<ask[q].by, "approved">> \in Users \X {"approved", "denied"}
    BY <1>3 DEF AnswerInv, ConnectTypes
  <2> QED  BY <2>1, <1>3 DEF Connect!Ask
<1>5. minted + 1 \in 1..MaxTokens /\ minted' = minted + 1
  BY DEF AnswerInv, ConnectTypes, Connect!Settings, Connect!IssueCredentials
<1> DEFINE fresh == [from |-> q, owner |-> ask[q].by, permissions |-> ask[q].granted,
                    token |-> minted + 1, live |-> TRUE, idle |-> FALSE, end |-> None]
<1>6. /\ fresh \in Connect!App /\ fresh.from = q /\ fresh.owner = ask[q].by
      /\ fresh.token = minted + 1 /\ fresh.live /\ fresh.end = None
  BY <1>4, <1>5 DEF Connect!App
<1>7. app' = [app EXCEPT ![i] = fresh]
  BY <1>2 DEF Connect!InsertConnectedApp
<1> HIDE DEF fresh
<1>8. /\ app' \in [Apps -> Connect!App \cup {None}]
      /\ app'[i] = fresh
      /\ \A j \in Apps \ {i} : app'[j] = app[j]
  BY <1>6, <1>7 DEF AnswerInv, ConnectTypes
<1>9. held' \in [Apps -> 0..MaxTokens]
  BY <1>2, <1>5 DEF AnswerInv, ConnectTypes
<1>10. ConnectTypes'
  BY <1>1, <1>5, <1>8, <1>9 DEF AnswerInv, ConnectTypes, Connect!Settings
<1>11. ASSUME NEW p \in Asks PROVE AnswerKept(p)'
  BY <1>1, <1>3 DEF AnswerInv, AnswerKept
<1>12. \A j \in Apps \ {i} : app'[j] # None => app'[j].from \in Asks /\ app'[j].from # q
  BY <1>3, <1>8 DEF AnswerInv, FromAnAnswer, ConnectTypes, Connect!App
<1>13. ASSUME NEW j \in Apps PROVE FromAnAnswer(j)'
  <2>1. CASE j = i
    BY <2>1, <1>1, <1>3, <1>6, <1>8, <1>12 DEF FromAnAnswer
  <2>2. CASE j # i
    BY <2>2, <1>1, <1>6, <1>8, <1>12 DEF AnswerInv, FromAnAnswer
  <2> QED  BY <2>1, <2>2
<1>14. \A j \in Apps : held'[j] = IF j = i /\ ~ lost THEN minted + 1 ELSE held[j]
  BY <1>2 DEF AnswerInv, ConnectTypes
<1>15. fresh # None
  BY <1>6 DEF Connect!Settings
<1>16. Made(i, lost)
  BY <1>2, <1>6, <1>8, <1>14, <1>15 DEF Made
<1> QED  BY <1>10, <1>11, <1>13, <1>16 DEF AnswerInv

-----------------------------------------------------------------------------
(* The steps of the apps.                                                    *)

\* They leave what is asked alone, make no app, and change none's origin.
Stays == \A i \in Apps : /\ (app'[i] = None) = (app[i] = None)
                         /\ app[i] # None => app'[i].from = app[i].from
                                /\ app'[i].owner = app[i].owner

LEMMA AppStays ==
    ASSUME Connect!Settings, AnswerInv, NEW i \in Apps, app[i] # None, NEW new \in Connect!App,
           new.from = app[i].from, new.owner = app[i].owner, app' = [app EXCEPT ![i] = new]
    PROVE  /\ app' \in [Apps -> Connect!App \cup {None}] /\ Stays
           /\ app'[i] = new /\ \A j \in Apps \ {i} : app'[j] = app[j]
<1>1. /\ app' \in [Apps -> Connect!App \cup {None}]
      /\ app'[i] = new /\ \A j \in Apps \ {i} : app'[j] = app[j]
  BY DEF AnswerInv, ConnectTypes
<1>2. new # None
  BY DEF Connect!Settings
<1> QED  BY <1>1, <1>2 DEF Stays

LEMMA RevokeStays ==
    ASSUME Connect!Settings, AnswerInv, NEW i \in Apps, NEW end \in Connect!Ends,
           Connect!RevokeConnectedAppByID(i, end)
    PROVE  app' \in [Apps -> Connect!App \cup {None}] /\ Stays
<1>1. CASE ~ Connect!Live(i)
  BY <1>1 DEF Connect!RevokeConnectedAppByID, AnswerInv, ConnectTypes, Stays
<1>2. CASE Connect!Live(i)
  <2> DEFINE new == [app[i] EXCEPT !.live = FALSE, !.end = end]
  <2>1. app[i] \in Connect!App /\ app[i] # None
    BY <1>2 DEF Connect!Live, AnswerInv, ConnectTypes
  <2>2. new \in Connect!App /\ new.from = app[i].from /\ new.owner = app[i].owner
    BY <2>1 DEF Connect!App
  <2>3. app' = [app EXCEPT ![i] = new]
    BY <1>2 DEF Connect!RevokeConnectedAppByID
  <2> HIDE DEF new
  <2> QED  BY <2>1, <2>2, <2>3, AppStays
<1> QED  BY <1>1, <1>2

LEMMA StaysKeeps ==
    ASSUME AnswerInv, ConnectTypes', Stays, UNCHANGED <<ask, said>>
    PROVE  AnswerInv'
<1>1. ASSUME NEW q \in Asks PROVE AnswerKept(q)'
  BY DEF AnswerInv, AnswerKept
<1>2. ASSUME NEW i \in Apps PROVE FromAnAnswer(i)'
  BY DEF AnswerInv, FromAnAnswer, Stays
<1> QED  BY <1>1, <1>2 DEF AnswerInv

-----------------------------------------------------------------------------
(* Tokens.                                                                   *)

\* A token the app has, or had.
Known(i, t) == t = app[i].token \/ <<t, i>> \in history

RefreshOf(c, i) == call[c] # None /\ call[c].op = "refresh" /\ call[c].app = i

CallKnown(c) ==
    call[c] # None =>
        /\ call[c].op = "refresh" =>
              app[call[c].app] # None /\ Known(call[c].app, call[c].token)
        /\ call[c].locked =>
              /\ call[c].op = "refresh" /\ Connect!Live(call[c].app)
              /\ call[c].token = app[call[c].app].token
              /\ \A d \in Requests :
                     call[d] # None /\ call[d].locked /\ call[d].app = call[c].app
                                     => d = c

\* A program that was careful has the token, and one refresh with it on its way.
Careful(i) ==
    /\ app[i].end # "reuse" /\ (Connect!Live(i) => held[i] = app[i].token)
    /\ \A c \in Requests : RefreshOf(c, i) =>
          call[c].token = held[i] /\ \A d \in Requests : RefreshOf(d, i) => c = d

TokensKnown(i) ==
    /\ held[i] # 0 => app[i] # None /\ Known(i, held[i])
    /\ i \in access => Connect!Live(i)
    /\ i \in doubled \cup reused => app[i] # None
    /\ app[i] # None =>
          /\ i \notin doubled => Careful(i)
          /\ i \in reused => ~ Connect!Live(i)
          /\ ~ Connect!Live(i) => app[i].end # None

ConnectInv ==
    /\ AnswerInv
    /\ \A c \in Requests : CallKnown(c)
    /\ \A i \in Apps : TokensKnown(i)

LEMMA ConnectInit == ASSUME Connect!Settings PROVE Connect!Init => ConnectInv
<1> SUFFICES ASSUME Connect!Init PROVE ConnectInv
  OBVIOUS
<1>1. \A c \in Requests : CallKnown(c)
  BY DEF Connect!Init, CallKnown
<1>2. \A i \in Apps : TokensKnown(i)
  BY DEF Connect!Init, TokensKnown
<1> QED  BY <1>1, <1>2, ConnectTypesInit DEF ConnectInv

\* A step that makes no token and ends no app, and in which calls end or change no token.
LEMMA NoTokenKeeps ==
    ASSUME ConnectInv, AnswerInv',
           \A i \in Apps :
              /\ (app'[i] = None) = (app[i] = None)
              /\ app[i] # None => app'[i].token = app[i].token /\ app'[i].live = app[i].live
                                  /\ app'[i].end = app[i].end,
           UNCHANGED <<held, history, doubled, reused>>, access' \subseteq access,
           \A c \in Requests : call'[c] # call[c] /\ call'[c] # None =>
               ~ call'[c].locked /\ call'[c].op # "refresh"
    PROVE  ConnectInv'
<1>1. \A i \in Apps : Connect!Live(i)' = Connect!Live(i)
  BY DEF Connect!Live, ConnectInv, AnswerInv, ConnectTypes, Connect!App
<1>2. ASSUME NEW i \in Apps, app[i] # None, NEW t PROVE Known(i, t)' = Known(i, t)
  BY <1>2 DEF Known
<1>3. ASSUME NEW c \in Requests, NEW i, RefreshOf(c, i)'
      PROVE  RefreshOf(c, i) /\ call'[c].token = call[c].token
  BY <1>3 DEF RefreshOf
<1>4. ASSUME NEW c \in Requests, call'[c] # None, call'[c].locked
      PROVE  call'[c] = call[c]
  BY <1>4
<1>5. ASSUME NEW c \in Requests PROVE CallKnown(c)'
  <2> SUFFICES ASSUME call'[c] # None PROVE CallKnown(c)'
    BY DEF CallKnown
  <2>1. CASE call'[c] = call[c]
    <3>1. call[c] # None /\ call[c].app \in Apps /\ CallKnown(c)
      BY <2>1 DEF ConnectInv, AnswerInv, ConnectTypes, Connect!Call
    <3>2. call[c].op = "refresh" =>
             app'[call[c].app] # None /\ Known(call[c].app, call[c].token)'
      BY <3>1, <2>1, <1>2 DEF CallKnown, Known
    <3>3. ASSUME call[c].locked
          PROVE  /\ call[c].op = "refresh" /\ Connect!Live(call[c].app)'
                 /\ call[c].token = app'[call[c].app].token
      <4>1. /\ call[c].op = "refresh" /\ Connect!Live(call[c].app)
            /\ app[call[c].app] # None /\ call[c].token = app[call[c].app].token
        BY <3>1, <3>3 DEF CallKnown
      <4> QED  BY <4>1, <3>1, <2>1, <1>1
    <3>4. ASSUME call[c].locked, NEW d \in Requests, call'[d] # None, call'[d].locked,
                 call'[d].app = call[c].app
          PROVE  d = c
      BY <3>1, <3>4, <1>4 DEF CallKnown
    <3> QED  BY <2>1, <3>2, <3>3, <3>4 DEF CallKnown
  <2>2. CASE call'[c] # call[c]
    BY <2>2 DEF CallKnown
  <2> QED  BY <2>1, <2>2
<1>6. ASSUME NEW i \in Apps PROVE TokensKnown(i)'
  <2>1. TokensKnown(i)
    BY DEF ConnectInv
  <2>2. held[i] # 0 => app'[i] # None /\ Known(i, held[i])'
    BY <2>1, <1>2 DEF TokensKnown, Known
  <2>3. app[i] # None /\ i \notin doubled => Careful(i)'
    <3> SUFFICES ASSUME app[i] # None, i \notin doubled PROVE Careful(i)'
      OBVIOUS
    <3>1. Careful(i)
      BY <2>1 DEF TokensKnown
    <3> QED  BY <3>1, <1>1, <1>3 DEF Careful
  <2> QED  BY <2>1, <2>2, <2>3, <1>1 DEF TokensKnown
<1> QED  BY <1>5, <1>6 DEF ConnectInv

\* An app that ends: nobody has its row, and only one that was not careful ends for a reuse.
LEMMA EndKeeps ==
    ASSUME Connect!Settings, ConnectInv, AnswerInv',
           NEW i \in Apps, NEW end \in Connect!Ends, app[i] # None,
           Connect!RevokeConnectedAppByID(i, end), Connect!RowFree(i),
           Connect!Live(i) /\ end = "reuse" => i \in doubled,
           UNCHANGED <<held, history, doubled>>, reused' \subseteq reused \cup {i},
           reused \subseteq reused',
           \A c \in Requests : call'[c] # call[c] => call'[c] = None
    PROVE  ConnectInv'
<1>1. /\ ~ Connect!Live(i)' /\ i \notin access' /\ access' \subseteq access /\ app'[i] # None
      /\ app'[i].end # None
      /\ app'[i].token = app[i].token
      /\ i \notin doubled => app'[i].end # "reuse"
  <2>1. app[i] \in Connect!App
    BY DEF ConnectInv, AnswerInv, ConnectTypes
  <2>2. CASE ~ Connect!Live(i)
    BY <2>2 DEF ConnectInv, TokensKnown, Careful, Connect!RevokeConnectedAppByID, Connect!Live
  <2>3. CASE Connect!Live(i)
    <3> DEFINE new == [app[i] EXCEPT !.live = FALSE, !.end = end]
    <3>1. new \in Connect!App /\ ~ new.live /\ new.end = end /\ new.token = app[i].token
      BY <2>1 DEF Connect!App
    <3>2. app' = [app EXCEPT ![i] = new] /\ access' = access \ {i}
      BY <2>3 DEF Connect!RevokeConnectedAppByID
    <3> HIDE DEF new
    <3>3. app'[i] = new
      BY <3>2 DEF ConnectInv, AnswerInv, ConnectTypes
    <3>4. new # None /\ end # None
      BY <3>1 DEF Connect!Settings
    <3>5. i \notin doubled => end # "reuse"
      BY <2>3
    <3> QED  BY <3>1, <3>2, <3>3, <3>4, <3>5 DEF Connect!Live
  <2> QED  BY <2>2, <2>3
<1>2. \A j \in Apps \ {i} : app'[j] = app[j]
  BY DEF Connect!RevokeConnectedAppByID, ConnectInv, AnswerInv, ConnectTypes
<1>3. \A j \in Apps \ {i} : Connect!Live(j)' = Connect!Live(j)
  BY <1>2 DEF Connect!Live
<1>4. ASSUME NEW j \in Apps, app[j] # None, NEW t PROVE Known(j, t)' = Known(j, t)
  BY <1>1, <1>2, <1>4 DEF Known
<1>5. ASSUME NEW c \in Requests, NEW j, RefreshOf(c, j)'
      PROVE  RefreshOf(c, j) /\ call'[c].token = call[c].token
  BY <1>5 DEF RefreshOf
<1>6. ASSUME NEW c \in Requests PROVE CallKnown(c)'
  <2> SUFFICES ASSUME call'[c] # None PROVE CallKnown(c)'
    BY DEF CallKnown
  <2>1. call'[c] = call[c] /\ call[c] # None /\ call[c].app \in Apps /\ CallKnown(c)
    BY DEF ConnectInv, AnswerInv, ConnectTypes, Connect!Call
  <2>2. call[c].op = "refresh" =>
           app'[call[c].app] # None /\ Known(call[c].app, call[c].token)'
    BY <2>1, <1>1, <1>2, <1>4 DEF CallKnown
  <2>3. call[c].locked => call[c].app # i
    BY <2>1 DEF Connect!RowFree
  <2>4. call[c].locked =>
           /\ call[c].op = "refresh" /\ Connect!Live(call[c].app)'
           /\ call[c].token = app'[call[c].app].token
    BY <2>1, <2>3, <1>2, <1>3 DEF CallKnown
  <2>5. ASSUME call[c].locked, NEW d \in Requests, call'[d] # None, call'[d].locked,
               call'[d].app = call[c].app
        PROVE  d = c
    BY <2>1, <2>5 DEF CallKnown
  <2> QED  BY <2>1, <2>2, <2>4, <2>5 DEF CallKnown
<1>7. ASSUME NEW j \in Apps PROVE TokensKnown(j)'
  <2>1. TokensKnown(j)
    BY DEF ConnectInv
  <2>2. held[j] # 0 => app'[j] # None /\ Known(j, held[j])'
    BY <2>1, <1>1, <1>2, <1>4 DEF TokensKnown
  <2>3. app'[j] # None /\ j \notin doubled => Careful(j)'
    <3> SUFFICES ASSUME app'[j] # None, j \notin doubled PROVE Careful(j)'
      OBVIOUS
    <3>1. Careful(j)
      BY <2>1, <1>2 DEF TokensKnown
    <3>2. app'[j].end # "reuse" /\ (Connect!Live(j)' => held[j] = app'[j].token)
      BY <3>1, <1>1, <1>2, <1>3 DEF Careful
    <3>3. \A c \in Requests : RefreshOf(c, j)' =>
             call'[c].token = held[j] /\ \A d \in Requests : RefreshOf(d, j)' => c = d
      BY <3>1, <1>5 DEF Careful
    <3> QED  BY <3>2, <3>3 DEF Careful
  <2>4. CASE j = i
    BY <2>1, <2>2, <2>3, <2>4, <1>1 DEF TokensKnown
  <2>5. CASE j # i
    BY <2>1, <2>2, <2>3, <2>5, <1>1, <1>2, <1>3 DEF TokensKnown
  <2> QED  BY <2>4, <2>5
<1> QED  BY <1>6, <1>7 DEF ConnectInv

LEMMA LiveIsThere == ASSUME NEW i, Connect!Live(i) PROVE app[i] # None
BY DEF Connect!Live

LEMMA AskRefreshKeeps ==
    ASSUME Connect!Settings, ConnectInv, NEW c \in Requests, NEW i \in Apps,
           Connect!AskRefresh(c, i)
    PROVE  ConnectInv'
<1> DEFINE new == [op |-> "refresh", app |-> i, token |-> held[i], locked |-> FALSE]
<1>1. /\ call[c] = None /\ held[i] # 0 /\ call' = [call EXCEPT ![c] = new]
      /\ UNCHANGED <<ask, said, app, access, history, minted, held, reused>>
  BY DEF Connect!AskRefresh, Connect!asking
<1>2. new \in Connect!Call /\ new # None
  <2>1. held[i] \in 0..MaxTokens
    BY DEF ConnectInv, AnswerInv, ConnectTypes
  <2>2. new \in Connect!Call
    BY <2>1 DEF Connect!Call
  <2> QED  BY <2>2 DEF Connect!Settings
<1>3. /\ call' \in [Requests -> Connect!Call \cup {None}]
      /\ \A d \in Requests : call'[d] = IF d = c THEN new ELSE call[d]
  BY <1>1, <1>2 DEF ConnectInv, AnswerInv, ConnectTypes
<1>4. AnswerInv'
  <2>1. ConnectTypes' /\ Stays
    BY <1>1, <1>3 DEF ConnectInv, AnswerInv, ConnectTypes, Stays
  <2> QED  BY <2>1, <1>1, StaysKeeps DEF ConnectInv
<1>5. TokensKnown(i) /\ app[i] # None /\ Known(i, held[i])
  BY <1>1 DEF ConnectInv, TokensKnown
<1>6. \A j, t : Known(j, t)' = Known(j, t)
  BY <1>1 DEF Known
<1>7. \A j : Connect!Live(j)' = Connect!Live(j)
  BY <1>1 DEF Connect!Live
<1>8. ASSUME NEW d \in Requests PROVE CallKnown(d)'
  <2>1. CASE d = c
    BY <2>1, <1>1, <1>3, <1>5, <1>6 DEF CallKnown
  <2>2. CASE d # c
    <3>1. call'[d] = call[d] /\ CallKnown(d)
      BY <2>2, <1>3 DEF ConnectInv
    <3>2. \A e \in Requests : call'[e] # None /\ call'[e].locked => call'[e] = call[e]
      BY <1>3
    <3> QED  BY <3>1, <3>2, <1>1, <1>6, <1>7 DEF CallKnown
  <2> QED  BY <2>1, <2>2
<1>9. ASSUME NEW j \in Apps, j \notin doubled', app[j] # None PROVE Careful(j)'
  <2>1. j \notin doubled
    BY <1>9 DEF Connect!AskRefresh
  <2>2. Careful(j)
    BY <1>9, <2>1 DEF ConnectInv, TokensKnown
  <2>3. ASSUME NEW d \in Requests, RefreshOf(d, j)'
        PROVE  call'[d].token = held[j] /\ \A e \in Requests : RefreshOf(e, j)' => d = e
    <3>1. CASE j = i
      <4>1. \A e \in Requests : ~ RefreshOf(e, i)
        BY <1>9, <3>1 DEF Connect!AskRefresh, RefreshOf
      <4>2. \A e \in Requests : RefreshOf(e, j)' => e = c
        BY <4>1, <3>1, <1>3 DEF RefreshOf
      <4> QED  BY <4>2, <2>3, <3>1, <1>3
    <3>2. CASE j # i
      <4>1. \A e \in Requests : RefreshOf(e, j)' => RefreshOf(e, j) /\ call'[e] = call[e]
        BY <3>2, <1>3 DEF RefreshOf
      <4> QED  BY <4>1, <2>2, <2>3 DEF Careful
    <3> QED  BY <3>1, <3>2
  <2> QED  BY <2>2, <2>3, <1>1, <1>7 DEF Careful
<1>10. doubled' \subseteq doubled \cup {i}
  BY DEF Connect!AskRefresh
<1>11. ASSUME NEW j \in Apps PROVE TokensKnown(j)'
  BY <1>1, <1>5, <1>6, <1>7, <1>9, <1>10 DEF ConnectInv, TokensKnown
<1> QED  BY <1>4, <1>8, <1>11 DEF ConnectInv

LEMMA LockRefreshKeeps ==
    ASSUME Connect!Settings, ConnectInv, NEW c \in Requests, Connect!LockRefresh(c)
    PROVE  ConnectInv'
<1> DEFINE i == call[c].app
<1>1. /\ call[c] # None
      /\ call[c] \in Connect!Call
      /\ call[c].op = "refresh"
      /\ ~ call[c].locked
      /\ Connect!RowFree(i) /\ UNCHANGED <<ask, said, history, minted, held, doubled>>
  BY DEF Connect!LockRefresh, Connect!Refreshing, Connect!asking, ConnectInv, AnswerInv,
         ConnectTypes
<1>2. i \in Apps /\ app[i] # None /\ Known(i, call[c].token)
  BY <1>1 DEF ConnectInv, CallKnown, Connect!Call
<1>3. PICK a \in Apps : a = i
  BY <1>2
<1>4. RefreshOf(c, a) /\ TokensKnown(a)
  BY <1>1, <1>3 DEF RefreshOf, ConnectInv
<1>5. CASE /\ ~ Connect!LockConnectedAppByRefreshToken(i, call[c].token)
           /\ Connect!HandleRefreshReuse(c) /\ Connect!Done(c)
  <2>1. /\ call' \in [Requests -> Connect!Call \cup {None}]
        /\ \A d \in Requests : call'[d] # call[d] => call'[d] = None
    BY <1>5 DEF Connect!Done, ConnectInv, AnswerInv, ConnectTypes
  <2>2. CASE call[c].token = app[a].token
    <3>1. ~ Connect!Live(a) /\ UNCHANGED reused
      BY <1>5, <1>3, <2>2 DEF Connect!LockConnectedAppByRefreshToken, Connect!HandleRefreshReuse
    <3>2. UNCHANGED <<app, access, library>>
      BY <1>5, <1>3, <3>1 DEF Connect!HandleRefreshReuse, Connect!RevokeConnectedAppByID
    <3>3. ConnectTypes' /\ Stays
      BY <1>1, <2>1, <3>2 DEF ConnectInv, AnswerInv, ConnectTypes, Stays
    <3>4. AnswerInv'
      BY <3>3, <1>1, StaysKeeps DEF ConnectInv
    <3> QED  BY <3>1, <3>2, <3>4, <2>1, <1>1, NoTokenKeeps
  <2>3. CASE call[c].token # app[a].token
    <3>1. Connect!RevokeConnectedAppByID(a, "reuse") /\ reused' = reused \cup {a}
      BY <1>2, <1>3, <1>5, <2>3
         DEF Known, Connect!HandleRefreshReuse, Connect!ConnectedAppForUsedRefreshToken
    <3>2. "reuse" \in Connect!Ends
      BY DEF Connect!Ends
    <3>3. app' \in [Apps -> Connect!App \cup {None}] /\ Stays
      BY <3>1, <3>2, RevokeStays DEF ConnectInv
    <3>4. AnswerInv'
      BY <3>3, <2>1, <1>1, StaysKeeps DEF ConnectInv, AnswerInv, ConnectTypes
    <3>5. Connect!Live(a) => a \in doubled
      BY <1>2, <1>3, <1>4, <2>3 DEF TokensKnown, Careful
    <3> QED  BY <1>1, <1>2, <1>3, <2>1, <3>1, <3>2, <3>4, <3>5, EndKeeps
  <2> QED  BY <2>2, <2>3
<1>6. CASE /\ Connect!LockConnectedAppByRefreshToken(i, call[c].token)
           /\ Connect!RevokeConnectedAppByID(i, "idle") /\ Connect!Done(c) /\ UNCHANGED reused
  <2>1. /\ call' \in [Requests -> Connect!Call \cup {None}]
        /\ \A d \in Requests : call'[d] # call[d] => call'[d] = None
    BY <1>6 DEF Connect!Done, ConnectInv, AnswerInv, ConnectTypes
  <2>2. "idle" \in Connect!Ends
    BY DEF Connect!Ends
  <2>3. Connect!RevokeConnectedAppByID(a, "idle")
    BY <1>6, <1>3
  <2>4. app' \in [Apps -> Connect!App \cup {None}] /\ Stays
    BY <2>3, <2>2, RevokeStays DEF ConnectInv
  <2>5. AnswerInv'
    BY <2>4, <2>1, <1>1, StaysKeeps DEF ConnectInv, AnswerInv, ConnectTypes
  <2> QED  BY <1>1, <1>2, <1>3, <1>6, <2>1, <2>2, <2>3, <2>5, EndKeeps
<1>7. CASE /\ Connect!LockConnectedAppByRefreshToken(i, call[c].token)
           /\ call' = [call EXCEPT ![c].locked = TRUE]
           /\ UNCHANGED <<app, access, library, reused>>
  <2> DEFINE new == [call[c] EXCEPT !.locked = TRUE]
  <2>1. /\ new \in Connect!Call /\ new.op = "refresh" /\ new.app = call[c].app
        /\ new.token = call[c].token /\ new.locked /\ new # None
    BY <1>1 DEF Connect!Call, Connect!Settings
  <2>2. call' = [call EXCEPT ![c] = new]
    BY <1>7
  <2> HIDE DEF new
  <2>3. /\ call' \in [Requests -> Connect!Call \cup {None}]
        /\ \A d \in Requests : call'[d] = IF d = c THEN new ELSE call[d]
    BY <2>1, <2>2 DEF ConnectInv, AnswerInv, ConnectTypes
  <2>4. ConnectTypes' /\ Stays
    BY <1>1, <1>7, <2>3 DEF ConnectInv, AnswerInv, ConnectTypes, Stays
  <2>5. AnswerInv'
    BY <2>4, <1>1, StaysKeeps DEF ConnectInv
  <2>6. Connect!Live(a) /\ call[c].token = app[a].token
    BY <1>7, <1>3 DEF Connect!LockConnectedAppByRefreshToken
  <2>7. \A j, t : Known(j, t)' = Known(j, t)
    BY <1>1, <1>7 DEF Known
  <2>8. \A j : Connect!Live(j)' = Connect!Live(j)
    BY <1>7 DEF Connect!Live
  <2>9. \A d \in Requests : /\ (call'[d] = None) = (call[d] = None)
                            /\ call[d] # None => /\ call'[d].op = call[d].op
                                   /\ call'[d].app = call[d].app
                                                 /\ call'[d].token = call[d].token
    BY <1>1, <2>1, <2>3
  <2>10. \A d \in Requests : \A j : RefreshOf(d, j)' = RefreshOf(d, j)
    BY <2>9 DEF RefreshOf
  <2>11. ASSUME NEW d \in Requests PROVE CallKnown(d)'
    <3> SUFFICES ASSUME call[d] # None PROVE CallKnown(d)'
      BY <2>9 DEF CallKnown
    <3>1. PICK b \in Apps, t \in 0..MaxTokens :
            b = call[d].app /\ b = call'[d].app /\ t = call[d].token /\ t = call'[d].token
      BY <2>9 DEF ConnectInv, AnswerInv, ConnectTypes, Connect!Call
    <3>2. CallKnown(d)
      BY DEF ConnectInv
    <3>3. call'[d].op = "refresh" => app'[b] # None /\ Known(b, t)'
      BY <1>7, <2>7, <2>9, <3>1, <3>2 DEF CallKnown
    <3>4. ASSUME call'[d].locked
          PROVE  /\ call'[d].op = "refresh"
                 /\ Connect!Live(b)'
                 /\ call'[d].token = app'[b].token
                 /\ \A e \in Requests :
                        call'[e] # None /\ call'[e].locked /\ call'[e].app = b => e = d
      <4>1. CASE d = c
        <5>1. b = a
          BY <4>1, <3>1, <1>3
        <5>2. \A e \in Requests :
                  call'[e] # None /\ call'[e].locked /\ call'[e].app = b => e = d
          BY <5>1, <4>1, <1>1, <1>3, <2>3 DEF Connect!RowFree
        <5> QED  BY <4>1, <5>1, <5>2, <1>7, <2>1, <2>3, <2>6, <2>8
      <4>2. CASE d # c
        <5>1. call'[d] = call[d]
          BY <4>2, <2>3
        <5>2. b # a
          BY <5>1, <3>1, <3>4, <1>1, <1>3 DEF Connect!RowFree
        <5> QED  BY <5>1, <5>2, <3>1, <3>2, <3>4, <1>3, <1>7, <2>1, <2>3, <2>8 DEF CallKnown
      <4> QED  BY <4>1, <4>2
    <3> QED  BY <3>1, <3>3, <3>4 DEF CallKnown
  <2>12. ASSUME NEW j \in Apps, Careful(j) PROVE Careful(j)'
    BY <1>1, <1>7, <2>8, <2>9, <2>10, <2>12 DEF Careful, RefreshOf
  <2>13. ASSUME NEW j \in Apps PROVE TokensKnown(j)'
    BY <1>1, <1>7, <2>7, <2>8, <2>12 DEF ConnectInv, TokensKnown
  <2> QED  BY <2>5, <2>11, <2>13 DEF ConnectInv
<1> QED  BY <1>5, <1>6, <1>7 DEF Connect!LockRefresh

LEMMA RotateKeeps ==
    ASSUME Connect!Settings, ConnectInv, NEW c \in Requests, NEW lost \in BOOLEAN,
           Connect!RotateCredentials(c, lost)
    PROVE  ConnectInv'
<1>1. /\ call[c] # None /\ call[c] \in Connect!Call /\ call[c].op = "refresh" /\ call[c].locked
      /\ UNCHANGED <<ask, said, reused>>
  BY DEF Connect!RotateCredentials, Connect!Refreshing, Connect!asking, ConnectInv,
         AnswerInv, ConnectTypes
<1>2. PICK a \in Apps : a = call[c].app
  BY <1>1 DEF Connect!Call
<1>3. PICK t \in 0..MaxTokens : t = call[c].token
  BY <1>1 DEF Connect!Call
<1>4. /\ CallKnown(c) /\ app[a] # None /\ Connect!Live(a) /\ t = app[a].token
      /\ TokensKnown(a) /\ RefreshOf(c, a)
  BY <1>1, <1>2, <1>3 DEF ConnectInv, CallKnown, RefreshOf
<1>5. /\ minted + 1 \in 1..MaxTokens /\ minted' = minted + 1
      /\ history' = history \cup {<<t, a>>} /\ access' = access \cup {a}
      /\ held' = IF lost THEN held ELSE [held EXCEPT ![a] = minted + 1]
      /\ doubled' = IF lost THEN doubled \cup {a} ELSE doubled
      /\ call' = [call EXCEPT ![c] = None]
  BY <1>2, <1>3 DEF Connect!RotateCredentials, Connect!RotateAppRefreshToken, Connect!Done,
     ConnectInv, AnswerInv, ConnectTypes, Connect!Settings
<1> DEFINE new == [app[a] EXCEPT !.token = minted + 1, !.idle = FALSE]
<1>6. app[a] \in Connect!App
  BY <1>4 DEF ConnectInv, AnswerInv, ConnectTypes
<1>7. /\ new \in Connect!App /\ new.token = minted + 1 /\ new.live = app[a].live
      /\ new.end = app[a].end /\ new.from = app[a].from /\ new.owner = app[a].owner
  BY <1>5, <1>6 DEF Connect!App
<1>8. app' = [app EXCEPT ![a] = new]
  BY <1>2 DEF Connect!RotateCredentials, Connect!RotateAppRefreshToken
<1> HIDE DEF new
<1>9. /\ app' \in [Apps -> Connect!App \cup {None}] /\ Stays
      /\ app'[a] = new /\ \A j \in Apps \ {a} : app'[j] = app[j]
  BY <1>4, <1>7, <1>8, AppStays DEF ConnectInv
<1>10. /\ held' \in [Apps -> 0..MaxTokens]
       /\ \A j \in Apps : held'[j] = IF j = a /\ ~ lost THEN minted + 1 ELSE held[j]
  BY <1>5 DEF ConnectInv, AnswerInv, ConnectTypes
<1>11. /\ call' \in [Requests -> Connect!Call \cup {None}]
       /\ \A d \in Requests : call'[d] = IF d = c THEN None ELSE call[d]
  BY <1>5 DEF ConnectInv, AnswerInv, ConnectTypes
<1>12. AnswerInv'
  <2>1. ConnectTypes'
    BY <1>1, <1>5, <1>9, <1>10, <1>11 DEF ConnectInv, AnswerInv, ConnectTypes, Connect!Settings
  <2> QED  BY <2>1, <1>1, <1>9, StaysKeeps DEF ConnectInv
<1>13. \A j \in Apps : Connect!Live(j)' = Connect!Live(j)
  <2>1. new # None
    BY <1>7 DEF Connect!Settings
  <2> QED  BY <2>1, <1>4, <1>7, <1>9 DEF Connect!Live
<1>14. ASSUME NEW j \in Apps, NEW s, Known(j, s) PROVE Known(j, s)'
  BY <1>4, <1>5, <1>9, <1>14 DEF Known
<1>15. app'[a] # None
  BY <1>4, <1>9 DEF Stays
<1>16. ASSUME NEW d \in Requests PROVE CallKnown(d)'
  <2> SUFFICES ASSUME call'[d] # None PROVE CallKnown(d)'
    BY DEF CallKnown
  <2>1. d # c /\ call'[d] = call[d] /\ CallKnown(d) /\ call[d] # None
    BY <1>11 DEF ConnectInv
  <2>2. PICK b \in Apps, s \in 0..MaxTokens : b = call[d].app /\ s = call[d].token
    BY <2>1 DEF ConnectInv, AnswerInv, ConnectTypes, Connect!Call
  <2>3. call[d].op = "refresh" => app'[b] # None /\ Known(b, s)'
    BY <2>1, <2>2, <1>9, <1>14, <1>15 DEF CallKnown
  <2>4. ASSUME call[d].locked
        PROVE  /\ call[d].op = "refresh" /\ Connect!Live(b)' /\ s = app'[b].token
               /\ \A e \in Requests :
                      call'[e] # None /\ call'[e].locked /\ call'[e].app = b => e = d
    <3>1. b # a
      BY <2>1, <2>2, <2>4, <1>1, <1>2, <1>4 DEF CallKnown
    <3>2. Connect!Live(b) /\ call[d].op = "refresh" /\ s = app[b].token
      BY <2>1, <2>2, <2>4 DEF CallKnown
    <3>3. \A e \in Requests : call'[e] # None /\ call'[e].locked /\ call'[e].app = b => e = d
      BY <2>1, <2>2, <2>4, <1>11 DEF CallKnown
    <3> QED  BY <3>1, <3>2, <3>3, <1>9, <1>13
  <2> QED  BY <2>1, <2>2, <2>3, <2>4 DEF CallKnown
<1>17. ASSUME NEW j \in Apps, j \notin doubled', app'[j] # None PROVE Careful(j)'
  <2>1. j \notin doubled /\ app[j] # None /\ (j = a => ~ lost)
    BY <1>5, <1>9, <1>17 DEF Stays
  <2>2. Careful(j)
    BY <2>1 DEF ConnectInv, TokensKnown
  <2>3. \A d \in Requests : RefreshOf(d, j)' => d # c /\ RefreshOf(d, j) /\ call'[d] = call[d]
    BY <1>11 DEF RefreshOf
  <2>4. CASE j = a
    <3>1. \A d \in Requests : ~ RefreshOf(d, j)'
      BY <2>2, <2>3, <2>4, <1>4 DEF Careful
    <3>2. app'[j].end # "reuse" /\ held'[j] = app'[j].token
      BY <2>1, <2>2, <2>4, <1>7, <1>9, <1>10 DEF Careful
    <3> QED  BY <3>1, <3>2 DEF Careful
  <2>5. CASE j # a
    <3>1. \A d \in Requests : RefreshOf(d, j)' =>
             call'[d].token = held'[j] /\ \A e \in Requests : RefreshOf(e, j)' => d = e
      BY <2>2, <2>3, <2>5, <1>10 DEF Careful
    <3>2. app'[j].end # "reuse" /\ (Connect!Live(j)' => held'[j] = app'[j].token)
      BY <2>2, <2>5, <1>9, <1>10, <1>13 DEF Careful
    <3> QED  BY <3>1, <3>2 DEF Careful
  <2> QED  BY <2>4, <2>5
<1>18. ASSUME NEW j \in Apps PROVE TokensKnown(j)'
  <2>1. TokensKnown(j)
    BY DEF ConnectInv
  <2>3. PICK s \in 0..MaxTokens : s = held'[j]
    BY <1>10
  <2>4. s # 0 => app'[j] # None /\ Known(j, s)'
    <3>1. CASE j = a /\ ~ lost
      <4>1. s = app'[a].token
        BY <3>1, <2>3, <1>7, <1>9, <1>10
      <4> QED  BY <4>1, <3>1, <1>15 DEF Known
    <3>2. CASE ~ (j = a /\ ~ lost)
      <4>1. s = held[j]
        BY <3>2, <2>3, <1>10
      <4> QED  BY <4>1, <2>1, <1>9, <1>14, <1>15 DEF TokensKnown
    <3> QED  BY <3>1, <3>2
  <2>5. (app'[j] = None) = (app[j] = None) /\ (app[j] # None => app'[j].end = app[j].end)
    BY <1>4, <1>7, <1>9, <1>15
  <2>6. j \in access' => Connect!Live(j)'
    BY <2>1, <1>4, <1>5, <1>13 DEF TokensKnown
  <2>7. j \in doubled' \cup reused' => app'[j] # None
    BY <2>1, <2>5, <1>1, <1>4, <1>5 DEF TokensKnown
  <2>8. app'[j] # None => /\ j \in reused' => ~ Connect!Live(j)'
                          /\ ~ Connect!Live(j)' => app'[j].end # None
    BY <2>1, <2>5, <1>1, <1>13 DEF TokensKnown
  <2> QED  BY <2>3, <2>4, <2>6, <2>7, <2>8, <1>17 DEF TokensKnown
<1> QED  BY <1>12, <1>16, <1>18 DEF ConnectInv

\* A new app has no calls yet, and is not among those that were careless.
LEMMA NewAppKeeps ==
    ASSUME Connect!Settings, ConnectInv, AnswerInv', NEW i \in Apps, NEW lost, Made(i, lost),
           UNCHANGED <<history, reused, call>>
    PROVE  ConnectInv'
<1>1. /\ i \notin doubled \cup reused /\ held[i] = 0
  BY DEF Made, ConnectInv, TokensKnown
<1>2. \A j \in Apps \ {i} : Connect!Live(j)' = Connect!Live(j)
  BY DEF Made, Connect!Live
<1>3. Connect!Live(i)' /\ ~ Connect!Live(i)
  BY DEF Made, Connect!Live
<1>4. ASSUME NEW j \in Apps \ {i}, NEW t PROVE Known(j, t)' = Known(j, t)
  BY DEF Made, Known
<1>5. \A c \in Requests : \A j : RefreshOf(c, j)' = RefreshOf(c, j)
  BY DEF RefreshOf
<1>6. \A c \in Requests : ~ RefreshOf(c, i)
  BY DEF Made, RefreshOf, ConnectInv, CallKnown
<1>7. ASSUME NEW c \in Requests PROVE CallKnown(c)'
  <2> SUFFICES ASSUME call[c] # None PROVE CallKnown(c)'
    BY DEF CallKnown
  <2>1. PICK b \in Apps, t \in 0..MaxTokens : b = call[c].app /\ t = call[c].token
    BY DEF ConnectInv, AnswerInv, ConnectTypes, Connect!Call
  <2>2. CallKnown(c)
    BY DEF ConnectInv
  <2>3. call[c].op = "refresh" => b # i
    BY <2>1, <1>6 DEF RefreshOf
  <2>4. call[c].op = "refresh" => app'[b] # None /\ Known(b, t)'
    BY <2>1, <2>2, <2>3, <1>4 DEF CallKnown, Made
  <2>5. call[c].locked => /\ call[c].op = "refresh" /\ Connect!Live(b)' /\ t = app'[b].token
    BY <2>1, <2>2, <2>3, <1>2 DEF CallKnown, Made
  <2>6. call[c].locked =>
           \A d \in Requests : call[d] # None /\ call[d].locked /\ call[d].app = b => d = c
    BY <2>1, <2>2 DEF CallKnown
  <2> QED  BY <2>1, <2>4, <2>5, <2>6 DEF CallKnown
<1>8. ASSUME NEW j \in Apps PROVE TokensKnown(j)'
  <2>1. CASE j = i
    <3>1. PICK t : t = held'[i]
      OBVIOUS
    <3>2. t # 0 => Known(i, t)'
      BY <3>1, <1>1 DEF Made, Known
    <3>3. i \notin doubled' => Careful(i)'
      <4> SUFFICES ASSUME i \notin doubled' PROVE Careful(i)'
        OBVIOUS
      <4>1. app'[i].end # "reuse" /\ held'[i] = app'[i].token
        BY DEF Made, Connect!Settings, Connect!Ends
      <4> QED  BY <4>1, <1>5, <1>6 DEF Careful
    <3> QED  BY <2>1, <3>1, <3>2, <3>3, <1>1, <1>3 DEF TokensKnown, Made
  <2>2. CASE j # i
    <3>1. TokensKnown(j) /\ app'[j] = app[j] /\ held'[j] = held[j]
      BY <2>2 DEF ConnectInv, Made
    <3>2. Careful(j)' = Careful(j)
      BY <2>2, <3>1, <1>2, <1>5 DEF Careful
    <3>3. (j \in access' <=> j \in access) /\ (j \in doubled' <=> j \in doubled)
      BY <2>2 DEF Made
    <3>4. Known(j, held[j])' = Known(j, held[j])
      BY <2>2, <3>1 DEF Known
    <3> QED  BY <2>2, <3>1, <3>2, <3>3, <3>4, <1>2 DEF TokensKnown
  <2> QED  BY <2>1, <2>2
<1> QED  BY <1>7, <1>8 DEF ConnectInv

LEMMA AskingKeeps ==
    ASSUME ConnectInv, AnswerInv', UNCHANGED <<Connect!connected, call>>
    PROVE  ConnectInv'
BY NoTokenKeeps DEF Connect!connected

LEMMA PollKeeps ==
    ASSUME Connect!Settings, ConnectInv, NEW q \in Asks, NEW soon \in BOOLEAN,
           NEW lost \in BOOLEAN,
           Connect!Poll(q, soon, lost)
    PROVE  ConnectInv'
<1> DEFINE interval == IF soon /\ ask[q].interval < MaxInterval THEN ask[q].interval + 1
                       ELSE ask[q].interval
           noted == [ask[q] EXCEPT !.polled = TRUE, !.interval = interval]
           taken == [noted EXCEPT !.redeemed = TRUE]
<1>1. /\ ask[q] \in Connect!Ask
      /\ ask[q] # None
      /\ ask[q].answer # "denied"
      /\ ~ ask[q].redeemed
      /\ UNCHANGED <<said, call>>
  BY DEF ConnectInv, AnswerInv, ConnectTypes, Connect!Poll
<1>2. ask[q].interval \in 1..MaxInterval
  BY <1>1 DEF Connect!Ask
<1>3. interval \in 1..MaxInterval
  BY <1>2 DEF Connect!Settings
<1>4. Connect!RecordConnectionPoll(q, soon) = [ask EXCEPT ![q] = noted]
  BY DEF Connect!RecordConnectionPoll, ConnectInv, AnswerInv, ConnectTypes
<1> HIDE DEF interval
<1>5. /\ noted \in Connect!Ask /\ noted.answer = ask[q].answer /\ noted.by = ask[q].by
      /\ noted.redeemed = ask[q].redeemed
  BY <1>1, <1>3 DEF Connect!Ask
<1> HIDE DEF noted
<1>6. /\ taken \in Connect!Ask
      /\ taken.answer = noted.answer
      /\ taken.by = noted.by
      /\ taken.redeemed
  BY <1>5 DEF Connect!Ask
<1>7. CASE soon \/ ask[q].answer = "none"
  <2>1. ask' = [ask EXCEPT ![q] = noted] /\ UNCHANGED Connect!connected
    BY <1>4, <1>7 DEF Connect!Poll
  <2>2. AnswerInv'
    BY <2>1, <1>1, <1>5, NotedKeeps DEF ConnectInv, Connect!connected
  <2> QED  BY <2>1, <2>2, <1>1, AskingKeeps
<1>8. CASE ~ (soon \/ ask[q].answer = "none")
  <2>1. ask' = [[ask EXCEPT ![q] = noted] EXCEPT ![q].redeemed = TRUE]
    BY <1>4, <1>8 DEF Connect!Poll
  <2>2. ask' = [ask EXCEPT ![q] = taken]
    BY <2>1 DEF ConnectInv, AnswerInv, ConnectTypes
  <2>3. Connect!IssueCredentials(q, lost)
    BY <1>8 DEF Connect!Poll
  <2>4. ask[q].answer = "approved"
    BY <1>1, <1>8 DEF Connect!Ask
  <2> HIDE DEF taken
  <2>5. AnswerInv' /\ \E i \in Apps : Made(i, lost)
    BY <2>2, <2>3, <2>4, <1>1, <1>5, <1>6, IssueKeeps DEF ConnectInv
  <2> QED  BY <2>3, <2>5, <1>1, NewAppKeeps DEF Connect!IssueCredentials
<1> QED  BY <1>7, <1>8

LEMMA ExchangeKeeps ==
    ASSUME Connect!Settings, ConnectInv, NEW q \in Asks, NEW lost \in BOOLEAN,
           Connect!Exchange(q, lost)
    PROVE  ConnectInv'
<1> DEFINE taken == [ask[q] EXCEPT !.redeemed = TRUE]
<1>1. /\ ask[q] \in Connect!Ask /\ ask[q] # None /\ ask[q].answer = "approved"
      /\ ~ ask[q].redeemed /\ UNCHANGED <<said, call>> /\ Connect!IssueCredentials(q, lost)
  BY DEF ConnectInv, AnswerInv, ConnectTypes, Connect!Exchange
<1>2. /\ taken \in Connect!Ask
      /\ taken.answer = "approved"
      /\ taken.by = ask[q].by
      /\ taken.redeemed
  BY <1>1 DEF Connect!Ask
<1>3. ask' = [ask EXCEPT ![q] = taken]
  BY DEF Connect!Exchange
<1> HIDE DEF taken
<1>4. AnswerInv' /\ \E i \in Apps : Made(i, lost)
  BY <1>1, <1>2, <1>3, IssueKeeps DEF ConnectInv
<1> QED  BY <1>1, <1>4, NewAppKeeps DEF Connect!IssueCredentials

\* The app is as it was, but for its permissions and for whether it is idle.
LEMMA GentleKeeps ==
    ASSUME Connect!Settings, ConnectInv, NEW i \in Apps, app[i] # None, NEW new \in Connect!App,
           app' = [app EXCEPT ![i] = new],
           new.from = app[i].from, new.owner = app[i].owner,
           new.token = app[i].token, new.live = app[i].live, new.end = app[i].end,
           UNCHANGED <<ask, said, held, minted, history, doubled, reused>>,
           access' \subseteq access,
           call' \in [Requests -> Connect!Call \cup {None}],
           \A c \in Requests : call'[c] # call[c] /\ call'[c] # None =>
               ~ call'[c].locked /\ call'[c].op # "refresh"
    PROVE  ConnectInv'
<1>1. /\ app' \in [Apps -> Connect!App \cup {None}] /\ Stays
      /\ app'[i] = new /\ \A j \in Apps \ {i} : app'[j] = app[j]
  BY AppStays DEF ConnectInv
<1>2. AnswerInv'
  BY <1>1, StaysKeeps DEF ConnectInv, AnswerInv, ConnectTypes
<1> QED  BY <1>1, <1>2, NoTokenKeeps DEF Stays

LEMMA AuthenticateKeeps ==
    ASSUME Connect!Settings, ConnectInv, NEW i \in Apps, Connect!Authenticate(i),
           call' \in [Requests -> Connect!Call \cup {None}],
           \A c \in Requests : call'[c] # call[c] /\ call'[c] # None =>
               ~ call'[c].locked /\ call'[c].op # "refresh"
    PROVE  ConnectInv'
<1> DEFINE new == [app[i] EXCEPT !.idle = FALSE]
<1>1. app[i] \in Connect!App /\ app[i] # None
  BY DEF Connect!Authenticate, Connect!TouchConnectedAppByAccessToken, Connect!Live,
     ConnectInv, AnswerInv, ConnectTypes
<1>2. /\ new \in Connect!App /\ new.from = app[i].from /\ new.owner = app[i].owner
      /\ new.token = app[i].token /\ new.live = app[i].live /\ new.end = app[i].end
  BY <1>1 DEF Connect!App
<1>3. app' = [app EXCEPT ![i] = new]
  BY DEF Connect!Authenticate, Connect!TouchConnectedAppByAccessToken
<1>4. UNCHANGED <<ask, said, held, minted, history, doubled, reused, access>>
  BY DEF Connect!Authenticate, Connect!asking
<1> HIDE DEF new
<1> QED  BY <1>1, <1>2, <1>3, <1>4, GentleKeeps

LEMMA StartSyncKeeps ==
    ASSUME Connect!Settings, ConnectInv, NEW c \in Requests, NEW i \in Apps,
           Connect!StartSync(c, i)
    PROVE  ConnectInv'
<1> DEFINE new == [op |-> "sync", app |-> i, token |-> 0, locked |-> FALSE]
<1>1. 0 \in 0..MaxTokens
  BY DEF Connect!Settings
<1>2. new \in Connect!Call /\ new.op # "refresh" /\ ~ new.locked
  BY <1>1 DEF Connect!Call
<1>3. call' = [call EXCEPT ![c] = new] /\ Connect!Authenticate(i)
  BY DEF Connect!StartSync
<1> HIDE DEF new
<1>4. /\ call' \in [Requests -> Connect!Call \cup {None}]
      /\ \A d \in Requests : call'[d] # call[d] => call'[d] = new
  BY <1>2, <1>3 DEF ConnectInv, AnswerInv, ConnectTypes
<1> QED  BY <1>2, <1>3, <1>4, AuthenticateKeeps

LEMMA PermissionsKeep ==
    ASSUME Connect!Settings, ConnectInv, NEW i \in Apps, NEW granted \in SUBSET Permissions,
           Connect!SetPermissions(i, granted)
    PROVE  ConnectInv'
<1> DEFINE new == [app[i] EXCEPT !.permissions = granted]
<1>1. app[i] \in Connect!App /\ app[i] # None
  BY DEF Connect!SetPermissions, Connect!Live, ConnectInv, AnswerInv, ConnectTypes
<1>2. /\ new \in Connect!App /\ new.from = app[i].from /\ new.owner = app[i].owner
      /\ new.token = app[i].token /\ new.live = app[i].live /\ new.end = app[i].end
  BY <1>1 DEF Connect!App
<1>3. app' = [app EXCEPT ![i] = new]
  BY DEF Connect!SetPermissions
<1>4. UNCHANGED <<ask, said, call, held, minted, history, doubled, reused, access>>
  BY DEF Connect!SetPermissions, Connect!asking
<1> HIDE DEF new
<1>5. call' \in [Requests -> Connect!Call \cup {None}]
  BY <1>4 DEF ConnectInv, AnswerInv, ConnectTypes
<1> QED  BY <1>1, <1>2, <1>3, <1>4, <1>5, GentleKeeps

LEMMA IdlesKeeps ==
    ASSUME Connect!Settings, ConnectInv, NEW i \in Apps, Connect!AppIdles(i)
    PROVE  ConnectInv'
<1> DEFINE new == [app[i] EXCEPT !.idle = TRUE]
<1>1. app[i] \in Connect!App /\ app[i] # None
  BY DEF Connect!AppIdles, Connect!Live, ConnectInv, AnswerInv, ConnectTypes
<1>2. /\ new \in Connect!App /\ new.from = app[i].from /\ new.owner = app[i].owner
      /\ new.token = app[i].token /\ new.live = app[i].live /\ new.end = app[i].end
  BY <1>1 DEF Connect!App
<1>3. app' = [app EXCEPT ![i] = new]
  BY DEF Connect!AppIdles
<1>4. UNCHANGED <<ask, said, call, held, minted, history, doubled, reused, access>>
  BY DEF Connect!AppIdles, Connect!asking
<1> HIDE DEF new
<1>5. call' \in [Requests -> Connect!Call \cup {None}]
  BY <1>4 DEF ConnectInv, AnswerInv, ConnectTypes
<1> QED  BY <1>1, <1>2, <1>3, <1>4, <1>5, GentleKeeps

LEMMA RevokeKeeps ==
    ASSUME Connect!Settings, ConnectInv, NEW i \in Apps, Connect!Revoke(i)
    PROVE  ConnectInv'
<1>1. /\ Connect!Live(i) /\ Connect!RowFree(i) /\ Connect!RevokeConnectedAppByID(i, "owner")
      /\ UNCHANGED <<ask, said, call, held, minted, history, doubled, reused>>
  BY DEF Connect!Revoke, Connect!asking
<1>2. "owner" \in Connect!Ends /\ "owner" # "reuse"
  BY DEF Connect!Ends
<1>3. app' \in [Apps -> Connect!App \cup {None}] /\ Stays
  BY <1>1, <1>2, RevokeStays DEF ConnectInv
<1>4. AnswerInv'
  BY <1>1, <1>3, StaysKeeps DEF ConnectInv, AnswerInv, ConnectTypes
<1> QED  BY <1>1, <1>2, <1>4, LiveIsThere, EndKeeps

\* A call that is over, and access that is, change nothing else.
LEMMA OverKeeps ==
    ASSUME ConnectInv, UNCHANGED <<ask, said, app, held, minted, history, doubled, reused>>,
           access' \subseteq access,
           UNCHANGED call \/ \E c \in Requests : Connect!Done(c)
    PROVE  ConnectInv'
<1>1. /\ call' \in [Requests -> Connect!Call \cup {None}]
      /\ \A d \in Requests : call'[d] # call[d] => call'[d] = None
  BY DEF Connect!Done, ConnectInv, AnswerInv, ConnectTypes
<1>2. ConnectTypes' /\ Stays
  BY <1>1 DEF ConnectInv, AnswerInv, ConnectTypes, Stays
<1>3. AnswerInv'
  BY <1>2, StaysKeeps DEF ConnectInv
<1> QED  BY <1>1, <1>3, NoTokenKeeps

-----------------------------------------------------------------------------
LEMMA AskStep ==
    ASSUME Connect!Settings, ConnectInv,
           \/ Connect!StartConnectionRequest \/ Connect!StartConnectionAuthorization
           \/ Connect!GetConnectionRequest \/ Connect!GetConnectionAuthorization
           \/ Connect!ApproveConnectionRequest \/ Connect!ApproveConnectionAuthorization
           \/ Connect!DenyConnectionRequest \/ Connect!DenyConnectionAuthorization
           \/ Connect!HourEnds \/ \E q \in Asks : Connect!RequestExpires(q)
    PROVE  ConnectInv'
<1>1. CASE \E q \in Asks, kind \in {"device", "browser"} : Connect!StartAs(q, kind)
  <2>1. UNCHANGED <<Connect!connected, call>>
    BY <1>1 DEF Connect!StartAs
  <2> QED  BY <1>1, <2>1, NewAskKeeps, AskingKeeps DEF ConnectInv
<1>2. CASE Connect!HourEnds \/ \E u, q, kind : Connect!ReviewAs(u, q, kind)
  <2>1. UNCHANGED <<ask, said, Connect!connected, call>>
    BY <1>2 DEF Connect!HourEnds, Connect!ReviewAs
  <2> QED  BY <2>1, OverKeeps DEF Connect!connected
<1>3. ASSUME NEW u \in Users, NEW q \in Asks, NEW kind, NEW answer \in {"approved", "denied"},
             NEW granted \in SUBSET Permissions, Connect!Answer(u, q, kind, answer, granted)
      PROVE  ConnectInv'
  <2>1. UNCHANGED <<Connect!connected, call>>
    BY <1>3 DEF Connect!Answer
  <2> QED  BY <1>3, <2>1, AnswerKeeps, AskingKeeps DEF ConnectInv
<1>4. CASE \E q \in Asks : Connect!RequestExpires(q)
  <2>1. UNCHANGED <<Connect!connected, call>>
    BY <1>4 DEF Connect!RequestExpires
  <2> QED  BY <1>4, <2>1, ExpireKeeps, AskingKeeps DEF ConnectInv
<1>5. {} \in SUBSET Permissions
  OBVIOUS
<1> QED
  BY <1>1, <1>2, <1>3, <1>4, <1>5
  DEF Connect!StartConnectionRequest, Connect!StartConnectionAuthorization, Connect!Start,
      Connect!StartAuthorization, Connect!GetConnectionRequest, Connect!GetConnectionAuthorization,
      Connect!Pending, Connect!PendingAuthorization, Connect!ApproveConnectionRequest,
      Connect!ApproveConnectionAuthorization, Connect!Approve, Connect!ApproveAuthorization,
      Connect!DenyConnectionRequest, Connect!DenyConnectionAuthorization, Connect!Deny,
      Connect!DenyAuthorization

LEMMA ConnectStep ==
    ASSUME Connect!Settings PROVE ConnectInv /\ [Connect!Next]_Connect!vars => ConnectInv'
<1> SUFFICES ASSUME ConnectInv, [Connect!Next]_Connect!vars PROVE ConnectInv'
  OBVIOUS
<1>1. CASE Connect!PollConnectionRequest \/ Connect!ExchangeConnectionAuthorization
  BY <1>1, PollKeeps, ExchangeKeeps
  DEF Connect!PollConnectionRequest, Connect!ExchangeConnectionAuthorization
<1>2. CASE Connect!RefreshAppCredentials
  BY <1>2, AskRefreshKeeps, LockRefreshKeeps, RotateKeeps DEF Connect!RefreshAppCredentials
<1>3. CASE Connect!GetConnectedApp
  <2>1. call' \in [Requests -> Connect!Call \cup {None}] /\ UNCHANGED call
    BY <1>3 DEF Connect!GetConnectedApp, ConnectInv, AnswerInv, ConnectTypes
  <2> QED  BY <1>3, <2>1, AuthenticateKeeps DEF Connect!GetConnectedApp
<1>4. CASE Connect!SyncLibrary \/ \E c \in Requests : Connect!CallFails(c)
  <2>1. ASSUME NEW c \in Requests, Connect!Sync(c) \/ Connect!CallFails(c) PROVE ConnectInv'
    BY <2>1, OverKeeps DEF Connect!Sync, Connect!CallFails, Connect!asking, Connect!connected
  <2> QED  BY <1>4, <2>1, StartSyncKeeps DEF Connect!SyncLibrary
<1>5. CASE Connect!RevokeConnectedApp \/ Connect!SetConnectedAppPermissions
  BY <1>5, RevokeKeeps, PermissionsKeep
  DEF Connect!RevokeConnectedApp, Connect!SetConnectedAppPermissions
<1>6. CASE \E i \in Apps : Connect!AppIdles(i) \/ Connect!AccessExpires(i)
  <2>1. ASSUME NEW i \in Apps, Connect!AccessExpires(i) PROVE ConnectInv'
    BY <2>1, OverKeeps DEF Connect!AccessExpires, Connect!asking
  <2> QED  BY <1>6, <2>1, IdlesKeeps
<1>7. CASE UNCHANGED Connect!vars
  BY <1>7, OverKeeps DEF Connect!vars, Connect!asking, Connect!connected
<1> QED
  BY <1>1, <1>2, <1>3, <1>4, <1>5, <1>6, <1>7, AskStep DEF Connect!Next

LEMMA ConnectAlways == ASSUME Connect!Settings PROVE Connect!Spec => []ConnectInv
BY ConnectInit, ConnectStep, PTL DEF Connect!Spec

\* One answer is given to a request, whoever else had entered its code, and a request
\* connects one app, for the creator who approved it.
THEOREM OneApp == ASSUME Connect!Settings PROVE Connect!Spec => []OneAppPerAnswer
<1>1. ConnectInv => OneAppPerAnswer
  <2> SUFFICES ASSUME ConnectInv PROVE Connect!OneAppPerAnswer
    BY DEF OneAppPerAnswer
  <2>1. ASSUME NEW q \in Asks PROVE Connect!Cardinality(said[q]) <= 1
    <3>1. Connect!Cardinality(said[q]) = Cardinality(said[q])
      BY DEF Connect!Cardinality, Cardinality, Connect!IsFiniteSet, IsFiniteSet
    <3>2. CASE said[q] = {}
      BY <3>1, <3>2, FS_EmptySet
    <3>3. CASE said[q] # {}
      <4>1. PICK x : x \in said[q]
        BY <3>3
      <4>2. said[q] = {x}
        BY <4>1 DEF ConnectInv, AnswerInv, AnswerKept
      <4>3. Cardinality({x}) = 1
        BY FS_Singleton
      <4> QED  BY <3>1, <4>2, <4>3
    <3> QED  BY <3>2, <3>3
  <2>2. ASSUME NEW i \in Apps, NEW j \in Apps, app[i] # None
        PROVE  /\ said[app[i].from] = {<<app[i].owner, "approved">>}
               /\ app[j] # None /\ i # j => app[j].from # app[i].from
    BY <2>2 DEF ConnectInv, AnswerInv, FromAnAnswer
  <2> QED  BY <2>1, <2>2 DEF Connect!OneAppPerAnswer
<1> QED  BY <1>1, ConnectAlways, PTL

\* A program that loses no answer and sends no token twice keeps its connection, with the
\* token that is current, until its owner or its own silence ends it; a used token that comes
\* back ends the connection.
THEOREM EndsForACause ==
    ASSUME Connect!Settings PROVE Connect!Spec => []Connect!ConnectionsEndForACause
<1>1. ConnectInv => Connect!ConnectionsEndForACause
  BY DEF ConnectInv, TokensKnown, Careful, Connect!ConnectionsEndForACause
<1> QED  BY <1>1, ConnectAlways, PTL
===============================================================================
