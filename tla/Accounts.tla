------------------------------- MODULE Accounts -------------------------------
(***************************************************************************)
(* Accounts and sign-in: api/internal/account.                             *)
(*                                                                         *)
(* Requests sign up, verify and change addresses, rename, sign in by       *)
(* password or through Discord, and attach or detach a Discord account,    *)
(* all at the same time.  An address is an account's own only once it is   *)
(* verified: before that any number of accounts may name it.               *)
(*                                                                         *)
(* A request is in up to three steps: what it reads before its             *)
(* transaction waits for anything (Ask), the advisory locks it takes and   *)
(* what it looks up under them (Check), and its writes (Commit), whose     *)
(* own where clauses are looked at then.  Locks are held until the end.    *)
(* Fail stands for everything that rolls a transaction back: a mail that   *)
(* cannot be sent, a deadlock the database ends, a lost connection.        *)
(***************************************************************************)
EXTENDS Naturals, FiniteSets

CONSTANTS
    Users,      \* accounts that may be made
    Handles,
    Emails,
    Passwords,
    Subjects,   \* Discord accounts
    Requests,   \* requests at the same time
    None,       \* no value
    MaxLinks    \* bound: verification links ever made

VARIABLES
    user,      \* users
    identity,  \* oauth_identities: the account of each Discord account
    retired,   \* retired_handles
    links,     \* email_verification_tokens, with a number for the hash
    made,      \* verification links made so far
    resets,    \* password_reset_tokens: the accounts that have one
    live,      \* sessions: the accounts that have one
    req,       \* what each request holds
    bore       \* every account that ever bore a handle

tables == <<user, identity, retired, links, made, resets, live, bore>>
vars == <<tables, req>>

User == [handle : Handles, email : Emails \cup {None}, verified : BOOLEAN,
         source : {"creator", "discord", None}, password : Passwords \cup {None}]

Locks == {"handle", "email", "oauth", "oauth-user", "row"}
            \X (Handles \cup Emails \cup Subjects \cup Users)

\* What a request goes on with, by the operation it asked for.
Request ==
    [op : {"sign up"}, handle : Handles, email : Emails, password : Passwords,
     locks : SUBSET Locks]
    \cup [op : {"verify"}, link : Nat, user : Users, email : Emails, locks : SUBSET Locks]
    \cup [op : {"change email"}, user : Users, email : Emails, locks : SUBSET Locks]
    \cup [op : {"rename"}, user : Users, handle : Handles, old : Handles \cup {None},
          locks : SUBSET Locks]
    \cup [op : {"set password"}, user : Users, password : Passwords, locks : SUBSET Locks]
    \cup [op : {"reset", "sign in", "detach"}, user : Users, locks : SUBSET Locks]
    \cup [op : {"begin"}, user : Users \cup {None}, locks : SUBSET Locks]
    \cup [op : {"attach"}, user : Users, subject : Subjects, locks : SUBSET Locks]
    \cup [op : {"discord"}, subject : Subjects, email : Emails \cup {None},
          user : Users \cup {None}, handle : Handles \cup {None}, sync : BOOLEAN,
          locks : SUBSET Locks]

ASSUME AccountsAssumption ==
    /\ None \notin Users /\ None \notin Emails /\ None \notin Passwords
    /\ None \notin Handles /\ None \notin {"creator", "discord"}
    /\ None \notin User /\ None \notin Request
    /\ MaxLinks \in Nat

Exists(u) == user[u] # None
Verified(u) == Exists(u) /\ user[u].verified

Init ==
    /\ user = [u \in Users |-> None]
    /\ identity = [s \in Subjects |-> None]
    /\ retired = {}
    /\ links = {}
    /\ made = 0
    /\ resets = {}
    /\ live = {}
    /\ req = [r \in Requests |-> None]
    /\ bore = [h \in Handles |-> {}]

------------------------------------------------------------------------------
(* Steps of a request.                                                      *)

Ask(r, call) ==
    /\ req[r] = None
    /\ req' = [req EXCEPT ![r] = call]
    /\ UNCHANGED tables

\* pg_advisory_xact_lock, and for update on the account's row
Free(r, locks) ==
    \A q \in Requests \ {r} : req[q] # None => req[q].locks \cap locks = {}

\* Takes the locks, and goes on with call or answers with a refusal.
Check(r, locks, fine, call) ==
    /\ req[r].locks = {}
    /\ Free(r, locks)
    /\ req' = [req EXCEPT ![r] = IF fine THEN [call EXCEPT !.locks = locks] ELSE None]
    /\ UNCHANGED tables

Asked(r, op) == req[r] # None /\ req[r].op = op
Checked(r, op) == Asked(r, op) /\ req[r].locks # {}

Done(r) == req' = [req EXCEPT ![r] = None]

Fail(r) == req[r] # None /\ Done(r) /\ UNCHANGED tables

HandleLock(h) == <<"handle", h>>
EmailLock(e) == <<"email", e>>
SubjectLock(s) == <<"oauth", s>>
UserLock(u) == <<"oauth-user", u>>
RowLock(u) == <<"row", u>>

------------------------------------------------------------------------------
(* Handles and addresses.                                                   *)

HandleUnavailable(h) ==
    h \in retired \/ \E u \in Users : Exists(u) /\ user[u].handle = h

VerifiedEmailExists(e) == \E u \in Users : Verified(u) /\ user[u].email = e

Bears(u, h) == bore' = [bore EXCEPT ![h] = @ \cup {u}]

KeepCopiesBug(users, e, u) == users

\* The account of a verified address is the only one that names it.
ClearPendingEmailCopies(users, e, u) ==
    [v \in Users |->
        IF v # u /\ users[v] # None /\ users[v].email = e /\ ~ users[v].verified
        THEN [users[v] EXCEPT !.email = None, !.source = None]
        ELSE users[v]]

DeleteVerificationTokensForEmail(e) == {l \in links : l.email # e}

DeleteVerificationTokensForUser(u) == {l \in links : l.user # u}

\* A new link for the account replaces the one it had.
InsertEmailVerificationToken(u, e) ==
    /\ made < MaxLinks
    /\ made' = made + 1
    /\ links' = DeleteVerificationTokensForUser(u)
                    \cup {[id |-> made + 1, user |-> u, email |-> e]}

VerificationByHash(id) == \E l \in links : l.id = id

InsertUser(u, h, e, p) ==
    [user EXCEPT ![u] = [handle |-> h, email |-> e, verified |-> FALSE, source |-> "creator",
                         password |-> p]]

\* The account may have taken another address or verified this one since, and
\* the index on verified addresses has the last word.
VerifyUserEmail(u, e) ==
    IF user[u].email = e /\ ~ user[u].verified /\ ~ VerifiedEmailExists(e)
    THEN [user EXCEPT ![u].verified = TRUE] ELSE user

UpdateUnverifiedEmail(u, e) ==
    IF Verified(u) THEN user
    ELSE [user EXCEPT ![u] = [user[u] EXCEPT !.email = e, !.source = "creator"]]

UpdateUserHandle(u, h) == [user EXCEPT ![u].handle = h]

InsertRetiredHandle(h) == retired \cup {h}

\* Only a first password: the update asks that there is none.
SetFirstPassword(u, p) ==
    IF user[u].password # None THEN user ELSE [user EXCEPT ![u].password = p]

ReplacePassword(u, p) == [user EXCEPT ![u].password = p]

InsertSession(u) == live' = live \cup {u}

------------------------------------------------------------------------------
(* Accounts with a password.                                                *)

AskSignUp(r) ==
    \E h \in Handles, e \in Emails, p \in Passwords :
        Ask(r, [op |-> "sign up", handle |-> h, email |-> e, password |-> p, locks |-> {}])

CheckSignUp(r) ==
    /\ Asked(r, "sign up")
    /\ Check(r, {HandleLock(req[r].handle), EmailLock(req[r].email)},
             ~ HandleUnavailable(req[r].handle) /\ ~ VerifiedEmailExists(req[r].email), req[r])

SignUp(r) ==
    /\ Checked(r, "sign up")
    /\ \E u \in Users :
          /\ ~ Exists(u)
          /\ user' = InsertUser(u, req[r].handle, req[r].email, req[r].password)
          /\ InsertEmailVerificationToken(u, req[r].email)
          /\ InsertSession(u)
          /\ Bears(u, req[r].handle)
    /\ Done(r)
    /\ UNCHANGED <<identity, retired, resets>>

\* The address is read from the link without a lock, and the link again under
\* the lock of its address.
AskVerifyEmail(r) ==
    \E l \in links :
        Ask(r, [op |-> "verify", link |-> l.id, user |-> l.user, email |-> l.email,
                locks |-> {}])

CheckVerifyEmail(r) ==
    /\ Asked(r, "verify")
    /\ Check(r, {EmailLock(req[r].email)}, VerificationByHash(req[r].link), req[r])

VerifyEmail(r) ==
    /\ Checked(r, "verify")
    /\ LET u == req[r].user
           e == req[r].email
           verified == VerifyUserEmail(u, e) IN
       IF verified # user
       THEN /\ user' = ClearPendingEmailCopies(verified, e, u)
            /\ links' = DeleteVerificationTokensForEmail(e)
       ELSE UNCHANGED <<user, links>>
    /\ Done(r)
    /\ UNCHANGED <<identity, retired, made, resets, live, bore>>

AskChangeUnverifiedEmail(r) ==
    \E u \in live, e \in Emails :
        /\ ~ Verified(u)
        /\ Ask(r, [op |-> "change email", user |-> u, email |-> e, locks |-> {}])

CheckChangeUnverifiedEmail(r) ==
    /\ Asked(r, "change email")
    /\ Check(r, {EmailLock(req[r].email)}, ~ VerifiedEmailExists(req[r].email), req[r])

ChangeUnverifiedEmail(r) ==
    /\ Checked(r, "change email")
    /\ LET u == req[r].user IN
       IF Verified(u) THEN UNCHANGED <<user, links, made>>
       ELSE /\ user' = UpdateUnverifiedEmail(u, req[r].email)
            /\ InsertEmailVerificationToken(u, req[r].email)
    /\ Done(r)
    /\ UNCHANGED <<identity, retired, resets, live, bore>>

AskRenameHandle(r) ==
    \E u \in live, h \in Handles :
        /\ Verified(u)
        /\ Ask(r, [op |-> "rename", user |-> u, handle |-> h, old |-> None, locks |-> {}])

\* The account's row is locked first, then both handles in their order.
CheckRenameHandle(r) ==
    /\ Asked(r, "rename")
    /\ LET u == req[r].user
           old == user[u].handle IN
       Check(r, {RowLock(u), HandleLock(old), HandleLock(req[r].handle)},
             old # req[r].handle /\ ~ HandleUnavailable(req[r].handle),
             [req[r] EXCEPT !.old = old])

RenameHandle(r) ==
    /\ Checked(r, "rename")
    /\ retired' = InsertRetiredHandle(req[r].old)
    /\ user' = UpdateUserHandle(req[r].user, req[r].handle)
    /\ Bears(req[r].user, req[r].handle)
    /\ Done(r)
    /\ UNCHANGED <<identity, links, made, resets, live>>

------------------------------------------------------------------------------
(* Passwords and sessions.                                                  *)

AskSetPassword(r) ==
    \E u \in live, p \in Passwords :
        Ask(r, [op |-> "set password", user |-> u, password |-> p, locks |-> {}])

SetPassword(r) ==
    /\ Asked(r, "set password")
    /\ user' = SetFirstPassword(req[r].user, req[r].password)
    /\ Done(r)
    /\ UNCHANGED <<identity, retired, links, made, resets, live, bore>>

VerifiedUserIDByEmail(e) == {u \in Users : Verified(u) /\ user[u].email = e}

AskPasswordReset(r) ==
    \E e \in Emails : \E u \in VerifiedUserIDByEmail(e) :
        Ask(r, [op |-> "reset", user |-> u, locks |-> {}])

\* The new link replaces the account's old one.
RequestPasswordReset(r) ==
    /\ Asked(r, "reset")
    /\ resets' = resets \cup {req[r].user}
    /\ Done(r)
    /\ UNCHANGED <<user, identity, retired, links, made, live, bore>>

TakePasswordReset(u) == u \in resets /\ resets' = resets \ {u}

CompletePasswordReset(u, p) ==
    /\ TakePasswordReset(u)
    /\ user' = ReplacePassword(u, p)
    /\ UNCHANGED <<identity, retired, links, made, live, bore, req>>

\* Accounts may share an address that none of them has verified, and a password.
UsersForSignIn(e) == {u \in Users : Exists(u) /\ user[u].email = e /\ user[u].password # None}

AskSignIn(r) ==
    \E e \in Emails, p \in Passwords :
        LET matches == {u \in UsersForSignIn(e) : user[u].password = p} IN
        /\ Cardinality(matches) = 1
        /\ \E u \in matches : Ask(r, [op |-> "sign in", user |-> u, locks |-> {}])

SignIn(r) ==
    /\ Asked(r, "sign in")
    /\ InsertSession(req[r].user)
    /\ Done(r)
    /\ UNCHANGED <<user, identity, retired, links, made, resets, bore>>

\* The last session of the account ends, by signing out or by its age.
SignOut(u) ==
    /\ u \in live
    /\ live' = live \ {u}
    /\ UNCHANGED <<user, identity, retired, links, made, resets, bore, req>>

LinkExpires ==
    /\ \E l \in links : links' = links \ {l}
    /\ UNCHANGED <<user, identity, retired, made, resets, live, bore, req>>

ResetExpires ==
    /\ \E u \in resets : resets' = resets \ {u}
    /\ UNCHANGED <<user, identity, retired, links, made, live, bore, req>>

------------------------------------------------------------------------------
(* Discord.                                                                 *)

\* oauth_states: the browser leaves for Discord, with the account that attaches
\* or none.
BeginDiscord(r) ==
    \E u \in live \cup {None} :
        /\ u # None => Verified(u)
        /\ Ask(r, [op |-> "begin", user |-> u, locks |-> {}])

\* It comes back once; e is the verified address Discord gives, or none.
CompleteDiscord(r) ==
    /\ Asked(r, "begin")
    /\ \E s \in Subjects, e \in Emails \cup {None} :
          req' = [req EXCEPT ![r] =
            IF @.user # None
            THEN [op |-> "attach", user |-> @.user, subject |-> s, locks |-> {}]
            ELSE [op |-> "discord", subject |-> s, email |-> e, user |-> None,
                  handle |-> None, sync |-> FALSE, locks |-> {}]]
    /\ UNCHANGED tables

UserByOAuthIdentity(s) == identity[s]

InsertOAuthIdentity(s, u) == identity' = [identity EXCEPT ![s] = u]

EmailLocks(e) == IF e = None THEN {} ELSE {EmailLock(e)}

\* An account keeps the address its owner gave it; one that has none, or has
\* Discord's, follows Discord.
FollowsDiscord(u) == user[u].email = None \/ user[u].source = "discord"

MaySync(u, e) == e # None /\ user[u].email # e /\ FollowsDiscord(u)

UpdateDiscordEmail(u, e) ==
    IF FollowsDiscord(u)
    THEN [user EXCEPT ![u] = [user[u] EXCEPT !.email = e, !.verified = TRUE,
                                             !.source = "discord"]]
    ELSE user

InsertDiscordUser(u, h, e) ==
    [user EXCEPT ![u] = [handle |-> h, email |-> e, verified |-> e # None,
                         source |-> IF e = None THEN None ELSE "discord", password |-> None]]

CheckDiscordKnown(r) ==
    /\ Asked(r, "discord")
    /\ UserByOAuthIdentity(req[r].subject) # None
    /\ LET u == UserByOAuthIdentity(req[r].subject)
           sync == MaySync(u, req[r].email) IN
       Check(r, {SubjectLock(req[r].subject)} \cup (IF sync THEN EmailLocks(req[r].email) ELSE {}),
             sync => ~ VerifiedEmailExists(req[r].email),
             [req[r] EXCEPT !.user = u, !.sync = sync])

\* Names are tried until one is free.
CheckDiscordNew(r) ==
    /\ Asked(r, "discord")
    /\ UserByOAuthIdentity(req[r].subject) = None
    /\ \E h \in Handles :
          /\ ~ HandleUnavailable(h)
          /\ Check(r, {SubjectLock(req[r].subject), HandleLock(h)} \cup EmailLocks(req[r].email),
                   ~ VerifiedEmailExists(req[r].email), [req[r] EXCEPT !.handle = h])

\* What was read of the account is looked at again by the update.
SignInDiscord(r) ==
    /\ Checked(r, "discord")
    /\ req[r].user # None
    /\ LET u == req[r].user
           e == req[r].email IN
       IF ~ req[r].sync
       THEN InsertSession(u) /\ UNCHANGED <<user, links>>
       ELSE IF FollowsDiscord(u)
       THEN /\ user' = ClearPendingEmailCopies(UpdateDiscordEmail(u, e), e, u)
            /\ links' = DeleteVerificationTokensForEmail(e)
            /\ InsertSession(u)
       ELSE UNCHANGED <<user, links, live>>
    /\ Done(r)
    /\ UNCHANGED <<identity, retired, made, resets, bore>>

SignUpDiscord(r) ==
    /\ Checked(r, "discord")
    /\ req[r].user = None
    /\ LET e == req[r].email IN
       \E u \in Users :
          /\ ~ Exists(u)
          /\ LET added == InsertDiscordUser(u, req[r].handle, e) IN
             IF e = None THEN user' = added /\ UNCHANGED links
             ELSE user' = ClearPendingEmailCopies(added, e, u) /\ links' = DeleteVerificationTokensForEmail(e)
          /\ InsertOAuthIdentity(req[r].subject, u)
          /\ InsertSession(u)
          /\ Bears(u, req[r].handle)
    /\ Done(r)
    /\ UNCHANGED <<retired, made, resets>>

CheckAttachDiscord(r) ==
    /\ Asked(r, "attach")
    /\ Check(r, {UserLock(req[r].user), SubjectLock(req[r].subject)},
             UserByOAuthIdentity(req[r].subject) = None, req[r])

AttachDiscord(r) ==
    /\ Checked(r, "attach")
    /\ InsertOAuthIdentity(req[r].subject, req[r].user)
    /\ Done(r)
    /\ UNCHANGED <<user, retired, links, made, resets, live, bore>>

AskDetachDiscord(r) ==
    \E u \in live : Ask(r, [op |-> "detach", user |-> u, locks |-> {}])

DiscordSubjectsForUser(u) == {s \in Subjects : identity[s] = u}

DeleteOAuthIdentitiesForUser(u) ==
    [s \in Subjects |-> IF identity[s] = u THEN None ELSE identity[s]]

CheckDetachDiscord(r) ==
    /\ Asked(r, "detach")
    /\ LET mine == DiscordSubjectsForUser(req[r].user) IN
       Check(r, {UserLock(req[r].user)} \cup {SubjectLock(s) : s \in mine}, mine # {}, req[r])

DetachAlwaysBug(r) ==
    /\ Checked(r, "detach")
    /\ identity' = DeleteOAuthIdentitiesForUser(req[r].user)
    /\ Done(r)
    /\ UNCHANGED <<user, retired, links, made, resets, live, bore>>

\* Discord is not detached while it is the only way in.
DetachDiscord(r) ==
    /\ Checked(r, "detach")
    /\ LET u == req[r].user IN
       identity' = IF Verified(u) /\ user[u].password # None
                   THEN DeleteOAuthIdentitiesForUser(u) ELSE identity
    /\ Done(r)
    /\ UNCHANGED <<user, retired, links, made, resets, live, bore>>

------------------------------------------------------------------------------
Next ==
    \/ \E r \in Requests :
          \/ AskSignUp(r) \/ CheckSignUp(r) \/ SignUp(r)
          \/ AskVerifyEmail(r) \/ CheckVerifyEmail(r) \/ VerifyEmail(r)
          \/ AskChangeUnverifiedEmail(r) \/ CheckChangeUnverifiedEmail(r)
          \/ ChangeUnverifiedEmail(r)
          \/ AskRenameHandle(r) \/ CheckRenameHandle(r) \/ RenameHandle(r)
          \/ AskSetPassword(r) \/ SetPassword(r)
          \/ AskPasswordReset(r) \/ RequestPasswordReset(r)
          \/ AskSignIn(r) \/ SignIn(r)
          \/ BeginDiscord(r) \/ CompleteDiscord(r) \/ CheckDiscordKnown(r) \/ CheckDiscordNew(r)
          \/ SignInDiscord(r) \/ SignUpDiscord(r)
          \/ CheckAttachDiscord(r) \/ AttachDiscord(r)
          \/ AskDetachDiscord(r) \/ CheckDetachDiscord(r) \/ DetachDiscord(r)
          \/ Fail(r)
    \/ \E u \in Users : SignOut(u) \/ \E p \in Passwords : CompletePasswordReset(u, p)
    \/ LinkExpires
    \/ ResetExpires

Spec == Init /\ [][Next]_vars

------------------------------------------------------------------------------
TypeOK ==
    /\ user \in [Users -> User \cup {None}]
    /\ identity \in [Subjects -> Users \cup {None}]
    /\ retired \subseteq Handles
    /\ links \subseteq [id : 1..MaxLinks, user : Users, email : Emails]
    /\ made \in 0..MaxLinks
    /\ resets \subseteq Users /\ live \subseteq Users
    /\ bore \in [Handles -> SUBSET Users]
    /\ req \in [Requests -> Request \cup {None}]

\* A verified address is its account's alone: no other account names it, not
\* even one that has still to verify it, and no link can verify it again.
VerifiedAddressIsSole ==
    /\ \A u, v \in Users :
          u # v /\ Verified(u) /\ Exists(v) => user[v].email # user[u].email
    /\ \A l \in links : ~ VerifiedEmailExists(l.email) /\ user[l.user].email = l.email

\* A handle stays with the account that first bore it, though it renames: links
\* to a creator never lead to another one.
HandlesStayWithTheirAccount ==
    \A h \in Handles : Cardinality(bore[h]) <= 1

\* An account with a verified address can always be signed in to again: by a
\* password that names it alone, or through Discord.
CanSignInAgain ==
    \A u \in Users : Verified(u) => user[u].password # None \/ DiscordSubjectsForUser(u) # {}
==============================================================================
