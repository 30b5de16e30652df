------------------------------- MODULE Profiles -------------------------------
(***************************************************************************)
(* Public profiles and their restriction: account/profile.go, featured.go, *)
(* recommendations.go and staff/restricted.go.                             *)
(*                                                                         *)
(* An owner's requests edit the profile while staff may restrict it.       *)
(* Every one of them takes the lock of the account's row (Lock), and looks *)
(* under it at what it needs; a picture is stored before that, after a     *)
(* first look without the lock.  Works come and go meanwhile.              *)
(***************************************************************************)
EXTENDS Naturals, FiniteSets, Sequences, SequencesExt

CONSTANTS
    Accounts,
    Works,
    OwnerOf,         \* the owner of each work
    Requests,
    None,
    FeaturedLimit,   \* featuredLimit
    RecommendLimit,  \* recommendationLimit
    MaxEdits,        \* bound: pictures ever stored, which are 1..MaxEdits, and texts
    MaxAudits,       \* bound: decisions about profiles
    MaxChanges       \* bound: works that come to Browse or leave it

VARIABLES
    text,        \* public_profiles and public_profile_links: the edit they hold
    shown,       \* avatar_media_id, for the banner alike: a picture or 0
    media,       \* profile_media: the pictures on record of each account
    featured,    \* profile_featured_works, in their order
    recommended, \* profile_recommendations
    restricted,  \* restricted_profiles
    audits,      \* restricted_profile_audits
    browse,      \* works that are published, listed, and neither deleted nor taken down
    edits,       \* pictures and texts so far
    changes,     \* what MaxChanges bounds, so far
    req          \* what each request holds

\* A choice without repetition, of as many works as a profile features.
Selections == {s \in BoundedSeq(Works, FeaturedLimit) : IsInjective(s)}

\* What a request holds; the fields its operation has no use for are as in Call.
Request ==
    [op : {"save", "picture", "remove picture", "feature", "recommend", "unrecommend",
           "restrict", "restore"},
     account : Accounts, locked : BOOLEAN, edit : 0..MaxEdits, works : Selections,
     work : Works \cup {None}]

Settings ==
    /\ DOMAIN OwnerOf = Works
    /\ FeaturedLimit \in Nat /\ RecommendLimit \in Nat \ {0}
    /\ MaxEdits \in Nat /\ MaxChanges \in Nat
    /\ None \notin Request

profile == <<text, shown, media, featured, recommended>>
staff == <<restricted, audits>>
vars == <<profile, staff, browse, edits, changes, req>>

Init ==
    /\ text = [a \in Accounts |-> 0]
    /\ shown = [a \in Accounts |-> 0]
    /\ media = [a \in Accounts |-> {}]
    /\ featured = [a \in Accounts |-> <<>>]
    /\ recommended = [a \in Accounts |-> {}]
    /\ restricted = {}
    /\ audits = <<>>
    /\ browse = Works
    /\ edits = 0
    /\ changes = 0
    /\ req = [r \in Requests |-> None]

------------------------------------------------------------------------------
(* The account's row.                                                       *)

Start(r, call) ==
    /\ req[r] = None
    /\ req' = [req EXCEPT ![r] = call]

\* No other request has the row of the account.
Unlocked(a) == \A q \in Requests : req[q] # None => ~ (req[q].account = a /\ req[q].locked)

\* An owner is refused while the profile is restricted; staff are not asked.
Lock(r) ==
    /\ req[r] # None
    /\ ~ req[r].locked
    /\ Unlocked(req[r].account)
    /\ req' = [req EXCEPT ![r] =
                  IF req[r].op \notin {"restrict", "restore"} /\ req[r].account \in restricted
                  THEN None ELSE [req[r] EXCEPT !.locked = TRUE]]
    /\ UNCHANGED <<profile, staff, browse, edits, changes>>

Ready(r, op) == req[r] # None /\ req[r].locked /\ req[r].op = op

Done(r) == req' = [req EXCEPT ![r] = None]

\* The transaction is rolled back; a picture that was stored stays as a blob.
Fail(r) ==
    /\ req[r] # None
    /\ Done(r)
    /\ UNCHANGED <<profile, staff, browse, edits, changes>>

Call(op, a) ==
    [op |-> op, account |-> a, locked |-> FALSE, edit |-> 0, works |-> <<>>, work |-> None]

------------------------------------------------------------------------------
(* The owner.                                                               *)

AskSaveProfile(r, a) ==
    /\ edits < MaxEdits
    /\ edits' = edits + 1
    /\ Start(r, [Call("save", a) EXCEPT !.edit = edits + 1])
    /\ UNCHANGED <<profile, staff, browse, changes>>

\* Fields and links are replaced together.
SaveProfile(r) ==
    /\ Ready(r, "save")
    /\ text' = [text EXCEPT ![req[r].account] = req[r].edit]
    /\ Done(r)
    /\ UNCHANGED <<shown, media, featured, recommended, staff, browse, edits, changes>>

\* The file is read and stored after a look at the restriction without the lock.
AcceptPicture(r, a) ==
    /\ a \notin restricted
    /\ edits < MaxEdits
    /\ edits' = edits + 1
    /\ Start(r, [Call("picture", a) EXCEPT !.edit = edits + 1])
    /\ UNCHANGED <<profile, staff, browse, changes>>

ReplacePicture(a, picture) ==
    /\ shown' = [shown EXCEPT ![a] = picture]
    /\ media' = [media EXCEPT ![a] = (@ \cup ({picture} \ {0})) \ {shown[a]}]

SetPicture(r) ==
    /\ Ready(r, "picture")
    /\ ReplacePicture(req[r].account, req[r].edit)
    /\ Done(r)
    /\ UNCHANGED <<text, featured, recommended, staff, browse, edits, changes>>

AskRemovePicture(r, a) ==
    /\ Start(r, Call("remove picture", a))
    /\ UNCHANGED <<profile, staff, browse, edits, changes>>

RemovePicture(r) ==
    /\ Ready(r, "remove picture")
    /\ IF shown[req[r].account] = 0 THEN UNCHANGED <<shown, media>>
       ELSE ReplacePicture(req[r].account, 0)
    /\ Done(r)
    /\ UNCHANGED <<text, featured, recommended, staff, browse, edits, changes>>

AskSaveFeatured(r, a) ==
    /\ \E choice \in Selections : Start(r, [Call("feature", a) EXCEPT !.works = choice])
    /\ UNCHANGED <<profile, staff, browse, edits, changes>>

SaveFeatured(r) ==
    /\ Ready(r, "feature")
    /\ LET a == req[r].account
           mine == {w \in browse : OwnerOf[w] = a} IN
       featured' = IF ToSet(req[r].works) \subseteq mine
                   THEN [featured EXCEPT ![a] = req[r].works] ELSE featured
    /\ Done(r)
    /\ UNCHANGED <<text, shown, media, recommended, staff, browse, edits, changes>>

AskAddRecommendation(r, a) ==
    /\ \E w \in Works : Start(r, [Call("recommend", a) EXCEPT !.work = w])
    /\ UNCHANGED <<profile, staff, browse, edits, changes>>

\* Works that have left Browse are dropped before the rest are counted.
AddRecommendation(r) ==
    /\ Ready(r, "recommend")
    /\ LET a == req[r].account
           w == req[r].work
           kept == recommended[a] \cap browse
           fits == w \in kept \/ Cardinality(kept) < RecommendLimit IN
       recommended' = IF w \in browse /\ OwnerOf[w] # a /\ fits
                      THEN [recommended EXCEPT ![a] = kept \cup {w}] ELSE recommended
    /\ Done(r)
    /\ UNCHANGED <<text, shown, media, featured, staff, browse, edits, changes>>

AskRemoveRecommendation(r, a) ==
    /\ \E w \in Works : Start(r, [Call("unrecommend", a) EXCEPT !.work = w])
    /\ UNCHANGED <<profile, staff, browse, edits, changes>>

RemoveRecommendation(r) ==
    /\ Ready(r, "unrecommend")
    /\ recommended' = [recommended EXCEPT ![req[r].account] = @ \ {req[r].work}]
    /\ Done(r)
    /\ UNCHANGED <<text, shown, media, featured, staff, browse, edits, changes>>

------------------------------------------------------------------------------
(* Staff, and the works.                                                    *)

AskDecide(r, a) ==
    /\ \E op \in {"restrict", "restore"} : Start(r, Call(op, a))
    /\ UNCHANGED <<profile, staff, browse, edits, changes>>

Audit(a, action) ==
    /\ Len(audits) < MaxAudits
    /\ audits' = Append(audits, [subject |-> a, action |-> action])

\* A second restriction takes the place of the first.
RestrictProfile(r) ==
    /\ Ready(r, "restrict")
    /\ restricted' = restricted \cup {req[r].account}
    /\ Audit(req[r].account, "restrict")
    /\ Done(r)
    /\ UNCHANGED <<profile, browse, edits, changes>>

RestoreAlwaysBug(r) ==
    /\ Ready(r, "restore")
    /\ restricted' = restricted \ {req[r].account}
    /\ Audit(req[r].account, "restore")
    /\ Done(r)
    /\ UNCHANGED <<profile, browse, edits, changes>>

RestoreProfile(r) ==
    /\ Ready(r, "restore")
    /\ IF req[r].account \in restricted
       THEN restricted' = restricted \ {req[r].account} /\ Audit(req[r].account, "restore")
       ELSE UNCHANGED staff
    /\ Done(r)
    /\ UNCHANGED <<profile, browse, edits, changes>>

LeaveOrEnterBrowse ==
    /\ changes < MaxChanges
    /\ changes' = changes + 1
    /\ \E w \in Works : browse' = IF w \in browse THEN browse \ {w} ELSE browse \cup {w}
    /\ UNCHANGED <<profile, staff, edits, req>>

------------------------------------------------------------------------------
Next ==
    \/ \E r \in Requests, a \in Accounts :
          \/ AskSaveProfile(r, a) \/ AcceptPicture(r, a) \/ AskRemovePicture(r, a)
          \/ AskSaveFeatured(r, a) \/ AskAddRecommendation(r, a)
          \/ AskRemoveRecommendation(r, a) \/ AskDecide(r, a)
    \/ \E r \in Requests :
          \/ Lock(r) \/ SaveProfile(r) \/ SetPicture(r) \/ RemovePicture(r) \/ SaveFeatured(r)
          \/ AddRecommendation(r) \/ RemoveRecommendation(r) \/ RestrictProfile(r)
          \/ RestoreProfile(r) \/ Fail(r)
    \/ LeaveOrEnterBrowse

Spec == Init /\ [][Next]_vars

------------------------------------------------------------------------------
TypeOK ==
    /\ text \in [Accounts -> 0..MaxEdits] /\ shown \in [Accounts -> 0..MaxEdits]
    /\ media \in [Accounts -> SUBSET (1..MaxEdits)]
    /\ featured \in [Accounts -> Selections]
    /\ recommended \in [Accounts -> SUBSET Works]
    /\ restricted \subseteq Accounts /\ browse \subseteq Works
    /\ audits \in Seq([subject : Accounts, action : {"restrict", "restore"}])
    /\ edits \in 0..MaxEdits /\ changes \in 0..MaxChanges
    /\ req \in [Requests -> Request \cup {None}]

\* A restricted profile does not change, whatever its owner had begun before.
RestrictedStays ==
    [][\A a \in restricted :
          /\ text'[a] = text[a] /\ shown'[a] = shown[a] /\ media'[a] = media[a]
          /\ featured'[a] = featured[a] /\ recommended'[a] = recommended[a]]_vars

\* The record of decisions tells how the profile stands: the last one of an account is a
\* restriction just while the profile is restricted, and each restoring follows one, by two
\* of the staff at once either.
AuditsTellTheStory ==
    \A a \in Accounts :
        LET Subject(i) == audits[i].subject = a
            Restricts(i) == Subject(i) /\ audits[i].action = "restrict"
            LastBefore(i, n) == \A k \in (i + 1)..(n - 1) : ~ Subject(k) IN
        /\ a \in restricted <=>
              \E i \in DOMAIN audits : Restricts(i) /\ LastBefore(i, Len(audits) + 1)
        /\ \A n \in DOMAIN audits : audits[n] = [subject |-> a, action |-> "restore"] =>
              \E i \in 1..(n - 1) : Restricts(i) /\ LastBefore(i, n)

\* Requests at the same time leave no picture on record but the one shown, and
\* no more recommendations than there is room for.
ProfilesStayInBounds ==
    \A a \in Accounts :
        /\ media[a] = {shown[a]} \ {0}
        /\ Cardinality(recommended[a]) <= RecommendLimit
        /\ \A w \in recommended[a] : OwnerOf[w] # a
        /\ \A i \in 1..Len(featured[a]) : OwnerOf[featured[a][i]] = a
==============================================================================
