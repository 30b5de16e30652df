---------------------------- MODULE ImportsProofs ----------------------------
(***************************************************************************)
(* What a schedule publishes, what a save overwrites, which releases       *)
(* become versions, and that placing all of an import can be undone.       *)
(*                                                                         *)
(* Schedules.  A token is fresh when a scheduler takes it, so a scheduler  *)
(* whose token is still the schedule's has the edition the schedule names  *)
(* (LeaseInOrder).  Whoever takes a post from public view or deletes it    *)
(* settles its schedule first (WaitingInOrder).  A post's version grows    *)
(* with every change of its text, so a save that finds the version it read *)
(* finds the text it read (SaveInOrder).                                   *)
(*                                                                         *)
(* Releases.  What a work was made of came before its repository was       *)
(* verified or is recorded as published, and all else that is recorded     *)
(* came after (ReleaseInOrder), so what is imported is new to the work.    *)
(*                                                                         *)
(* The shelf.  A page's blocks have numbers of their own, and a placed     *)
(* piece remembers the block it changed (InGoodOrder).  Undoing one        *)
(* placement takes back the page it was made on (Takes), so by induction   *)
(* undoing all of them, the last first, takes back the first page.         *)
(***************************************************************************)
EXTENDS Imports, WellFoundedInduction, TLAPS

-----------------------------------------------------------------------------
(* The inductive invariant.                                                  *)

Text == [slug : Slugs \cup {NoSlug}, words : 0..MaxVersion]

KeptShort ==
    /\ kept \in [Posts -> Seq(Text)]
    /\ \A p \in Posts : Len(kept[p]) <= MaxRevisions

WaitingInOrder(p) ==
    schedule[p].state \in Waiting =>
        /\ Lockable(p) /\ post[p].status # "unpublished"
        /\ schedule[p].revision \in DOMAIN kept[p]

LeaseInOrder(w) ==
    worker[w].held =>
        /\ worker[w].token # 0
        /\ HeldByThisAttempt(w) => worker[w].revision = schedule[worker[w].post].revision

SaveInOrder(r) ==
    LET p == save[r].post IN
    save[r].version > 0 =>
        /\ post[p].status # "none" /\ save[r].version < MaxVersion
        /\ \/ post[p].status = "removed"
           \/ save[r].version < post[p].version
           \/ save[r].version = post[p].version /\ save[r].words = post[p].words

AnnouncedInOrder(p) ==
    /\ announced[p] <= 1
    /\ announced[p] = 1 => post[p].published \/ post[p].status = "removed"
    /\ post[p].status = "none" => announced[p] = 0

IInv ==
    /\ TypeOK
    /\ KeptShort
    /\ \A p \in Posts : WaitingInOrder(p) /\ AnnouncedInOrder(p)
    /\ \A w \in Workers : LeaseInOrder(w)
    /\ \A r \in Saves : SaveInOrder(r)

-----------------------------------------------------------------------------
(* What the steps change.                                                    *)

\* Of the posts, only p changes.
OnlyPost(p) ==
    /\ post' \in [Posts -> Post]
    /\ \A q \in Posts \ {p} : post'[q] = post[q]

OnlySchedule(p) ==
    /\ schedule' \in [Posts -> Schedule]
    /\ \A q \in Posts \ {p} : schedule'[q] = schedule[q]

SameText(p) == post'[p].words = post[p].words /\ post'[p].version = post[p].version

\* The drafted changes of p become others.
Rewritten(p) ==
    /\ OnlyPost(p)
    /\ post'[p].version = post[p].version + 1
    /\ post'[p].status = post[p].status /\ post'[p].deleted = post[p].deleted
    /\ post'[p].published = post[p].published

\* Post p has another status, under the same text.
Moved(p, status, deleted, published) ==
    /\ OnlyPost(p) /\ SameText(p)
    /\ post'[p].status = status /\ post'[p].deleted = deleted
    /\ post'[p].published = published

LEMMA PostFields ==
    ASSUME TypeOK, NEW p \in Posts
    PROVE  /\ post \in [Posts -> Post] /\ post[p] \in Post
           /\ post[p].status \in {"none", "draft", "published", "unpublished", "removed"}
           /\ post[p].slug \in Slugs \cup {NoSlug}
           /\ post[p].words \in 0..MaxVersion /\ post[p].version \in 0..MaxVersion
           /\ post[p].published \in BOOLEAN /\ post[p].deleted \in BOOLEAN
           /\ post[p].left \in 0..RecoveryDays
BY DEF TypeOK, Post

LEMMA ScheduleFields ==
    ASSUME TypeOK, NEW p \in Posts
    PROVE  /\ schedule \in [Posts -> Schedule] /\ schedule[p] \in Schedule
           /\ schedule[p].revision \in 0..MaxRevisions /\ schedule[p].due \in 0..MaxDue
           /\ schedule[p].attempts \in 0..MaxTries /\ schedule[p].token \in Nat
           /\ schedule[p].lease \in 0..ScheduleLease /\ schedule[p].discord \in BOOLEAN
BY DEF TypeOK, Schedule

LEMMA AbsentTypes == Absent \in Post /\ Unscheduled \in Schedule
BY BlogAssumption DEF Absent, Post, Unscheduled, Schedule

LEMMA PublicEffect ==
    ASSUME TypeOK, NEW p \in Posts, NEW n \in 0..MaxRevisions,
           NEW s \in Slugs \cup {NoSlug}, post' = Public(p, n, s)
    PROVE  Moved(p, "published", post[p].deleted, TRUE) /\ post'[p].public = n
<1> DEFINE x == post[p]
           New == [x EXCEPT !.status = "published", !.public = n, !.published = TRUE,
                            !.slug = IF x.published THEN @ ELSE s]
<1>1. post' = [post EXCEPT ![p] = New]
  BY DEF Public
<1>2. x \in Post /\ post \in [Posts -> Post]
  BY PostFields
<1> HIDE DEF x
<1>3. /\ New \in Post /\ New.status = "published" /\ New.public = n /\ New.published = TRUE
      /\ New.words = x.words /\ New.version = x.version /\ New.deleted = x.deleted
  BY <1>2 DEF Post
<1> HIDE DEF New
<1> USE DEF x
<1> QED
  BY <1>1, <1>2, <1>3 DEF Moved, OnlyPost, SameText

LEMMA RewriteEffect ==
    ASSUME TypeOK, NEW p \in Posts, NEW s \in Slugs \cup {NoSlug}, NEW w \in 0..MaxVersion,
           post[p].version < MaxVersion,
           post' = [post EXCEPT ![p] =
                       [post[p] EXCEPT !.slug = s, !.version = @ + 1, !.words = w]]
    PROVE  Rewritten(p)
<1> DEFINE x == post[p]
           New == [x EXCEPT !.slug = s, !.version = @ + 1, !.words = w]
<1>1. post' = [post EXCEPT ![p] = New]
  OBVIOUS
<1>2. /\ x \in Post /\ post \in [Posts -> Post]
      /\ x.version + 1 \in 0..MaxVersion
  BY PostFields, BlogAssumption
<1> HIDE DEF x
<1>3. /\ New \in Post /\ New.status = x.status /\ New.published = x.published
      /\ New.version = x.version + 1 /\ New.deleted = x.deleted
  BY <1>2 DEF Post
<1> HIDE DEF New
<1> USE DEF x
<1> QED
  BY <1>1, <1>2, <1>3 DEF Rewritten, OnlyPost

\* The other operations on a post.
LEMMA PostSteps ==
    ASSUME TypeOK, NEW p \in Posts
    PROVE  /\ CreatePost(p) => /\ post[p].status = "none" /\ OnlyPost(p)
                               /\ post'[p].status = "draft"
           /\ UnpublishPost(p) => Moved(p, "unpublished", post[p].deleted, post[p].published)
           /\ DeletePost(p) => Moved(p, post[p].status, TRUE, post[p].published)
           /\ RecoverPost(p) => Moved(p, post[p].status, FALSE, post[p].published)
           /\ RemovePost(p) => OnlyPost(p) /\ post'[p].status = "removed"
           /\ \A n \in 1..MaxRevisions :
                 RepublishPost(p, n) => Moved(p, "published", post[p].deleted, post[p].published)
           /\ \A s \in Slugs :
                 CorrectAddress(p, s)
                    => Moved(p, post[p].status, post[p].deleted, post[p].published)
<1>0. post[p] \in Post /\ post \in [Posts -> Post]
  BY PostFields
<1>1. ASSUME CreatePost(p)
      PROVE  post[p].status = "none" /\ OnlyPost(p) /\ post'[p].status = "draft"
  <2>1. PICK s \in Slugs \cup {NoSlug} :
           post' = [post EXCEPT ![p] = [Absent EXCEPT !.status = "draft", !.slug = s,
                                                      !.version = 1]]
    BY <1>1 DEF CreatePost
  <2>2. 1 \in 0..MaxVersion
    BY BlogAssumption
  <2> QED
    BY <1>0, <1>1, <2>1, <2>2, AbsentTypes DEF CreatePost, OnlyPost, Absent, Post
<1>2. ASSUME RemovePost(p) PROVE OnlyPost(p) /\ post'[p].status = "removed"
  BY <1>0, <1>2, AbsentTypes DEF RemovePost, OnlyPost, Absent, Post
<1>3. ASSUME UnpublishPost(p)
      PROVE  Moved(p, "unpublished", post[p].deleted, post[p].published)
  BY <1>0, <1>3 DEF UnpublishPost, Moved, OnlyPost, SameText, Post
<1>4. ASSUME DeletePost(p) PROVE Moved(p, post[p].status, TRUE, post[p].published)
  <2>1. RecoveryDays \in 0..RecoveryDays
    BY BlogAssumption
  <2> QED
    BY <1>0, <1>4, <2>1 DEF DeletePost, Moved, OnlyPost, SameText, Post
<1>5. ASSUME RecoverPost(p) PROVE Moved(p, post[p].status, FALSE, post[p].published)
  BY <1>0, <1>5 DEF RecoverPost, Moved, OnlyPost, SameText, Post
<1>6. ASSUME NEW n \in 1..MaxRevisions, RepublishPost(p, n)
      PROVE  Moved(p, "published", post[p].deleted, post[p].published)
  <2>1. n \in 0..MaxRevisions
    BY BlogAssumption
  <2> QED
    BY <1>0, <1>6, <2>1 DEF RepublishPost, Moved, OnlyPost, SameText, Post
<1>7. ASSUME NEW s \in Slugs, CorrectAddress(p, s)
      PROVE  Moved(p, post[p].status, post[p].deleted, post[p].published)
  BY <1>0, <1>7 DEF CorrectAddress, Moved, OnlyPost, SameText, Post
<1> QED
  BY <1>1, <1>2, <1>3, <1>4, <1>5, <1>6, <1>7

LEMMA SettleEffect ==
    ASSUME TypeOK, NEW p \in Posts, NEW state \in {"published", "cancelled", "stopped"}
    PROVE  /\ Settle(p, state) \in [Posts -> Schedule]
           /\ \A q \in Posts \ {p} : Settle(p, state)[q] = schedule[q]
           /\ Settle(p, state)[p].state = state
           /\ Settle(p, state)[p].revision = schedule[p].revision
<1>1. schedule[p] \in Schedule /\ schedule \in [Posts -> Schedule]
  BY ScheduleFields
<1>2. 0 \in 0..ScheduleLease
  BY BlogAssumption
<1> QED
  BY <1>1, <1>2 DEF Settle, Schedule

\* overtakeSchedule leaves no schedule of the post waiting.
LEMMA OvertakenEffect ==
    ASSUME TypeOK, NEW p \in Posts, Overtakable(p), schedule' = Overtaken(p)
    PROVE  OnlySchedule(p) /\ schedule'[p].state \notin Waiting
<1>1. CASE schedule[p].state = "pending"
  BY <1>1, SettleEffect DEF Overtaken, OnlySchedule, Waiting
<1>2. CASE schedule[p].state # "pending"
  BY <1>2, ScheduleFields DEF Overtaken, Overtakable, OnlySchedule, Waiting
<1> QED
  BY <1>1, <1>2

\* captureRevision keeps every edition and adds one.
LEMMA CaptureEffect ==
    ASSUME TypeOK, KeptShort, NEW p \in Posts, Capture(p)
    PROVE  /\ KeptShort'
           /\ \A q \in Posts : DOMAIN kept[q] \subseteq DOMAIN kept'[q]
           /\ Len(kept[p]) + 1 \in DOMAIN kept'[p] \cap (0..MaxRevisions)
<1>1. kept[p] \in Seq(Text) /\ Len(kept[p]) < MaxRevisions
  BY DEF KeptShort, Capture
<1>2. Edition(p) \in Text
  BY PostFields DEF Edition, Text
<1>3. /\ Append(kept[p], Edition(p)) \in Seq(Text)
      /\ Len(Append(kept[p], Edition(p))) = Len(kept[p]) + 1
  BY <1>1, <1>2
<1>4. \A q \in Posts : kept'[q] = IF q = p THEN Append(kept[p], Edition(p)) ELSE kept[q]
  BY DEF Capture, TypeOK
<1>5. MaxRevisions \in Nat
  BY BlogAssumption
<1>6. KeptShort'
  <2>1. kept' \in [Posts -> Seq(Text)]
    BY <1>3 DEF Capture, KeptShort
  <2>2. \A q \in Posts : Len(kept'[q]) <= MaxRevisions
    <3> TAKE q \in Posts
    <3>1. CASE q = p
      <4>1. Len(kept'[q]) = Len(kept[p]) + 1 /\ Len(kept[p]) \in Nat
        <5>1. kept'[q] = Append(kept[p], Edition(p))
          BY <1>4, <3>1
        <5> QED
          BY <1>1, <1>3, <5>1
      <4> QED
        BY <1>1, <1>5, <4>1
    <3>2. CASE q # p
      BY <1>4, <3>2 DEF KeptShort
    <3> QED
      BY <3>1, <3>2
  <2> QED
    BY <2>1, <2>2 DEF KeptShort
<1>7. kept'[p] = Append(kept[p], Edition(p))
  BY <1>4
<1>8. Len(kept[p]) \in Nat /\ DOMAIN kept[p] = 1..Len(kept[p])
      /\ DOMAIN kept'[p] = 1..(Len(kept[p]) + 1)
  BY <1>1, <1>3, <1>7
<1> QED
  BY <1>1, <1>4, <1>5, <1>6, <1>8

-----------------------------------------------------------------------------
(* The steps.                                                                *)

LEMMA StepCases ==
    ASSUME [Next]_vars
    PROVE  \/ \E p \in Posts :
                 \/ CreatePost(p) \/ Checkpoint(p) \/ PublishPost(p) \/ UnpublishPost(p)
                 \/ DeletePost(p) \/ RecoverPost(p) \/ RemovePost(p) \/ CancelSchedule(p)
                 \/ \E r \in Saves, s \in Slugs \cup {NoSlug} : CheckSave(r, p, s)
                 \/ \E n \in 1..MaxRevisions : RestoreRevision(p, n) \/ RepublishPost(p, n)
                 \/ \E s \in Slugs : CorrectAddress(p, s)
                 \/ \E due \in 1..MaxDue, discord \in BOOLEAN :
                       \/ SchedulePost(p, due, discord)
                       \/ \E n \in 1..MaxRevisions : ReplaceSchedule(p, n, due, discord)
                 \/ \E w \in Workers : LeaseDueSchedule(w, p)
           \/ \E r \in Saves : SavePost(r)
           \/ \E w \in Workers : PublishLeased(w) \/ LeaseLost(w) \/ PublishFails(w)
           \/ SwitchWriterOn \/ SwitchWriterOff \/ Tick \/ UNCHANGED vars
BY DEF Next, Writing, Publishing, Scheduling, Works

\* What a scheduler does that still holds its schedule: it stops it, leaves it as it is
\* or publishes the edition it leased.
LEMMA LeasedEffect ==
    ASSUME IInv, NEW w \in Workers, PublishLeased(w)
    PROVE  LET p == worker[w].post IN
           /\ p \in Posts /\ Exists(p) /\ HeldByThisAttempt(w) /\ worker[w].held
           /\ OnlySchedule(p) /\ UNCHANGED <<kept, writer, save, spent>>
           /\ worker' = [worker EXCEPT ![w] = NoLease]
           /\ \/ /\ UNCHANGED <<post, announced, reserved>>
                 /\ schedule'[p].state = "stopped" \/ schedule' = schedule
              \/ /\ Moved(p, "published", post[p].deleted, TRUE)
                 /\ post'[p].public = worker[w].revision
                 /\ schedule'[p].state = "published"
                 /\ announced' = Announced(p, worker[w].discord)
                 /\ \E s \in Slugs \cup {NoSlug} : reserved' = Reserves(p, s)
<1> DEFINE p == worker[w].post
           n == worker[w].revision
<1>1. /\ TypeOK /\ KeptShort /\ WaitingInOrder(p) /\ LeaseInOrder(w) /\ p \in Posts
      /\ n \in 0..MaxRevisions
  BY DEF IInv, TypeOK
<1>2. /\ Exists(p) /\ HeldByThisAttempt(w) /\ worker[w].held
      /\ worker' = [worker EXCEPT ![w] = NoLease] /\ UNCHANGED <<kept, writer, save, spent>>
  BY DEF PublishLeased
<1>3. n \in DOMAIN kept[p] /\ kept[p] \in Seq(Text)
  BY <1>1, <1>2 DEF LeaseInOrder, WaitingInOrder, HeldByThisAttempt, Waiting, KeptShort
<1>4. kept[p][n].slug \in Slugs \cup {NoSlug}
  <2>1. kept[p][n] \in Text
    BY <1>3
  <2> QED
    BY <2>1 DEF Text
<1>5. CASE schedule' = Settle(p, "stopped") /\ UNCHANGED <<post, reserved, announced>>
  BY <1>1, <1>2, <1>5, SettleEffect DEF OnlySchedule
<1>6. CASE UNCHANGED <<schedule, post, reserved, announced>>
  BY <1>1, <1>2, <1>6, ScheduleFields DEF OnlySchedule
<1>7. CASE /\ post' = Public(p, n, kept[p][n].slug)
           /\ reserved' = Reserves(p, kept[p][n].slug)
           /\ announced' = Announced(p, worker[w].discord)
           /\ schedule' = Settle(p, "published")
  <2>1. OnlySchedule(p) /\ schedule'[p].state = "published"
    BY <1>1, <1>7, SettleEffect DEF OnlySchedule
  <2>2. Moved(p, "published", post[p].deleted, TRUE) /\ post'[p].public = n
    <3>1. PICK s \in Slugs \cup {NoSlug} : s = kept[p][n].slug
      BY <1>4
    <3>2. post' = Public(p, n, s)
      BY <1>7, <3>1
    <3> HIDE DEF p, n
    <3> QED
      BY <1>1, <3>2, PublicEffect
  <2> QED
    BY <1>1, <1>2, <1>4, <1>7, <2>1, <2>2
<1> QED
  BY <1>5, <1>6, <1>7 DEF PublishLeased

\* What PublishPost does to the rest.
LEMMA PublishEffect ==
    ASSUME IInv, NEW p \in Posts, PublishPost(p)
    PROVE  /\ Lockable(p) /\ KeptShort'
           /\ \A q \in Posts : DOMAIN kept[q] \subseteq DOMAIN kept'[q]
           /\ Moved(p, "published", post[p].deleted, TRUE)
           /\ OnlySchedule(p) /\ schedule'[p].state \notin Waiting
<1>1. TypeOK /\ KeptShort
  BY DEF IInv
<1>2. /\ Capture(p) /\ Overtakable(p) /\ schedule' = Overtaken(p) /\ Lockable(p)
      /\ post' = Public(p, Len(kept[p]) + 1, post[p].slug)
  BY DEF PublishPost
<1>3. Len(kept[p]) + 1 \in 0..MaxRevisions
  BY <1>1, <1>2, CaptureEffect
<1> QED
  BY <1>1, <1>2, <1>3, CaptureEffect, OvertakenEffect, PublicEffect, PostFields

LEMMA SaveEffect ==
    ASSUME IInv, NEW r \in Saves, SavePost(r)
    PROVE  LET p == save[r].post IN
           /\ p \in Posts /\ save[r].version > 0 /\ save' = [save EXCEPT ![r] = NoSave]
           /\ \/ post' = post
              \/ Exists(p) /\ post[p].version = save[r].version /\ Rewritten(p)
<1> DEFINE p == save[r].post
<1>1. /\ TypeOK /\ p \in Posts /\ SaveInOrder(r) /\ save[r].slug \in Slugs \cup {NoSlug}
      /\ save[r].version \in 0..MaxVersion
  <2>1. TypeOK /\ SaveInOrder(r)
    BY DEF IInv
  <2> QED
    BY <2>1 DEF TypeOK
<1>2. save[r].version > 0 /\ save' = [save EXCEPT ![r] = NoSave]
  BY DEF SavePost
<1>3. CASE post' = Saved(r) /\ Exists(p) /\ post[p].version = save[r].version
  <2>1. post[p].version < MaxVersion /\ post[p].version \in 0..MaxVersion
    BY <1>1, <1>2, <1>3, PostFields DEF SaveInOrder, Exists
  <2>2. Rewritten(p)
    BY <1>1, <1>3, <2>1, RewriteEffect DEF Saved
  <2> QED
    BY <1>1, <1>2, <1>3, <2>2
<1> QED
  BY <1>1, <1>2, <1>3 DEF SavePost

LEMMA RestoreEffect ==
    ASSUME IInv, NEW p \in Posts, NEW n \in 1..MaxRevisions, RestoreRevision(p, n)
    PROVE  Exists(p) /\ Rewritten(p)
<1>1. TypeOK /\ Exists(p) /\ n \in DOMAIN kept[p] /\ post[p].version < MaxVersion
  BY DEF IInv, RestoreRevision, Lockable
<1>2. kept[p][n] \in Text
  BY <1>1 DEF IInv, KeptShort
<1>3. RestoredAddress(p, n) \in Slugs \cup {NoSlug} /\ kept[p][n].words \in 0..MaxVersion
  BY <1>1, <1>2, PostFields DEF RestoredAddress, Text
<1>4. post' = [post EXCEPT ![p] = [post[p] EXCEPT !.slug = RestoredAddress(p, n),
                                                  !.version = @ + 1,
                                                  !.words = kept[p][n].words]]
  BY <1>1, PostFields DEF RestoreRevision, Post
<1> QED
  BY <1>1, <1>3, <1>4, RewriteEffect

\* A step leaves a post alone, makes it, rewrites it under a new version, moves it to
\* another status or removes it.
PostEffect(p) ==
    /\ post' \in [Posts -> Post]
    /\ \/ post'[p] = post[p]
       \/ post[p].status = "none" /\ post'[p].status = "draft"
       \/ Exists(p) /\ Rewritten(p)
       \/ /\ SameText(p) /\ post'[p].status = post[p].status
          /\ post'[p].published = post[p].published
       \/ /\ Exists(p) /\ SameText(p)
          /\ post'[p].status \notin {"none", "removed"}
          /\ post[p].published => post'[p].published
       \/ post'[p].status = "removed" /\ Exists(p)

LEMMA TickPosts ==
    ASSUME TypeOK, Tick, NEW p \in Posts
    PROVE  /\ post' \in [Posts -> Post] /\ SameText(p)
           /\ post'[p].status = post[p].status /\ post'[p].deleted = post[p].deleted
           /\ post'[p].published = post[p].published
<1> DEFINE Older(q) == [post[q] EXCEPT !.left = Less(@)]
<1>1. ASSUME NEW q \in Posts
      PROVE  /\ Older(q) \in Post /\ Older(q).status = post[q].status
             /\ Older(q).words = post[q].words /\ Older(q).version = post[q].version
             /\ Older(q).published = post[q].published /\ Older(q).deleted = post[q].deleted
  <2>1. Less(post[q].left) \in 0..RecoveryDays
    BY PostFields, BlogAssumption DEF Less
  <2> QED
    BY <2>1, PostFields DEF Post
<1>2. post' = [q \in Posts |-> IF post[q].deleted THEN Older(q) ELSE post[q]]
  BY DEF Tick
<1> HIDE DEF Older
<1> QED
  BY <1>1, <1>2, PostFields DEF SameText

LEMMA PostChanges == ASSUME IInv, [Next]_vars, NEW p \in Posts PROVE PostEffect(p)
<1> USE DEF PostEffect
<1>0. TypeOK /\ post \in [Posts -> Post]
  BY PostFields DEF IInv, TypeOK
<1>1. CASE post' = post
  BY <1>0, <1>1
<1>2. ASSUME NEW q \in Posts, PublishPost(q) PROVE PostEffect(p)
  BY <1>0, <1>2, PublishEffect DEF Moved, OnlyPost, Lockable, SameText
<1>3. ASSUME NEW q \in Posts, CreatePost(q) PROVE PostEffect(p)
  BY <1>0, <1>3, PostSteps DEF OnlyPost
<1>4. ASSUME NEW q \in Posts, UnpublishPost(q) \/ DeletePost(q) \/ RecoverPost(q)
      PROVE  PostEffect(p)
  <2>1. Exists(q)
    BY <1>4 DEF UnpublishPost, DeletePost, RecoverPost, Lockable
  <2>2. OnlyPost(q) /\ SameText(q) /\ post'[q].published = post[q].published
        /\ post'[q].status \in {post[q].status, "unpublished"}
    BY <1>0, <1>4, PostSteps DEF Moved
  <2> QED
    BY <1>0, <2>1, <2>2 DEF OnlyPost, Exists
<1>5. ASSUME NEW q \in Posts, RemovePost(q) PROVE PostEffect(p)
  BY <1>0, <1>5, PostSteps DEF OnlyPost, RemovePost
<1>6. ASSUME NEW q \in Posts, NEW n \in 1..MaxRevisions, RepublishPost(q, n)
      PROVE  PostEffect(p)
  BY <1>0, <1>6, PostSteps DEF OnlyPost, Moved, RepublishPost, Lockable
<1>7. ASSUME NEW q \in Posts, NEW s \in Slugs, CorrectAddress(q, s) PROVE PostEffect(p)
  BY <1>0, <1>7, PostSteps DEF OnlyPost, Moved, CorrectAddress, Lockable, Exists
<1>8. ASSUME NEW q \in Posts, NEW n \in 1..MaxRevisions, RestoreRevision(q, n)
      PROVE  PostEffect(p)
  BY <1>0, <1>8, RestoreEffect DEF Rewritten, OnlyPost
<1>9. ASSUME NEW r \in Saves, SavePost(r) PROVE PostEffect(p)
  BY <1>0, <1>1, <1>9, SaveEffect DEF Rewritten, OnlyPost
<1>10. ASSUME NEW w \in Workers, PublishLeased(w) PROVE PostEffect(p)
  BY <1>0, <1>1, <1>10, LeasedEffect DEF Moved, OnlyPost
<1>11. CASE Tick
  BY <1>0, <1>11, TickPosts
<1>12. ASSUME NEW q \in Posts, Checkpoint(q) \/ CancelSchedule(q) PROVE PostEffect(p)
  BY <1>1, <1>12 DEF Checkpoint, CancelSchedule
<1>13. ASSUME NEW q \in Posts, NEW r \in Saves, NEW s \in Slugs \cup {NoSlug},
              CheckSave(r, q, s)
       PROVE  PostEffect(p)
  BY <1>1, <1>13 DEF CheckSave
<1>14. ASSUME NEW q \in Posts, NEW due \in 1..MaxDue, NEW discord \in BOOLEAN,
              SchedulePost(q, due, discord)
              \/ \E n \in 1..MaxRevisions : ReplaceSchedule(q, n, due, discord)
       PROVE  PostEffect(p)
  BY <1>1, <1>14 DEF SchedulePost, ReplaceSchedule
<1>15. ASSUME NEW q \in Posts, NEW w \in Workers, LeaseDueSchedule(w, q) PROVE PostEffect(p)
  BY <1>1, <1>15 DEF LeaseDueSchedule
<1>16. ASSUME NEW w \in Workers, LeaseLost(w) \/ PublishFails(w) PROVE PostEffect(p)
  BY <1>1, <1>16 DEF LeaseLost, PublishFails
<1>17. CASE SwitchWriterOn \/ SwitchWriterOff \/ UNCHANGED vars
  BY <1>1, <1>17 DEF SwitchWriterOn, SwitchWriterOff, vars
<1> HIDE DEF PostEffect
<1> QED
  BY <1>2, <1>3, <1>4, <1>5, <1>6, <1>7, <1>8, <1>9, <1>10, <1>11, <1>12, <1>13, <1>14,
     <1>15, <1>16, <1>17, StepCases

-----------------------------------------------------------------------------
(* The parts of the invariant.                                               *)

LEMMA SaveStays ==
    ASSUME IInv, [Next]_vars, NEW r \in Saves PROVE SaveInOrder(r)'
<1> DEFINE p == save[r].post
<1>0. /\ TypeOK /\ SaveInOrder(r) /\ p \in Posts
      /\ save[r] \in [post : Posts, version : 0..MaxVersion,
                      slug : Slugs \cup {NoSlug}, words : 0..MaxVersion]
      /\ save \in [Saves -> [post : Posts, version : 0..MaxVersion,
                             slug : Slugs \cup {NoSlug}, words : 0..MaxVersion]]
  BY DEF IInv, TypeOK
<1>1. ASSUME save'[r] = save[r] PROVE SaveInOrder(r)'
  <2>1. PostEffect(p) /\ post[p].version \in 0..MaxVersion /\ MaxVersion \in Nat
        /\ save[r].version \in 0..MaxVersion
    BY <1>0, PostChanges, PostFields, BlogAssumption
  <2> QED
    BY <1>0, <1>1, <2>1 DEF PostEffect, SaveInOrder, SameText, Rewritten, Exists
<1>2. ASSUME NEW q \in Saves, SavePost(q) PROVE SaveInOrder(r)'
  <2>1. CASE q = r
    <3>1. save'[r].version = 0
      BY <1>0, <1>2, <2>1, SaveEffect DEF NoSave
    <3> QED
      BY <3>1 DEF SaveInOrder
  <2>2. CASE q # r
    BY <1>0, <1>1, <1>2, <2>2, SaveEffect
  <2> QED
    BY <2>1, <2>2
<1>3. ASSUME NEW q \in Posts, NEW t \in Saves, NEW s \in Slugs \cup {NoSlug},
             CheckSave(t, q, s)
      PROVE  SaveInOrder(r)'
  <2>1. CASE t = r
    <3>1. /\ save'[r].post = q /\ save'[r].version = post[q].version
          /\ save'[r].words = post[q].words
      BY <1>0, <1>3, <2>1 DEF CheckSave
    <3>2. post' = post /\ Exists(q) /\ post[q].version < MaxVersion
      BY <1>3 DEF CheckSave
    <3> QED
      BY <3>1, <3>2 DEF SaveInOrder, Exists
  <2>2. CASE t # r
    <3>1. save'[r] = save[r]
      BY <1>0, <1>3, <2>2 DEF CheckSave
    <3> QED
      BY <1>1, <3>1
  <2> QED
    BY <2>1, <2>2
<1>4. ASSUME NEW q \in Posts,
             \/ CreatePost(q) \/ Checkpoint(q) \/ PublishPost(q) \/ UnpublishPost(q)
             \/ DeletePost(q) \/ RecoverPost(q) \/ RemovePost(q) \/ CancelSchedule(q)
      PROVE  save' = save
  BY <1>4 DEF CreatePost, Checkpoint, PublishPost, UnpublishPost, DeletePost, RecoverPost,
              RemovePost, CancelSchedule
<1>5. ASSUME NEW q \in Posts, NEW n \in 1..MaxRevisions,
             RestoreRevision(q, n) \/ RepublishPost(q, n)
      PROVE  save' = save
  BY <1>5 DEF RestoreRevision, RepublishPost
<1>6. ASSUME NEW q \in Posts, NEW s \in Slugs, CorrectAddress(q, s) PROVE save' = save
  BY <1>6 DEF CorrectAddress
<1>7. ASSUME NEW q \in Posts, NEW due \in 1..MaxDue, NEW discord \in BOOLEAN,
             SchedulePost(q, due, discord)
             \/ \E n \in 1..MaxRevisions : ReplaceSchedule(q, n, due, discord)
      PROVE  save' = save
  BY <1>7 DEF SchedulePost, ReplaceSchedule
<1>8. ASSUME NEW q \in Posts, NEW w \in Workers, LeaseDueSchedule(w, q) PROVE save' = save
  BY <1>8 DEF LeaseDueSchedule
<1>9. ASSUME NEW w \in Workers, PublishLeased(w) \/ LeaseLost(w) \/ PublishFails(w)
      PROVE  save' = save
  BY <1>9 DEF PublishLeased, LeaseLost, PublishFails
<1>10. CASE SwitchWriterOn \/ SwitchWriterOff \/ Tick \/ UNCHANGED vars
  BY <1>1, <1>10 DEF SwitchWriterOn, SwitchWriterOff, Tick, vars
<1> QED
  BY <1>1, <1>2, <1>3, <1>4, <1>5, <1>6, <1>7, <1>8, <1>9, <1>10, StepCases

\* Only a first publication is announced.
LEMMA AnnouncedEffect ==
    ASSUME IInv, [Next]_vars, NEW p \in Posts
    PROVE  /\ announced' \in [Posts -> Nat]
           /\ \/ announced'[p] = announced[p]
              \/ /\ announced'[p] = announced[p] + 1 /\ Exists(p) /\ ~ post[p].published
                 /\ post'[p].published
<1> DEFINE Goal == /\ announced' \in [Posts -> Nat]
                   /\ \/ announced'[p] = announced[p]
                      \/ /\ announced'[p] = announced[p] + 1 /\ Exists(p)
                         /\ ~ post[p].published /\ post'[p].published
<1>0. TypeOK /\ announced \in [Posts -> Nat]
  BY DEF IInv, TypeOK
<1>1. ASSUME announced' = announced PROVE Goal
  BY <1>0, <1>1
<1>2. ASSUME NEW q \in Posts, NEW discord \in BOOLEAN, announced' = Announced(q, discord),
             Exists(q), post'[q].published
      PROVE  Goal
  BY <1>0, <1>2 DEF Announced
<1>3. ASSUME NEW q \in Posts, PublishPost(q) PROVE Goal
  <2>1. PICK discord \in BOOLEAN : announced' = Announced(q, discord)
    BY <1>3 DEF PublishPost
  <2>2. Exists(q) /\ post'[q].published
    BY <1>3, PublishEffect DEF Lockable, Moved
  <2> QED
    BY <1>2, <2>1, <2>2
<1>4. ASSUME NEW w \in Workers, PublishLeased(w) PROVE Goal
  <2>1. worker[w].discord \in BOOLEAN
    BY <1>0 DEF TypeOK
  <2> QED
    BY <1>1, <1>2, <1>4, <2>1, LeasedEffect DEF Moved
<1>5. ASSUME NEW q \in Posts,
             \/ CreatePost(q) \/ Checkpoint(q) \/ UnpublishPost(q)
             \/ DeletePost(q) \/ RecoverPost(q) \/ RemovePost(q) \/ CancelSchedule(q)
      PROVE  announced' = announced
  BY <1>5 DEF CreatePost, Checkpoint, UnpublishPost, DeletePost, RecoverPost, RemovePost,
              CancelSchedule
<1>6. ASSUME NEW q \in Posts, NEW n \in 1..MaxRevisions,
             RestoreRevision(q, n) \/ RepublishPost(q, n)
      PROVE  announced' = announced
  BY <1>6 DEF RestoreRevision, RepublishPost
<1>7. ASSUME NEW q \in Posts, NEW r \in Saves, NEW s \in Slugs \cup {NoSlug},
             CheckSave(r, q, s) \/ SavePost(r)
      PROVE  announced' = announced
  BY <1>7 DEF CheckSave, SavePost
<1>8. ASSUME NEW q \in Posts, NEW s \in Slugs, CorrectAddress(q, s)
      PROVE  announced' = announced
  BY <1>8 DEF CorrectAddress
<1>9. ASSUME NEW q \in Posts, NEW due \in 1..MaxDue, NEW discord \in BOOLEAN,
             SchedulePost(q, due, discord)
             \/ \E n \in 1..MaxRevisions : ReplaceSchedule(q, n, due, discord)
      PROVE  announced' = announced
  BY <1>9 DEF SchedulePost, ReplaceSchedule
<1>10. ASSUME NEW q \in Posts, NEW w \in Workers,
              LeaseDueSchedule(w, q) \/ LeaseLost(w) \/ PublishFails(w)
       PROVE  announced' = announced
  BY <1>10 DEF LeaseDueSchedule, LeaseLost, PublishFails
<1>11. ASSUME SwitchWriterOn \/ SwitchWriterOff \/ Tick \/ UNCHANGED vars
       PROVE  announced' = announced
  BY <1>11 DEF SwitchWriterOn, SwitchWriterOff, Tick, vars
<1>12. \A r \in Saves : SavePost(r) => announced' = announced
  BY DEF SavePost
<1>13. \A w \in Workers : LeaseLost(w) \/ PublishFails(w) => announced' = announced
  BY DEF LeaseLost, PublishFails
<1> HIDE DEF Goal
<1>14. Goal
  BY <1>1, <1>3, <1>4, <1>5, <1>6, <1>7, <1>8, <1>9, <1>10, <1>11, <1>12, <1>13, StepCases
<1> QED
  BY <1>14 DEF Goal

LEMMA AnnouncedStays ==
    ASSUME IInv, [Next]_vars, NEW p \in Posts PROVE AnnouncedInOrder(p)'
<1>1. AnnouncedInOrder(p) /\ announced[p] \in Nat /\ TypeOK
  BY DEF IInv, TypeOK
<1>2. PostEffect(p)
  BY PostChanges
<1>3. post'[p].status = "none" => post[p].status = "none"
  BY <1>2 DEF PostEffect, Rewritten
<1>4. post[p].published \/ post[p].status = "removed"
        => post'[p].published \/ post'[p].status = "removed" \/ post[p].status = "none"
  BY <1>2 DEF PostEffect, Rewritten, Exists
<1> QED
  BY <1>1, <1>3, <1>4, AnnouncedEffect DEF AnnouncedInOrder, Exists

\* A token is new to every schedule and scheduler.
LEMMA FreshIsNew ==
    ASSUME TypeOK, NEW w \in Workers, NEW p \in Posts, LeaseDueSchedule(w, p)
    PROVE  /\ Fresh \in Nat \ {0}
           /\ \A q \in Posts : schedule[q].token # Fresh
           /\ \A v \in Workers : worker[v].token # Fresh
<1>1. \E t \in 1..MaxTokens : t \notin Tokens
  BY DEF LeaseDueSchedule
<1>2. Fresh \in 1..MaxTokens /\ Fresh \notin Tokens
  BY <1>1 DEF Fresh
<1> QED
  BY <1>2, BlogAssumption DEF Tokens

LEMMA LeaseEffect ==
    ASSUME IInv, NEW w \in Workers, NEW p \in Posts, LeaseDueSchedule(w, p)
    PROVE  /\ OnlySchedule(p) /\ schedule'[p].state = "publishing"
           /\ schedule'[p].revision = schedule[p].revision /\ schedule'[p].token = Fresh
           /\ schedule[p].state \in Waiting
           /\ worker' \in [Workers -> [held : BOOLEAN, post : Posts, token : Nat,
                                       revision : 0..MaxRevisions, attempts : 0..MaxTries,
                                       discord : BOOLEAN]]
           /\ \A v \in Workers \ {w} : worker'[v] = worker[v]
           /\ worker'[w].held /\ worker'[w].post = p /\ worker'[w].token = Fresh
           /\ worker'[w].revision = schedule[p].revision
           /\ UNCHANGED <<post, kept, reserved, announced, writer, save, spent>>
<1>0. TypeOK
  BY DEF IInv
<1>1. /\ schedule[p] \in Schedule /\ schedule \in [Posts -> Schedule]
      /\ schedule[p].attempts + 1 \in 0..MaxTries /\ Fresh \in Nat
      /\ schedule[p].revision \in 0..MaxRevisions /\ schedule[p].discord \in BOOLEAN
  <2>1. Fresh \in Nat
    BY <1>0, FreshIsNew
  <2>2. schedule[p].attempts < MaxTries /\ MaxTries \in Nat
    BY BlogAssumption DEF LeaseDueSchedule
  <2> QED
    BY <1>0, <2>1, <2>2, ScheduleFields
<1>2. PICK lease \in 0..ScheduleLease :
         schedule' = [schedule EXCEPT ![p] =
             [schedule[p] EXCEPT !.state = "publishing", !.attempts = @ + 1,
                                 !.lease = lease, !.token = Fresh]]
  BY DEF LeaseDueSchedule
<1>3. /\ OnlySchedule(p) /\ schedule'[p].state = "publishing"
      /\ schedule'[p].revision = schedule[p].revision /\ schedule'[p].token = Fresh
  <2> DEFINE x == schedule[p]
             New == [x EXCEPT !.state = "publishing", !.attempts = @ + 1,
                              !.lease = lease, !.token = Fresh]
  <2>1. schedule' = [schedule EXCEPT ![p] = New]
    BY <1>2
  <2>2. x \in Schedule /\ x.attempts + 1 \in 0..MaxTries
    BY <1>1
  <2> HIDE DEF x
  <2>3. /\ New \in Schedule /\ New.state = "publishing" /\ New.revision = x.revision
        /\ New.token = Fresh
    BY <1>1, <2>2 DEF Schedule, Waiting
  <2> HIDE DEF New
  <2> USE DEF x
  <2> QED
    BY <1>1, <2>1, <2>3 DEF OnlySchedule
<1>4. schedule[p].state \in Waiting
  BY DEF LeaseDueSchedule, Leasable, Waiting
<1>5. /\ worker' = [worker EXCEPT ![w] =
            [held |-> TRUE, post |-> p, token |-> Fresh, revision |-> schedule[p].revision,
             attempts |-> schedule[p].attempts + 1, discord |-> schedule[p].discord]]
      /\ UNCHANGED <<post, kept, reserved, announced, writer, save, spent>>
  BY DEF LeaseDueSchedule
<1> QED
  BY <1>0, <1>1, <1>3, <1>4, <1>5 DEF TypeOK

LEMMA TickSchedules ==
    ASSUME TypeOK, Tick, NEW p \in Posts
    PROVE  /\ schedule' \in [Posts -> Schedule]
           /\ schedule'[p].state = schedule[p].state
           /\ schedule'[p].revision = schedule[p].revision
           /\ schedule'[p].token = schedule[p].token
<1> DEFINE Older(q) == [schedule[q] EXCEPT !.due = Less(@), !.lease = Less(@)]
<1>1. ASSUME NEW q \in Posts
      PROVE  /\ Older(q) \in Schedule /\ Older(q).state = schedule[q].state
             /\ Older(q).revision = schedule[q].revision
             /\ Older(q).token = schedule[q].token
  <2>1. Less(schedule[q].due) \in 0..MaxDue /\ Less(schedule[q].lease) \in 0..ScheduleLease
    BY ScheduleFields, BlogAssumption DEF Less
  <2> QED
    BY <2>1, ScheduleFields DEF Schedule
<1>2. schedule' = [q \in Posts |-> Older(q)]
  BY DEF Tick
<1> HIDE DEF Older
<1> QED
  BY <1>1, <1>2

\* A new schedule waits, for an edition that is kept, and nobody has its token.
LEMMA NewSchedule ==
    ASSUME TypeOK, NEW p \in Posts, NEW n \in 0..MaxRevisions, NEW due \in 1..MaxDue,
           NEW discord \in BOOLEAN,
           schedule' = [schedule EXCEPT ![p] =
              [Unscheduled EXCEPT !.state = "pending", !.revision = n, !.due = due,
                                  !.discord = discord]]
    PROVE  /\ OnlySchedule(p) /\ schedule'[p].state = "pending"
           /\ schedule'[p].revision = n
<1>1. due \in 0..MaxDue
  BY BlogAssumption
<1> QED
  BY <1>1, AbsentTypes, ScheduleFields DEF OnlySchedule, Unscheduled, Schedule, Waiting

\* Editions are only added, until the post is removed.
LEMMA KeptStays ==
    ASSUME IInv, [Next]_vars
    PROVE  /\ KeptShort'
           /\ \A p \in Posts : DOMAIN kept[p] \subseteq DOMAIN kept'[p] \/ RemovePost(p)
<1> DEFINE Goal == /\ KeptShort'
                   /\ \A p \in Posts : \/ DOMAIN kept[p] \subseteq DOMAIN kept'[p]
                                       \/ RemovePost(p)
<1>0. TypeOK /\ KeptShort
  BY DEF IInv
<1>1. ASSUME kept' = kept PROVE Goal
  BY <1>0, <1>1 DEF KeptShort
<1>2. ASSUME NEW p \in Posts, Capture(p) PROVE Goal
  BY <1>0, <1>2, CaptureEffect
<1>3. ASSUME NEW p \in Posts, RemovePost(p) PROVE Goal
  <2>1. kept' = [kept EXCEPT ![p] = <<>>]
    BY <1>3 DEF RemovePost
  <2>2. <<>> \in Seq(Text) /\ Len(<<>>) = 0 /\ MaxRevisions \in Nat
    BY BlogAssumption
  <2>3. KeptShort'
    BY <1>0, <2>1, <2>2 DEF KeptShort
  <2>4. \A q \in Posts \ {p} : kept'[q] = kept[q]
    BY <1>0, <2>1 DEF KeptShort
  <2> QED
    BY <1>3, <2>3, <2>4
<1>4. ASSUME NEW p \in Posts,
             Checkpoint(p) \/ PublishPost(p)
             \/ \E due \in 1..MaxDue, discord \in BOOLEAN : SchedulePost(p, due, discord)
      PROVE  Capture(p)
  BY <1>4 DEF Checkpoint, PublishPost, SchedulePost
<1>5. ASSUME NEW p \in Posts,
             \/ CreatePost(p) \/ UnpublishPost(p) \/ DeletePost(p) \/ RecoverPost(p)
             \/ CancelSchedule(p)
             \/ \E r \in Saves, s \in Slugs \cup {NoSlug} : CheckSave(r, p, s)
             \/ \E s \in Slugs : CorrectAddress(p, s)
      PROVE  kept' = kept
  BY <1>5 DEF CreatePost, UnpublishPost, DeletePost, RecoverPost, CancelSchedule, CheckSave,
              CorrectAddress
<1>6. ASSUME NEW p \in Posts, NEW n \in 1..MaxRevisions,
             RestoreRevision(p, n) \/ RepublishPost(p, n)
             \/ \E due \in 1..MaxDue, discord \in BOOLEAN : ReplaceSchedule(p, n, due, discord)
      PROVE  kept' = kept
  BY <1>6 DEF RestoreRevision, RepublishPost, ReplaceSchedule
<1>7. ASSUME NEW w \in Workers,
             PublishLeased(w) \/ LeaseLost(w) \/ PublishFails(w)
             \/ \E p \in Posts : LeaseDueSchedule(w, p)
      PROVE  kept' = kept
  BY <1>7 DEF PublishLeased, LeaseLost, PublishFails, LeaseDueSchedule
<1>8. ASSUME \/ SwitchWriterOn \/ SwitchWriterOff \/ Tick \/ UNCHANGED vars
             \/ \E r \in Saves : SavePost(r)
      PROVE  kept' = kept
  BY <1>8 DEF SwitchWriterOn, SwitchWriterOff, Tick, vars, SavePost
<1> HIDE DEF Goal
<1>9. Goal
  BY <1>1, <1>2, <1>3, <1>4, <1>5, <1>6, <1>7, <1>8, StepCases
<1> QED
  BY <1>9 DEF Goal

\* A schedule that waits after a step is new, of a post that may go live, or waited
\* before, for the same edition of a post that stays where it is.
ScheduleEffect(p) ==
    /\ schedule' \in [Posts -> Schedule]
    /\ \/ schedule'[p].state \notin Waiting
       \/ /\ schedule'[p].state = "pending" /\ schedule'[p].revision \in DOMAIN kept'[p]
          /\ post' = post /\ Lockable(p) /\ post[p].status # "unpublished"
       \/ /\ schedule[p].state \in Waiting /\ schedule'[p].revision = schedule[p].revision
          /\ post'[p].deleted = post[p].deleted
          /\ post'[p].status \in {post[p].status, "published"}
          /\ DOMAIN kept[p] \subseteq DOMAIN kept'[p]
          /\ \/ /\ schedule'[p].state = schedule[p].state
                /\ schedule'[p].token = schedule[p].token
             \/ \E w \in Workers : LeaseDueSchedule(w, p)

LEMMA SchedulesChange ==
    ASSUME IInv, [Next]_vars, NEW p \in Posts PROVE ScheduleEffect(p)
<1> USE DEF ScheduleEffect
<1>0. TypeOK /\ KeptShort /\ schedule \in [Posts -> Schedule]
  BY ScheduleFields DEF IInv, TypeOK
<1>1. ASSUME schedule' \in [Posts -> Schedule],
             schedule[p].state \in Waiting =>
                /\ schedule'[p].state = schedule[p].state
                /\ schedule'[p].revision = schedule[p].revision
                /\ schedule'[p].token = schedule[p].token
                /\ post'[p].deleted = post[p].deleted
                /\ post'[p].status \in {post[p].status, "published"}
                /\ ~ RemovePost(p),
             schedule[p].state \notin Waiting => schedule'[p].state \notin Waiting
      PROVE  ScheduleEffect(p)
  BY <1>1, KeptStays
<1>2. ASSUME NEW q \in Posts, OnlyPost(q), OnlySchedule(q), q # p PROVE ScheduleEffect(p)
  <2>1. post'[p] = post[p] /\ schedule'[p] = schedule[p] /\ schedule' \in [Posts -> Schedule]
    BY <1>2 DEF OnlyPost, OnlySchedule
  <2>2. RemovePost(p) => schedule'[p].state \notin Waiting
    BY <1>0 DEF RemovePost, Unscheduled, Waiting
  <2> QED
    BY <1>1, <2>1, <2>2
<1>3. ASSUME NEW q \in Posts, OnlyPost(q), OnlySchedule(q), schedule'[q].state \notin Waiting
      PROVE  ScheduleEffect(p)
  <2>1. CASE q = p
    BY <1>3, <2>1 DEF OnlySchedule
  <2> QED
    BY <1>2, <1>3, <2>1
<1>4. ASSUME NEW q \in Posts, PublishPost(q) PROVE ScheduleEffect(p)
  BY <1>3, <1>4, PublishEffect DEF Moved
<1>5. ASSUME NEW q \in Posts, UnpublishPost(q) \/ DeletePost(q) PROVE ScheduleEffect(p)
  <2>1. Overtakable(q) /\ schedule' = Overtaken(q)
    BY <1>5 DEF UnpublishPost, DeletePost
  <2>2. OnlyPost(q)
    BY <1>0, <1>5, PostSteps DEF Moved
  <2> QED
    BY <1>0, <1>3, <2>1, <2>2, OvertakenEffect
<1>6. ASSUME NEW q \in Posts, RemovePost(q) PROVE ScheduleEffect(p)
  <2>1. OnlySchedule(q) /\ schedule'[q].state \notin Waiting
    BY <1>0, <1>6, AbsentTypes DEF RemovePost, OnlySchedule, Unscheduled, Waiting
  <2>2. OnlyPost(q)
    BY <1>0, <1>6, PostSteps
  <2> QED
    BY <1>3, <2>1, <2>2
<1>7. ASSUME NEW w \in Workers, PublishLeased(w) PROVE ScheduleEffect(p)
  <2>1. CASE UNCHANGED <<post, schedule, kept>>
    BY <1>0, <2>1
  <2>2. CASE schedule'[worker[w].post].state \notin Waiting
    <3>1. /\ worker[w].post \in Posts /\ OnlySchedule(worker[w].post)
          /\ OnlyPost(worker[w].post)
      BY <1>0, <1>7, LeasedEffect, PostFields DEF Moved, OnlyPost, TypeOK
    <3> QED
      BY <1>3, <2>2, <3>1
  <2> QED
    BY <1>7, <2>1, <2>2, LeasedEffect DEF Waiting
<1>8. ASSUME NEW w \in Workers, NEW q \in Posts, LeaseDueSchedule(w, q)
      PROVE  ScheduleEffect(p)
  BY <1>0, <1>8, LeaseEffect DEF OnlySchedule
<1>9. ASSUME NEW q \in Posts, NEW due \in 1..MaxDue, NEW discord \in BOOLEAN,
             SchedulePost(q, due, discord)
      PROVE  ScheduleEffect(p)
  <2>1. /\ Capture(q) /\ Lockable(q) /\ post[q].status # "unpublished" /\ post' = post
        /\ schedule' = [schedule EXCEPT ![q] =
              [Unscheduled EXCEPT !.state = "pending", !.revision = Len(kept[q]) + 1,
                                  !.due = due, !.discord = discord]]
    BY <1>9 DEF SchedulePost
  <2>2. /\ Len(kept[q]) + 1 \in DOMAIN kept'[q] \cap (0..MaxRevisions)
        /\ DOMAIN kept[p] \subseteq DOMAIN kept'[p]
    BY <1>0, <2>1, CaptureEffect
  <2>3. /\ OnlySchedule(q) /\ schedule'[q].state = "pending"
        /\ schedule'[q].revision = Len(kept[q]) + 1
    BY <1>0, <2>1, <2>2, NewSchedule
  <2> QED
    BY <2>1, <2>2, <2>3 DEF OnlySchedule
<1>10. ASSUME NEW q \in Posts, NEW n \in 1..MaxRevisions, NEW due \in 1..MaxDue,
              NEW discord \in BOOLEAN, ReplaceSchedule(q, n, due, discord)
       PROVE  ScheduleEffect(p)
  <2>1. /\ Lockable(q) /\ schedule[q].state = "pending" /\ n \in DOMAIN kept[q]
        /\ UNCHANGED <<post, kept>>
        /\ schedule' = [schedule EXCEPT ![q] =
              [Unscheduled EXCEPT !.state = "pending", !.revision = n, !.due = due,
                                  !.discord = discord]]
    BY <1>10 DEF ReplaceSchedule
  <2>2. post[q].status # "unpublished"
    BY <2>1 DEF IInv, WaitingInOrder, Waiting
  <2>3. n \in 0..MaxRevisions
    BY BlogAssumption
  <2>4. OnlySchedule(q) /\ schedule'[q].state = "pending" /\ schedule'[q].revision = n
    BY <1>0, <2>1, <2>3, NewSchedule
  <2> QED
    BY <2>1, <2>2, <2>4 DEF OnlySchedule
<1>11. ASSUME NEW q \in Posts, CancelSchedule(q) PROVE ScheduleEffect(p)
  <2>1. schedule' = Settle(q, "cancelled") /\ post' = post
    BY <1>11 DEF CancelSchedule
  <2> QED
    BY <1>0, <1>3, <2>1, SettleEffect, PostFields DEF OnlySchedule, OnlyPost, Waiting
<1>12. CASE SwitchWriterOff
  <2>1. schedule' = [q \in Posts |-> IF schedule[q].state \in Waiting
                                     THEN Settle(q, "stopped")[q] ELSE schedule[q]]
    BY <1>12 DEF SwitchWriterOff
  <2>2. ASSUME NEW q \in Posts
        PROVE  /\ schedule'[q] \in Schedule /\ schedule'[q].state \notin Waiting
    BY <1>0, <2>1, SettleEffect, ScheduleFields DEF Waiting
  <2> QED
    BY <2>1, <2>2
<1>13. CASE Tick
  BY <1>0, <1>1, <1>13, TickSchedules, TickPosts DEF Tick, RemovePost
<1>14. ASSUME schedule' = schedule, PostEffect(p),
              schedule[p].state \in Waiting =>
                /\ post'[p].deleted = post[p].deleted
                /\ post'[p].status \in {post[p].status, "published"}
                /\ ~ RemovePost(p)
       PROVE  ScheduleEffect(p)
  BY <1>0, <1>1, <1>14
<1>15. ASSUME NEW q \in Posts,
              \/ CreatePost(q) \/ RecoverPost(q)
              \/ \E n \in 1..MaxRevisions : RepublishPost(q, n)
              \/ \E s \in Slugs : CorrectAddress(q, s)
              \/ \E n \in 1..MaxRevisions : RestoreRevision(q, n)
       PROVE  ScheduleEffect(p)
  <2>1. schedule' = schedule /\ kept' = kept
    BY <1>15 DEF CreatePost, RecoverPost, RepublishPost, CorrectAddress, RestoreRevision
  <2>2. CASE schedule[p].state \in Waiting
    <3>1. /\ Lockable(p) /\ post[p].status # "unpublished"
      BY <2>2 DEF IInv, WaitingInOrder
    <3>2. CASE CreatePost(q) \/ RecoverPost(q)
      <4>1. q # p /\ OnlyPost(q)
        BY <1>0, <3>1, <3>2, PostSteps DEF Lockable, Exists, RecoverPost, Moved
      <4> QED
        BY <1>0, <1>2, <2>1, <4>1 DEF OnlySchedule
    <3>3. CASE \E n \in 1..MaxRevisions : RepublishPost(q, n)
      <4>1. q # p /\ OnlyPost(q)
        BY <1>0, <3>1, <3>3, PostSteps DEF RepublishPost, Moved
      <4> QED
        BY <1>0, <1>2, <2>1, <4>1 DEF OnlySchedule
    <3>4. CASE \/ \E s \in Slugs : CorrectAddress(q, s)
               \/ \E n \in 1..MaxRevisions : RestoreRevision(q, n)
      <4>1. /\ OnlyPost(q) /\ post'[q].status = post[q].status
            /\ post'[q].deleted = post[q].deleted
        BY <1>0, <3>4, PostSteps, RestoreEffect DEF Moved, Rewritten
      <4> QED
        BY <1>0, <2>1, <2>2, <4>1 DEF OnlyPost
    <3> QED
      BY <1>15, <3>2, <3>3, <3>4
  <2> QED
    BY <1>0, <2>1, <2>2
<1>16. ASSUME NEW r \in Saves, SavePost(r) PROVE ScheduleEffect(p)
  <2>1. schedule' = schedule /\ kept' = kept
    BY <1>16 DEF SavePost
  <2>2. post'[p].status = post[p].status /\ post'[p].deleted = post[p].deleted
    BY <1>16, SaveEffect DEF Rewritten, OnlyPost
  <2> QED
    BY <1>0, <2>1, <2>2
<1>17. ASSUME NEW q \in Posts, Checkpoint(q) PROVE ScheduleEffect(p)
  <2>1. post' = post /\ schedule' = schedule /\ Capture(q)
    BY <1>17 DEF Checkpoint
  <2> QED
    BY <1>0, <2>1, CaptureEffect
<1>18. ASSUME post' = post, schedule' = schedule, kept' = kept PROVE ScheduleEffect(p)
  BY <1>0, <1>18
<1>19. ASSUME NEW q \in Posts, NEW r \in Saves, NEW s \in Slugs \cup {NoSlug},
              CheckSave(r, q, s)
       PROVE  ScheduleEffect(p)
  BY <1>18, <1>19 DEF CheckSave
<1>20. ASSUME NEW w \in Workers, LeaseLost(w) \/ PublishFails(w) PROVE ScheduleEffect(p)
  BY <1>18, <1>20 DEF LeaseLost, PublishFails
<1>21. CASE SwitchWriterOn \/ UNCHANGED vars
  BY <1>18, <1>21 DEF SwitchWriterOn, vars
<1> HIDE DEF ScheduleEffect
<1> QED
  BY <1>4, <1>5, <1>6, <1>7, <1>8, <1>9, <1>10, <1>11, <1>12, <1>13, <1>15, <1>16, <1>17,
     <1>19, <1>20, <1>21, StepCases

LEMMA WaitingStays ==
    ASSUME IInv, [Next]_vars, NEW p \in Posts PROVE WaitingInOrder(p)'
<1>1. WaitingInOrder(p) /\ ScheduleEffect(p)
  BY SchedulesChange DEF IInv
<1> QED
  BY <1>1 DEF ScheduleEffect, WaitingInOrder, Lockable, Exists

\* A scheduler takes a lease, lets it go, or does nothing.
LEMMA WorkerEffect ==
    ASSUME IInv, [Next]_vars
    PROVE  /\ worker' \in [Workers -> [held : BOOLEAN, post : Posts, token : Nat,
                                       revision : 0..MaxRevisions, attempts : 0..MaxTries,
                                       discord : BOOLEAN]]
           /\ \A w \in Workers : \/ worker'[w] = worker[w]
                                  \/ ~ worker'[w].held
                                  \/ \E p \in Posts : LeaseDueSchedule(w, p)
<1> DEFINE Goal ==
        /\ worker' \in [Workers -> [held : BOOLEAN, post : Posts, token : Nat,
                                    revision : 0..MaxRevisions, attempts : 0..MaxTries,
                                    discord : BOOLEAN]]
        /\ \A w \in Workers : \/ worker'[w] = worker[w]
                               \/ ~ worker'[w].held
                               \/ \E p \in Posts : LeaseDueSchedule(w, p)
<1>0. TypeOK /\ NoLease \in [held : BOOLEAN, post : Posts, token : Nat,
                              revision : 0..MaxRevisions, attempts : 0..MaxTries,
                              discord : BOOLEAN]
  BY BlogAssumption DEF IInv, NoLease, AnyPost
<1>1. ASSUME worker' = worker PROVE Goal
  BY <1>0, <1>1 DEF TypeOK
<1>2. ASSUME NEW w \in Workers, worker' = [worker EXCEPT ![w] = NoLease] PROVE Goal
  BY <1>0, <1>2 DEF TypeOK, NoLease
<1>3. ASSUME NEW w \in Workers, NEW p \in Posts, LeaseDueSchedule(w, p) PROVE Goal
  BY <1>3, LeaseEffect
<1>4. ASSUME NEW w \in Workers, PublishLeased(w) \/ LeaseLost(w) \/ PublishFails(w)
      PROVE  worker' = [worker EXCEPT ![w] = NoLease]
  BY <1>4 DEF PublishLeased, LeaseLost, PublishFails
<1>5. ASSUME NEW q \in Posts,
             \/ CreatePost(q) \/ Checkpoint(q) \/ PublishPost(q) \/ UnpublishPost(q)
             \/ DeletePost(q) \/ RecoverPost(q) \/ RemovePost(q) \/ CancelSchedule(q)
      PROVE  worker' = worker
  BY <1>5 DEF CreatePost, Checkpoint, PublishPost, UnpublishPost, DeletePost, RecoverPost,
              RemovePost, CancelSchedule
<1>6. ASSUME NEW q \in Posts,
             \/ \E n \in 1..MaxRevisions : RestoreRevision(q, n) \/ RepublishPost(q, n)
             \/ \E s \in Slugs : CorrectAddress(q, s)
             \/ \E r \in Saves, s \in Slugs \cup {NoSlug} : CheckSave(r, q, s)
             \/ \E due \in 1..MaxDue, discord \in BOOLEAN :
                   \/ SchedulePost(q, due, discord)
                   \/ \E n \in 1..MaxRevisions : ReplaceSchedule(q, n, due, discord)
      PROVE  worker' = worker
  BY <1>6 DEF RestoreRevision, RepublishPost, CorrectAddress, CheckSave, SchedulePost,
              ReplaceSchedule
<1>7. ASSUME \/ SwitchWriterOn \/ SwitchWriterOff \/ Tick \/ UNCHANGED vars
             \/ \E r \in Saves : SavePost(r)
      PROVE  worker' = worker
  BY <1>7 DEF SwitchWriterOn, SwitchWriterOff, Tick, vars, SavePost
<1> HIDE DEF Goal
<1>8. Goal
  BY <1>1, <1>2, <1>3, <1>4, <1>5, <1>6, <1>7, StepCases
<1> QED
  BY <1>8 DEF Goal

LEMMA LeaseStays ==
    ASSUME IInv, [Next]_vars, NEW w \in Workers PROVE LeaseInOrder(w)'
<1>0. TypeOK /\ LeaseInOrder(w) /\ worker[w].post \in Posts
  BY DEF IInv, TypeOK
<1>1. CASE ~ worker'[w].held
  BY <1>1 DEF LeaseInOrder
<1>2. ASSUME NEW p \in Posts, LeaseDueSchedule(w, p) PROVE LeaseInOrder(w)'
  <2>1. /\ worker'[w].token = Fresh /\ worker'[w].post = p
        /\ worker'[w].revision = schedule'[p].revision
    BY <1>2, LeaseEffect
  <2>2. Fresh # 0
    BY <1>0, <1>2, FreshIsNew
  <2> QED
    BY <2>1, <2>2 DEF LeaseInOrder
<1>3. CASE worker'[w] = worker[w]
  <2> DEFINE p == worker[w].post
  <2>1. SUFFICES ASSUME worker[w].held, HeldByThisAttempt(w)'
                 PROVE  HeldByThisAttempt(w) /\ schedule'[p].revision = schedule[p].revision
    BY <1>0, <1>3, <2>1 DEF LeaseInOrder
  <2>2. /\ ScheduleEffect(p) /\ schedule'[p].state = "publishing"
        /\ schedule'[p].token = worker[w].token
    BY <1>0, <1>3, <2>1, SchedulesChange DEF HeldByThisAttempt
  <2>3. /\ schedule'[p].revision = schedule[p].revision
        /\ \/ /\ schedule'[p].state = schedule[p].state
              /\ schedule'[p].token = schedule[p].token
           \/ \E v \in Workers : LeaseDueSchedule(v, p)
    BY <2>2 DEF ScheduleEffect, Waiting
  <2>4. \A v \in Workers : ~ LeaseDueSchedule(v, p)
    BY <1>0, <2>2, LeaseEffect, FreshIsNew
  <2> QED
    BY <2>2, <2>3, <2>4 DEF HeldByThisAttempt
<1> QED
  BY <1>1, <1>2, <1>3, WorkerEffect

\* The other variables keep their types.
LEMMA ReservesType ==
    ASSUME TypeOK, NEW p \in Posts, NEW s \in Slugs \cup {NoSlug}
    PROVE  /\ Reserves(p, s) \in [Slugs -> Posts \cup {Free, Retired}]
           /\ Reserve(p, s) \in [Slugs -> Posts \cup {Free, Retired}]
BY DEF TypeOK, Reserves, Reserve

RestTypes ==
    /\ reserved' \in [Slugs -> Posts \cup {Free, Retired}]
    /\ writer' \in BOOLEAN
    /\ save' \in [Saves -> [post : Posts, version : 0..MaxVersion,
                           slug : Slugs \cup {NoSlug}, words : 0..MaxVersion]]
    /\ spent' \in [decisions : 0..MaxDecisions, trouble : 0..MaxTrouble]

LEMMA RestStays == ASSUME IInv, [Next]_vars PROVE RestTypes
<1> USE DEF RestTypes
<1>0. /\ TypeOK /\ reserved \in [Slugs -> Posts \cup {Free, Retired}] /\ writer \in BOOLEAN
      /\ save \in [Saves -> [post : Posts, version : 0..MaxVersion,
                             slug : Slugs \cup {NoSlug}, words : 0..MaxVersion]]
      /\ spent \in [decisions : 0..MaxDecisions, trouble : 0..MaxTrouble]
      /\ NoSave \in [post : Posts, version : 0..MaxVersion,
                     slug : Slugs \cup {NoSlug}, words : 0..MaxVersion]
  <2>1. AnyPost \in Posts /\ 0 \in 0..MaxVersion
    BY BlogAssumption DEF AnyPost
  <2> QED
    BY <2>1 DEF IInv, TypeOK, NoSave
<1>1. Decision => spent' \in [decisions : 0..MaxDecisions, trouble : 0..MaxTrouble]
  BY <1>0, BlogAssumption DEF Decision
<1>2. ASSUME UNCHANGED <<reserved, writer, save, spent>> PROVE RestTypes
  BY <1>0, <1>2
<1>3. ASSUME UNCHANGED <<reserved, writer, save>>, Decision PROVE RestTypes
  BY <1>0, <1>1, <1>3
<1>4. ASSUME NEW p \in Posts, PublishPost(p) PROVE RestTypes
  <2>1. /\ reserved' = Reserves(p, post[p].slug) /\ post[p].slug \in Slugs \cup {NoSlug}
        /\ UNCHANGED <<writer, save, spent>>
    BY <1>0, <1>4, PostFields DEF PublishPost
  <2> QED
    BY <1>0, <2>1, ReservesType
<1>5. ASSUME NEW p \in Posts, NEW s \in Slugs, CorrectAddress(p, s) PROVE RestTypes
  BY <1>0, <1>1, <1>5, ReservesType DEF CorrectAddress
<1>6. ASSUME NEW p \in Posts, RemovePost(p) PROVE RestTypes
  BY <1>0, <1>6 DEF RemovePost
<1>7. ASSUME NEW w \in Workers, PublishLeased(w) PROVE RestTypes
  <2> DEFINE p == worker[w].post
  <2>1. /\ p \in Posts /\ UNCHANGED <<writer, save, spent>>
        /\ \/ reserved' = reserved
           \/ \E s \in Slugs \cup {NoSlug} : reserved' = Reserves(p, s)
    BY <1>7, LeasedEffect
  <2> HIDE DEF p
  <2> QED
    BY <1>0, <2>1, ReservesType
<1>8. ASSUME NEW w \in Workers, PublishFails(w) PROVE RestTypes
  <2>1. /\ spent' = [spent EXCEPT !.trouble = @ + 1] /\ spent.trouble < MaxTrouble
        /\ UNCHANGED <<reserved, writer, save>>
    BY <1>8 DEF PublishFails
  <2> QED
    BY <1>0, <2>1, BlogAssumption
<1>9. ASSUME NEW r \in Saves, SavePost(r) PROVE RestTypes
  BY <1>0, <1>9 DEF SavePost
<1>10. ASSUME NEW p \in Posts, NEW r \in Saves, NEW s \in Slugs \cup {NoSlug},
              CheckSave(r, p, s)
       PROVE  RestTypes
  <2>1. /\ UNCHANGED <<reserved, writer, spent>>
        /\ save' = [save EXCEPT ![r] = [post |-> p, version |-> post[p].version,
                                        slug |-> s, words |-> post[p].words]]
    BY <1>10 DEF CheckSave
  <2> QED
    BY <1>0, <2>1, PostFields
<1>11. ASSUME NEW p \in Posts,
              \/ CreatePost(p) \/ Checkpoint(p) \/ RecoverPost(p) \/ CancelSchedule(p)
              \/ \E n \in 1..MaxRevisions : RestoreRevision(p, n) \/ RepublishPost(p, n)
              \/ \E due \in 1..MaxDue, discord \in BOOLEAN : SchedulePost(p, due, discord)
              \/ \E w \in Workers : LeaseDueSchedule(w, p)
       PROVE  UNCHANGED <<reserved, writer, save, spent>>
  BY <1>11 DEF CreatePost, Checkpoint, RecoverPost, CancelSchedule, RestoreRevision,
               RepublishPost, SchedulePost, LeaseDueSchedule
<1>12. ASSUME NEW p \in Posts,
              \/ UnpublishPost(p) \/ DeletePost(p)
              \/ \E due \in 1..MaxDue, discord \in BOOLEAN, n \in 1..MaxRevisions :
                    ReplaceSchedule(p, n, due, discord)
       PROVE  UNCHANGED <<reserved, writer, save>> /\ Decision
  BY <1>12 DEF UnpublishPost, DeletePost, ReplaceSchedule
<1>13. CASE SwitchWriterOn \/ SwitchWriterOff
  BY <1>0, <1>1, <1>13 DEF SwitchWriterOn, SwitchWriterOff
<1>14. ASSUME \/ Tick \/ UNCHANGED vars \/ \E w \in Workers : LeaseLost(w)
       PROVE  UNCHANGED <<reserved, writer, save, spent>>
  BY <1>14 DEF Tick, vars, LeaseLost
<1> HIDE DEF RestTypes
<1> QED
  BY <1>2, <1>3, <1>4, <1>5, <1>6, <1>7, <1>8, <1>9, <1>10, <1>11, <1>12, <1>13, <1>14,
     StepCases

-----------------------------------------------------------------------------
(* The theorems.                                                             *)

LEMMA InitInv == Init => IInv
<1> SUFFICES ASSUME Init PROVE IInv
  OBVIOUS
<1>1. <<>> \in Seq(Text) /\ Len(<<>>) = 0 /\ MaxRevisions \in Nat
      /\ AnyPost \in Posts
  BY BlogAssumption DEF AnyPost
<1>2. TypeOK
  <2>1. /\ NoSave \in [post : Posts, version : 0..MaxVersion,
                       slug : Slugs \cup {NoSlug}, words : 0..MaxVersion]
        /\ NoLease \in [held : BOOLEAN, post : Posts, token : Nat,
                        revision : 0..MaxRevisions, attempts : 0..MaxTries,
                        discord : BOOLEAN]
    BY <1>1, BlogAssumption DEF NoSave, NoLease
  <2>2. spent \in [decisions : 0..MaxDecisions, trouble : 0..MaxTrouble]
    BY BlogAssumption DEF Init
  <2>3. kept \in [Posts -> Seq([slug : Slugs \cup {NoSlug}, words : 0..MaxVersion])]
    BY <1>1 DEF Init, Text
  <2> QED
    BY <2>1, <2>2, <2>3, AbsentTypes DEF Init, TypeOK
<1>3. KeptShort
  BY <1>1 DEF Init, KeptShort
<1>4. \A p \in Posts : WaitingInOrder(p) /\ AnnouncedInOrder(p)
  <2> TAKE p \in Posts
  <2>1. schedule[p].state = "none" /\ announced[p] = 0
    BY DEF Init, Unscheduled
  <2> QED
    BY <2>1 DEF WaitingInOrder, AnnouncedInOrder, Waiting
<1>5. \A w \in Workers : LeaseInOrder(w)
  BY DEF Init, LeaseInOrder, NoLease
<1>6. \A r \in Saves : SaveInOrder(r)
  BY DEF Init, SaveInOrder, NoSave
<1> QED
  BY <1>2, <1>3, <1>4, <1>5, <1>6 DEF IInv

LEMMA StepInv == IInv /\ [Next]_vars => IInv'
<1> SUFFICES ASSUME IInv, [Next]_vars PROVE IInv'
  OBVIOUS
<1>1. PICK p \in Posts : TRUE
  BY BlogAssumption
<1>2. /\ post' \in [Posts -> Post] /\ schedule' \in [Posts -> Schedule]
      /\ announced' \in [Posts -> Nat] /\ KeptShort'
  BY <1>1, PostChanges, SchedulesChange, AnnouncedEffect, KeptStays
        DEF PostEffect, ScheduleEffect
<1>3. TypeOK'
  BY <1>2, WorkerEffect, RestStays DEF RestTypes, TypeOK, KeptShort, Text
<1> QED
  BY <1>2, <1>3, WaitingStays, AnnouncedStays, LeaseStays, SaveStays DEF IInv

LEMMA Inductive == Spec => []IInv
BY InitInv, StepInv, PTL DEF Spec

\* Every variable keeps its type.
THEOREM TypeCorrect == Spec => []TypeOK
BY Inductive, PTL DEF IInv

\* What waits to go live may: its post is there and in public view or not yet
\* published, and the edition is kept (overtakeSchedule, captureRevision).
THEOREM WaitingMayGo == Spec => []WaitingCanGoLive
<1>1. IInv => WaitingCanGoLive
  BY DEF IInv, WaitingInOrder, WaitingCanGoLive
<1> QED
  BY <1>1, Inductive, PTL

\* A post is announced once (makePublic).
THEOREM FirstPublicationsOnly == Spec => []AnnouncedOnce
<1>1. IInv => AnnouncedOnce
  BY DEF IInv, AnnouncedInOrder, AnnouncedOnce
<1> QED
  BY <1>1, Inductive, PTL

\* A scheduler makes public the edition the schedule names, and each schedule once
\* (heldByThisAttempt): one that outlived its lease has another token.
THEOREM SchedulesPublish == Spec => PublishesWhatIsScheduled
<1> DEFINE Step(w) ==
        LET p == worker[w].post IN
        (worker[w].held /\ ~ worker'[w].held /\ post'[p] # post[p])
            => /\ schedule[p].state = "publishing"
               /\ schedule[p].token = worker[w].token
               /\ post'[p].public = schedule[p].revision
               /\ schedule'[p].state = "published"
<1>1. ASSUME IInv, [Next]_vars, NEW w \in Workers PROVE Step(w)
  <2>0. TypeOK /\ LeaseInOrder(w)
    BY <1>1 DEF IInv
  <2>1. ASSUME worker' = worker PROVE Step(w)
    BY <2>1
  <2>2. ASSUME post' = post PROVE Step(w)
    BY <2>2
  <2>3. ASSUME NEW v \in Workers, PublishLeased(v) PROVE Step(w)
    <3>1. CASE v = w
      BY <1>1, <2>0, <2>3, <3>1, LeasedEffect DEF LeaseInOrder, HeldByThisAttempt
    <3>2. CASE v # w
      <4>1. worker'[w] = worker[w]
        BY <1>1, <2>0, <2>3, <3>2, LeasedEffect DEF TypeOK
      <4> QED
        BY <4>1
    <3> QED
      BY <3>1, <3>2
  <2>4. ASSUME NEW q \in Posts,
               \/ CreatePost(q) \/ Checkpoint(q) \/ PublishPost(q) \/ UnpublishPost(q)
               \/ DeletePost(q) \/ RecoverPost(q) \/ RemovePost(q) \/ CancelSchedule(q)
               \/ \E n \in 1..MaxRevisions : RestoreRevision(q, n) \/ RepublishPost(q, n)
               \/ \E s \in Slugs : CorrectAddress(q, s)
               \/ \E r \in Saves, s \in Slugs \cup {NoSlug} : CheckSave(r, q, s)
               \/ \E due \in 1..MaxDue, discord \in BOOLEAN :
                     \/ SchedulePost(q, due, discord)
                     \/ \E n \in 1..MaxRevisions : ReplaceSchedule(q, n, due, discord)
        PROVE  worker' = worker
    BY <2>4 DEF CreatePost, Checkpoint, PublishPost, UnpublishPost, DeletePost, RecoverPost,
                RemovePost, CancelSchedule, RestoreRevision, RepublishPost, CorrectAddress,
                CheckSave, SchedulePost, ReplaceSchedule
  <2>5. ASSUME NEW v \in Workers,
               LeaseLost(v) \/ PublishFails(v) \/ \E q \in Posts : LeaseDueSchedule(v, q)
        PROVE  post' = post
    BY <2>5 DEF LeaseLost, PublishFails, LeaseDueSchedule
  <2>6. ASSUME \/ SwitchWriterOn \/ SwitchWriterOff \/ Tick \/ UNCHANGED vars
               \/ \E r \in Saves : SavePost(r)
        PROVE  worker' = worker
    BY <2>6 DEF SwitchWriterOn, SwitchWriterOff, Tick, vars, SavePost
  <2> HIDE DEF Step
  <2> QED
    BY <1>1, <2>1, <2>2, <2>3, <2>4, <2>5, <2>6, StepCases
<1>2. IInv /\ [Next]_vars => [\A w \in Workers : Step(w)]_vars
  BY <1>1
<1> HIDE DEF Step
<1>3. Spec => [][\A w \in Workers : Step(w)]_vars
  BY <1>2, Inductive, PTL DEF Spec
<1> USE DEF Step
<1> QED
  BY <1>3 DEF PublishesWhatIsScheduled

\* A save overwrites only the text it was written against (SavePost's update, on the
\* version it read).
THEOREM SavesOverwriteWhatTheyRead == Spec => NoSaveIsLost
<1> DEFINE Step(r) ==
        LET p == save[r].post IN
        (save[r].version > 0 /\ save'[r].version = 0 /\ post'[p] # post[p])
            => post[p].words = save[r].words
<1>1. ASSUME IInv, [Next]_vars, NEW r \in Saves PROVE Step(r)
  <2>0. TypeOK /\ SaveInOrder(r)
    BY <1>1 DEF IInv
  <2>1. ASSUME save'[r] = save[r] PROVE Step(r)
    BY <2>1
  <2>2. ASSUME NEW q \in Saves, SavePost(q) PROVE Step(r)
    <3>1. CASE q = r
      <4>1. \/ post' = post
            \/ Exists(save[r].post) /\ post[save[r].post].version = save[r].version
        BY <1>1, <2>2, <3>1, SaveEffect
      <4>2. /\ save[r].version \in Int /\ post[save[r].post].version \in Int
            /\ save[r].post \in Posts
        <5>1. save[r].version \in 0..MaxVersion /\ save[r].post \in Posts
          BY <2>0 DEF TypeOK
        <5> QED
          BY <2>0, <5>1, PostFields
      <4> QED
        BY <2>0, <4>1, <4>2 DEF SaveInOrder, Exists
    <3>2. CASE q # r
      BY <1>1, <2>0, <2>1, <2>2, <3>2, SaveEffect DEF TypeOK
    <3> QED
      BY <3>1, <3>2
  <2>3. ASSUME post' = post PROVE Step(r)
    BY <2>3
  <2>4. ASSUME NEW q \in Posts,
               \/ CreatePost(q) \/ Checkpoint(q) \/ PublishPost(q) \/ UnpublishPost(q)
               \/ DeletePost(q) \/ RecoverPost(q) \/ RemovePost(q) \/ CancelSchedule(q)
               \/ \E n \in 1..MaxRevisions : RestoreRevision(q, n) \/ RepublishPost(q, n)
               \/ \E s \in Slugs : CorrectAddress(q, s)
               \/ \E due \in 1..MaxDue, discord \in BOOLEAN :
                     \/ SchedulePost(q, due, discord)
                     \/ \E n \in 1..MaxRevisions : ReplaceSchedule(q, n, due, discord)
               \/ \E w \in Workers : LeaseDueSchedule(w, q)
        PROVE  save' = save
    BY <2>4 DEF CreatePost, Checkpoint, PublishPost, UnpublishPost, DeletePost, RecoverPost,
                RemovePost, CancelSchedule, RestoreRevision, RepublishPost, CorrectAddress,
                SchedulePost, ReplaceSchedule, LeaseDueSchedule
  <2>5. ASSUME \/ SwitchWriterOn \/ SwitchWriterOff \/ Tick \/ UNCHANGED vars
               \/ \E w \in Workers : PublishLeased(w) \/ LeaseLost(w) \/ PublishFails(w)
        PROVE  save' = save
    BY <2>5 DEF SwitchWriterOn, SwitchWriterOff, Tick, vars, PublishLeased, LeaseLost,
                PublishFails
  <2>6. ASSUME NEW q \in Posts, NEW t \in Saves, NEW s \in Slugs \cup {NoSlug},
               CheckSave(t, q, s)
        PROVE  post' = post
    BY <2>6 DEF CheckSave
  <2> HIDE DEF Step
  <2> QED
    BY <1>1, <2>1, <2>2, <2>3, <2>4, <2>5, <2>6, StepCases
<1>2. IInv /\ [Next]_vars => [\A r \in Saves : Step(r)]_vars
  BY <1>1
<1> HIDE DEF Step
<1>3. Spec => [][\A r \in Saves : Step(r)]_vars
  BY <1>2, Inductive, PTL DEF Spec
<1> USE DEF Step
<1> QED
  BY <1>3 DEF NoSaveIsLost

-----------------------------------------------------------------------------
(* The releases of a repository.                                             *)

\* What a version of w or its text came from.
CameFrom(w, r) ==
    work[w].content = r \/ \E i \in DOMAIN versions[w] : versions[w][i] = r

\* Releases are told apart by their dates.
DatesApart ==
    /\ \A r \in Tags : github[r] # None => github[r].at <= clock
    /\ \A r, s \in Tags :
          github[r] # None /\ github[s] # None /\ github[r].at = github[s].at => r = s

\* What is recorded came after the repository was verified, but for the release a draft
\* started with; what a work was made of is older, or is recorded as published.
ReleaseInOrder(w, r) ==
    /\ item[w][r] # None =>
          /\ Imported!Connected(w) /\ github[r] # None /\ item[w][r].at = github[r].at
          /\ item[w][r].status = "published" \/ source[w].verified < github[r].at
    /\ CameFrom(w, r) =>
          /\ github[r] # None
          /\ Imported!Connected(w) =>
                \/ github[r].at <= source[w].verified
                \/ item[w][r] # None /\ item[w][r].status = "published"

WorkInOrder(w) ==
    /\ source[w] # None =>
          /\ work[w].lifecycle # "none"
          /\ source[w].verified # None => source[w].verified <= clock
    /\ work[w].lifecycle = "none" => work[w].content = None
    /\ work[w].lifecycle # "published" => versions[w] = <<>>
    /\ \A i, j \in DOMAIN versions[w] :
          versions[w][i] # None /\ versions[w][i] = versions[w][j] => i = j
    /\ \A r \in Tags : ReleaseInOrder(w, r)

ReleaseInv == Imported!RowsTyped /\ DatesApart /\ \A w \in Extensions : WorkInOrder(w)

LEMMA ReleaseInit == ASSUME Imported!Settings PROVE Imported!Init => ReleaseInv
<1> SUFFICES ASSUME Imported!Init PROVE ReleaseInv
  OBVIOUS
<1> USE DEF Imported!Init, Imported!Settings
<1>1. PICK begun \in SUBSET Extensions :
          /\ work = [w \in Extensions |->
                 [lifecycle |-> IF w \in begun THEN "published" ELSE "none",
                  edited |-> FALSE, up |-> TRUE, content |-> None]]
          /\ versions = [w \in Extensions |-> IF w \in begun THEN <<None>> ELSE <<>>]
  OBVIOUS
<1>2. versions \in [Extensions -> Seq(Tags \cup {None})]
  <2>1. <<>> \in Seq(Tags \cup {None}) /\ <<None>> \in Seq(Tags \cup {None})
    OBVIOUS
  <2> QED  BY <1>1, <2>1
<1>3. work \in [Extensions -> Imported!Work]
  BY <1>1 DEF Imported!Work
<1>4. Imported!RowsTyped
  BY <1>2, <1>3 DEF Imported!RowsTyped, Imported!NoImports
<1>5. DatesApart
  BY DEF DatesApart
<1>6. ASSUME NEW w \in Extensions PROVE WorkInOrder(w)
  <2>1. /\ source[w] = None /\ work[w].content = None
        /\ \A r \in Tags : item[w][r] = None
        /\ work[w].lifecycle # "published" => versions[w] = <<>>
        /\ versions[w] = <<>> \/ versions[w] = <<None>>
    BY <1>1 DEF Imported!NoImports
  <2>2. \A i \in DOMAIN versions[w] : versions[w][i] = None
    BY <2>1
  <2>3. \A r \in Tags : r # None
    OBVIOUS
  <2>4. \A r \in Tags : ReleaseInOrder(w, r)
    BY <2>1, <2>2, <2>3 DEF ReleaseInOrder, CameFrom
  <2> QED  BY <2>1, <2>2, <2>4 DEF WorkInOrder
<1> QED  BY <1>4, <1>5, <1>6 DEF ReleaseInv

\* A work whose row, source, releases and versions stay.
LEMMA WorkStays ==
    ASSUME ReleaseInv, NEW w \in Extensions, clock' \in Nat, clock <= clock',
           \A r \in Tags : github[r] # None => github'[r] # None /\ github'[r].at = github[r].at,
           source'[w] # None =>
              source[w] # None /\ source'[w].verified = source[w].verified,
           source[w] # None => source'[w] # None,
           item'[w] = item[w], versions'[w] = versions[w],
           work'[w].lifecycle = work[w].lifecycle, work'[w].content = work[w].content
    PROVE  WorkInOrder(w)'
<1>1. \A r \in Tags : CameFrom(w, r)' => CameFrom(w, r)
  BY DEF CameFrom
<1>2. Imported!Connected(w)' = Imported!Connected(w)
  BY DEF Imported!Connected
<1>3. ASSUME NEW r \in Tags PROVE ReleaseInOrder(w, r)'
  BY <1>1, <1>2 DEF ReleaseInv, WorkInOrder, ReleaseInOrder, Imported!Connected
<1>4. source[w] # None /\ source[w].verified # None => source[w].verified \in Nat
  BY DEF ReleaseInv, Imported!RowsTyped, Imported!Source
<1>5. clock \in Nat
  BY DEF ReleaseInv, Imported!RowsTyped
<1> QED  BY <1>3, <1>4, <1>5 DEF ReleaseInv, WorkInOrder

\* A step that changes one work's row, source, releases or versions.
LEMMA OneWorkChanges ==
    ASSUME ReleaseInv, NEW w \in Extensions, UNCHANGED <<github, clock>>, Imported!RowsTyped',
           \A x \in Extensions \ {w} :
              /\ source'[x] = source[x] /\ item'[x] = item[x]
              /\ work'[x] = work[x] /\ versions'[x] = versions[x],
           WorkInOrder(w)'
    PROVE  ReleaseInv'
<1>1. DatesApart'
  BY DEF ReleaseInv, DatesApart
<1>2. clock' \in Nat /\ clock <= clock'
  BY DEF ReleaseInv, Imported!RowsTyped
<1>3. ASSUME NEW x \in Extensions, x # w PROVE WorkInOrder(x)'
  BY <1>2, <1>3, WorkStays
<1> QED  BY <1>1, <1>3 DEF ReleaseInv

\* What a change of one work's source leaves.
LEMMA SourceChanges ==
    ASSUME ReleaseInv, NEW w \in Extensions, NEW new \in Imported!Source \cup {None},
           source' = [source EXCEPT ![w] = new]
    PROVE  /\ source' \in [Extensions -> Imported!Source \cup {None}]
           /\ source'[w] = new /\ \A x \in Extensions \ {w} : source'[x] = source[x]
  BY DEF ReleaseInv, Imported!RowsTyped

LEMMA ItemsChange ==
    ASSUME ReleaseInv, NEW w \in Extensions, NEW new \in [Tags -> Imported!Item \cup {None}],
           item' = [item EXCEPT ![w] = new]
    PROVE  /\ item' \in [Extensions -> [Tags -> Imported!Item \cup {None}]]
           /\ item'[w] = new /\ \A x \in Extensions \ {w} : item'[x] = item[x]
  BY DEF ReleaseInv, Imported!RowsTyped

LEMMA ItemChanges ==
    ASSUME ReleaseInv, NEW w \in Extensions, NEW r \in Tags, NEW new \in Imported!Item,
           item' = [item EXCEPT ![w][r] = new]
    PROVE  /\ item' \in [Extensions -> [Tags -> Imported!Item \cup {None}]]
           /\ item'[w][r] = new /\ \A s \in Tags \ {r} : item'[w][s] = item[w][s]
           /\ \A x \in Extensions \ {w} : item'[x] = item[x]
  BY DEF ReleaseInv, Imported!RowsTyped

LEMMA RowChanges ==
    ASSUME ReleaseInv, NEW w \in Extensions, NEW new \in Imported!Work,
           work' = [work EXCEPT ![w] = new]
    PROVE  /\ work' \in [Extensions -> Imported!Work]
           /\ work'[w] = new /\ \A x \in Extensions \ {w} : work'[x] = work[x]
  BY DEF ReleaseInv, Imported!RowsTyped

\* A version of w is added, which came from r, and no other work's.
Grown(w, r) ==
    /\ versions' \in [Extensions -> Seq(Tags \cup {None})]
    /\ \A x \in Extensions \ {w} : versions'[x] = versions[x]
    /\ \A i \in DOMAIN versions'[w] :
          \/ i \in DOMAIN versions[w] /\ versions'[w][i] = versions[w][i]
          \/ i = Len(versions[w]) + 1 /\ versions'[w][i] = r

LEMMA VersionsGrow ==
    ASSUME ReleaseInv, NEW w \in Extensions, NEW r \in Tags \cup {None},
           versions' = [versions EXCEPT ![w] = Append(versions[w], r)]
    PROVE  Grown(w, r)
<1>1. versions[w] \in Seq(Tags \cup {None})
  BY DEF ReleaseInv, Imported!RowsTyped
<1>2. /\ versions' \in [Extensions -> Seq(Tags \cup {None})]
      /\ versions'[w] = Append(versions[w], r)
  BY <1>1 DEF ReleaseInv, Imported!RowsTyped
<1> QED  BY <1>1, <1>2 DEF Grown, ReleaseInv, Imported!RowsTyped

-----------------------------------------------------------------------------
\* GitHub.
LEMMA GitHubKeeps ==
    ASSUME Imported!Settings, ReleaseInv, NEW r \in Tags,
           Imported!PublishRelease(r) \/ Imported!ChangeRelease(r)
    PROVE  ReleaseInv'
<1>1. UNCHANGED <<source, item, work, versions, edits>>
  BY DEF Imported!PublishRelease, Imported!ChangeRelease, Imported!SetRelease
<1>2. /\ clock \in Nat /\ clock' \in Nat /\ clock <= clock'
      /\ github' \in [Tags -> Imported!Release \cup {None}]
      /\ \A s \in Tags \ {r} : github'[s] = github[s]
      /\ github'[r] # None
      /\ \/ github[r] = None /\ clock' = clock + 1 /\ github'[r].at = clock'
         \/ github[r] # None /\ clock' = clock /\ github'[r].at = github[r].at
  <2>1. CASE Imported!PublishRelease(r)
    <3>1. PICK pre \in BOOLEAN, attached \in BOOLEAN :
             github' = [github EXCEPT ![r] = [at |-> clock', pre |-> pre, attached |-> attached]]
      BY <2>1 DEF Imported!PublishRelease, Imported!SetRelease
    <3>2. clock \in Nat /\ clock' = clock + 1 /\ github[r] = None
      BY <2>1 DEF Imported!PublishRelease, ReleaseInv, Imported!RowsTyped
    <3> DEFINE new == [at |-> clock', pre |-> pre, attached |-> attached]
    <3>3. new \in Imported!Release /\ new.at = clock'
      BY <3>2 DEF Imported!Release
    <3>4. new # None
      BY <3>3 DEF Imported!Settings
    <3>5. github' = [github EXCEPT ![r] = new]
      BY <3>1
    <3> HIDE DEF new
    <3> QED  BY <3>2, <3>3, <3>4, <3>5 DEF ReleaseInv, Imported!RowsTyped
  <2>2. CASE Imported!ChangeRelease(r)
    <3>1. PICK new : /\ github' = [github EXCEPT ![r] = new]
                     /\ \/ new = [github[r] EXCEPT !.pre = FALSE]
                        \/ new = [github[r] EXCEPT !.attached = TRUE]
      BY <2>2 DEF Imported!ChangeRelease, Imported!SetRelease
    <3>2. github[r] # None /\ github[r] \in Imported!Release /\ clock' = clock /\ clock \in Nat
      BY <2>2 DEF Imported!ChangeRelease, ReleaseInv, Imported!RowsTyped
    <3>3. new \in Imported!Release /\ new.at = github[r].at
      BY <3>1, <3>2 DEF Imported!Release
    <3>4. new # None
      BY <3>3 DEF Imported!Settings
    <3> QED  BY <3>1, <3>2, <3>3, <3>4 DEF ReleaseInv, Imported!RowsTyped
  <2> QED  BY <2>1, <2>2
<1>3. Imported!RowsTyped'
  BY <1>1, <1>2 DEF ReleaseInv, Imported!RowsTyped
<1>4. \A s \in Tags : github[s] # None => github[s].at \in Nat /\ github[s].at <= clock
  BY DEF ReleaseInv, DatesApart, Imported!RowsTyped, Imported!Release
<1>5. DatesApart'
  <2>1. CASE github[r] = None
    BY <2>1, <1>2, <1>4 DEF ReleaseInv, DatesApart
  <2>2. CASE github[r] # None
    BY <2>2, <1>2, <1>4 DEF ReleaseInv, DatesApart
  <2> QED  BY <2>1, <2>2
<1>6. \A s \in Tags : github[s] # None => github'[s] # None /\ github'[s].at = github[s].at
  BY <1>2
<1>7. ASSUME NEW w \in Extensions PROVE WorkInOrder(w)'
  BY <1>1, <1>2, <1>6, WorkStays
<1> QED  BY <1>3, <1>5, <1>7 DEF ReleaseInv

-----------------------------------------------------------------------------
\* The owner.
LEMMA ConfigureKeeps ==
    ASSUME Imported!Settings, ReleaseInv, NEW w \in Extensions,
           NEW new \in Imported!Source \cup {None}, new # None => new.verified = None,
           new # None => work[w].lifecycle # "none",
           source' = [source EXCEPT ![w] = new],
           item' = [item EXCEPT ![w] = Imported!NoImports],
           UNCHANGED <<github, clock, work, versions, edits>>
    PROVE  ReleaseInv'
<1>1. /\ source' \in [Extensions -> Imported!Source \cup {None}]
      /\ source'[w] = new /\ \A x \in Extensions \ {w} : source'[x] = source[x]
  BY SourceChanges
<1>2. Imported!NoImports \in [Tags -> Imported!Item \cup {None}]
  BY DEF Imported!NoImports
<1>3. /\ item' \in [Extensions -> [Tags -> Imported!Item \cup {None}]]
      /\ item'[w] = Imported!NoImports /\ \A x \in Extensions \ {w} : item'[x] = item[x]
  BY <1>2, ItemsChange
<1>4. \A r \in Tags : item'[w][r] = None
  BY <1>3 DEF Imported!NoImports
<1>5. ~ Imported!Connected(w)'
  BY <1>1 DEF Imported!Connected
<1>6. \A r \in Tags : ReleaseInOrder(w, r)'
  BY <1>4, <1>5 DEF ReleaseInv, WorkInOrder, ReleaseInOrder, CameFrom
<1>7. WorkInOrder(w)'
  BY <1>1, <1>6 DEF ReleaseInv, WorkInOrder
<1>8. Imported!RowsTyped'
  BY <1>1, <1>3 DEF ReleaseInv, Imported!RowsTyped
<1> QED  BY <1>1, <1>3, <1>7, <1>8, OneWorkChanges

LEMMA VerifyKeeps ==
    ASSUME Imported!Settings, ReleaseInv, NEW w \in Extensions, Imported!Verify(w)
    PROVE  ReleaseInv'
<1> DEFINE new == [source[w] EXCEPT !.verified = clock, !.check = "due"]
<1>1. /\ source[w] # None /\ ~ Imported!Connected(w) /\ source' = [source EXCEPT ![w] = new]
      /\ UNCHANGED <<github, clock, item, work, versions, edits>>
  BY DEF Imported!Verify
<1>2. source[w] \in Imported!Source /\ clock \in Nat
  BY <1>1 DEF ReleaseInv, Imported!RowsTyped
<1>3. new \in Imported!Source /\ new.verified = clock
  BY <1>2 DEF Imported!Source
<1> HIDE DEF new
<1>4. /\ source' \in [Extensions -> Imported!Source \cup {None}]
      /\ source'[w] = new /\ \A x \in Extensions \ {w} : source'[x] = source[x]
  BY <1>1, <1>3, SourceChanges
<1>5. \A r \in Tags : item[w][r] = None
  BY <1>1 DEF ReleaseInv, WorkInOrder, ReleaseInOrder
<1>6. \A r \in Tags : ReleaseInOrder(w, r)'
  BY <1>1, <1>3, <1>4, <1>5
     DEF ReleaseInv, WorkInOrder, ReleaseInOrder, CameFrom, DatesApart
<1>7. WorkInOrder(w)'
  BY <1>1, <1>2, <1>3, <1>4, <1>6 DEF ReleaseInv, WorkInOrder
<1>8. Imported!RowsTyped'
  BY <1>1, <1>4 DEF ReleaseInv, Imported!RowsTyped
<1> QED  BY <1>1, <1>4, <1>7, <1>8, OneWorkChanges

\* The hours pass, and the owner asks for a check.
LEMMA TimeKeeps ==
    ASSUME Imported!Settings, ReleaseInv, NEW w \in Extensions,
           Imported!CheckSoon(w) \/ Imported!AMinute(w) \/ Imported!AnHour(w)
    PROVE  ReleaseInv'
<1>1. PICK c \in {"due", "waits"} : source' = [source EXCEPT ![w].check = c]
  BY DEF Imported!CheckSoon, Imported!AMinute, Imported!AnHour
<1>2. /\ source[w] # None
      /\ UNCHANGED <<github, clock, item, work, versions, edits>>
  BY DEF Imported!CheckSoon, Imported!AMinute, Imported!AnHour, Imported!Connected
<1>3. source[w] \in Imported!Source
  BY <1>2 DEF ReleaseInv, Imported!RowsTyped
<1> DEFINE new == [source[w] EXCEPT !.check = c]
<1>4. new \in Imported!Source /\ new.verified = source[w].verified
  BY <1>3 DEF Imported!Source
<1>5. source' = [source EXCEPT ![w] = new]
  BY <1>1
<1>6. new # None
  BY <1>4 DEF Imported!Settings
<1> HIDE DEF new
<1>7. /\ source' \in [Extensions -> Imported!Source \cup {None}]
      /\ source'[w] = new /\ \A x \in Extensions \ {w} : source'[x] = source[x]
  BY <1>4, <1>5, SourceChanges
<1>8. clock' \in Nat /\ clock <= clock'
  BY <1>2 DEF ReleaseInv, Imported!RowsTyped
<1>9. WorkInOrder(w)'
  BY <1>2, <1>4, <1>6, <1>7, <1>8, WorkStays
<1>10. Imported!RowsTyped'
  BY <1>2, <1>7 DEF ReleaseInv, Imported!RowsTyped
<1> QED  BY <1>2, <1>7, <1>9, <1>10, OneWorkChanges

LEMMA StartKeeps ==
    ASSUME Imported!Settings, ReleaseInv, NEW w \in Extensions, NEW named \in BOOLEAN,
           NEW prereleases \in BOOLEAN, Imported!Start(w, named, prereleases)
    PROVE  ReleaseInv'
<1>1. PICK r \in Tags :
          /\ Imported!Eligible(r, prereleases)
          /\ work' = [work EXCEPT ![w] = [work[w] EXCEPT !.lifecycle = "draft", !.content = r]]
          /\ source' = [source EXCEPT ![w] = [verified |-> github[r].at, check |-> "due",
                                              named |-> named, prereleases |-> prereleases]]
          /\ item' = [item EXCEPT ![w][r] = Imported!Import("published", r, github[r].attached)]
  BY DEF Imported!Start
<1>2. work[w].lifecycle = "none" /\ UNCHANGED <<github, clock, versions, edits>>
  BY DEF Imported!Start
<1>3. /\ github[r] # None /\ github[r] \in Imported!Release /\ github[r].at \in Nat
      /\ github[r].at <= clock
  BY <1>1 DEF Imported!Eligible, ReleaseInv, DatesApart, Imported!RowsTyped, Imported!Release
<1> DEFINE asked == [verified |-> github[r].at, check |-> "due", named |-> named,
                     prereleases |-> prereleases]
           begun == [work[w] EXCEPT !.lifecycle = "draft", !.content = r]
           first == Imported!Import("published", r, github[r].attached)
<1>4. asked \in Imported!Source /\ asked.verified = github[r].at
  BY <1>3 DEF Imported!Source
<1>5. begun \in Imported!Work /\ begun.lifecycle = "draft" /\ begun.content = r
  BY DEF ReleaseInv, Imported!RowsTyped, Imported!Work
<1>6. first \in Imported!Item /\ first.status = "published" /\ first.at = github[r].at
  BY <1>3 DEF Imported!Item, Imported!Import, Imported!Release
<1>7. asked # None /\ first # None /\ r # None /\ github[r].at # None
  BY <1>3, <1>4, <1>6 DEF Imported!Settings
<1>8. /\ source' = [source EXCEPT ![w] = asked] /\ work' = [work EXCEPT ![w] = begun]
      /\ item' = [item EXCEPT ![w][r] = first]
  BY <1>1
<1> HIDE DEF asked, begun, first
<1>9. /\ source' \in [Extensions -> Imported!Source \cup {None}]
      /\ source'[w] = asked /\ \A x \in Extensions \ {w} : source'[x] = source[x]
  BY <1>4, <1>8, SourceChanges
<1>10. /\ work' \in [Extensions -> Imported!Work]
       /\ work'[w] = begun /\ \A x \in Extensions \ {w} : work'[x] = work[x]
  BY <1>5, <1>8, RowChanges
<1>11. /\ item' \in [Extensions -> [Tags -> Imported!Item \cup {None}]]
       /\ item'[w][r] = first /\ \A s \in Tags \ {r} : item'[w][s] = item[w][s]
       /\ \A x \in Extensions \ {w} : item'[x] = item[x]
  BY <1>6, <1>8, ItemChanges
<1>12. versions[w] = <<>> /\ source[w] = None
  BY <1>2 DEF ReleaseInv, WorkInOrder
<1>13. \A s \in Tags : item[w][s] = None
  BY <1>12 DEF ReleaseInv, WorkInOrder, ReleaseInOrder, Imported!Connected
<1>14. Imported!Connected(w)'
  BY <1>4, <1>7, <1>9 DEF Imported!Connected
<1>15. \A s \in Tags : CameFrom(w, s)' => s = r
  BY <1>2, <1>5, <1>10, <1>12 DEF CameFrom
<1>16. ASSUME NEW s \in Tags PROVE ReleaseInOrder(w, s)'
  <2>1. CASE s = r
    BY <2>1, <1>2, <1>3, <1>4, <1>6, <1>9, <1>11, <1>14 DEF ReleaseInOrder
  <2>2. CASE s # r
    BY <2>2, <1>11, <1>13, <1>15 DEF ReleaseInOrder
  <2> QED  BY <2>1, <2>2
<1>17. WorkInOrder(w)'
  BY <1>2, <1>3, <1>4, <1>5, <1>9, <1>10, <1>12, <1>16 DEF WorkInOrder
<1>18. Imported!RowsTyped'
  BY <1>2, <1>9, <1>10, <1>11 DEF ReleaseInv, Imported!RowsTyped
<1> QED  BY <1>2, <1>9, <1>10, <1>11, <1>17, <1>18, OneWorkChanges

\* One release's record changes, and stays one that is not published.
LEMMA ItemKeeps ==
    ASSUME Imported!Settings, ReleaseInv, NEW w \in Extensions, NEW r \in Tags,
           NEW new \in Imported!Item, item[w][r] # None, item[w][r].status # "published",
           new.at = item[w][r].at, new.status # "published",
           item' = [item EXCEPT ![w][r] = new],
           UNCHANGED <<github, clock, source, work, versions, edits>>
    PROVE  ReleaseInv'
<1>1. /\ item' \in [Extensions -> [Tags -> Imported!Item \cup {None}]]
      /\ item'[w][r] = new /\ \A s \in Tags \ {r} : item'[w][s] = item[w][s]
      /\ \A x \in Extensions \ {w} : item'[x] = item[x]
  BY ItemChanges
<1>2. new # None
  BY DEF Imported!Settings
<1>3. Imported!Connected(w)' = Imported!Connected(w)
  BY DEF Imported!Connected
<1>4. ASSUME NEW s \in Tags PROVE ReleaseInOrder(w, s)'
  <2>1. CASE s = r
    BY <2>1, <1>1, <1>2, <1>3 DEF ReleaseInv, WorkInOrder, ReleaseInOrder, CameFrom
  <2>2. CASE s # r
    BY <2>2, <1>1, <1>3 DEF ReleaseInv, WorkInOrder, ReleaseInOrder, CameFrom
  <2> QED  BY <2>1, <2>2
<1>5. WorkInOrder(w)'
  BY <1>4 DEF ReleaseInv, WorkInOrder
<1>6. Imported!RowsTyped'
  BY <1>1 DEF ReleaseInv, Imported!RowsTyped
<1> QED  BY <1>1, <1>5, <1>6, OneWorkChanges

LEMMA RetryKeeps ==
    ASSUME Imported!Settings, ReleaseInv, NEW w \in Extensions, NEW r \in Tags,
           Imported!Retry(w, r)
    PROVE  ReleaseInv'
<1>1. /\ item[w][r] # None /\ item[w][r].status \in {"failed", "held"}
      /\ UNCHANGED <<github, clock, source, work, versions, edits>>
  BY DEF Imported!Retry
<1> DEFINE looked == item[w][r].attached \/ (source[w].named /\ github[r].attached)
           new == [item[w][r] EXCEPT !.status = "queued", !.attached = looked]
<1>2. item' = [item EXCEPT ![w][r] = new]
  BY DEF Imported!Retry
<1>3. looked \in BOOLEAN
  OBVIOUS
<1>4. item[w][r] \in Imported!Item
  BY <1>1 DEF ReleaseInv, Imported!RowsTyped
<1> HIDE DEF looked
<1>5. new \in Imported!Item /\ new.at = item[w][r].at /\ new.status = "queued"
  BY <1>3, <1>4 DEF Imported!Item
<1> HIDE DEF new
<1> QED  BY <1>1, <1>2, <1>5, ItemKeeps

\* Edits begin and end, and a work is taken down or deleted and comes back.
LEMMA RowKeeps ==
    ASSUME Imported!Settings, ReleaseInv, NEW w \in Extensions,
           Imported!EditWork(w) \/ Imported!DiscardEdits(w) \/ Imported!TakeDownOrDelete(w)
    PROVE  ReleaseInv'
<1>1. UNCHANGED <<github, clock, source, item, versions>> /\ edits' \in Nat
  BY DEF Imported!EditWork, Imported!DiscardEdits, Imported!TakeDownOrDelete, Imported!SetWork,
         ReleaseInv, Imported!RowsTyped
<1>2. work[w] \in Imported!Work
  BY DEF ReleaseInv, Imported!RowsTyped
<1>3. PICK new : /\ work' = [work EXCEPT ![w] = new]
                 /\ \/ new = [work[w] EXCEPT !.edited = TRUE]
                    \/ new = [work[w] EXCEPT !.edited = FALSE]
                    \/ new = [work[w] EXCEPT !.up = ~ work[w].up]
  BY DEF Imported!EditWork, Imported!DiscardEdits, Imported!TakeDownOrDelete, Imported!SetWork
<1>4. /\ new \in Imported!Work
      /\ new.lifecycle = work[w].lifecycle /\ new.content = work[w].content
  BY <1>2, <1>3 DEF Imported!Work
<1>5. /\ work' \in [Extensions -> Imported!Work]
      /\ work'[w] = new /\ \A x \in Extensions \ {w} : work'[x] = work[x]
  BY <1>3, <1>4, RowChanges
<1>6. clock' \in Nat /\ clock <= clock'
  BY <1>1 DEF ReleaseInv, Imported!RowsTyped
<1>7. WorkInOrder(w)'
  BY <1>1, <1>4, <1>5, <1>6, WorkStays
<1>8. Imported!RowsTyped'
  BY <1>1, <1>5 DEF ReleaseInv, Imported!RowsTyped
<1> QED  BY <1>1, <1>5, <1>7, <1>8, OneWorkChanges

\* Versions without a release twice, when one is added that is not among them.
LEMMA StillOnce ==
    ASSUME ReleaseInv, NEW w \in Extensions, NEW r \in Tags \cup {None},
           versions' = [versions EXCEPT ![w] = Append(versions[w], r)],
           r # None => \A i \in DOMAIN versions[w] : versions[w][i] # r
    PROVE  \A i, j \in DOMAIN versions'[w] :
               versions'[w][i] # None /\ versions'[w][i] = versions'[w][j] => i = j
  BY VersionsGrow DEF Grown, ReleaseInv, WorkInOrder

LEMMA PublishKeeps ==
    ASSUME Imported!Settings, ReleaseInv, NEW w \in Extensions, Imported!PublishWork(w)
    PROVE  ReleaseInv'
<1> DEFINE new == [work[w] EXCEPT !.edited = FALSE, !.lifecycle = "published"]
           from == IF work[w].lifecycle = "draft" THEN work[w].content ELSE None
<1>1. /\ work' = [work EXCEPT ![w] = new]
      /\ versions' = [versions EXCEPT ![w] = Append(versions[w], from)]
      /\ UNCHANGED <<github, clock, source, item, edits>>
  BY DEF Imported!PublishWork, Imported!SetWork
<1>2. work[w] \in Imported!Work
  BY DEF ReleaseInv, Imported!RowsTyped
<1>3. /\ new \in Imported!Work /\ new.lifecycle = "published" /\ new.content = work[w].content
      /\ from \in Tags \cup {None}
  BY <1>2 DEF Imported!Work
<1>4. from # None => versions[w] = <<>> /\ from = work[w].content
  BY DEF ReleaseInv, WorkInOrder
<1> HIDE DEF new, from
<1>5. /\ work' \in [Extensions -> Imported!Work]
      /\ work'[w] = new /\ \A x \in Extensions \ {w} : work'[x] = work[x]
  BY <1>1, <1>3, RowChanges
<1>6. Grown(w, from)
  <2>1. versions' = [versions EXCEPT ![w] = Append(versions[w], from)]
    BY <1>1
  <2> QED  BY <1>3, <2>1, VersionsGrow, Zenon
<1>7. \A i, j \in DOMAIN versions'[w] :
         versions'[w][i] # None /\ versions'[w][i] = versions'[w][j] => i = j
  <2>1. from # None => \A i \in DOMAIN versions[w] : versions[w][i] # from
    BY <1>4
  <2>2. versions' = [versions EXCEPT ![w] = Append(versions[w], from)]
    BY <1>1
  <2> QED  BY <1>3, <2>1, <2>2, StillOnce, Zenon
<1>8. \A r \in Tags : r # None
  BY DEF Imported!Settings
<1>9. \A r \in Tags : CameFrom(w, r)' => CameFrom(w, r)
  BY <1>3, <1>4, <1>5, <1>6, <1>8 DEF CameFrom, Grown
<1>10. \A r \in Tags : ReleaseInOrder(w, r)'
  BY <1>1, <1>9 DEF ReleaseInv, WorkInOrder, ReleaseInOrder, Imported!Connected
<1>11. WorkInOrder(w)'
  BY <1>1, <1>3, <1>5, <1>7, <1>10 DEF ReleaseInv, WorkInOrder
<1>12. Imported!RowsTyped'
  BY <1>1, <1>5, <1>6 DEF Grown, ReleaseInv, Imported!RowsTyped
<1> QED  BY <1>1, <1>5, <1>6, <1>11, <1>12, OneWorkChanges DEF Grown

-----------------------------------------------------------------------------
\* The server's loop.
LEMMA CheckKeeps ==
    ASSUME Imported!Settings, ReleaseInv, NEW w \in Extensions, Imported!CheckNext(w)
    PROVE  ReleaseInv'
<1>1. /\ Imported!Connected(w) /\ source' = [source EXCEPT ![w].check = "checked"]
      /\ item' = [item EXCEPT ![w] = Imported!WithFound(w)] \/ UNCHANGED item
      /\ UNCHANGED <<github, clock, work, versions, edits>>
  BY DEF Imported!CheckNext
<1>2. source[w] # None /\ source[w] \in Imported!Source /\ source[w].verified \in Nat
  BY <1>1 DEF Imported!Connected, ReleaseInv, Imported!RowsTyped, Imported!Source
<1> DEFINE asked == [source[w] EXCEPT !.check = "checked"]
<1>3. asked \in Imported!Source /\ asked.verified = source[w].verified
  BY <1>2 DEF Imported!Source
<1>4. asked # None /\ source' = [source EXCEPT ![w] = asked]
  BY <1>1, <1>3 DEF Imported!Settings
<1> HIDE DEF asked
<1>5. /\ source' \in [Extensions -> Imported!Source \cup {None}]
      /\ source'[w] = asked /\ \A x \in Extensions \ {w} : source'[x] = source[x]
  BY <1>3, <1>4, SourceChanges
<1>6. clock' \in Nat /\ clock <= clock'
  BY <1>1 DEF ReleaseInv, Imported!RowsTyped
<1>7. CASE UNCHANGED item
  <2>1. WorkInOrder(w)'
    BY <1>1, <1>2, <1>3, <1>4, <1>5, <1>6, <1>7, WorkStays
  <2>2. Imported!RowsTyped'
    BY <1>1, <1>5, <1>7 DEF ReleaseInv, Imported!RowsTyped
  <2> QED  BY <1>1, <1>5, <1>7, <2>1, <2>2, OneWorkChanges
<1>8. CASE item' = [item EXCEPT ![w] = Imported!WithFound(w)]
  <2>1. ASSUME NEW r \in Imported!Found(w)
        PROVE  /\ github[r] # None /\ github[r].at > source[w].verified
               /\ Imported!Recorded(w, r) \in Imported!Item
               /\ Imported!Recorded(w, r).at = github[r].at
    <3>1. /\ r \in Tags /\ github[r] # None /\ github[r].at > source[w].verified
          /\ github[r] \in Imported!Release
      BY <2>1 DEF Imported!Found, Imported!Eligible, ReleaseInv, Imported!RowsTyped
    <3>2. source[w].named \in BOOLEAN /\ github[r].at \in Nat
      BY <1>2, <3>1 DEF Imported!Source, Imported!Release
    <3>3. /\ Imported!Import("failed", r, FALSE) \in Imported!Item
          /\ Imported!Import("queued", r, source[w].named) \in Imported!Item
      BY <3>2 DEF Imported!Import, Imported!Item
    <3> QED  BY <3>1, <3>3 DEF Imported!Recorded, Imported!Import
  <2> DEFINE new == Imported!WithFound(w)
  <2>2. \A r \in Tags : \/ new[r] = item[w][r]
                        \/ r \in Imported!Found(w) /\ new[r] = Imported!Recorded(w, r)
                           /\ item[w][r] = None
    BY DEF Imported!WithFound
  <2>3. new \in [Tags -> Imported!Item \cup {None}]
    <3>1. \A r \in Tags : item[w][r] \in Imported!Item \cup {None}
      BY DEF ReleaseInv, Imported!RowsTyped
    <3>2. \A r \in Tags : new[r] \in Imported!Item \cup {None}
      BY <2>1, <2>2, <3>1
    <3> QED  BY <3>2 DEF Imported!WithFound
  <2> HIDE DEF new
  <2>4. /\ item' \in [Extensions -> [Tags -> Imported!Item \cup {None}]]
        /\ item'[w] = new /\ \A x \in Extensions \ {w} : item'[x] = item[x]
    BY <1>8, <2>3, ItemsChange DEF new
  <2>5. Imported!Connected(w)' /\ source'[w].verified = source[w].verified
    BY <1>1, <1>3, <1>4, <1>5 DEF Imported!Connected
  <2>6. ASSUME NEW r \in Tags PROVE ReleaseInOrder(w, r)'
    <3>1. CASE new[r] = item[w][r]
      BY <3>1, <1>1, <2>4, <2>5 DEF ReleaseInv, WorkInOrder, ReleaseInOrder, CameFrom
    <3>2. CASE r \in Imported!Found(w) /\ new[r] = Imported!Recorded(w, r) /\ item[w][r] = None
      BY <3>2, <1>1, <2>1, <2>4, <2>5 DEF ReleaseInv, WorkInOrder, ReleaseInOrder, CameFrom
    <3> QED  BY <2>2, <3>1, <3>2
  <2>7. WorkInOrder(w)'
    BY <1>1, <1>2, <2>5, <2>6 DEF ReleaseInv, WorkInOrder
  <2>8. Imported!RowsTyped'
    BY <1>1, <1>5, <2>4 DEF ReleaseInv, Imported!RowsTyped
  <2> QED  BY <1>1, <1>5, <2>4, <2>7, <2>8, OneWorkChanges
<1> QED  BY <1>1, <1>7, <1>8

LEMMA ImportKeeps ==
    ASSUME Imported!Settings, ReleaseInv, NEW w \in Extensions, NEW r \in Tags,
           item[w][r] # None, item[w][r].status = "queued",
           ~ Imported!UnpublishedChanges(w), Imported!ImportRelease(w, r),
           UNCHANGED <<github, clock, source, edits>>
    PROVE  ReleaseInv'
<1>1. item[w][r] \in Imported!Item /\ work[w] \in Imported!Work /\ github[r] # None
  BY DEF ReleaseInv, Imported!RowsTyped, WorkInOrder, ReleaseInOrder
<1>2. Imported!Connected(w) /\ source[w].verified < github[r].at
  BY DEF ReleaseInv, WorkInOrder, ReleaseInOrder
<1>3. work[w].lifecycle = "published"
  <2>1. work[w].lifecycle # "none"
    BY <1>2 DEF ReleaseInv, WorkInOrder, Imported!Connected
  <2> QED  BY <1>1, <2>1 DEF Imported!Work, Imported!UnpublishedChanges
<1>4. ~ CameFrom(w, r)
  <2>1. source[w].verified \in Nat /\ github[r].at \in Nat
    BY <1>1, <1>2
       DEF Imported!Connected, ReleaseInv, Imported!RowsTyped, Imported!Source, Imported!Release
  <2> QED  BY <1>2, <2>1 DEF ReleaseInv, WorkInOrder, ReleaseInOrder
<1> DEFINE row == [work[w] EXCEPT !.content = r]
           done == [item[w][r] EXCEPT !.status = "published"]
<1>5. /\ row \in Imported!Work /\ row.content = r /\ row.lifecycle = work[w].lifecycle
      /\ done \in Imported!Item /\ done.status = "published" /\ done.at = item[w][r].at
  BY <1>1 DEF Imported!Work, Imported!Item
<1>6. done # None
  BY <1>5 DEF Imported!Settings
<1>7. /\ work' = [work EXCEPT ![w] = row] /\ item' = [item EXCEPT ![w][r] = done]
      /\ versions' = [versions EXCEPT ![w] = Append(versions[w], r)]
  BY DEF Imported!ImportRelease
<1> HIDE DEF row, done
<1>8. /\ work' \in [Extensions -> Imported!Work]
      /\ work'[w] = row /\ \A x \in Extensions \ {w} : work'[x] = work[x]
  BY <1>5, <1>7, RowChanges
<1>9. /\ item' \in [Extensions -> [Tags -> Imported!Item \cup {None}]]
      /\ item'[w][r] = done /\ \A s \in Tags \ {r} : item'[w][s] = item[w][s]
      /\ \A x \in Extensions \ {w} : item'[x] = item[x]
  BY <1>5, <1>7, ItemChanges
<1>10. Grown(w, r)
  <2>1. r \in Tags \cup {None} /\ versions' = [versions EXCEPT ![w] = Append(versions[w], r)]
    BY <1>7
  <2> QED  BY <2>1, VersionsGrow, Zenon
<1>11. \A i, j \in DOMAIN versions'[w] :
          versions'[w][i] # None /\ versions'[w][i] = versions'[w][j] => i = j
  BY <1>4, <1>7, StillOnce DEF CameFrom
<1>12. \A s \in Tags \ {r} : CameFrom(w, s)' => CameFrom(w, s)
  BY <1>5, <1>8, <1>10 DEF CameFrom, Grown
<1>13. Imported!Connected(w)'
  BY <1>2 DEF Imported!Connected
<1>14. ASSUME NEW s \in Tags PROVE ReleaseInOrder(w, s)'
  <2>1. CASE s = r
    BY <2>1, <1>1, <1>5, <1>6, <1>9, <1>13 DEF ReleaseInv, WorkInOrder, ReleaseInOrder
  <2>2. CASE s # r
    BY <2>2, <1>2, <1>9, <1>12, <1>13 DEF ReleaseInv, WorkInOrder, ReleaseInOrder
  <2> QED  BY <2>1, <2>2
<1>15. WorkInOrder(w)'
  BY <1>3, <1>5, <1>8, <1>11, <1>14 DEF ReleaseInv, WorkInOrder
<1>16. Imported!RowsTyped'
  BY <1>8, <1>9, <1>10 DEF Grown, ReleaseInv, Imported!RowsTyped
<1> QED  BY <1>8, <1>9, <1>10, <1>15, <1>16, OneWorkChanges DEF Grown

LEMMA RefuseKeeps ==
    ASSUME Imported!Settings, ReleaseInv, NEW w \in Extensions, NEW r \in Tags,
           item[w][r] # None, item[w][r].status = "queued", NEW status \in {"held", "failed"},
           Imported!Refuse(w, r, status), UNCHANGED <<github, clock, source, edits>>
    PROVE  ReleaseInv'
<1> DEFINE new == [item[w][r] EXCEPT !.status = status]
<1>1. item[w][r] \in Imported!Item
  BY DEF ReleaseInv, Imported!RowsTyped
<1>2. new \in Imported!Item /\ new.at = item[w][r].at /\ new.status = status
  BY <1>1 DEF Imported!Item
<1>3. item' = [item EXCEPT ![w][r] = new] /\ UNCHANGED <<work, versions>>
  BY DEF Imported!Refuse
<1> HIDE DEF new
<1> QED  BY <1>2, <1>3, ItemKeeps

LEMMA ProcessKeeps ==
    ASSUME Imported!Settings, ReleaseInv, NEW w \in Extensions, NEW r \in Tags,
           Imported!ProcessNext(w, r)
    PROVE  ReleaseInv'
<1>1. item[w][r] # None /\ item[w][r].status = "queued"
  BY DEF Imported!ProcessNext, Imported!Oldest, Imported!Ready, Imported!Imports
<1>2. CASE Imported!UnpublishedChanges(w)
  BY <1>1, <1>2, RefuseKeeps DEF Imported!ProcessNext
<1>3. CASE ~ Imported!UnpublishedChanges(w) /\ Imported!ImportRelease(w, r)
  BY <1>1, <1>3, ImportKeeps DEF Imported!ProcessNext
<1>4. CASE Imported!Refuse(w, r, "failed")
  BY <1>1, <1>4, RefuseKeeps DEF Imported!ProcessNext
<1> QED  BY <1>2, <1>3, <1>4 DEF Imported!ProcessNext

-----------------------------------------------------------------------------
LEMMA ReleaseStep ==
    Imported!Settings /\ ReleaseInv /\ [Imported!Next]_Imported!vars => ReleaseInv'
<1> SUFFICES ASSUME Imported!Settings, ReleaseInv, [Imported!Next]_Imported!vars
             PROVE  ReleaseInv'
  OBVIOUS
<1>1. ASSUME NEW r \in Tags, Imported!PublishRelease(r) \/ Imported!ChangeRelease(r)
      PROVE  ReleaseInv'
  BY <1>1, GitHubKeeps
<1>2. ASSUME NEW w \in Extensions, NEW named \in BOOLEAN, NEW prereleases \in BOOLEAN,
             Imported!Configure(w, named, prereleases)
      PROVE  ReleaseInv'
  <2> DEFINE new == [verified |-> None, check |-> "due", named |-> named,
                     prereleases |-> prereleases]
  <2>1. new \in Imported!Source /\ new.verified = None
    BY DEF Imported!Source
  <2>2. /\ source' = [source EXCEPT ![w] = new] /\ work[w].lifecycle # "none"
        /\ item' = [item EXCEPT ![w] = Imported!NoImports]
        /\ UNCHANGED <<github, clock, work, versions, edits>>
    BY <1>2 DEF Imported!Configure
  <2> HIDE DEF new
  <2> QED  BY <2>1, <2>2, ConfigureKeeps
<1>3. ASSUME NEW w \in Extensions, NEW named \in BOOLEAN, NEW prereleases \in BOOLEAN,
             Imported!Start(w, named, prereleases)
      PROVE  ReleaseInv'
  BY <1>3, StartKeeps
<1>4. ASSUME NEW w \in Extensions, Imported!Verify(w) PROVE ReleaseInv'
  BY <1>4, VerifyKeeps
<1>5. ASSUME NEW w \in Extensions, Imported!Disconnect(w) PROVE ReleaseInv'
  BY <1>5, ConfigureKeeps DEF Imported!Disconnect
<1>6. ASSUME NEW w \in Extensions,
             Imported!CheckSoon(w) \/ Imported!AMinute(w) \/ Imported!AnHour(w)
      PROVE  ReleaseInv'
  BY <1>6, TimeKeeps
<1>7. ASSUME NEW w \in Extensions,
             Imported!EditWork(w) \/ Imported!DiscardEdits(w) \/ Imported!TakeDownOrDelete(w)
      PROVE  ReleaseInv'
  BY <1>7, RowKeeps
<1>8. ASSUME NEW w \in Extensions, Imported!PublishWork(w) PROVE ReleaseInv'
  BY <1>8, PublishKeeps
<1>9. ASSUME NEW w \in Extensions, Imported!CheckNext(w) PROVE ReleaseInv'
  BY <1>9, CheckKeeps
<1>10. ASSUME NEW w \in Extensions, NEW r \in Tags, Imported!Retry(w, r) PROVE ReleaseInv'
  BY <1>10, RetryKeeps
<1>11. ASSUME NEW w \in Extensions, NEW r \in Tags, Imported!ProcessNext(w, r)
       PROVE  ReleaseInv'
  BY <1>11, ProcessKeeps
<1>12. CASE UNCHANGED Imported!vars
  <2>1. UNCHANGED <<github, clock, source, item, work, versions, edits>>
    BY <1>12 DEF Imported!vars
  <2>2. Imported!RowsTyped' /\ DatesApart'
    BY <2>1 DEF ReleaseInv, Imported!RowsTyped, DatesApart
  <2>3. clock' \in Nat /\ clock <= clock'
    BY <2>1 DEF ReleaseInv, Imported!RowsTyped
  <2>4. ASSUME NEW w \in Extensions PROVE WorkInOrder(w)'
    BY <2>1, <2>3, WorkStays
  <2> QED  BY <2>2, <2>4 DEF ReleaseInv
<1> QED  BY <1>1, <1>2, <1>3, <1>4, <1>5, <1>6, <1>7, <1>8, <1>9, <1>10, <1>11, <1>12
         DEF Imported!Next

LEMMA ReleaseAlways == ASSUME Imported!Settings PROVE Imported!Spec => []ReleaseInv
<1>1. Imported!Init => ReleaseInv
  BY ReleaseInit
<1>2. ReleaseInv /\ [Imported!Next]_Imported!vars => ReleaseInv'
  BY ReleaseStep
<1> QED  BY <1>1, <1>2, PTL DEF Imported!Spec

\* A release becomes at most one version of a work, though the repository is disconnected,
\* verified anew and checked again, and what failed is retried.
THEOREM OneVersionARelease ==
    ASSUME Imported!Settings PROVE Imported!Spec => []Imported!EachReleaseOnce
<1>1. ReleaseInv => Imported!EachReleaseOnce
  BY DEF ReleaseInv, WorkInOrder, Imported!EachReleaseOnce
<1> QED  BY <1>1, ReleaseAlways, PTL

-----------------------------------------------------------------------------
(* The order in which releases become versions.                              *)

\* No version of w came from a release later than r.
UpTo(w, r) ==
    \A i \in DOMAIN versions[w] :
        versions[w][i] # None => github[versions[w][i]].at <= github[r].at

InOrder(w) ==
    \A i, j \in DOMAIN versions[w] :
        /\ i < j /\ versions[w][i] # None /\ versions[w][j] # None
        /\ github[versions[w][i]].at > github[versions[w][j]].at
        => versions[w][j] \in late[w]

\* What waits has not been passed, or its turn is over.
Unpassed(w, r) ==
    item[w][r] # None =>
        /\ item[w][r].status = "failed" => r \in late[w]
        /\ item[w][r].status \in {"queued", "held"} => r \in late[w] \/ UpTo(w, r)

\* What the next check may find is later than all that is recorded.
NextIsLater(w) ==
    \A x, y \in Tags :
        /\ Imported!Connected(w) /\ github[x] # None /\ item[w][x] = None
        /\ github[x].at > source[w].verified /\ x \notin late[w] /\ item[w][y] # None
        => github[y].at < github[x].at

\* A draft came from a release that is older than the connection.
DraftIsOlder(w) ==
    Imported!Connected(w) /\ work[w].lifecycle = "draft" /\ work[w].content # None
        => github[work[w].content].at <= source[w].verified

Turn(w) ==
    /\ InOrder(w) /\ NextIsLater(w) /\ DraftIsOlder(w)
    /\ \A r \in Tags : Unpassed(w, r)

OrderInv == late \in [Extensions -> SUBSET Tags] /\ \A w \in Extensions : Turn(w)

\* What versions, texts and records are made of is on GitHub, at a date.
LEMMA MadeOf ==
    ASSUME Imported!Settings, ReleaseInv, NEW w \in Extensions
    PROVE  /\ \A r \in Tags : r # None /\ (github[r] # None => github[r].at \in Nat)
           /\ versions[w] \in Seq(Tags \cup {None}) /\ clock \in Nat
           /\ \A r \in Tags : github[r] # None => github[r].at <= clock
           /\ \A i \in DOMAIN versions[w] :
                 versions[w][i] # None => versions[w][i] \in Tags /\ github[versions[w][i]] # None
           /\ work[w].content # None => work[w].content \in Tags /\ github[work[w].content] # None
           /\ \A r \in Tags : item[w][r] # None => github[r] # None /\ item[w][r].at = github[r].at
           /\ Imported!Connected(w) => source[w].verified \in Nat
<1> USE DEF ReleaseInv, Imported!RowsTyped, Imported!Settings
<1>1. \A r \in Tags : r # None /\ (github[r] # None => github[r].at \in Nat)
  BY DEF Imported!Release
<1>2. versions[w] \in Seq(Tags \cup {None}) /\ clock \in Nat
  OBVIOUS
<1>3. \A r \in Tags : github[r] # None => github[r].at <= clock
  BY DEF DatesApart
<1>4. ASSUME NEW i \in DOMAIN versions[w], versions[w][i] # None
      PROVE  versions[w][i] \in Tags /\ github[versions[w][i]] # None
  <2>1. versions[w][i] \in Tags
    BY <1>2, <1>4
  <2> QED  BY <2>1 DEF WorkInOrder, ReleaseInOrder, CameFrom
<1>5. work[w].content # None => work[w].content \in Tags /\ github[work[w].content] # None
  BY DEF Imported!Work, WorkInOrder, ReleaseInOrder, CameFrom
<1>6. \A r \in Tags : item[w][r] # None => github[r] # None /\ item[w][r].at = github[r].at
  BY DEF WorkInOrder, ReleaseInOrder
<1>7. Imported!Connected(w) => source[w].verified \in Nat
  BY DEF Imported!Connected, Imported!Source
<1> QED  BY <1>1, <1>2, <1>3, <1>4, <1>5, <1>6, <1>7

\* A step that leaves a work's versions, text and releases; what is new on GitHub is the latest.
LEMMA TurnStays ==
    ASSUME Imported!Settings, ReleaseInv, NEW w \in Extensions, Turn(w),
           \A r \in Tags : github[r] # None => github'[r] # None /\ github'[r].at = github[r].at,
           \A r \in Tags :
              github[r] = None /\ github'[r] # None => github'[r].at \in Nat /\ github'[r].at > clock,
           Imported!Connected(w)' => Imported!Connected(w),
           Imported!Connected(w)' => source'[w].verified = source[w].verified,
           item'[w] = item[w], versions'[w] = versions[w],
           work'[w].lifecycle = work[w].lifecycle, work'[w].content = work[w].content,
           late'[w] = late[w]
    PROVE  Turn(w)'
<1>1. InOrder(w)'
  BY MadeOf DEF Turn, InOrder
<1>2. \A r \in Tags : github[r] # None /\ UpTo(w, r) => UpTo(w, r)'
  BY MadeOf DEF UpTo
<1>3. \A r \in Tags : Unpassed(w, r)'
  BY <1>2, MadeOf DEF Turn, Unpassed
<1>4. NextIsLater(w)'
  <2> SUFFICES ASSUME NEW x \in Tags, NEW y \in Tags, Imported!Connected(w)', github'[x] # None,
                      item'[w][x] = None, github'[x].at > source'[w].verified,
                      x \notin late'[w], item'[w][y] # None
               PROVE  github'[y].at < github'[x].at
    BY DEF NextIsLater
  <2>1. github[y] # None /\ github'[y].at = github[y].at /\ github[y].at \in Nat
        /\ github[y].at <= clock /\ clock \in Nat
    BY MadeOf
  <2>2. CASE github[x] # None
    BY <2>1, <2>2, MadeOf DEF Turn, NextIsLater
  <2>3. CASE github[x] = None
    <3>1. github'[x].at \in Nat /\ github'[x].at > clock
      BY <2>3
    <3> QED  BY <2>1, <3>1
  <2> QED  BY <2>2, <2>3
<1>5. DraftIsOlder(w)'
  BY MadeOf DEF Turn, DraftIsOlder
<1> QED  BY <1>1, <1>3, <1>4, <1>5 DEF Turn

\* A step that changes one work.
LEMMA OneTurnChanges ==
    ASSUME Imported!Settings, ReleaseInv, OrderInv, NEW w \in Extensions, UNCHANGED github,
           late' \in [Extensions -> SUBSET Tags],
           \A x \in Extensions \ {w} :
              /\ source'[x] = source[x] /\ item'[x] = item[x] /\ work'[x] = work[x]
              /\ versions'[x] = versions[x] /\ late'[x] = late[x],
           Turn(w)'
    PROVE  OrderInv'
<1>1. ASSUME NEW x \in Extensions, x # w PROVE Turn(x)'
  BY <1>1, TurnStays DEF OrderInv, Imported!Connected
<1> QED  BY <1>1 DEF OrderInv

LEMMA OrderInit == ASSUME Imported!Settings PROVE Imported!Init => OrderInv
<1> SUFFICES ASSUME Imported!Init PROVE OrderInv
  OBVIOUS
<1>1. ASSUME NEW w \in Extensions
      PROVE  /\ source[w] = None /\ work[w].content = None
             /\ versions[w] = <<>> \/ versions[w] = <<None>>
             /\ \A r \in Tags : item[w][r] = None
  BY DEF Imported!Init, Imported!NoImports
<1>2. ASSUME NEW w \in Extensions PROVE Turn(w)
  <2>1. \A i \in DOMAIN versions[w] : versions[w][i] = None
    BY <1>1
  <2> QED  BY <1>1, <2>1
           DEF Turn, InOrder, Unpassed, NextIsLater, DraftIsOlder, Imported!Connected
<1> QED  BY <1>2 DEF OrderInv, Imported!Init

LEMMA GitHubInTurn ==
    ASSUME Imported!Settings, ReleaseInv, OrderInv, NEW r \in Tags,
           Imported!PublishRelease(r) \/ Imported!ChangeRelease(r)
    PROVE  OrderInv'
<1>1. UNCHANGED <<source, item, work, versions, late>>
  BY DEF Imported!PublishRelease, Imported!ChangeRelease, Imported!SetRelease
<1>2. /\ \A s \in Tags \ {r} : github'[s] = github[s]
      /\ github[r] = None => github'[r].at \in Nat /\ github'[r].at > clock
      /\ github[r] # None => github'[r] # None /\ github'[r].at = github[r].at
  <2>1. CASE Imported!PublishRelease(r)
    <3>1. PICK pre \in BOOLEAN, attached \in BOOLEAN :
             github' = [github EXCEPT ![r] = [at |-> clock', pre |-> pre, attached |-> attached]]
      BY <2>1 DEF Imported!PublishRelease, Imported!SetRelease
    <3>2. clock \in Nat /\ clock' = clock + 1 /\ github[r] = None
      BY <2>1 DEF Imported!PublishRelease, ReleaseInv, Imported!RowsTyped
    <3> QED  BY <3>1, <3>2 DEF ReleaseInv, Imported!RowsTyped
  <2>2. CASE Imported!ChangeRelease(r)
    <3>1. PICK new : /\ github' = [github EXCEPT ![r] = new]
                     /\ \/ new = [github[r] EXCEPT !.pre = FALSE]
                        \/ new = [github[r] EXCEPT !.attached = TRUE]
      BY <2>2 DEF Imported!ChangeRelease, Imported!SetRelease
    <3>2. github[r] # None /\ github[r] \in Imported!Release
      BY <2>2 DEF Imported!ChangeRelease, ReleaseInv, Imported!RowsTyped
    <3>3. new \in Imported!Release /\ new.at = github[r].at
      BY <3>1, <3>2 DEF Imported!Release
    <3>4. new # None
      BY <3>3 DEF Imported!Settings
    <3> QED  BY <3>1, <3>2, <3>3, <3>4 DEF ReleaseInv, Imported!RowsTyped
  <2> QED  BY <2>1, <2>2
<1>3. ASSUME NEW w \in Extensions PROVE Turn(w)'
  BY <1>1, <1>2, TurnStays DEF OrderInv, Imported!Connected
<1> QED  BY <1>1, <1>3 DEF OrderInv

\* A work that has no releases on record, and is not made of other versions or another text.
LEMMA NothingWaits ==
    ASSUME Imported!Settings, ReleaseInv, OrderInv, NEW w \in Extensions,
           UNCHANGED <<github, work, versions, late>>,
           \A r \in Tags : item'[w][r] = None, DraftIsOlder(w)',
           \A x \in Extensions \ {w} : source'[x] = source[x] /\ item'[x] = item[x]
    PROVE  OrderInv'
<1>1. InOrder(w)'
  BY DEF OrderInv, Turn, InOrder
<1>2. NextIsLater(w)' /\ \A r \in Tags : Unpassed(w, r)'
  BY DEF NextIsLater, Unpassed
<1>3. late' \in [Extensions -> SUBSET Tags]
  BY DEF OrderInv
<1> QED  BY <1>1, <1>2, <1>3, OneTurnChanges DEF Turn

LEMMA ConfigureInTurn ==
    ASSUME Imported!Settings, ReleaseInv, OrderInv, NEW w \in Extensions,
           NEW new \in Imported!Source \cup {None}, new # None => new.verified = None,
           source' = [source EXCEPT ![w] = new],
           item' = [item EXCEPT ![w] = Imported!NoImports],
           UNCHANGED <<github, work, versions, late>>
    PROVE  OrderInv'
<1>1. source'[w] = new /\ \A x \in Extensions \ {w} : source'[x] = source[x]
  BY SourceChanges
<1>2. Imported!NoImports \in [Tags -> Imported!Item \cup {None}]
  BY DEF Imported!NoImports
<1>3. item'[w] = Imported!NoImports /\ \A x \in Extensions \ {w} : item'[x] = item[x]
  BY <1>2, ItemsChange
<1>4. \A r \in Tags : item'[w][r] = None
  BY <1>3 DEF Imported!NoImports
<1>5. DraftIsOlder(w)'
  BY <1>1 DEF DraftIsOlder, Imported!Connected
<1> QED  BY <1>1, <1>3, <1>4, <1>5, NothingWaits

LEMMA VerifyInTurn ==
    ASSUME Imported!Settings, ReleaseInv, OrderInv, NEW w \in Extensions, Imported!Verify(w)
    PROVE  OrderInv'
<1> DEFINE new == [source[w] EXCEPT !.verified = clock, !.check = "due"]
<1>1. /\ source[w] # None /\ ~ Imported!Connected(w) /\ source' = [source EXCEPT ![w] = new]
      /\ UNCHANGED <<github, clock, item, work, versions, late>>
  BY DEF Imported!Verify
<1>2. source[w] \in Imported!Source /\ clock \in Nat
  BY <1>1 DEF ReleaseInv, Imported!RowsTyped
<1>3. new \in Imported!Source /\ new.verified = clock
  BY <1>2 DEF Imported!Source
<1> HIDE DEF new
<1>4. source'[w] = new /\ \A x \in Extensions \ {w} : source'[x] = source[x]
  BY <1>1, <1>3, SourceChanges
<1>5. \A r \in Tags : item'[w][r] = None
  BY <1>1 DEF ReleaseInv, WorkInOrder, ReleaseInOrder
<1>6. DraftIsOlder(w)'
  BY <1>1, <1>3, <1>4, MadeOf DEF DraftIsOlder
<1> QED  BY <1>1, <1>4, <1>5, <1>6, NothingWaits

\* The first release of a draft is the work's first text.
LEMMA StartInTurn ==
    ASSUME Imported!Settings, ReleaseInv, OrderInv, NEW w \in Extensions, NEW named \in BOOLEAN,
           NEW prereleases \in BOOLEAN, Imported!Start(w, named, prereleases)
    PROVE  OrderInv'
<1>1. PICK r \in Tags :
          /\ Imported!Eligible(r, prereleases)
          /\ work' = [work EXCEPT ![w] = [work[w] EXCEPT !.lifecycle = "draft", !.content = r]]
          /\ source' = [source EXCEPT ![w] = [verified |-> github[r].at, check |-> "due",
                                              named |-> named, prereleases |-> prereleases]]
          /\ item' = [item EXCEPT ![w][r] = Imported!Import("published", r, github[r].attached)]
  BY DEF Imported!Start
<1>2. work[w].lifecycle = "none" /\ UNCHANGED <<github, clock, versions, late>>
  BY DEF Imported!Start
<1>3. github[r] # None /\ github[r].at \in Nat
  BY <1>1, MadeOf DEF Imported!Eligible
<1>4. versions[w] = <<>> /\ source[w] = None
  BY <1>2 DEF ReleaseInv, WorkInOrder
<1>5. \A s \in Tags : item[w][s] = None
  BY <1>4 DEF ReleaseInv, WorkInOrder, ReleaseInOrder, Imported!Connected
<1>6. /\ work'[w].content = r /\ source'[w].verified = github[r].at
      /\ item'[w][r].status = "published" /\ \A s \in Tags \ {r} : item'[w][s] = None
  <2>1. work'[w].content = r
    BY <1>1 DEF ReleaseInv, Imported!RowsTyped, Imported!Work
  <2>2. source'[w].verified = github[r].at
    BY <1>1 DEF ReleaseInv, Imported!RowsTyped
  <2>3. item'[w][r].status = "published" /\ \A s \in Tags \ {r} : item'[w][s] = None
    BY <1>1, <1>5 DEF ReleaseInv, Imported!RowsTyped, Imported!Import
  <2> QED  BY <2>1, <2>2, <2>3
<1>7. \A x \in Extensions \ {w} :
         source'[x] = source[x] /\ item'[x] = item[x] /\ work'[x] = work[x]
  BY <1>1 DEF ReleaseInv, Imported!RowsTyped
<1>8. InOrder(w)' /\ \A s \in Tags : Unpassed(w, s)'
  <2>1. InOrder(w)'
    BY <1>2, <1>4 DEF InOrder
  <2>2. \A s \in Tags : Unpassed(w, s)'
    BY <1>6 DEF Unpassed
  <2> QED  BY <2>1, <2>2
<1>9. NextIsLater(w)' /\ DraftIsOlder(w)'
  BY <1>2, <1>3, <1>6, MadeOf DEF NextIsLater, DraftIsOlder
<1>10. late' \in [Extensions -> SUBSET Tags]
  BY <1>2 DEF OrderInv
<1> QED  BY <1>2, <1>7, <1>8, <1>9, <1>10, OneTurnChanges DEF Turn

\* The hours pass, the owner asks for a check, edits and discards; a work comes and goes.
LEMMA QuietInTurn ==
    ASSUME Imported!Settings, ReleaseInv, OrderInv, NEW w \in Extensions,
           \/ Imported!CheckSoon(w) \/ Imported!AMinute(w) \/ Imported!AnHour(w)
           \/ Imported!EditWork(w) \/ Imported!DiscardEdits(w) \/ Imported!TakeDownOrDelete(w)
    PROVE  OrderInv'
<1>1. UNCHANGED <<github, item, versions, late>>
  BY DEF Imported!CheckSoon, Imported!AMinute, Imported!AnHour, Imported!EditWork,
         Imported!DiscardEdits, Imported!TakeDownOrDelete, Imported!SetWork
<1>2. ASSUME NEW x \in Extensions
      PROVE  /\ Imported!Connected(x)' => Imported!Connected(x)
             /\ Imported!Connected(x)' => source'[x].verified = source[x].verified
  <2>1. CASE UNCHANGED source
    BY <2>1 DEF Imported!Connected
  <2>2. CASE Imported!CheckSoon(w) \/ Imported!AMinute(w) \/ Imported!AnHour(w)
    <3>1. PICK c \in {"due", "waits"} : source' = [source EXCEPT ![w].check = c]
      BY <2>2 DEF Imported!CheckSoon, Imported!AMinute, Imported!AnHour
    <3>2. Imported!Connected(w) /\ source[w] \in Imported!Source
      BY <2>2 DEF Imported!CheckSoon, Imported!AMinute, Imported!AnHour, Imported!Connected,
                  ReleaseInv, Imported!RowsTyped
    <3>3. source'[x] = source[x] \/ (x = w /\ source'[x].verified = source[x].verified)
      BY <3>1, <3>2 DEF ReleaseInv, Imported!RowsTyped, Imported!Source
    <3> QED  BY <3>2, <3>3 DEF Imported!Connected
  <2> QED  BY <2>1, <2>2 DEF Imported!EditWork, Imported!DiscardEdits,
                             Imported!TakeDownOrDelete, Imported!SetWork
<1>3. ASSUME NEW x \in Extensions
      PROVE  work'[x].lifecycle = work[x].lifecycle /\ work'[x].content = work[x].content
  <2>1. CASE UNCHANGED work
    BY <2>1
  <2>2. CASE Imported!EditWork(w) \/ Imported!DiscardEdits(w) \/ Imported!TakeDownOrDelete(w)
    <3>1. PICK new : /\ work' = [work EXCEPT ![w] = new]
                     /\ \/ new = [work[w] EXCEPT !.edited = TRUE]
                        \/ new = [work[w] EXCEPT !.edited = FALSE]
                        \/ new = [work[w] EXCEPT !.up = ~ work[w].up]
      BY <2>2 DEF Imported!EditWork, Imported!DiscardEdits, Imported!TakeDownOrDelete,
                  Imported!SetWork
    <3>2. work[w] \in Imported!Work
      BY DEF ReleaseInv, Imported!RowsTyped
    <3>3. new.lifecycle = work[w].lifecycle /\ new.content = work[w].content
      BY <3>1, <3>2 DEF Imported!Work
    <3> QED  BY <3>1, <3>3 DEF ReleaseInv, Imported!RowsTyped
  <2> QED  BY <2>1, <2>2 DEF Imported!CheckSoon, Imported!AMinute, Imported!AnHour
<1>4. ASSUME NEW x \in Extensions PROVE Turn(x)'
  BY <1>1, <1>2, <1>3, TurnStays DEF OrderInv
<1> QED  BY <1>1, <1>4 DEF OrderInv

\* A draft becomes the first version, or the owner's own edits one more.
LEMMA PublishInTurn ==
    ASSUME Imported!Settings, ReleaseInv, OrderInv, NEW w \in Extensions, Imported!PublishWork(w)
    PROVE  OrderInv'
<1> DEFINE from == IF work[w].lifecycle = "draft" THEN work[w].content ELSE None
<1>1. /\ versions' = [versions EXCEPT ![w] = Append(versions[w], from)]
      /\ UNCHANGED <<github, source, item, late>>
      /\ \A x \in Extensions \ {w} : work'[x] = work[x]
      /\ work'[w].lifecycle = "published"
  BY DEF Imported!PublishWork, Imported!SetWork, ReleaseInv, Imported!RowsTyped, Imported!Work
<1>2. from \in Tags \cup {None}
  BY DEF ReleaseInv, Imported!RowsTyped, Imported!Work
<1>3. from # None => versions[w] = <<>> /\ work[w].lifecycle = "draft" /\ from = work[w].content
  BY DEF ReleaseInv, WorkInOrder
<1> HIDE DEF from
<1>4. Grown(w, from)
  BY <1>1, <1>2, VersionsGrow, Zenon
<1>5. ASSUME NEW i \in DOMAIN versions'[w], versions'[w][i] # None
      PROVE  \/ i \in DOMAIN versions[w] /\ versions'[w][i] = versions[w][i] /\ from = None
             \/ i = 1 /\ versions'[w][i] = from /\ from # None
  BY <1>3, <1>4, <1>5 DEF Grown
<1>6. InOrder(w)'
  <2> SUFFICES ASSUME NEW i \in DOMAIN versions'[w], NEW j \in DOMAIN versions'[w], i < j,
                      versions'[w][i] # None, versions'[w][j] # None,
                      github[versions'[w][i]].at > github[versions'[w][j]].at
               PROVE  versions'[w][j] \in late[w]
    BY <1>1 DEF InOrder
  <2> QED  BY <1>5 DEF OrderInv, Turn, InOrder
<1>7. ASSUME NEW r \in Tags PROVE Unpassed(w, r)'
  <2>1. CASE from = None
    <3>1. UpTo(w, r) => UpTo(w, r)'
      BY <1>1, <1>5, <2>1 DEF UpTo
    <3> QED  BY <1>1, <3>1 DEF OrderInv, Turn, Unpassed
  <2>2. ASSUME from # None, item[w][r] # None, item[w][r].status \in {"queued", "held"}
        PROVE  UpTo(w, r)'
    <3>1. Imported!Connected(w) /\ github[r] # None /\ source[w].verified < github[r].at
      BY <2>2 DEF ReleaseInv, WorkInOrder, ReleaseInOrder
    <3>2. /\ from \in Tags /\ github[from] # None /\ github[from].at \in Nat
          /\ source[w].verified \in Nat /\ github[r].at \in Nat
      BY <1>3, <2>2, <3>1, MadeOf
    <3>3. github[from].at <= source[w].verified
      BY <1>3, <2>2, <3>1 DEF OrderInv, Turn, DraftIsOlder
    <3>4. github[from].at <= github[r].at
      BY <3>1, <3>2, <3>3
    <3> QED  BY <1>1, <1>5, <2>2, <3>4 DEF UpTo
  <2>3. CASE from # None
    BY <1>1, <2>2, <2>3 DEF OrderInv, Turn, Unpassed
  <2> QED  BY <2>1, <2>3
<1>8. NextIsLater(w)' /\ DraftIsOlder(w)'
  BY <1>1 DEF OrderInv, Turn, NextIsLater, DraftIsOlder, Imported!Connected
<1>9. late' \in [Extensions -> SUBSET Tags]
  BY <1>1 DEF OrderInv
<1> QED  BY <1>1, <1>4, <1>6, <1>7, <1>8, <1>9, OneTurnChanges DEF Turn, Grown

\* One release's record changes, and is not forgotten.
LEMMA RecordInTurn ==
    ASSUME Imported!Settings, ReleaseInv, OrderInv, NEW w \in Extensions, NEW r \in Tags,
           NEW new \in Imported!Item, item[w][r] # None, item' = [item EXCEPT ![w][r] = new],
           UNCHANGED <<github, source, work, versions>>,
           late' \in [Extensions -> SUBSET Tags], late[w] \subseteq late'[w],
           \A x \in Extensions \ {w} : late'[x] = late[x],
           new.status = "failed" => r \in late'[w],
           new.status \in {"queued", "held"} =>
              item[w][r].status \in {"failed", "queued", "held"}
    PROVE  OrderInv'
<1>1. /\ item'[w][r] = new /\ \A s \in Tags \ {r} : item'[w][s] = item[w][s]
      /\ \A x \in Extensions \ {w} : item'[x] = item[x]
  BY ItemChanges
<1>2. InOrder(w)' /\ DraftIsOlder(w)'
  BY DEF OrderInv, Turn, InOrder, DraftIsOlder, Imported!Connected
<1>3. new # None
  BY DEF Imported!Settings
<1>4. NextIsLater(w)'
  BY <1>1, <1>3 DEF OrderInv, Turn, NextIsLater, Imported!Connected
<1>5. ASSUME NEW s \in Tags PROVE Unpassed(w, s)'
  <2>1. UpTo(w, s)' = UpTo(w, s)
    BY DEF UpTo
  <2>2. Unpassed(w, s) /\ Unpassed(w, r)
    BY DEF OrderInv, Turn
  <2>3. CASE s = r
    BY <1>1, <2>1, <2>2, <2>3 DEF Unpassed
  <2>4. CASE s # r
    BY <1>1, <2>1, <2>2, <2>4 DEF Unpassed
  <2> QED  BY <2>3, <2>4
<1> QED  BY <1>1, <1>2, <1>4, <1>5, OneTurnChanges DEF Turn

LEMMA RetryInTurn ==
    ASSUME Imported!Settings, ReleaseInv, OrderInv, NEW w \in Extensions, NEW r \in Tags,
           Imported!Retry(w, r)
    PROVE  OrderInv'
<1>1. /\ item[w][r] # None /\ item[w][r].status \in {"failed", "held"}
      /\ UNCHANGED <<github, source, work, versions, late>>
  BY DEF Imported!Retry
<1> DEFINE looked == item[w][r].attached \/ (source[w].named /\ github[r].attached)
           new == [item[w][r] EXCEPT !.status = "queued", !.attached = looked]
<1>2. item' = [item EXCEPT ![w][r] = new]
  BY DEF Imported!Retry
<1>3. looked \in BOOLEAN
  OBVIOUS
<1>4. item[w][r] \in Imported!Item
  BY <1>1 DEF ReleaseInv, Imported!RowsTyped
<1> HIDE DEF looked
<1>5. new \in Imported!Item /\ new.status = "queued"
  BY <1>3, <1>4 DEF Imported!Item
<1> HIDE DEF new
<1>6. late' \in [Extensions -> SUBSET Tags]
  BY <1>1 DEF OrderInv
<1> QED  BY <1>1, <1>2, <1>5, <1>6, RecordInTurn

LEMMA RefuseInTurn ==
    ASSUME Imported!Settings, ReleaseInv, OrderInv, NEW w \in Extensions, NEW r \in Tags,
           item[w][r] # None, item[w][r].status = "queued", NEW status \in {"held", "failed"},
           Imported!Refuse(w, r, status), UNCHANGED <<github, source>>
    PROVE  OrderInv'
<1> DEFINE new == [item[w][r] EXCEPT !.status = status]
<1>1. item[w][r] \in Imported!Item
  BY DEF ReleaseInv, Imported!RowsTyped
<1>2. new \in Imported!Item /\ new.status = status
  BY <1>1 DEF Imported!Item
<1>3. item' = [item EXCEPT ![w][r] = new] /\ UNCHANGED <<work, versions>>
  BY DEF Imported!Refuse
<1>4. /\ late' \in [Extensions -> SUBSET Tags] /\ late[w] \subseteq late'[w]
      /\ \A x \in Extensions \ {w} : late'[x] = late[x]
      /\ status = "failed" => r \in late'[w]
  BY DEF Imported!Refuse, OrderInv
<1> HIDE DEF new
<1> QED  BY <1>2, <1>3, <1>4, RecordInTurn

LEMMA CheckInTurn ==
    ASSUME Imported!Settings, ReleaseInv, OrderInv, NEW w \in Extensions, Imported!CheckNext(w)
    PROVE  OrderInv'
<1>1. /\ Imported!Connected(w) /\ source' = [source EXCEPT ![w].check = "checked"]
      /\ UNCHANGED <<github, clock, work, versions>>
  BY DEF Imported!CheckNext
<1>2. /\ \A x \in Extensions \ {w} : source'[x] = source[x]
      /\ source'[w].verified = source[w].verified
  <2>1. source[w] \in Imported!Source
    BY <1>1 DEF Imported!Connected, ReleaseInv, Imported!RowsTyped
  <2> QED  BY <1>1, <2>1 DEF ReleaseInv, Imported!RowsTyped, Imported!Source
<1>3. DraftIsOlder(w)'
  BY <1>1, <1>2 DEF OrderInv, Turn, DraftIsOlder
<1>4. CASE UNCHANGED <<item, late>>
  <2>1. Turn(w)'
    BY <1>1, <1>2, <1>4, TurnStays DEF OrderInv
  <2>2. late' \in [Extensions -> SUBSET Tags]
    BY <1>4 DEF OrderInv
  <2> QED  BY <1>1, <1>2, <1>4, <2>1, <2>2, OneTurnChanges
<1>5. CASE /\ item' = [item EXCEPT ![w] = Imported!WithFound(w)]
           /\ late' = [late EXCEPT ![w] = late[w] \cup Imported!PassedOver(w)]
  <2>1. /\ item'[w] = Imported!WithFound(w) /\ \A x \in Extensions \ {w} : item'[x] = item[x]
        /\ late'[w] = late[w] \cup Imported!PassedOver(w)
        /\ \A x \in Extensions \ {w} : late'[x] = late[x]
        /\ late' \in [Extensions -> SUBSET Tags]
    BY <1>5 DEF OrderInv, Imported!PassedOver, ReleaseInv, Imported!RowsTyped
  <2>2. ASSUME NEW r \in Tags
        PROVE  \/ item'[w][r] = item[w][r]
               \/ /\ r \in Imported!Found(w) /\ item[w][r] = None /\ r \in late'[w]
               \/ /\ r \in Imported!Found(w) /\ item[w][r] = None /\ r \notin late[w]
                  /\ item'[w][r].status = "queued"
    <3>1. r \in Imported!Found(w) => github[r] # None /\ github[r].at > source[w].verified
      BY DEF Imported!Found, Imported!Eligible
    <3>2. Imported!Recorded(w, r).status \in {"failed", "queued"}
      BY DEF Imported!Recorded, Imported!Import
    <3> QED  BY <2>1, <3>1, <3>2 DEF Imported!WithFound, Imported!PassedOver
  <2>3. InOrder(w)'
    BY <1>1, <2>1 DEF OrderInv, Turn, InOrder
  <2>4. NextIsLater(w)'
    <3> SUFFICES ASSUME NEW x \in Tags, github[x] # None, item'[w][x] = None,
                        github[x].at > source[w].verified, x \notin late'[w]
                 PROVE  FALSE
      BY <1>1, <1>2 DEF NextIsLater
    <3>1. item[w][x] = None /\ x \notin Imported!Found(w)
      <4>1. github[x].at \in Nat /\ source[w].named \in BOOLEAN
        BY <1>1, MadeOf DEF Imported!Connected, ReleaseInv, Imported!RowsTyped, Imported!Source
      <4>2. Imported!Recorded(w, x) \in Imported!Item
        BY <4>1 DEF Imported!Recorded, Imported!Import, Imported!Item
      <4>3. Imported!Recorded(w, x) # None
        BY <4>2 DEF Imported!Settings
      <4> QED  BY <2>1, <4>3 DEF Imported!WithFound
    <3> QED  BY <2>1, <3>1 DEF Imported!PassedOver
  <2>5. \A r \in Tags : UpTo(w, r)' = UpTo(w, r)
    BY <1>1 DEF UpTo
  <2>6. ASSUME NEW r \in Imported!Found(w), item[w][r] = None, r \notin late[w]
        PROVE  UpTo(w, r)
    <3>1. r \in Tags /\ github[r] # None /\ github[r].at > source[w].verified
      BY <2>6 DEF Imported!Found, Imported!Eligible
    <3>2. github[r].at \in Nat /\ source[w].verified \in Nat
      BY <1>1, <3>1, MadeOf
    <3> SUFFICES ASSUME NEW i \in DOMAIN versions[w], versions[w][i] # None
                 PROVE  github[versions[w][i]].at <= github[r].at
      BY DEF UpTo
    <3> DEFINE v == versions[w][i]
    <3>3. v \in Tags /\ github[v] # None /\ github[v].at \in Nat
      BY MadeOf
    <3>4. github[v].at <= source[w].verified \/ item[w][v] # None
      BY <1>1, <3>3 DEF ReleaseInv, WorkInOrder, ReleaseInOrder, CameFrom
    <3>5. item[w][v] # None => github[v].at < github[r].at
      BY <1>1, <2>6, <3>1, <3>3 DEF OrderInv, Turn, NextIsLater
    <3> QED  BY <3>1, <3>2, <3>3, <3>4, <3>5
  <2>7. \A r \in Tags : Unpassed(w, r)'
    BY <2>1, <2>2, <2>5, <2>6 DEF OrderInv, Turn, Unpassed
  <2> QED  BY <1>1, <1>2, <1>3, <2>1, <2>3, <2>4, <2>7, OneTurnChanges DEF Turn
<1> QED  BY <1>4, <1>5 DEF Imported!CheckNext

\* What waits beside the release that is imported is not older.
LEMMA OldestIsFirst ==
    ASSUME ReleaseInv, NEW w \in Extensions, NEW r \in Tags, Imported!Oldest(<<w, r>>),
           NEW s \in Tags, item[w][s] # None, item[w][s].status \in {"queued", "held"}
    PROVE  item[w][r].at <= item[w][s].at
<1>1. \A p \in Imported!Imports({"queued", "held"}) : Imported!At(p) \in Nat
  BY DEF Imported!Imports, Imported!At, ReleaseInv, Imported!RowsTyped, Imported!Item
<1>2. /\ <<w, r>> \in Imported!Ready /\ <<w, r>> \in Imported!Imports({"queued", "held"})
      /\ work[w].up /\ \A q \in Imported!Ready : ~ Imported!Earlier(q, <<w, r>>)
  BY DEF Imported!Oldest, Imported!Ready, Imported!Imports
<1>3. \A h \in Imported!Imports({"held"}) : h[1] = w => ~ Imported!Earlier(h, <<w, r>>)
  BY <1>2 DEF Imported!Ready
<1>4. \A h \in Imported!Imports({"held"}) : h \in Imported!Imports({"queued", "held"})
  BY DEF Imported!Imports
<1>5. <<w, s>> \in Imported!Imports({"queued", "held"})
  BY DEF Imported!Imports
<1>6. ~ Imported!Earlier(<<w, s>>, <<w, r>>)
  <2>1. CASE <<w, s>> \in Imported!Imports({"held"})
    BY <1>3, <2>1
  <2>2. CASE <<w, s>> \in Imported!Imports({"queued"})
    <3> SUFFICES ASSUME Imported!Earlier(<<w, s>>, <<w, r>>) PROVE FALSE
      OBVIOUS
    <3>1. <<w, s>> \notin Imported!Ready
      BY <1>2
    <3>2. PICK h \in Imported!Imports({"held"}) : h[1] = w /\ Imported!Earlier(h, <<w, s>>)
      BY <1>2, <2>2, <3>1 DEF Imported!Ready
    <3>3. Imported!Earlier(h, <<w, r>>)
      BY <1>1, <1>2, <1>4, <1>5, <3>2 DEF Imported!Earlier
    <3> QED  BY <1>3, <3>2, <3>3
  <2> QED  BY <1>5, <2>1, <2>2 DEF Imported!Imports
<1> QED  BY <1>1, <1>2, <1>5, <1>6 DEF Imported!Earlier, Imported!At

LEMMA ImportInTurn ==
    ASSUME Imported!Settings, ReleaseInv, OrderInv, NEW w \in Extensions, NEW r \in Tags,
           Imported!Oldest(<<w, r>>), ~ Imported!UnpublishedChanges(w),
           Imported!ImportRelease(w, r), UNCHANGED <<github, clock, source, edits>>
    PROVE  OrderInv'
<1>1. item[w][r] # None /\ item[w][r].status = "queued" /\ item[w][r] \in Imported!Item
  BY DEF Imported!Oldest, Imported!Ready, Imported!Imports, ReleaseInv, Imported!RowsTyped
<1>2. github[r] # None /\ github[r].at \in Nat /\ item[w][r].at = github[r].at
  BY <1>1, MadeOf
<1> DEFINE row == [work[w] EXCEPT !.content = r]
           done == [item[w][r] EXCEPT !.status = "published"]
<1>3. /\ row \in Imported!Work /\ row.lifecycle = work[w].lifecycle
      /\ done \in Imported!Item /\ done.status = "published"
  BY <1>1 DEF Imported!Work, Imported!Item, ReleaseInv, Imported!RowsTyped
<1>4. done # None
  BY <1>3 DEF Imported!Settings
<1>5. /\ work' = [work EXCEPT ![w] = row] /\ item' = [item EXCEPT ![w][r] = done]
      /\ versions' = [versions EXCEPT ![w] = Append(versions[w], r)] /\ late' = late
  BY DEF Imported!ImportRelease
<1> HIDE DEF row, done
<1>6. work'[w] = row /\ \A x \in Extensions \ {w} : work'[x] = work[x]
  BY <1>3, <1>5, RowChanges
<1>7. /\ item'[w][r] = done /\ \A s \in Tags \ {r} : item'[w][s] = item[w][s]
      /\ \A x \in Extensions \ {w} : item'[x] = item[x]
  BY <1>3, <1>5, ItemChanges
<1>8. Grown(w, r)
  <2>1. r \in Tags \cup {None} /\ versions' = [versions EXCEPT ![w] = Append(versions[w], r)]
    BY <1>5
  <2> QED  BY <2>1, VersionsGrow, Zenon
<1>9. r \in late[w] \/ UpTo(w, r)
  BY <1>1 DEF OrderInv, Turn, Unpassed
<1>10. InOrder(w)'
  <2> SUFFICES ASSUME NEW i \in DOMAIN versions'[w], NEW j \in DOMAIN versions'[w], i < j,
                      versions'[w][i] # None, versions'[w][j] # None,
                      github[versions'[w][i]].at > github[versions'[w][j]].at
               PROVE  versions'[w][j] \in late[w]
    BY <1>5 DEF InOrder
  <2>1. i \in Nat /\ j \in Nat /\ Len(versions[w]) \in Nat /\ DOMAIN versions[w] = 1..Len(versions[w])
    <3>1. versions[w] \in Seq(Tags \cup {None}) /\ versions'[w] \in Seq(Tags \cup {None})
      BY <1>8, MadeOf DEF Grown
    <3> QED  BY <3>1
  <2>2. i \in DOMAIN versions[w] /\ versions'[w][i] = versions[w][i]
    BY <1>8, <2>1 DEF Grown
  <2>3. CASE j \in DOMAIN versions[w] /\ versions'[w][j] = versions[w][j]
    BY <2>2, <2>3 DEF OrderInv, Turn, InOrder
  <2>4. CASE versions'[w][j] = r
    <3>1. github[versions[w][i]].at \in Nat
      BY <2>2, MadeOf
    <3>2. ~ UpTo(w, r)
      BY <1>2, <2>2, <2>4, <3>1 DEF UpTo
    <3> QED  BY <1>9, <2>4, <3>2
  <2> QED  BY <1>8, <2>3, <2>4 DEF Grown
<1>11. ASSUME NEW s \in Tags, s # r, item[w][s] # None, item[w][s].status \in {"queued", "held"},
              UpTo(w, s)
       PROVE  UpTo(w, s)'
  <2>1. github[r].at <= github[s].at
    BY <1>1, <1>2, <1>11, OldestIsFirst, MadeOf
  <2> QED  BY <1>8, <1>11, <2>1 DEF UpTo, Grown
<1>12. \A s \in Tags : Unpassed(w, s)'
  BY <1>3, <1>5, <1>7, <1>11 DEF OrderInv, Turn, Unpassed
<1>13. NextIsLater(w)'
  BY <1>1, <1>4, <1>5, <1>7 DEF OrderInv, Turn, NextIsLater, Imported!Connected
<1>14. DraftIsOlder(w)'
  BY <1>3, <1>6 DEF DraftIsOlder, Imported!UnpublishedChanges
<1>15. late' \in [Extensions -> SUBSET Tags]
  BY <1>5 DEF OrderInv
<1>16. Turn(w)'
  BY <1>10, <1>12, <1>13, <1>14 DEF Turn
<1>17. \A x \in Extensions \ {w} :
          /\ source'[x] = source[x] /\ item'[x] = item[x] /\ work'[x] = work[x]
          /\ versions'[x] = versions[x] /\ late'[x] = late[x]
  BY <1>5, <1>6, <1>7, <1>8 DEF Grown
<1> QED  BY <1>15, <1>16, <1>17, OneTurnChanges

LEMMA OrderStep ==
    Imported!Settings /\ ReleaseInv /\ OrderInv /\ [Imported!Next]_Imported!vars => OrderInv'
<1> SUFFICES ASSUME Imported!Settings, ReleaseInv, OrderInv, [Imported!Next]_Imported!vars
             PROVE  OrderInv'
  OBVIOUS
<1>1. ASSUME NEW r \in Tags, Imported!PublishRelease(r) \/ Imported!ChangeRelease(r)
      PROVE  OrderInv'
  BY <1>1, GitHubInTurn
<1>2. ASSUME NEW w \in Extensions, NEW named \in BOOLEAN, NEW prereleases \in BOOLEAN,
             Imported!Configure(w, named, prereleases)
      PROVE  OrderInv'
  <2> DEFINE new == [verified |-> None, check |-> "due", named |-> named,
                     prereleases |-> prereleases]
  <2>1. new \in Imported!Source /\ new.verified = None
    BY DEF Imported!Source
  <2>2. /\ source' = [source EXCEPT ![w] = new]
        /\ item' = [item EXCEPT ![w] = Imported!NoImports]
        /\ UNCHANGED <<github, work, versions, late>>
    BY <1>2 DEF Imported!Configure
  <2> HIDE DEF new
  <2> QED  BY <2>1, <2>2, ConfigureInTurn
<1>3. ASSUME NEW w \in Extensions, NEW named \in BOOLEAN, NEW prereleases \in BOOLEAN,
             Imported!Start(w, named, prereleases)
      PROVE  OrderInv'
  BY <1>3, StartInTurn
<1>4. ASSUME NEW w \in Extensions, Imported!Verify(w) PROVE OrderInv'
  BY <1>4, VerifyInTurn
<1>5. ASSUME NEW w \in Extensions, Imported!Disconnect(w) PROVE OrderInv'
  BY <1>5, ConfigureInTurn DEF Imported!Disconnect
<1>6. ASSUME NEW w \in Extensions,
             \/ Imported!CheckSoon(w) \/ Imported!AMinute(w) \/ Imported!AnHour(w)
             \/ Imported!EditWork(w) \/ Imported!DiscardEdits(w) \/ Imported!TakeDownOrDelete(w)
      PROVE  OrderInv'
  BY <1>6, QuietInTurn
<1>7. ASSUME NEW w \in Extensions, Imported!PublishWork(w) PROVE OrderInv'
  BY <1>7, PublishInTurn
<1>8. ASSUME NEW w \in Extensions, Imported!CheckNext(w) PROVE OrderInv'
  BY <1>8, CheckInTurn
<1>9. ASSUME NEW w \in Extensions, NEW r \in Tags, Imported!Retry(w, r) PROVE OrderInv'
  BY <1>9, RetryInTurn
<1>10. ASSUME NEW w \in Extensions, NEW r \in Tags, Imported!ProcessNext(w, r) PROVE OrderInv'
  <2>1. /\ item[w][r] # None /\ item[w][r].status = "queued" /\ Imported!Oldest(<<w, r>>)
        /\ UNCHANGED <<github, clock, source, edits>>
    BY <1>10 DEF Imported!ProcessNext, Imported!Oldest, Imported!Ready, Imported!Imports
  <2>2. CASE Imported!Refuse(w, r, "held") \/ Imported!Refuse(w, r, "failed")
    BY <2>1, <2>2, RefuseInTurn
  <2>3. CASE ~ Imported!UnpublishedChanges(w) /\ Imported!ImportRelease(w, r)
    BY <2>1, <2>3, ImportInTurn
  <2> QED  BY <1>10, <2>2, <2>3 DEF Imported!ProcessNext
<1>11. CASE UNCHANGED Imported!vars
  <2>1. UNCHANGED <<github, clock, source, item, work, versions, late>>
    BY <1>11 DEF Imported!vars
  <2>2. ASSUME NEW w \in Extensions PROVE Turn(w)'
    BY <2>1, TurnStays DEF OrderInv, Imported!Connected
  <2> QED  BY <2>1, <2>2 DEF OrderInv
<1> QED  BY <1>1, <1>2, <1>3, <1>4, <1>5, <1>6, <1>7, <1>8, <1>9, <1>10, <1>11
         DEF Imported!Next

\* The versions of a work follow the dates of the releases they came from, whatever the owner
\* edits, retries and reconnects, but for a release that a check left out or that failed.
THEOREM ReleasesFollow ==
    ASSUME Imported!Settings PROVE Imported!Spec => []VersionsFollowReleases
<1>1. OrderInv => VersionsFollowReleases
  BY DEF OrderInv, Turn, InOrder, VersionsFollowReleases, Imported!VersionsFollowReleases
<1>2. Imported!Init => OrderInv
  BY OrderInit
<1>3. ReleaseInv /\ OrderInv /\ [Imported!Next]_Imported!vars => OrderInv'
  BY OrderStep
<1> QED  BY <1>1, <1>2, <1>3, ReleaseAlways, PTL DEF Imported!Spec
-----------------------------------------------------------------------------
(* Induction.                                                                *)

Below == {ss \in Nat \X Nat : ss[1] < ss[2]}

LEMMA LeastNumber ==
    ASSUME NEW T, T \subseteq Nat, T # {} PROVE \E x \in T : \A y \in T : x <= y
<1>1. IsWellFoundedOn(Below, Nat)
  BY NatLessThanWellFounded, Zenon DEF OpToRel, Below
<1>2. PICK x \in T : \A y \in T : ~ (<<y, x>> \in Below)
  BY <1>1, WFMin, Zenon
<1>3. ASSUME NEW y \in T PROVE x <= y
  <2>1. x \in Nat /\ y \in Nat /\ ~ (<<y, x>> \in Below)
    BY <1>2
  <2> QED  BY <2>1 DEF Below
<1> QED BY <1>3

LEMMA Induct ==
    ASSUME NEW S, 0 \in S, \A n \in Nat : n \in S => n + 1 \in S PROVE Nat \subseteq S
<1> DEFINE T == {n \in Nat : n \notin S}
<1>1. SUFFICES ASSUME T # {} PROVE FALSE
  OBVIOUS
<1>2. PICK x \in T : \A y \in T : x <= y
  <2> HIDE DEF T
  <2>1. T \subseteq Nat
    BY DEF T
  <2> QED BY <1>1, <2>1, LeastNumber
<1>3. x # 0 /\ x \in Nat /\ x \notin S
  OBVIOUS
<1>4. x - 1 \in Nat /\ ~ (x <= x - 1) /\ (x - 1) + 1 = x
  BY <1>3
<1>5. x - 1 \in S
  BY <1>2, <1>4
<1> QED BY <1>3, <1>4, <1>5

-----------------------------------------------------------------------------
(* The shelf of a work.                                                      *)

Sequence(ss) == \E S : ss \in Seq(S)

\* Blocks with numbers of their own, made so far.
IsPage(blocks, n) ==
    /\ Sequence(blocks) /\ n \in Nat
    /\ \A b \in DOMAIN blocks : blocks[b].id \in 1..n
    /\ \A b, c \in DOMAIN blocks : blocks[b].id = blocks[c].id => b = c

\* What a placed piece remembers is the block it changed.
Undoable(row) ==
    row.status = "placed" =>
        /\ row.at # 0 /\ row.after.id = row.at
        /\ row.before = Held!NoBlock \/ row.before.id = row.at

IsShelf(held) == held = [p \in Held!Pieces |-> held[p]] /\ \A p \in Held!Pieces : Undoable(held[p])

InGoodOrder(s) == IsPage(s.page, s.made) /\ IsShelf(s.shelf)

-----------------------------------------------------------------------------
(* Sequences. *)

LEMMA Concatenated ==
    ASSUME NEW S, NEW first \in Seq(S), NEW rest \in Seq(S)
    PROVE  /\ first \o rest \in Seq(S) /\ Len(first \o rest) = Len(first) + Len(rest)
           /\ \A i \in 1..(Len(first) + Len(rest)) :
                (first \o rest)[i] = IF i <= Len(first) THEN first[i] ELSE rest[i - Len(first)]
OBVIOUS

LEMMA Inserted ==
    ASSUME NEW S, NEW ss \in Seq(S), NEW x \in S, NEW k \in 1..(Len(ss) + 1)
    PROVE  /\ Held!InsertAt(ss, k, x) \in Seq(S) /\ Len(Held!InsertAt(ss, k, x)) = Len(ss) + 1
           /\ \A i \in 1..(Len(ss) + 1) :
                Held!InsertAt(ss, k, x)[i] = IF i < k THEN ss[i] ELSE IF i = k THEN x ELSE ss[i - 1]
<1> DEFINE head == SubSeq(ss, 1, k - 1)
           tail == SubSeq(ss, k, Len(ss))
<1>1. head \in Seq(S) /\ Len(head) = k - 1 /\ \A i \in 1..(k - 1) : head[i] = ss[i]
  OBVIOUS
<1>2. /\ tail \in Seq(S) /\ Len(tail) = Len(ss) + 1 - k
      /\ \A i \in 1..(Len(ss) + 1 - k) : tail[i] = ss[k + i - 1]
  OBVIOUS
<1>3. <<x>> \in Seq(S) /\ Len(<<x>>) = 1 /\ <<x>>[1] = x
  OBVIOUS
<1>4. Held!InsertAt(ss, k, x) = head \o <<x>> \o tail
  BY DEF Held!InsertAt
<1> HIDE DEF head, tail
<1> DEFINE most == head \o <<x>>
<1>5. /\ most \in Seq(S) /\ Len(most) = k
      /\ \A i \in 1..k : most[i] = IF i < k THEN ss[i] ELSE x
  BY <1>1, <1>3
<1> HIDE DEF most
<1> DEFINE new == most \o tail
<1>6. Held!InsertAt(ss, k, x) = new
  BY <1>4 DEF most
<1>7. Len(ss) \in Nat /\ k \in Nat /\ 1 <= k /\ k <= Len(ss) + 1
  OBVIOUS
<1>8. /\ new \in Seq(S) /\ Len(new) = Len(most) + Len(tail)
      /\ \A i \in 1..(Len(most) + Len(tail)) :
            new[i] = IF i <= Len(most) THEN most[i] ELSE tail[i - Len(most)]
  BY <1>2, <1>5, Concatenated
<1> HIDE DEF new
<1>9. Len(new) = Len(ss) + 1
  BY <1>2, <1>5, <1>7, <1>8
<1>10. ASSUME NEW i \in 1..(Len(ss) + 1)
       PROVE  new[i] = IF i < k THEN ss[i] ELSE IF i = k THEN x ELSE ss[i - 1]
  <2>1. i \in 1..(Len(most) + Len(tail))
    BY <1>2, <1>5, <1>7
  <2>2. CASE i <= k
    <3>1. i \in 1..k
      BY <2>2
    <3>2. new[i] = most[i]
      BY <1>5, <1>8, <2>1, <2>2
    <3> QED  BY <1>5, <1>7, <3>1, <3>2
  <2>3. CASE ~ (i <= k)
    <3>1. i - k \in 1..(Len(ss) + 1 - k) /\ k + (i - k) - 1 = i - 1 /\ ~ (i < k) /\ i # k
      BY <1>7, <2>3
    <3>2. new[i] = tail[i - k]
      BY <1>5, <1>8, <2>1, <2>3
    <3>3. tail[i - k] = ss[k + (i - k) - 1]
      BY <1>2, <3>1
    <3> QED  BY <3>1, <3>2, <3>3
  <2> QED  BY <2>2, <2>3, <1>7
<1> QED  BY <1>6, <1>8, <1>9, <1>10

LEMMA Removed ==
    ASSUME NEW S, NEW ss \in Seq(S), NEW k \in 1..Len(ss)
    PROVE  /\ Held!RemoveAt(ss, k) \in Seq(S) /\ Len(Held!RemoveAt(ss, k)) = Len(ss) - 1
           /\ \A i \in 1..(Len(ss) - 1) :
                Held!RemoveAt(ss, k)[i] = IF i < k THEN ss[i] ELSE ss[i + 1]
<1> DEFINE head == SubSeq(ss, 1, k - 1)
           tail == SubSeq(ss, k + 1, Len(ss))
<1>1. head \in Seq(S) /\ Len(head) = k - 1 /\ \A i \in 1..(k - 1) : head[i] = ss[i]
  OBVIOUS
<1>2. tail \in Seq(S) /\ Len(tail) = Len(ss) - k /\ \A i \in 1..(Len(ss) - k) : tail[i] = ss[k + i]
  OBVIOUS
<1>3. Held!RemoveAt(ss, k) = head \o tail
  BY DEF Held!RemoveAt
<1> HIDE DEF head, tail
<1> DEFINE new == head \o tail
<1>4. Len(ss) \in Nat /\ k \in Nat /\ 1 <= k /\ k <= Len(ss)
  OBVIOUS
<1>5. /\ new \in Seq(S) /\ Len(new) = Len(head) + Len(tail)
      /\ \A i \in 1..(Len(head) + Len(tail)) :
            new[i] = IF i <= Len(head) THEN head[i] ELSE tail[i - Len(head)]
  BY <1>1, <1>2, Concatenated
<1> HIDE DEF new
<1>6. Len(new) = Len(ss) - 1
  BY <1>1, <1>2, <1>4, <1>5
<1>7. ASSUME NEW i \in 1..(Len(ss) - 1) PROVE new[i] = IF i < k THEN ss[i] ELSE ss[i + 1]
  <2>1. i \in 1..(Len(head) + Len(tail))
    BY <1>1, <1>2, <1>4
  <2>2. CASE i < k
    <3>1. i \in 1..(k - 1) /\ i <= Len(head)
      BY <1>1, <1>4, <2>2
    <3> QED  BY <1>1, <1>5, <2>1, <2>2, <3>1
  <2>3. CASE ~ (i < k)
    <3>1. i - (k - 1) \in 1..(Len(ss) - k) /\ k + (i - (k - 1)) = i + 1 /\ ~ (i <= k - 1)
      BY <1>4, <2>3
    <3>2. new[i] = tail[i - (k - 1)]
      BY <1>1, <1>5, <2>1, <3>1
    <3> QED  BY <1>2, <2>3, <3>1, <3>2
  <2> QED  BY <2>2, <2>3
<1> QED  BY <1>3, <1>5, <1>6, <1>7 DEF new

LEMMA SameSequence ==
    ASSUME NEW S, NEW ss \in Seq(S), NEW tt \in Seq(S), Len(ss) = Len(tt),
           \A i \in 1..Len(ss) : ss[i] = tt[i]
    PROVE  ss = tt
OBVIOUS

LEMMA InsertedLast ==
    ASSUME NEW ss, Sequence(ss), NEW x
    PROVE  /\ Held!InsertAt(ss, Len(ss) + 1, x) = Append(ss, x)
           /\ Held!RemoveAt(Append(ss, x), Len(ss) + 1) = ss
<1>1. PICK S : ss \in Seq(S)
  BY DEF Sequence
<1> DEFINE T == S \cup {x}
<1>2. ss \in Seq(T) /\ x \in T
  BY <1>1
<1> HIDE DEF T
<1>3. Append(ss, x) \in Seq(T) /\ Len(Append(ss, x)) = Len(ss) + 1
      /\ \A i \in 1..(Len(ss) + 1) : Append(ss, x)[i] = IF i <= Len(ss) THEN ss[i] ELSE x
  BY <1>2
<1>4. Len(ss) \in Nat
  BY <1>2
<1>5. Held!InsertAt(ss, Len(ss) + 1, x) = Append(ss, x)
  <2> DEFINE new == Held!InsertAt(ss, Len(ss) + 1, x)
  <2>1. /\ new \in Seq(T) /\ Len(new) = Len(ss) + 1
        /\ \A i \in 1..(Len(ss) + 1) :
             new[i] = IF i < Len(ss) + 1 THEN ss[i] ELSE IF i = Len(ss) + 1 THEN x ELSE ss[i - 1]
    <3>1. Len(ss) + 1 \in 1..(Len(ss) + 1)
      BY <1>4
    <3> QED  BY <1>2, <3>1, Inserted
  <2> HIDE DEF new
  <2>2. new = Append(ss, x)
    BY <1>3, <1>4, <2>1, SameSequence
  <2> QED  BY <2>2 DEF new
<1>6. Held!RemoveAt(Append(ss, x), Len(ss) + 1) = ss
  <2> DEFINE app == Append(ss, x)
             old == Held!RemoveAt(app, Len(ss) + 1)
  <2>1. app \in Seq(T) /\ Len(app) = Len(ss) + 1 /\ Len(ss) + 1 \in 1..Len(app)
        /\ \A i \in 1..Len(ss) : app[i] = ss[i]
    BY <1>3, <1>4
  <2> HIDE DEF app
  <2>2. /\ old \in Seq(T) /\ Len(old) = Len(app) - 1
        /\ \A i \in 1..(Len(app) - 1) : old[i] = IF i < Len(ss) + 1 THEN app[i] ELSE app[i + 1]
    BY <2>1, Removed
  <2> HIDE DEF old
  <2>3. old = ss
    BY <1>2, <1>4, <2>1, <2>2, SameSequence
  <2> QED  BY <2>3 DEF old, app
<1> QED  BY <1>5, <1>6

-----------------------------------------------------------------------------
(* Pages. *)

LEMMA OnlyBlock ==
    ASSUME NEW blocks, NEW n, IsPage(blocks, n), NEW b \in DOMAIN blocks
    PROVE  /\ Held!BlockIndex(blocks, blocks[b].id) = {b}
           /\ Held!HeldBlock(blocks, blocks[b].id) = blocks[b]
<1>1. Held!BlockIndex(blocks, blocks[b].id) = {b}
  BY DEF IsPage, Held!BlockIndex
<1>2. (CHOOSE x \in {b} : TRUE) = b
  OBVIOUS
<1> QED  BY <1>1, <1>2 DEF Held!HeldBlock

LEMMA NoSuchBlock ==
    ASSUME NEW blocks, NEW n, IsPage(blocks, n), NEW id, id \notin 1..n
    PROVE  Held!HeldBlock(blocks, id) = Held!NoBlock
BY DEF Held!HeldBlock, Held!BlockIndex, IsPage

LEMMA Rewriting ==
    ASSUME NEW blocks, NEW n, IsPage(blocks, n), NEW b \in DOMAIN blocks,
           NEW blk, blk.id = blocks[b].id
    PROVE  LET new == [blocks EXCEPT ![b] = blk] IN
           /\ IsPage(new, n) /\ DOMAIN new = DOMAIN blocks
           /\ new[b] = blk /\ [new EXCEPT ![b] = blocks[b]] = blocks
<1> DEFINE new == [blocks EXCEPT ![b] = blk]
<1>1. PICK S : blocks \in Seq(S)
  BY DEF IsPage, Sequence
<1>2. new \in Seq(S \cup {blk}) /\ DOMAIN new = DOMAIN blocks
  BY <1>1
<1>3. \A c \in DOMAIN blocks : new[c] = IF c = b THEN blk ELSE blocks[c]
  OBVIOUS
<1>4. \A c \in DOMAIN blocks : new[c].id = blocks[c].id
  BY <1>3
<1> HIDE DEF new
<1>5. [new EXCEPT ![b] = blocks[b]] = blocks
  <2> DEFINE T == S \cup {blk}
             back == [new EXCEPT ![b] = blocks[b]]
  <2>1. new \in Seq(T) /\ blocks \in Seq(T) /\ blocks[b] \in T /\ Len(new) = Len(blocks)
    BY <1>1, <1>2
  <2> HIDE DEF T
  <2>2. back \in Seq(T) /\ Len(back) = Len(blocks)
    BY <2>1
  <2>3. \A c \in 1..Len(blocks) : back[c] = blocks[c]
    BY <1>3, <2>1
  <2> HIDE DEF back
  <2>4. back = blocks
    BY <2>1, <2>2, <2>3, SameSequence
  <2> QED  BY <2>4 DEF back
<1>6. IsPage(new, n)
  BY <1>2, <1>4 DEF IsPage, Sequence
<1>7. new[b] = blk
  BY <1>3
<1>8. /\ IsPage(new, n) /\ DOMAIN new = DOMAIN blocks
      /\ new[b] = blk /\ [new EXCEPT ![b] = blocks[b]] = blocks
  BY <1>2, <1>5, <1>6, <1>7
<1> QED  BY <1>8 DEF new

LEMMA Adding ==
    ASSUME NEW blocks, NEW n, IsPage(blocks, n), NEW k \in 1..(Len(blocks) + 1),
           NEW blk, blk.id = n + 1
    PROVE  LET new == Held!InsertAt(blocks, k, blk) IN
           /\ IsPage(new, n + 1) /\ k \in DOMAIN new /\ new[k] = blk
<1> DEFINE new == Held!InsertAt(blocks, k, blk)
<1>1. PICK S : blocks \in Seq(S)
  BY DEF IsPage, Sequence
<1> DEFINE T == S \cup {blk}
<1>2. blocks \in Seq(T) /\ blk \in T
  BY <1>1
<1> HIDE DEF T
<1>3. /\ new \in Seq(T) /\ Len(new) = Len(blocks) + 1
      /\ \A i \in 1..(Len(blocks) + 1) :
           new[i] = IF i < k THEN blocks[i] ELSE IF i = k THEN blk ELSE blocks[i - 1]
  <2>1. /\ Held!InsertAt(blocks, k, blk) \in Seq(T)
        /\ Len(Held!InsertAt(blocks, k, blk)) = Len(blocks) + 1
        /\ \A i \in 1..(Len(blocks) + 1) : Held!InsertAt(blocks, k, blk)[i] =
              IF i < k THEN blocks[i] ELSE IF i = k THEN blk ELSE blocks[i - 1]
    BY <1>2, Inserted
  <2> QED  BY <2>1
<1>4. /\ Len(blocks) \in Nat /\ DOMAIN blocks = 1..Len(blocks) /\ DOMAIN new = 1..(Len(blocks) + 1)
  BY <1>2, <1>3
<1> HIDE DEF new
<1>5. n \in Nat /\ (\A b \in 1..Len(blocks) : blocks[b].id \in 1..n)
      /\ \A b, c \in 1..Len(blocks) : blocks[b].id = blocks[c].id => b = c
  BY <1>4 DEF IsPage
<1> DEFINE from(i) == IF i < k THEN i ELSE i - 1
<1>6. ASSUME NEW i \in 1..(Len(blocks) + 1), i # k
      PROVE  from(i) \in 1..Len(blocks) /\ new[i].id = blocks[from(i)].id /\ new[i].id \in 1..n
  <2>1. from(i) \in 1..Len(blocks) /\ new[i] = blocks[from(i)]
    BY <1>3, <1>4, <1>6
  <2> HIDE DEF from
  <2> QED  BY <2>1, <1>5
<1>7. new[k] = blk
  BY <1>3
<1>8. \A i \in DOMAIN new : new[i].id \in 1..(n + 1)
  BY <1>4, <1>5, <1>6, <1>7
<1>9. ASSUME NEW i \in DOMAIN new, NEW j \in DOMAIN new, new[i].id = new[j].id PROVE i = j
  <2>1. CASE i = k \/ j = k
    BY <1>4, <1>5, <1>6, <1>7, <1>9, <2>1
  <2>2. CASE i # k /\ j # k
    <3>1. from(i) = from(j)
      <4> HIDE DEF from
      <4> QED  BY <1>4, <1>5, <1>6, <1>9, <2>2
    <3> QED  BY <3>1, <2>2, <1>4
  <2> QED  BY <2>1, <2>2
<1>10. IsPage(new, n + 1)
  <2>1. Sequence(new) /\ n + 1 \in Nat
    BY <1>3, <1>5 DEF Sequence
  <2> QED  BY <2>1, <1>8, <1>9 DEF IsPage
<1>11. k \in DOMAIN new
  BY <1>4
<1> QED  BY <1>7, <1>10, <1>11 DEF new

LEMMA Removing ==
    ASSUME NEW blocks, NEW n, IsPage(blocks, n), NEW k \in DOMAIN blocks
    PROVE  IsPage(Held!RemoveAt(blocks, k), n)
<1> DEFINE new == Held!RemoveAt(blocks, k)
           from(i) == IF i < k THEN i ELSE i + 1
<1>1. PICK S : blocks \in Seq(S)
  BY DEF IsPage, Sequence
<1>2. k \in 1..Len(blocks) /\ Len(blocks) \in Nat /\ DOMAIN blocks = 1..Len(blocks)
  BY <1>1
<1>3. /\ new \in Seq(S) /\ Len(new) = Len(blocks) - 1
      /\ \A i \in 1..(Len(blocks) - 1) : new[i] = IF i < k THEN blocks[i] ELSE blocks[i + 1]
  BY <1>1, <1>2, Removed
<1> HIDE DEF new
<1>4. DOMAIN new = 1..(Len(blocks) - 1)
  BY <1>3
<1>5. \A i \in DOMAIN new : from(i) \in DOMAIN blocks /\ new[i] = blocks[from(i)]
  BY <1>2, <1>3, <1>4
<1>6. \A i, j \in DOMAIN new : from(i) = from(j) => i = j
  BY <1>2, <1>4
<1> HIDE DEF from
<1>7. Sequence(new)
  BY <1>3 DEF Sequence
<1>8. IsPage(new, n)
  BY <1>5, <1>6, <1>7 DEF IsPage
<1> QED  BY <1>8 DEF new

LEMMA Swapping ==
    ASSUME NEW blocks, NEW n, IsPage(blocks, n), NEW b \in DOMAIN blocks, NEW c \in DOMAIN blocks
    PROVE  IsPage([blocks EXCEPT ![b] = blocks[c], ![c] = blocks[b]], n)
<1> DEFINE new == [blocks EXCEPT ![b] = blocks[c], ![c] = blocks[b]]
           from(i) == IF i = c THEN b ELSE IF i = b THEN c ELSE i
<1>1. PICK S : blocks \in Seq(S)
  BY DEF IsPage, Sequence
<1>2. new \in Seq(S) /\ DOMAIN new = DOMAIN blocks
  BY <1>1
<1>3. \A i \in DOMAIN new : from(i) \in DOMAIN blocks /\ new[i] = blocks[from(i)]
  BY <1>1
<1>4. \A i, j \in DOMAIN new : from(i) = from(j) => i = j
  OBVIOUS
<1> HIDE DEF from, new
<1>5. Sequence(new)
  BY <1>2 DEF Sequence
<1>6. IsPage(new, n)
  BY <1>3, <1>4, <1>5 DEF IsPage
<1> QED  BY <1>6 DEF new

-----------------------------------------------------------------------------
(* One placement. *)

\* Placing p leads from s to t, undoing it leads back to the page of s, and what the other
\* pieces remember stays as it was.
Takes(s, t, p) ==
    /\ InGoodOrder(t)
    /\ t.shelf[p].status = "placed" /\ ~ Held!UndoStale(t, p) /\ Held!RevertPlacement(t, p) = s.page
    /\ \A q \in Held!Pieces \ {p} :
          /\ t.shelf[q].status = s.shelf[q].status
          /\ s.shelf[q].status # "waiting" => t.shelf[q] = s.shelf[q]

LEMMA Pointing ==
    ASSUME NEW held, IsShelf(held), NEW p \in Held!Pieces, NEW id
    PROVE  LET new == Held!PointSectionPictures(held, p, id) IN
           /\ IsShelf(new)
           /\ \A q \in Held!Pieces :
                 /\ new[q].status = held[q].status
                 /\ held[q].status # "waiting" => new[q] = held[q]
<1> DEFINE new == Held!PointSectionPictures(held, p, id)
<1>1. \A q \in Held!Pieces :
        new[q] = held[q] \/ (new[q] = Held!WaitingPiece(id) /\ held[q].status = "waiting")
  BY DEF Held!PointSectionPictures
<1>2. Held!WaitingPiece(id).status = "waiting"
  BY DEF Held!WaitingPiece, Held!Off
<1>3. new = [q \in Held!Pieces |-> new[q]]
  BY DEF Held!PointSectionPictures
<1>4. Undoable(Held!WaitingPiece(id))
  BY <1>2 DEF Undoable
<1> HIDE DEF new
<1>5. IsShelf(new)
  BY <1>1, <1>3, <1>4 DEF IsShelf
<1>6. IsShelf(new)
      /\ \A q \in Held!Pieces :
            /\ new[q].status = held[q].status
            /\ held[q].status # "waiting" => new[q] = held[q]
  BY <1>1, <1>2, <1>5
<1> QED  BY <1>6 DEF new

Remembered(new, held, p, id, was, is) ==
    /\ IsShelf(new)
    /\ new[p] = Held!Placed(held[p].block, id, was, is, FALSE)
    /\ \A q \in Held!Pieces \ {p} : new[q] = held[q]

LEMMA Remembering ==
    ASSUME NEW held, IsShelf(held), NEW p \in Held!Pieces, NEW before, NEW after, NEW id, id # 0,
           Held!HeldBlock(after, id).id = id,
           Held!HeldBlock(before, id) = Held!NoBlock \/ Held!HeldBlock(before, id).id = id
    PROVE  Remembered(Held!RememberPlacement(held, p, before, after, id), held, p, id,
                      Held!HeldBlock(before, id), Held!HeldBlock(after, id))
<1> DEFINE was == Held!HeldBlock(before, id)
           mine == Held!Placed(held[p].block, id, was, Held!HeldBlock(after, id), FALSE)
           new == Held!RememberPlacement(held, p, before, after, id)
<1>1. held = [q \in Held!Pieces |-> held[q]] /\ \A q \in Held!Pieces : Undoable(held[q])
  BY DEF IsShelf
<1>2. new = [held EXCEPT ![p] = mine]
  BY DEF Held!RememberPlacement
<1>3. Undoable(mine)
  BY DEF Undoable, Held!Placed
<1> HIDE DEF mine, new
<1>4. /\ new = [q \in Held!Pieces |-> new[q]] /\ new[p] = mine
      /\ \A q \in Held!Pieces \ {p} : new[q] = held[q]
  BY <1>1, <1>2
<1>5. IsShelf(new) /\ new[p] = mine /\ \A q \in Held!Pieces \ {p} : new[q] = held[q]
  BY <1>1, <1>3, <1>4 DEF IsShelf
<1> QED  BY <1>5 DEF mine, new, Remembered

LEMMA NewBlock ==
    ASSUME NEW s, InGoodOrder(s), NEW p \in Held!Pieces, NEW k \in 1..(Len(s.page) + 1),
           NEW blk, blk.id = s.made + 1, NEW t,
           t.page = Held!InsertAt(s.page, k, blk), t.made = s.made + 1,
           t.shelf = Held!RememberPlacement(Held!PointSectionPictures(s.shelf, p, s.made + 1), p,
                                       s.page, t.page, s.made + 1)
    PROVE  InGoodOrder(t) /\ (k = Len(s.page) + 1 => Takes(s, t, p))
<1> DEFINE id == s.made + 1
           new == t.page
           held == Held!PointSectionPictures(s.shelf, p, id)
<1>1. IsPage(s.page, s.made) /\ IsShelf(s.shelf)
  BY DEF InGoodOrder
<1>2. IsPage(new, id) /\ k \in DOMAIN new /\ new[k] = blk
  BY <1>1, Adding
<1>3. s.made \in Nat /\ id # 0 /\ id \notin 1..s.made
  BY <1>1 DEF IsPage
<1>4. Held!HeldBlock(s.page, id) = Held!NoBlock
  <2> HIDE DEF id
  <2> QED  BY <1>1, <1>3, NoSuchBlock
<1>5. Held!BlockIndex(new, id) = {k} /\ Held!HeldBlock(new, id) = blk
  <2>1. new[k].id = id
    BY <1>2
  <2> HIDE DEF id, new
  <2> QED  BY <1>2, <2>1, OnlyBlock
<1>6. /\ IsShelf(held)
      /\ \A q \in Held!Pieces :
            /\ held[q].status = s.shelf[q].status
            /\ s.shelf[q].status # "waiting" => held[q] = s.shelf[q]
  <2> HIDE DEF id
  <2> QED  BY <1>1, Pointing
<1>7. blk.id = id /\ Held!HeldBlock(new, id).id = id
  BY <1>5
<1>8. t.shelf = Held!RememberPlacement(held, p, s.page, new, id)
  OBVIOUS
<1>m. t.made = id
  OBVIOUS
<1> HIDE DEF id, held, new
<1>9. /\ IsShelf(t.shelf)
      /\ t.shelf[p] = Held!Placed(held[p].block, id, Held!NoBlock, blk, FALSE)
      /\ \A q \in Held!Pieces \ {p} : t.shelf[q] = held[q]
  <2>1. /\ IsShelf(held) /\ id # 0 /\ Held!HeldBlock(new, id).id = id
        /\ Held!HeldBlock(s.page, id) = Held!NoBlock
        /\ Held!HeldBlock(new, id) = blk
    BY <1>3, <1>4, <1>5, <1>6, <1>7
  <2>2. Remembered(Held!RememberPlacement(held, p, s.page, new, id), held, p, id,
                   Held!HeldBlock(s.page, id), Held!HeldBlock(new, id))
    BY <2>1, Remembering, Zenon
  <2>3. Remembered(t.shelf, held, p, id, Held!NoBlock, blk)
    BY <1>8, <2>1, <2>2
  <2> QED  BY <2>3 DEF Remembered
<1>10. InGoodOrder(t)
  BY <1>2, <1>9, <1>m DEF InGoodOrder, new
<1>11. /\ t.shelf[p].status = "placed" /\ t.shelf[p].at = id
       /\ t.shelf[p].before = Held!NoBlock /\ t.shelf[p].after = blk
  BY <1>9 DEF Held!Placed
<1>12. ~ Held!UndoStale(t, p)
  BY <1>5, <1>11 DEF Held!UndoStale, new
<1>13. ASSUME k = Len(s.page) + 1 PROVE Held!RevertPlacement(t, p) = s.page
  <2>1. Sequence(s.page)
    BY <1>1 DEF IsPage
  <2> DEFINE was == s.page
  <2>2. new = Append(was, blk) /\ Held!RemoveAt(new, k) = was
    <3>1. new = Held!InsertAt(was, k, blk) /\ k = Len(was) + 1 /\ Sequence(was)
      BY <1>13, <2>1 DEF new
    <3> HIDE DEF was
    <3>2. /\ Held!InsertAt(was, Len(was) + 1, blk) = Append(was, blk)
          /\ Held!RemoveAt(Append(was, blk), Len(was) + 1) = was
      BY <3>1, InsertedLast
    <3> QED  BY <3>1, <3>2
  <2>3. (CHOOSE x \in {k} : TRUE) = k
    OBVIOUS
  <2>4. Held!RevertPlacement(t, p) = Held!RemoveAt(new, k)
    BY <1>5, <1>11, <2>3 DEF Held!RevertPlacement, new
  <2> QED  BY <2>2, <2>4
<1>14. ASSUME NEW q \in Held!Pieces \ {p}
       PROVE  /\ t.shelf[q].status = s.shelf[q].status
              /\ s.shelf[q].status # "waiting" => t.shelf[q] = s.shelf[q]
  <2>1. t.shelf[q] = held[q] /\ q \in Held!Pieces
    BY <1>9
  <2>2. /\ held[q].status = s.shelf[q].status
        /\ (s.shelf[q].status # "waiting" => held[q] = s.shelf[q])
    BY <1>6, <2>1, Zenon
  <2>3. t.shelf[q].status = s.shelf[q].status
    BY <2>1, <2>2, Zenon
  <2>4. s.shelf[q].status # "waiting" => t.shelf[q] = s.shelf[q]
    BY <2>1, <2>2, Zenon
  <2> QED  BY <2>3, <2>4
<1> QED  BY <1>10, <1>11, <1>12, <1>13, <1>14 DEF Takes

LEMMA OldBlock ==
    ASSUME NEW s, InGoodOrder(s), NEW p \in Held!Pieces, NEW b \in DOMAIN s.page,
           NEW blk, blk.id = s.page[b].id, NEW t,
           t.page = [s.page EXCEPT ![b] = blk], t.made = s.made,
           t.shelf = Held!RememberPlacement(s.shelf, p, s.page, t.page, s.page[b].id)
    PROVE  Takes(s, t, p)
<1> DEFINE id == s.page[b].id
           new == t.page
<1>1. IsPage(s.page, s.made) /\ IsShelf(s.shelf)
  BY DEF InGoodOrder
<1>2. /\ IsPage(new, s.made) /\ b \in DOMAIN new
      /\ new[b] = blk /\ [new EXCEPT ![b] = s.page[b]] = s.page
  BY <1>1, Rewriting
<1>3. id \in 1..s.made /\ s.made \in Nat
  BY <1>1 DEF IsPage
<1>4. Held!HeldBlock(s.page, id) = s.page[b]
  BY <1>1, OnlyBlock
<1>5. Held!BlockIndex(new, id) = {b} /\ Held!HeldBlock(new, id) = blk
  <2>1. new[b].id = id
    BY <1>2
  <2> HIDE DEF id, new
  <2> QED  BY <1>2, <2>1, OnlyBlock
<1>6. /\ blk.id = id /\ s.page[b].id = id
      /\ t.shelf = Held!RememberPlacement(s.shelf, p, s.page, new, id)
  OBVIOUS
<1> HIDE DEF id, new
<1>7. id # 0 /\ id # Held!NoBlock.id
  BY <1>3 DEF Held!NoBlock
<1>9. /\ IsShelf(t.shelf)
      /\ t.shelf[p] = Held!Placed(s.shelf[p].block, id, s.page[b], blk, FALSE)
      /\ \A q \in Held!Pieces \ {p} : t.shelf[q] = s.shelf[q]
  <2>1. /\ IsShelf(s.shelf) /\ id # 0
        /\ Held!HeldBlock(new, id).id = id /\ Held!HeldBlock(s.page, id).id = id
    BY <1>1, <1>4, <1>5, <1>6, <1>7
  <2>2. Remembered(Held!RememberPlacement(s.shelf, p, s.page, new, id), s.shelf, p, id,
                   Held!HeldBlock(s.page, id), Held!HeldBlock(new, id))
    BY <2>1, Remembering, Zenon
  <2>3. Remembered(t.shelf, s.shelf, p, id, s.page[b], blk)
    BY <1>4, <1>5, <1>6, <2>2
  <2> QED  BY <2>3 DEF Remembered
<1>10. InGoodOrder(t)
  BY <1>2, <1>9 DEF InGoodOrder, new
<1>11. /\ t.shelf[p].status = "placed" /\ t.shelf[p].at = id
       /\ t.shelf[p].before = s.page[b] /\ t.shelf[p].after = blk
  BY <1>9 DEF Held!Placed
<1>12. ~ Held!UndoStale(t, p)
  BY <1>5, <1>11 DEF Held!UndoStale, new
<1>13. Held!RevertPlacement(t, p) = s.page
  <2>1. s.page[b] # Held!NoBlock
    BY <1>6, <1>7
  <2>3. (CHOOSE x \in {b} : TRUE) = b
    OBVIOUS
  <2>4. Held!RevertPlacement(t, p) = [new EXCEPT ![b] = s.page[b]]
    BY <1>5, <1>11, <2>1, <2>3 DEF Held!RevertPlacement, new
  <2> QED  BY <1>2, <2>4
<1> QED  BY <1>9, <1>10, <1>11, <1>12, <1>13 DEF Takes

LEMMA SectionAtPosition ==
    ASSUME NEW s, InGoodOrder(s), NEW p \in Held!Pieces, NEW position \in 0..Len(s.page)
    PROVE  LET t == Held!PlaceSectionAt(s, p, position) IN
           InGoodOrder(t) /\ (position = Len(s.page) => Takes(s, t, p))
<1> DEFINE t == Held!PlaceSectionAt(s, p, position)
           blk == Held!ReadmeBlock(s.made + 1, Held!Element("text", <<p>>))
           k == position + 1
<1>1. Len(s.page) \in Nat
  BY DEF InGoodOrder, IsPage, Sequence
<1>2. k \in 1..(Len(s.page) + 1) /\ (position = Len(s.page) => k = Len(s.page) + 1)
  BY <1>1
<1>3. blk.id = s.made + 1
  BY DEF Held!ReadmeBlock
<1>4. /\ t.page = Held!InsertAt(s.page, k, blk) /\ t.made = s.made + 1
      /\ t.shelf = Held!RememberPlacement(Held!PointSectionPictures(s.shelf, p, s.made + 1), p,
                                     s.page, t.page, s.made + 1)
  BY DEF Held!PlaceSectionAt
<1> HIDE DEF t, blk, k
<1>5. InGoodOrder(t) /\ (k = Len(s.page) + 1 => Takes(s, t, p))
  BY <1>2, <1>3, <1>4, NewBlock
<1> QED  BY <1>2, <1>5 DEF t

LEMMA SectionInElement ==
    ASSUME NEW s, InGoodOrder(s), NEW p \in Held!Pieces, NEW b \in DOMAIN s.page, NEW e
    PROVE  Takes(s, Held!PlaceSectionIn(s, p, b, e), p)
<1> DEFINE t == Held!PlaceSectionIn(s, p, b, e)
           written == [s.page[b].elements EXCEPT ![e] = Held!Element("text", Append(@.holds, p))]
           blk == Held!WithElements(s.page[b], written)
<1>1. blk.id = s.page[b].id
  BY DEF Held!WithElements
<1>2. /\ t.page = [s.page EXCEPT ![b] = blk] /\ t.made = s.made
      /\ t.shelf = Held!RememberPlacement(s.shelf, p, s.page, t.page, s.page[b].id)
  BY DEF Held!PlaceSectionIn
<1> HIDE DEF t, blk
<1>3. Takes(s, t, p)
  BY <1>1, <1>2, OldBlock
<1> QED  BY <1>3 DEF t

LEMMA PictureInBlock ==
    ASSUME NEW s, InGoodOrder(s), NEW p \in Held!Pieces, NEW m, NEW b \in DOMAIN s.page
    PROVE  Takes(s, Held!PlacePictureIn(s, p, m, b), p)
<1> DEFINE t == Held!PlacePictureIn(s, p, m, b)
           blk == Held!WithElements(s.page[b], Held!AddPicture(s.page[b].elements, m))
<1>1. blk.id = s.page[b].id
  BY DEF Held!WithElements
<1>2. /\ t.page = [s.page EXCEPT ![b] = blk] /\ t.made = s.made
      /\ t.shelf = Held!RememberPlacement(s.shelf, p, s.page, t.page, s.page[b].id)
  BY DEF Held!PlacePictureIn
<1> HIDE DEF t, blk
<1>3. Takes(s, t, p)
  BY <1>1, <1>2, OldBlock
<1> QED  BY <1>3 DEF t

LEMMA PictureApart ==
    ASSUME NEW s, InGoodOrder(s), NEW p \in Held!Pieces, NEW m
    PROVE  Takes(s, Held!PlacePictureApart(s, p, m), p)
<1> DEFINE t == Held!PlacePictureApart(s, p, m)
           blk == Held!ReadmeBlock(s.made + 1, Held!Element("pictures", <<m>>))
           k == Len(s.page) + 1
<1>1. Sequence(s.page) /\ Len(s.page) \in Nat
  BY DEF InGoodOrder, IsPage, Sequence
<1>2. k \in 1..(Len(s.page) + 1)
  BY <1>1
<1>3. blk.id = s.made + 1
  BY DEF Held!ReadmeBlock
<1>4. t.page = Append(s.page, blk)
  BY DEF Held!PlacePictureApart
<1>5. /\ t.page = Held!InsertAt(s.page, k, blk) /\ t.made = s.made + 1
      /\ t.shelf = Held!RememberPlacement(Held!PointSectionPictures(s.shelf, p, s.made + 1), p,
                                     s.page, t.page, s.made + 1)
  <2>1. t.page = Held!InsertAt(s.page, k, blk)
    <3> HIDE DEF t, blk
    <3> QED  BY <1>1, <1>4, InsertedLast
  <2>2. t.made = s.made + 1
      /\ t.shelf = Held!RememberPlacement(Held!PointSectionPictures(s.shelf, p, s.made + 1), p,
                                     s.page, t.page, s.made + 1)
    BY DEF Held!PlacePictureApart
  <2> HIDE DEF t
  <2> QED  BY <2>1, <2>2
<1>6. k = Len(s.page) + 1
  OBVIOUS
<1> HIDE DEF t, blk, k
<1>7. Takes(s, t, p)
  BY <1>2, <1>3, <1>5, <1>6, NewBlock
<1> QED  BY <1>7 DEF t

LEMMA Picture ==
    ASSUME NEW s, InGoodOrder(s), NEW p \in Held!Pieces, NEW m
    PROVE  Takes(s, Held!PlacePicture(s, p, m), p)
<1> DEFINE own == {b \in Held!BlockIndex(s.page, s.shelf[p].block) : s.page[b].custom}
           b == CHOOSE x \in own : TRUE
<1>1. CASE own = {}
  BY <1>1, PictureApart DEF Held!PlacePicture
<1>2. CASE own # {}
  <2>1. b \in own
    BY <1>2
  <2>2. b \in DOMAIN s.page
    BY <2>1 DEF Held!BlockIndex
  <2>3. Held!PlacePicture(s, p, m) = Held!PlacePictureIn(s, p, m, b)
    BY <1>2 DEF Held!PlacePicture
  <2> HIDE DEF b
  <2> QED  BY <2>2, <2>3, PictureInBlock
<1> QED  BY <1>1, <1>2

LEMMA AtTheEnd ==
    ASSUME NEW s, InGoodOrder(s), NEW p \in Held!Pieces
    PROVE  Takes(s, Held!SectionAt(s, p), p)
<1>1. CASE Piece[p].kind = "section"
  <2>1. Len(s.page) \in Nat /\ Len(s.page) \in 0..Len(s.page)
    BY DEF InGoodOrder, IsPage, Sequence
  <2> QED  BY <1>1, <2>1, SectionAtPosition DEF Held!SectionAt
<1>2. CASE Piece[p].kind # "section"
  BY <1>2, Picture DEF Held!SectionAt
<1> QED  BY <1>1, <1>2

-----------------------------------------------------------------------------
(* The pieces of a set, in order. *)

Ordered(h, pieces, n) ==
    IF n = 0 THEN <<>>
    ELSE IF Order[n] \in pieces THEN Append(h[n - 1], Order[n]) ELSE h[n - 1]

LEMMA OrderExists ==
    ASSUME NEW pieces, NEW m \in Nat
    PROVE  \E h : h = [n \in 0..m |-> Ordered(h, pieces, n)]
<1> DEFINE N == {k \in Nat : \E h : h = [n \in 0..k |-> Ordered(h, pieces, n)]}
<1>1. 0 \in N
  <2> DEFINE h == [n \in 0..0 |-> Ordered(<<>>, pieces, 0)]
  <2>1. h = [n \in 0..0 |-> Ordered(h, pieces, n)]
    <3>1. \A n \in 0..0 : Ordered(h, pieces, n) = Ordered(<<>>, pieces, 0)
      BY DEF Ordered
    <3> QED  BY <3>1
  <2> HIDE DEF h
  <2> QED  BY <2>1
<1>2. ASSUME NEW k \in Nat, k \in N PROVE k + 1 \in N
  <2>1. PICK h : h = [n \in 0..k |-> Ordered(h, pieces, n)]
    BY <1>2
  <2> DEFINE new == [n \in 0..(k + 1) |-> IF n = k + 1 THEN Ordered(h, pieces, n) ELSE h[n]]
  <2>2. \A n \in 0..k : h[n] = Ordered(h, pieces, n)
    <3> DEFINE body == [n \in 0..k |-> Ordered(h, pieces, n)]
    <3>1. \A n \in 0..k : body[n] = Ordered(h, pieces, n)
      OBVIOUS
    <3>2. h = body
      BY <2>1
    <3> HIDE DEF body
    <3> QED  BY <3>1, <3>2
  <2>3. \A n \in 0..k : new[n] = h[n]
    OBVIOUS
  <2>4. \A n \in 0..(k + 1) : new[n] = Ordered(h, pieces, n)
    BY <2>2
  <2>5. new = [n \in 0..(k + 1) |-> new[n]]
    OBVIOUS
  <2> HIDE DEF new
  <2>6. ASSUME NEW n \in 0..(k + 1)
        PROVE  Ordered(new, pieces, n) = Ordered(h, pieces, n)
    <3>1. CASE n = 0
      BY <3>1 DEF Ordered
    <3>2. CASE n # 0
      <4>1. n - 1 \in 0..k
        BY <3>2
      <4> QED  BY <2>3, <4>1 DEF Ordered
    <3> QED  BY <3>1, <3>2
  <2>7. new = [n \in 0..(k + 1) |-> Ordered(new, pieces, n)]
    BY <2>4, <2>5, <2>6
  <2> QED  BY <2>7
<1>3. Nat \subseteq N
  <2> HIDE DEF N
  <2> QED  BY <1>1, <1>2, Induct
<1> QED  BY <1>3

Listed(list, pieces) ==
    /\ list \in Seq(pieces)
    /\ \A m, n \in 1..Len(list) : list[m] = list[n] => m = n

LEMMA InOrderLists ==
    ASSUME Held!Settings, NEW pieces, pieces \subseteq Held!Pieces
    PROVE  Listed(Held!InOrder(pieces), pieces)
<1> DEFINE h == CHOOSE f : f = [n \in 0..Len(Order) |-> Ordered(f, pieces, n)]
<1>1. Len(Order) \in Nat /\ \A n \in 1..Len(Order) : n \in DOMAIN Order
  BY DEF Held!Settings
<1>2. Held!InOrder(pieces) = h[Len(Order)]
  BY DEF Held!InOrder, Ordered
<1>3. h = [n \in 0..Len(Order) |-> Ordered(h, pieces, n)]
  BY <1>1, OrderExists
<1> HIDE DEF h
<1>4. \A n \in 0..Len(Order) : h[n] = Ordered(h, pieces, n)
  <2> DEFINE body == [n \in 0..Len(Order) |-> Ordered(h, pieces, n)]
  <2>1. \A n \in 0..Len(Order) : body[n] = Ordered(h, pieces, n)
    OBVIOUS
  <2>2. h = body
    BY <1>3
  <2> HIDE DEF body
  <2> QED  BY <2>1, <2>2
<1> DEFINE Early(n) == \A k \in 1..Len(h[n]) : \E m \in 1..n : h[n][k] = Order[m]
           N == {n \in Nat : n <= Len(Order) => Listed(h[n], pieces) /\ Early(n)}
<1>5. 0 \in N
  <2>1. h[0] = <<>>
    BY <1>1, <1>4 DEF Ordered
  <2>2. <<>> \in Seq(pieces) /\ Len(<<>>) = 0
    OBVIOUS
  <2>3. 1..0 = {}
    OBVIOUS
  <2>4. Listed(h[0], pieces) /\ Early(0)
    BY <2>1, <2>2, <2>3 DEF Listed
  <2> QED  BY <2>4
<1>6. ASSUME NEW n \in Nat, n \in N PROVE n + 1 \in N
  <2>1. SUFFICES ASSUME n + 1 <= Len(Order) PROVE Listed(h[n + 1], pieces) /\ Early(n + 1)
    OBVIOUS
  <2>2. Listed(h[n], pieces) /\ Early(n)
    BY <1>1, <1>6, <2>1
  <2>3. n + 1 \in 0..Len(Order) /\ n + 1 # 0 /\ (n + 1) - 1 = n /\ n + 1 \in DOMAIN Order
    BY <1>1, <2>1
  <2>4. h[n + 1] = IF Order[n + 1] \in pieces THEN Append(h[n], Order[n + 1]) ELSE h[n]
    BY <1>4, <2>3 DEF Ordered
  <2>5. CASE Order[n + 1] \notin pieces
    BY <2>2, <2>4, <2>5
  <2>6. CASE Order[n + 1] \in pieces
    <3> DEFINE was == h[n]
               now == h[n + 1]
               piece == Order[n + 1]
    <3>1. was \in Seq(pieces) /\ piece \in pieces /\ now = Append(was, piece)
      BY <2>2, <2>4, <2>6 DEF Listed
    <3>2. \A k, l \in 1..Len(was) : was[k] = was[l] => k = l
      BY <2>2 DEF Listed
    <3>3. \A k \in 1..Len(was) : \E m \in 1..n : was[k] = Order[m]
      BY <2>2
    <3>4. \A k \in 1..Len(was) : was[k] # piece
      <4>1. \A m \in 1..n : m \in DOMAIN Order /\ m # n + 1
        BY <1>1, <2>1
      <4> QED  BY <3>3, <4>1, <2>3 DEF Held!Settings
    <3> HIDE DEF was, now, piece
    <3>5. /\ now \in Seq(pieces) /\ Len(now) = Len(was) + 1 /\ Len(was) \in Nat
          /\ \A k \in 1..Len(was) : now[k] = was[k]
          /\ now[Len(was) + 1] = piece
      BY <3>1
    <3>6. Listed(now, pieces)
      BY <3>2, <3>4, <3>5 DEF Listed
    <3>7. \A k \in 1..Len(now) : \E m \in 1..(n + 1) : now[k] = Order[m]
      <4>1. \A m \in 1..n : m \in 1..(n + 1)
        OBVIOUS
      <4>2. n + 1 \in 1..(n + 1)
        OBVIOUS
      <4> QED  BY <3>3, <3>5, <4>1, <4>2 DEF piece
    <3> QED  BY <3>6, <3>7 DEF now
  <2> QED  BY <2>5, <2>6
<1>7. Nat \subseteq N
  <2> HIDE DEF N
  <2> QED  BY <1>5, <1>6, Induct
<1> QED  BY <1>1, <1>2, <1>7

-----------------------------------------------------------------------------
(* Placing all. *)

PlacedRule(h, s, pieces, n) == IF n = 0 THEN s ELSE Held!SectionAt(h[n - 1], pieces[n])

LEMMA PlacedExists ==
    ASSUME NEW s, NEW pieces, NEW m \in Nat
    PROVE  \E h : h = [n \in 0..m |-> PlacedRule(h, s, pieces, n)]
<1> DEFINE N == {k \in Nat : \E h : h = [n \in 0..k |-> PlacedRule(h, s, pieces, n)]}
<1>1. 0 \in N
  <2> DEFINE h == [n \in 0..0 |-> s]
  <2>1. h = [n \in 0..0 |-> PlacedRule(h, s, pieces, n)]
    <3>1. \A n \in 0..0 : PlacedRule(h, s, pieces, n) = s
      BY DEF PlacedRule
    <3> QED  BY <3>1
  <2> HIDE DEF h
  <2> QED  BY <2>1
<1>2. ASSUME NEW k \in Nat, k \in N PROVE k + 1 \in N
  <2>1. PICK h : h = [n \in 0..k |-> PlacedRule(h, s, pieces, n)]
    BY <1>2
  <2> DEFINE new == [n \in 0..(k + 1) |-> IF n = k + 1 THEN PlacedRule(h, s, pieces, n) ELSE h[n]]
  <2>2. \A n \in 0..k : h[n] = PlacedRule(h, s, pieces, n)
    <3> DEFINE body == [n \in 0..k |-> PlacedRule(h, s, pieces, n)]
    <3>1. \A n \in 0..k : body[n] = PlacedRule(h, s, pieces, n)
      OBVIOUS
    <3>2. h = body
      BY <2>1
    <3> HIDE DEF body
    <3> QED  BY <3>1, <3>2
  <2>3. \A n \in 0..k : new[n] = h[n]
    OBVIOUS
  <2>4. \A n \in 0..(k + 1) : new[n] = PlacedRule(h, s, pieces, n)
    BY <2>2
  <2>5. new = [n \in 0..(k + 1) |-> new[n]]
    OBVIOUS
  <2> HIDE DEF new
  <2>6. ASSUME NEW n \in 0..(k + 1)
        PROVE  PlacedRule(new, s, pieces, n) = PlacedRule(h, s, pieces, n)
    <3>1. CASE n = 0
      BY <3>1 DEF PlacedRule
    <3>2. CASE n # 0
      <4>1. n - 1 \in 0..k
        BY <3>2
      <4> QED  BY <2>3, <4>1 DEF PlacedRule
    <3> QED  BY <3>1, <3>2
  <2>7. new = [n \in 0..(k + 1) |-> PlacedRule(new, s, pieces, n)]
    BY <2>4, <2>5, <2>6
  <2> QED  BY <2>7
<1>3. Nat \subseteq N
  <2> HIDE DEF N
  <2> QED  BY <1>1, <1>2, Induct
<1> QED  BY <1>3

\* The states of Place all, from the first to the last piece.
PlacedOneByOne(h, s, pieces) ==
    /\ h[0] = s
    /\ \A n \in 1..Len(pieces) : Takes(h[n - 1], h[n], pieces[n])
    /\ \A n \in 0..Len(pieces) : InGoodOrder(h[n])
    /\ \A n \in 0..Len(pieces) : \A k \in 1..n :
          h[n].shelf[pieces[k]] = h[k].shelf[pieces[k]]

LEMMA PlaceableListed ==
    ASSUME Held!Settings, NEW s, NEW i PROVE Listed(Held!InOrder(Held!Placeable(s, i)), Held!Pieces)
<1>1. Held!Placeable(s, i) \subseteq Held!Pieces
  BY DEF Held!Placeable
<1>2. Listed(Held!InOrder(Held!Placeable(s, i)), Held!Placeable(s, i))
  BY <1>1, InOrderLists
<1> QED  BY <1>1, <1>2 DEF Listed

LEMMA PlaceAllPlaces ==
    ASSUME Held!Settings, NEW s, InGoodOrder(s), NEW i
    PROVE  LET pieces == Held!InOrder(Held!Placeable(s, i)) IN
           \E h : PlacedOneByOne(h, s, pieces) /\ Held!PlaceAll(s, i) = h[Len(pieces)]
<1> DEFINE pieces == Held!InOrder(Held!Placeable(s, i))
           M == Len(pieces)
           h == CHOOSE f : f = [n \in 0..M |-> PlacedRule(f, s, pieces, n)]
<1>1. Listed(pieces, Held!Pieces)
  BY PlaceableListed
<1>3. Held!PlaceAll(s, i) = h[M]
  BY DEF Held!PlaceAll, PlacedRule
<1> HIDE DEF pieces
<1>4. M \in Nat /\ \A n \in 1..M : pieces[n] \in Held!Pieces
  BY <1>1 DEF Listed
<1>5. h = [n \in 0..M |-> PlacedRule(h, s, pieces, n)]
  BY <1>4, PlacedExists
<1> HIDE DEF h, M
<1>6. \A n \in 0..M : h[n] = PlacedRule(h, s, pieces, n)
  <2> DEFINE body == [n \in 0..M |-> PlacedRule(h, s, pieces, n)]
  <2>1. \A n \in 0..M : body[n] = PlacedRule(h, s, pieces, n)
    OBVIOUS
  <2>2. h = body
    BY <1>5
  <2> HIDE DEF body
  <2> QED  BY <2>1, <2>2
<1>7. h[0] = s
  BY <1>4, <1>6 DEF PlacedRule
<1>8. ASSUME NEW n \in 0..M, n # 0
      PROVE  n - 1 \in 0..M /\ h[n] = Held!SectionAt(h[n - 1], pieces[n])
  BY <1>4, <1>6, <1>8 DEF PlacedRule
<1> DEFINE G(n) == InGoodOrder(h[n])
           N == {n \in Nat : n <= M => G(n)}
<1>9. Nat \subseteq N
  <2>1. 0 \in N
    BY <1>7
  <2>2. ASSUME NEW n \in Nat, n \in N PROVE n + 1 \in N
    <3>1. SUFFICES ASSUME n + 1 <= M PROVE G(n + 1)
      OBVIOUS
    <3>2. G(n) /\ n + 1 \in 0..M /\ n + 1 # 0 /\ (n + 1) - 1 = n /\ n + 1 \in 1..M
      BY <1>4, <2>2, <3>1
    <3>3. h[n + 1] = Held!SectionAt(h[n], pieces[n + 1]) /\ pieces[n + 1] \in Held!Pieces
      BY <1>4, <1>8, <3>2
    <3>4. Takes(h[n], Held!SectionAt(h[n], pieces[n + 1]), pieces[n + 1])
      BY <3>2, <3>3, AtTheEnd
    <3> QED  BY <3>3, <3>4 DEF Takes
  <2> HIDE DEF N
  <2> QED  BY <2>1, <2>2, Induct
<1>10. \A n \in 0..M : InGoodOrder(h[n])
  BY <1>4, <1>9
<1> HIDE DEF G
<1>11. ASSUME NEW n \in 1..M PROVE Takes(h[n - 1], h[n], pieces[n])
  <2>1. n \in 0..M /\ n # 0
    BY <1>4
  <2>2. n - 1 \in 0..M /\ h[n] = Held!SectionAt(h[n - 1], pieces[n])
    BY <1>8, <2>1
  <2>3. InGoodOrder(h[n - 1]) /\ pieces[n] \in Held!Pieces
    BY <1>4, <1>10, <2>2
  <2> QED  BY <2>2, <2>3, AtTheEnd
<1> DEFINE Kept(n) == \A k \in 1..n : h[n].shelf[pieces[k]] = h[k].shelf[pieces[k]]
           K == {n \in Nat : n <= M => Kept(n)}
<1>12. Nat \subseteq K
  <2>1. 0 \in K
    OBVIOUS
  <2>2. ASSUME NEW n \in Nat, n \in K PROVE n + 1 \in K
    <3>1. SUFFICES ASSUME n + 1 <= M, NEW k \in 1..(n + 1)
                   PROVE  h[n + 1].shelf[pieces[k]] = h[k].shelf[pieces[k]]
      OBVIOUS
    <3>2. CASE k = n + 1
      BY <3>2
    <3>3. CASE k # n + 1
      <4>1. k \in 1..n /\ k \in 1..M /\ n + 1 \in 1..M /\ (n + 1) - 1 = n
        BY <1>4, <3>1, <3>3
      <4>2. h[n].shelf[pieces[k]] = h[k].shelf[pieces[k]]
        BY <1>4, <2>2, <3>1, <4>1
      <4>3. h[k].shelf[pieces[k]].status = "placed"
        BY <1>11, <4>1 DEF Takes
      <4>4. pieces[k] \in Held!Pieces \ {pieces[n + 1]}
        <5>1. pieces[k] # pieces[n + 1]
          BY <1>1, <3>3, <4>1 DEF Listed, M
        <5> QED  BY <1>4, <4>1, <5>1
      <4>5. h[n + 1].shelf[pieces[k]] = h[n].shelf[pieces[k]]
        <5>1. Takes(h[n], h[n + 1], pieces[n + 1])
          BY <1>11, <4>1
        <5> QED  BY <4>2, <4>3, <4>4, <5>1 DEF Takes
      <4> QED  BY <4>2, <4>5
    <3> QED  BY <3>2, <3>3
  <2> HIDE DEF K
  <2> QED  BY <2>1, <2>2, Induct
<1>13. \A n \in 0..M : \A k \in 1..n : h[n].shelf[pieces[k]] = h[k].shelf[pieces[k]]
  BY <1>4, <1>12
<1>14. PlacedOneByOne(h, s, pieces)
  BY <1>7, <1>10, <1>11, <1>13 DEF PlacedOneByOne, M
<1> QED  BY <1>3, <1>14 DEF M, pieces

-----------------------------------------------------------------------------
(* Undoing. *)

UndoneRule(h, s, pieces, n) ==
    IF n > Len(pieces) THEN {s} ELSE Held!UndoPlacement(h[n + 1], pieces[n])

LEMMA UndoneExists ==
    ASSUME NEW s, NEW pieces, Len(pieces) \in Nat
    PROVE  \E h : h = [n \in 1..(Len(pieces) + 1) |-> UndoneRule(h, s, pieces, n)]
<1> DEFINE M == Len(pieces)
           From(j) == ((M + 1) - j)..(M + 1)
           N == {j \in Nat : j <= M => \E h : h = [n \in From(j) |-> UndoneRule(h, s, pieces, n)]}
<1>0. M \in Nat /\ M = Len(pieces)
  OBVIOUS
<1> HIDE DEF M
<1>1. 0 \in N
  <2> DEFINE h == [n \in From(0) |-> {s}]
  <2>1. h = [n \in From(0) |-> UndoneRule(h, s, pieces, n)]
    <3>1. \A n \in From(0) : UndoneRule(h, s, pieces, n) = {s}
      BY <1>0 DEF UndoneRule
    <3> QED  BY <3>1
  <2> HIDE DEF h
  <2> QED  BY <2>1
<1>2. ASSUME NEW j \in Nat, j \in N PROVE j + 1 \in N
  <2>1. SUFFICES ASSUME j + 1 <= M
        PROVE  \E h : h = [n \in From(j + 1) |-> UndoneRule(h, s, pieces, n)]
    OBVIOUS
  <2>2. PICK h : h = [n \in From(j) |-> UndoneRule(h, s, pieces, n)]
    BY <1>0, <1>2, <2>1
  <2> DEFINE k == M - j
             new == [n \in From(j + 1) |-> IF n = k THEN UndoneRule(h, s, pieces, n) ELSE h[n]]
  <2>3. /\ From(j) = (k + 1)..(M + 1) /\ From(j + 1) = k..(M + 1)
        /\ k \in Nat /\ k >= 1 /\ k + 1 \in (k + 1)..(M + 1)
    BY <1>0, <2>1
  <2>4. \A n \in (k + 1)..(M + 1) : h[n] = UndoneRule(h, s, pieces, n)
    <3> DEFINE body == [n \in (k + 1)..(M + 1) |-> UndoneRule(h, s, pieces, n)]
    <3>1. \A n \in (k + 1)..(M + 1) : body[n] = UndoneRule(h, s, pieces, n)
      OBVIOUS
    <3>2. h = body
      BY <2>2, <2>3
    <3> HIDE DEF body
    <3> QED  BY <3>1, <3>2
  <2>5. new = [n \in k..(M + 1) |-> IF n = k THEN UndoneRule(h, s, pieces, n) ELSE h[n]]
    BY <2>3
  <2> HIDE DEF k, new, From
  <2>6. \A n \in (k + 1)..(M + 1) : new[n] = h[n]
    BY <1>0, <2>3, <2>5
  <2>7. \A n \in k..(M + 1) : new[n] = UndoneRule(h, s, pieces, n)
    BY <1>0, <2>3, <2>4, <2>5
  <2>8. ASSUME NEW n \in k..(M + 1)
        PROVE  UndoneRule(new, s, pieces, n) = UndoneRule(h, s, pieces, n)
    <3>1. CASE n > Len(pieces)
      BY <3>1 DEF UndoneRule
    <3>2. CASE ~ (n > Len(pieces))
      <4>1. n + 1 \in (k + 1)..(M + 1)
        BY <1>0, <2>3, <3>2
      <4> QED  BY <2>6, <4>1 DEF UndoneRule
    <3> QED  BY <3>1, <3>2
  <2>9. new = [n \in k..(M + 1) |-> new[n]]
    BY <2>5
  <2>10. new = [n \in From(j + 1) |-> UndoneRule(new, s, pieces, n)]
    BY <2>3, <2>7, <2>8, <2>9
  <2> QED  BY <2>10
<1>3. Nat \subseteq N
  <2> HIDE DEF N
  <2> QED  BY <1>1, <1>2, Induct
<1>4. PICK h : h = [n \in From(M) |-> UndoneRule(h, s, pieces, n)]
  BY <1>0, <1>3
<1>5. From(M) = 1..(Len(pieces) + 1)
  BY <1>0
<1> QED  BY <1>4, <1>5

UndoneOneByOne(h, s, pieces) ==
    /\ Held!UndoAll(s, pieces) = h[1]
    /\ h[Len(pieces) + 1] = {s}
    /\ \A n \in 1..Len(pieces) : h[n] = Held!UndoPlacement(h[n + 1], pieces[n])

LEMMA UndoAllIs ==
    ASSUME NEW s, NEW pieces, Len(pieces) \in Nat PROVE \E h : UndoneOneByOne(h, s, pieces)
<1> DEFINE M == Len(pieces)
           h == CHOOSE f : f = [n \in 1..(M + 1) |-> UndoneRule(f, s, pieces, n)]
<1>1. Held!UndoAll(s, pieces) = h[1]
  BY DEF Held!UndoAll, UndoneRule
<1>2. h = [n \in 1..(M + 1) |-> UndoneRule(h, s, pieces, n)]
  BY UndoneExists
<1> HIDE DEF h
<1>3. \A n \in 1..(M + 1) : h[n] = UndoneRule(h, s, pieces, n)
  <2> DEFINE body == [n \in 1..(M + 1) |-> UndoneRule(h, s, pieces, n)]
  <2>1. \A n \in 1..(M + 1) : body[n] = UndoneRule(h, s, pieces, n)
    OBVIOUS
  <2>2. h = body
    BY <1>2
  <2> HIDE DEF body
  <2> QED  BY <2>1, <2>2
<1>4. h[M + 1] = {s} /\ \A n \in 1..M : h[n] = Held!UndoPlacement(h[n + 1], pieces[n])
  BY <1>3 DEF UndoneRule
<1> QED  BY <1>1, <1>4 DEF UndoneOneByOne

LEMMA Undoing ==
    ASSUME NEW states, NEW s \in states, NEW p, s.shelf[p].status = "placed", ~ Held!UndoStale(s, p)
    PROVE  Held!Undone(s, p) \in Held!UndoPlacement(states, p)
BY DEF Held!UndoPlacement

LEMMA AllUndone ==
    ASSUME NEW s, NEW h, NEW pieces, Listed(pieces, Held!Pieces), PlacedOneByOne(h, s, pieces)
    PROVE  \E t \in Held!UndoAll(h[Len(pieces)], pieces) : t.page = s.page
<1> DEFINE M == Len(pieces)
           last == h[M]
<1>1. M \in Nat /\ \A n \in 1..M : pieces[n] \in Held!Pieces
  BY DEF Listed
<1>2. \A n \in 1..M : Takes(h[n - 1], h[n], pieces[n])
  BY DEF PlacedOneByOne
<1>3. \A k \in 1..M : last.shelf[pieces[k]] = h[k].shelf[pieces[k]]
  BY <1>1 DEF PlacedOneByOne
<1>4. h[0] = s /\ InGoodOrder(last)
  BY <1>1 DEF PlacedOneByOne
<1>5. \A k, l \in 1..M : pieces[k] = pieces[l] => k = l
  BY DEF Listed
<1>6. PICK u : /\ Held!UndoAll(last, pieces) = u[1] /\ u[M + 1] = {last}
               /\ \A n \in 1..M : u[n] = Held!UndoPlacement(u[n + 1], pieces[n])
  <2>0. Len(pieces) \in Nat
    BY <1>1
  <2> HIDE DEF last
  <2>1. \E u : UndoneOneByOne(u, last, pieces)
    BY <2>0, UndoAllIs, Zenon
  <2> QED  BY <2>1 DEF UndoneOneByOne
<1> HIDE DEF M, last
<1> DEFINE Back(t, k) ==
             /\ t.page = h[k].page
             /\ DOMAIN t.shelf = Held!Pieces
             /\ \A l \in 1..k : t.shelf[pieces[l]] = last.shelf[pieces[l]]
           N == {j \in Nat : j <= M => \E t \in u[(M + 1) - j] : Back(t, M - j)}
<1>7. 0 \in N
  <2>1. (M + 1) - 0 = M + 1 /\ M - 0 = M /\ last \in u[M + 1]
    BY <1>1, <1>6
  <2>2. Back(last, M)
    BY <1>4 DEF InGoodOrder, IsShelf, last
  <2> HIDE DEF Back
  <2> QED  BY <2>1, <2>2
<1>8. ASSUME NEW j \in Nat, j \in N PROVE j + 1 \in N
  <2> DEFINE k == M - j
  <2>1. SUFFICES ASSUME j + 1 <= M
        PROVE  \E t \in u[k] : Back(t, k - 1)
    <3>1. (M + 1) - (j + 1) = k /\ M - (j + 1) = k - 1
      BY <1>1
    <3> HIDE DEF Back, k
    <3> QED  BY <3>1
  <2>2. (M + 1) - j = k + 1 /\ k \in 1..M /\ j <= M
    BY <1>1, <2>1
  <2>3. PICK t \in u[k + 1] : Back(t, k)
    <3> HIDE DEF Back
    <3> QED  BY <1>8, <2>2
  <2> HIDE DEF k
  <2> DEFINE p == pieces[k]
  <2>4. p \in Held!Pieces /\ t.shelf[p] = h[k].shelf[p] /\ t.page = h[k].page
    BY <1>1, <1>3, <2>2, <2>3
  <2>5. Takes(h[k - 1], h[k], p)
    BY <1>2, <2>2
  <2>6. /\ t.shelf[p].status = "placed" /\ ~ Held!UndoStale(t, p)
        /\ Held!RevertPlacement(t, p) = h[k - 1].page
    <3> HIDE DEF p, Back
    <3> QED  BY <2>4, <2>5 DEF Takes, Held!UndoStale, Held!RevertPlacement
  <2> DEFINE new == Held!Undone(t, p)
  <2>7. new \in u[k]
    <3>1. new \in Held!UndoPlacement(u[k + 1], p)
      <4> HIDE DEF p
      <4> QED  BY <2>3, <2>6, Undoing
    <3> QED  BY <1>6, <2>2, <3>1
  <2>8. new.page = h[k - 1].page /\ new.shelf = Held!BackOnShelf(t.shelf, p)
    BY <2>6 DEF Held!Undone
  <2>9. \A l \in 1..(k - 1) : l \in 1..k /\ l \in 1..M /\ l # k
    BY <1>1, <2>2
  <2>10. \A q \in Held!Pieces \ {p} : new.shelf[q] = t.shelf[q]
    BY <2>3, <2>8 DEF Held!BackOnShelf
  <2>11. DOMAIN new.shelf = Held!Pieces
    BY <2>3, <2>8 DEF Held!BackOnShelf
  <2>12. \A l \in 1..(k - 1) : new.shelf[pieces[l]] = last.shelf[pieces[l]]
    <3>1. \A l \in 1..(k - 1) : pieces[l] \in Held!Pieces \ {p}
      BY <1>1, <1>5, <2>2, <2>9
    <3>2. \A l \in 1..(k - 1) : t.shelf[pieces[l]] = last.shelf[pieces[l]]
      BY <2>3, <2>9
    <3> HIDE DEF new, p
    <3> QED  BY <2>10, <3>1, <3>2
  <2>13. Back(new, k - 1)
    BY <2>8, <2>11, <2>12
  <2> HIDE DEF Back, new
  <2> QED  BY <2>7, <2>13
<1>9. Nat \subseteq N
  <2> HIDE DEF N
  <2> QED  BY <1>7, <1>8, Induct
<1>10. PICK t \in u[(M + 1) - M] : Back(t, M - M)
  <2> HIDE DEF Back
  <2> QED  BY <1>1, <1>9
<1>11. (M + 1) - M = 1 /\ M - M = 0
  BY <1>1
<1>12. t \in u[1] /\ t.page = s.page
  BY <1>4, <1>10, <1>11
<1> QED  BY <1>6, <1>12 DEF M, last

LEMMA PlacingAllUndone ==
    ASSUME Held!Settings, NEW s, InGoodOrder(s), NEW i
    PROVE  \E t \in Held!UndoAll(Held!PlaceAll(s, i), Held!InOrder(Held!Placeable(s, i))) :
              t.page = s.page
<1> DEFINE pieces == Held!InOrder(Held!Placeable(s, i))
<1>1. PICK h : PlacedOneByOne(h, s, pieces) /\ Held!PlaceAll(s, i) = h[Len(pieces)]
  BY PlaceAllPlaces
<1>2. Listed(pieces, Held!Pieces)
  BY PlaceableListed
<1> HIDE DEF pieces
<1>3. \E t \in Held!UndoAll(h[Len(pieces)], pieces) : t.page = s.page
  BY <1>1, <1>2, AllUndone
<1> QED  BY <1>1, <1>3 DEF pieces

-----------------------------------------------------------------------------
(* The shelf stays in good order. *)

ShelfInv == InGoodOrder(Held!Read)

LEMMA OneUndone ==
    ASSUME NEW s, InGoodOrder(s), NEW p \in Held!Pieces,
           s.shelf[p].status = "placed", ~ Held!UndoStale(s, p)
    PROVE  InGoodOrder(Held!Undone(s, p))
<1> DEFINE id == s.shelf[p].at
           b == CHOOSE x \in Held!BlockIndex(s.page, id) : TRUE
           before == s.shelf[p].before
<1>1. IsPage(s.page, s.made) /\ IsShelf(s.shelf)
  BY DEF InGoodOrder
<1>2. id # 0 /\ s.shelf[p].after.id = id /\ (before = Held!NoBlock \/ before.id = id)
  BY <1>1 DEF IsShelf, Undoable
<1>3. Held!HeldBlock(s.page, id).id = id
  BY <1>2 DEF Held!UndoStale
<1>4. Held!BlockIndex(s.page, id) # {}
  BY <1>2, <1>3 DEF Held!HeldBlock, Held!NoBlock
<1>5. b \in Held!BlockIndex(s.page, id)
  BY <1>4
<1>6. Held!RevertPlacement(s, p) =
         IF before = Held!NoBlock THEN Held!RemoveAt(s.page, b) ELSE [s.page EXCEPT ![b] = before]
  BY DEF Held!RevertPlacement
<1> HIDE DEF b, id, before
<1>7. b \in DOMAIN s.page /\ s.page[b].id = id
  BY <1>5 DEF Held!BlockIndex
<1>8. IsPage(Held!RevertPlacement(s, p), s.made)
  <2>1. CASE before = Held!NoBlock
    BY <1>1, <1>6, <1>7, <2>1, Removing
  <2>2. CASE before # Held!NoBlock
    BY <1>1, <1>2, <1>6, <1>7, <2>2, Rewriting
  <2> QED  BY <2>1, <2>2
<1>9. IsShelf(Held!BackOnShelf(s.shelf, p))
  <2> DEFINE back == Held!WaitingPiece(s.shelf[p].block)
  <2>1. Undoable(back)
    BY DEF Undoable, Held!WaitingPiece, Held!Off
  <2>2. Held!BackOnShelf(s.shelf, p) = [s.shelf EXCEPT ![p] = back]
    BY DEF Held!BackOnShelf
  <2> HIDE DEF back
  <2> QED  BY <1>1, <2>1, <2>2 DEF IsShelf
<1> QED  BY <1>8, <1>9 DEF InGoodOrder, Held!Undone

LEMMA UndoneStay ==
    ASSUME NEW s, InGoodOrder(s), NEW pieces \in Seq(Held!Pieces)
    PROVE  \A t \in Held!UndoAll(s, pieces) : InGoodOrder(t)
<1> DEFINE M == Len(pieces)
<1>1. M \in Nat /\ \A n \in 1..M : pieces[n] \in Held!Pieces
  OBVIOUS
<1>2. PICK u : /\ Held!UndoAll(s, pieces) = u[1] /\ u[M + 1] = {s}
               /\ \A n \in 1..M : u[n] = Held!UndoPlacement(u[n + 1], pieces[n])
  <2>0. Len(pieces) \in Nat
    BY <1>1
  <2>1. \E u : UndoneOneByOne(u, s, pieces)
    BY <2>0, UndoAllIs, Zenon
  <2> QED  BY <2>1 DEF UndoneOneByOne
<1> HIDE DEF M
<1> DEFINE Good(n) == \A t \in u[n] : InGoodOrder(t)
           N == {j \in Nat : j <= M => Good((M + 1) - j)}
<1>3. 0 \in N
  BY <1>1, <1>2
<1>4. ASSUME NEW j \in Nat, j \in N PROVE j + 1 \in N
  <2> DEFINE n == M - j
  <2>1. SUFFICES ASSUME j + 1 <= M
        PROVE  Good(n)
    <3>1. (M + 1) - (j + 1) = n
      BY <1>1
    <3> HIDE DEF Good, n
    <3> QED  BY <3>1
  <2>2. (M + 1) - j = n + 1 /\ n \in 1..M /\ j <= M
    BY <1>1, <2>1
  <2>3. Good(n + 1)
    <3> HIDE DEF Good, n
    <3> QED  BY <1>4, <2>2
  <2> HIDE DEF n
  <2>4. SUFFICES ASSUME NEW t \in u[n] PROVE InGoodOrder(t)
    OBVIOUS
  <2>5. t \in Held!UndoPlacement(u[n + 1], pieces[n]) /\ pieces[n] \in Held!Pieces
    BY <1>1, <1>2, <2>2
  <2>6. PICK r \in u[n + 1] :
           /\ r.shelf[pieces[n]].status = "placed" /\ ~ Held!UndoStale(r, pieces[n])
           /\ t = Held!Undone(r, pieces[n])
    BY <2>5 DEF Held!UndoPlacement
  <2>7. InGoodOrder(r)
    BY <2>3
  <2> QED  BY <2>5, <2>6, <2>7, OneUndone
<1>5. Nat \subseteq N
  <2> HIDE DEF N
  <2> QED  BY <1>3, <1>4, Induct
<1>6. (M + 1) - M = 1 /\ M <= M
  BY <1>1
<1>7. Good(1)
  <2> HIDE DEF Good
  <2> QED  BY <1>1, <1>5, <1>6
<1> QED  BY <1>2, <1>7

LEMMA SweptInOrder ==
    ShelfInv => InGoodOrder(Held!Swept) /\ IsShelf(Held!SweepShelf(shelf)) /\ Held!Swept.page = page
<1> SUFFICES ASSUME ShelfInv
             PROVE  InGoodOrder(Held!Swept) /\ IsShelf(Held!SweepShelf(shelf)) /\ Held!Swept.page = page
  OBVIOUS
<1>1. IsPage(page, made) /\ IsShelf(shelf)
  BY DEF ShelfInv, InGoodOrder, Held!Read
<1>2. Undoable(Held!Off("gone", 0))
  BY DEF Undoable, Held!Off
<1>3. IsShelf(Held!SweepShelf(shelf))
  BY <1>1, <1>2 DEF IsShelf, Held!SweepShelf
<1> QED  BY <1>1, <1>3 DEF Held!Swept, InGoodOrder

LEMMA Written == ASSUME NEW s, InGoodOrder(s), Held!WritePage(s) PROVE ShelfInv'
BY DEF Held!WritePage, ShelfInv, Held!Read, InGoodOrder

LEMMA OnlyShelf ==
    ASSUME ShelfInv, UNCHANGED <<page, made>>, IsShelf(shelf') PROVE ShelfInv'
BY DEF ShelfInv, Held!Read, InGoodOrder

LEMMA OnlyPage ==
    ASSUME ShelfInv, UNCHANGED <<shelf, made>>, IsPage(page', made) PROVE ShelfInv'
BY DEF ShelfInv, Held!Read, InGoodOrder

LEMMA ShelfBegins == Held!SeedFromReadme => ShelfInv
<1> SUFFICES ASSUME Held!SeedFromReadme PROVE ShelfInv
  OBVIOUS
<1>1. Undoable(Held!WaitingPiece(0)) /\ Undoable(Held!Off("none", 0))
  BY DEF Undoable, Held!WaitingPiece, Held!Off
<1>2. IsShelf(shelf)
  BY <1>1 DEF Held!SeedFromReadme, IsShelf
<1>3. IsPage(page, made)
  <2> DEFINE blk == [id |-> 1, custom |-> FALSE, elements |-> <<Held!Element("text", <<"typed">>)>>]
  <2>1. page = <<blk>> /\ made = 1 /\ blk.id = 1
    BY DEF Held!SeedFromReadme
  <2> HIDE DEF blk
  <2>2. page \in Seq({blk}) /\ Len(page) = 1 /\ page[1] = blk
    BY <2>1
  <2>3. \A b \in DOMAIN page : b = 1
    BY <2>2
  <2>4. 1 \in 1..1 /\ 1 \in Nat
    OBVIOUS
  <2>5. Sequence(page)
    BY <2>2 DEF Sequence
  <2> QED  BY <2>1, <2>2, <2>3, <2>4, <2>5 DEF IsPage
<1> QED  BY <1>2, <1>3 DEF ShelfInv, Held!Read, InGoodOrder

LEMMA PiecePlaced == ASSUME ShelfInv, NEW p \in Held!Pieces, Held!PlaceShelfPiece(p) PROVE ShelfInv'
<1>1. InGoodOrder(Held!Swept) /\ Held!Swept.page = page
  BY SweptInOrder
<1>2. \/ \E position \in 0..Len(page) : Held!WritePage(Held!PlaceSectionAt(Held!Swept, p, position))
      \/ \E b \in DOMAIN page : \E e : Held!WritePage(Held!PlaceSectionIn(Held!Swept, p, b, e))
      \/ \E m : Held!WritePage(Held!PlacePicture(Held!Swept, p, m))
  BY DEF Held!PlaceShelfPiece
<1>3. ASSUME NEW position \in 0..Len(page), Held!WritePage(Held!PlaceSectionAt(Held!Swept, p, position))
      PROVE  ShelfInv'
  <2>1. InGoodOrder(Held!PlaceSectionAt(Held!Swept, p, position))
    BY <1>1, SectionAtPosition
  <2> QED  BY <1>3, <2>1, Written
<1>4. ASSUME NEW b \in DOMAIN page, NEW e, Held!WritePage(Held!PlaceSectionIn(Held!Swept, p, b, e))
      PROVE  ShelfInv'
  <2>1. Takes(Held!Swept, Held!PlaceSectionIn(Held!Swept, p, b, e), p)
    BY <1>1, SectionInElement
  <2> QED  BY <1>4, <2>1, Written DEF Takes
<1>5. ASSUME NEW m, Held!WritePage(Held!PlacePicture(Held!Swept, p, m)) PROVE ShelfInv'
  <2>1. Takes(Held!Swept, Held!PlacePicture(Held!Swept, p, m), p)
    BY <1>1, Picture
  <2> QED  BY <1>5, <2>1, Written DEF Takes
<1> QED  BY <1>2, <1>3, <1>4, <1>5

LEMMA ImportPlaced ==
    ASSUME Held!Settings, ShelfInv, NEW i, Held!PlaceShelfImport(i) PROVE ShelfInv'
<1> DEFINE pieces == Held!InOrder(Held!Placeable(Held!Swept, i))
<1>1. InGoodOrder(Held!Swept) /\ Held!WritePage(Held!PlaceAll(Held!Swept, i))
  BY SweptInOrder DEF Held!PlaceShelfImport
<1>2. PICK h : /\ PlacedOneByOne(h, Held!Swept, pieces)
               /\ Held!PlaceAll(Held!Swept, i) = h[Len(pieces)]
  BY <1>1, PlaceAllPlaces
<1>3. Len(pieces) \in Nat
  BY PlaceableListed DEF Listed
<1> HIDE DEF pieces
<1>4. InGoodOrder(h[Len(pieces)])
  BY <1>2, <1>3 DEF PlacedOneByOne
<1> QED  BY <1>1, <1>2, <1>4, Written

LEMMA PlacementsUndone ==
    ASSUME ShelfInv, NEW pieces \in Seq(Held!Pieces), Held!UndoShelfPlacements(pieces)
    PROVE  ShelfInv'
<1>1. PICK undone \in Held!UndoAll(Held!Swept, pieces) : Held!WritePage(undone)
  BY DEF Held!UndoShelfPlacements
<1>2. InGoodOrder(undone)
  BY SweptInOrder, UndoneStay
<1> QED  BY <1>1, <1>2, Written

LEMMA MarkdownAdded == ASSUME ShelfInv, NEW i, Held!AddMarkdown(i) PROVE ShelfInv'
<1>1. IsShelf(Held!SweepShelf(shelf)) /\ Undoable(Held!WaitingPiece(0))
  BY SweptInOrder DEF Undoable, Held!WaitingPiece, Held!Off
<1>2. IsShelf(shelf')
  BY <1>1 DEF Held!AddMarkdown, IsShelf
<1> QED  BY <1>2, OnlyShelf DEF Held!AddMarkdown

LEMMA LettingGo == ASSUME ShelfInv, NEW pieces, Held!LetGo(pieces) PROVE ShelfInv'
<1>1. IsShelf(shelf) /\ Undoable(Held!Off("gone", 0))
  BY DEF Undoable, Held!Off, ShelfInv, InGoodOrder, Held!Read
<1> DEFINE held == [p \in Held!Pieces |-> IF p \in pieces THEN Held!Off("gone", 0) ELSE shelf[p]]
<1>2. \A p \in Held!Pieces : Undoable(held[p])
  BY <1>1 DEF IsShelf
<1>3. shelf' = Held!SweepShelf(held)
  BY DEF Held!LetGo
<1> HIDE DEF held
<1>4. IsShelf(shelf')
  BY <1>1, <1>2, <1>3 DEF IsShelf, Held!SweepShelf
<1> QED  BY <1>4, OnlyShelf DEF Held!LetGo

LEMMA AnHourLater == ASSUME ShelfInv, Held!HourPasses PROVE ShelfInv'
<1> DEFINE aged(p) ==
             Held!Placed(shelf[p].block, shelf[p].at, shelf[p].before, shelf[p].after, TRUE)
<1>1. \A p \in Held!Pieces : Undoable(shelf[p])
  BY DEF ShelfInv, InGoodOrder, Held!Read, IsShelf
<1>2. ASSUME NEW p \in Held!Pieces, shelf[p].status = "placed" PROVE Undoable(aged(p))
  BY <1>1, <1>2 DEF Undoable, Held!Placed
<1>3. shelf' = [p \in Held!Pieces |-> IF shelf[p].status = "placed" THEN aged(p) ELSE shelf[p]]
  BY DEF Held!HourPasses
<1> HIDE DEF aged
<1>4. IsShelf(shelf')
  BY <1>1, <1>2, <1>3 DEF IsShelf
<1> QED  BY <1>4, OnlyShelf DEF Held!HourPasses

LEMMA PageEdited == ASSUME ShelfInv, Held!EditPage PROVE ShelfInv'
<1>1. IsPage(page, made)
  BY DEF ShelfInv, InGoodOrder, Held!Read
<1>2. PICK b \in DOMAIN page :
         \/ \E elements : Held!Rewritten(b, elements)
         \/ Held!Edited(Held!RemoveAt(page, b))
         \/ \E c \in DOMAIN page : Held!Edited([page EXCEPT ![b] = page[c], ![c] = page[b]])
  BY DEF Held!EditPage
<1>3. ASSUME NEW elements, Held!Rewritten(b, elements) PROVE ShelfInv'
  <2> DEFINE blk == Held!WithElements(page[b], elements)
  <2>1. blk.id = page[b].id
    BY DEF Held!WithElements
  <2>2. page' = [page EXCEPT ![b] = blk] /\ UNCHANGED <<shelf, made>>
    BY <1>3 DEF Held!Rewritten, Held!Edited
  <2> HIDE DEF blk
  <2>3. IsPage(page', made)
    BY <1>1, <2>1, <2>2, Rewriting
  <2> QED  BY <2>2, <2>3, OnlyPage
<1>4. ASSUME Held!Edited(Held!RemoveAt(page, b)) PROVE ShelfInv'
  <2>1. IsPage(Held!RemoveAt(page, b), made)
    BY <1>1, Removing
  <2> QED  BY <1>4, <2>1, OnlyPage DEF Held!Edited
<1>5. ASSUME NEW c \in DOMAIN page, Held!Edited([page EXCEPT ![b] = page[c], ![c] = page[b]])
      PROVE  ShelfInv'
  <2>1. IsPage([page EXCEPT ![b] = page[c], ![c] = page[b]], made)
    BY <1>1, Swapping
  <2> QED  BY <1>5, <2>1, OnlyPage DEF Held!Edited
<1> QED  BY <1>2, <1>3, <1>4, <1>5

LEMMA ShelfNext == ASSUME Held!Settings, ShelfInv, [Held!Next]_Held!vars PROVE ShelfInv'
<1>1. CASE UNCHANGED Held!vars
  BY <1>1 DEF Held!vars, ShelfInv, Held!Read
<1>2. CASE \E p \in Held!Pieces : Held!PlaceShelfPiece(p)
  BY <1>2, PiecePlaced
<1>3. CASE \E p \in Held!Pieces : Held!UndoShelfPlacement(p)
  <2>1. PICK p \in Held!Pieces : Held!UndoShelfPlacements(<<p>>)
    BY <1>3 DEF Held!UndoShelfPlacement
  <2>2. <<p>> \in Seq(Held!Pieces)
    OBVIOUS
  <2> QED  BY <2>1, <2>2, PlacementsUndone
<1>4. CASE \E p \in Held!Pieces : Held!LetGoOfShelfPiece(p)
  BY <1>4, LettingGo DEF Held!LetGoOfShelfPiece
<1>5. CASE \E i \in Held!Imports : Held!AddMarkdown(i)
  BY <1>5, MarkdownAdded
<1>6. CASE \E i \in Held!Imports : Held!PlaceShelfImport(i)
  BY <1>6, ImportPlaced
<1>7. CASE \E i \in Held!Imports : Held!LetGoOfShelfImport(i)
  BY <1>7, LettingGo DEF Held!LetGoOfShelfImport
<1>8. CASE \E pieces \in Held!Batches : Held!UndoShelfPlacements(pieces)
  <2>1. PICK pieces \in Held!Batches : Held!UndoShelfPlacements(pieces)
    BY <1>8
  <2>2. pieces \in Seq(Held!Pieces)
    <3>1. CASE \E p, q \in Held!Pieces : pieces = <<p, q>>
      BY <3>1
    <3>2. CASE \E i \in Held!Imports :
                  pieces = Held!InOrder({p \in Held!Pieces : Piece[p].import = i})
      <4>1. PICK i \in Held!Imports :
                  pieces = Held!InOrder({p \in Held!Pieces : Piece[p].import = i})
        BY <3>2
      <4> DEFINE mine == {p \in Held!Pieces : Piece[p].import = i}
      <4>2. mine \subseteq Held!Pieces
        OBVIOUS
      <4> HIDE DEF mine
      <4>3. Listed(Held!InOrder(mine), mine)
        BY <4>2, InOrderLists
      <4> QED  BY <4>1, <4>2, <4>3 DEF Listed, mine
    <3> QED  BY <2>1, <3>1, <3>2 DEF Held!Batches
  <2> QED  BY <2>1, <2>2, PlacementsUndone
<1>9. CASE \E m \in Copies : Held!UploadCopy(m)
  BY <1>9 DEF Held!UploadCopy, ShelfInv, Held!Read
<1>10. CASE Held!EditPage
  BY <1>10, PageEdited
<1>11. CASE Held!RecordVersion
  BY <1>11 DEF Held!RecordVersion, ShelfInv, Held!Read
<1>12. CASE Held!HourPasses
  BY <1>12, AnHourLater
<1> QED  BY <1>1, <1>2, <1>3, <1>4, <1>5, <1>6, <1>7, <1>8, <1>9, <1>10, <1>11, <1>12 DEF Held!Next

LEMMA ShelfAlways == ASSUME Held!Settings PROVE Held!Spec => []ShelfInv
<1>1. ShelfInv /\ [Held!Next]_Held!vars => ShelfInv'
  BY ShelfNext
<1> QED  BY <1>1, ShelfBegins, PTL DEF Held!Spec

\* Place all of an import can be undone piece by piece, the last first, and leaves the page
\* as it was: every placement finds its block as it left it, wherever the pictures went.
THEOREM AllPlacedCanBeUndone ==
    ASSUME Held!Settings PROVE Held!Spec => []PlacingAllCanBeUndone
<1>1. ShelfInv => PlacingAllCanBeUndone
  <2>1. Held!Read.page = page
    BY DEF Held!Read
  <2> QED  BY <2>1, PlacingAllUndone
           DEF PlacingAllCanBeUndone, Held!PlacingAllCanBeUndone, ShelfInv
<1> QED  BY <1>1, ShelfAlways, PTL
=============================================================================
