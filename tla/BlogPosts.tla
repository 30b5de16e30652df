------------------------------- MODULE BlogPosts -------------------------------
(***************************************************************************)
(* The life of a blog post: api/internal/blog (post, publish, schedule,    *)
(* revision, archive, writer).                                             *)
(*                                                                         *)
(* Every operation but SavePost reads and writes the post in one           *)
(* transaction under the lock on its row (lockPost), so it is one action;  *)
(* a call at a version that has moved on changes nothing and is left out.  *)
(* SavePost checks what it read before its transaction.  The scheduler     *)
(* leases a due schedule in one statement and publishes it in another      *)
(* transaction.  An admin may call everything, so no action asks who       *)
(* calls; the posts are those of one writer, whose switch may be off.      *)
(***************************************************************************)
EXTENDS Integers, Sequences

CONSTANTS
    Posts,             \* rows of posts ever inserted
    Slugs,             \* addresses
    NoSlug,            \* a draft without an address
    Free,              \* an address that was never published under
    Retired,           \* an address of a post that was removed
    Saves,             \* bound: saves under way
    Workers,           \* schedulers: RunScheduler of one process each
    ScheduleAttempts,  \* blog.ScheduleAttempts
    ScheduleLease,     \* blog.ScheduleLease in ticks
    RecoveryDays,      \* blog.RecoveryDays in ticks
    MaxDue,            \* bound: ticks to a scheduled publication
    MaxVersion,        \* bound: versions of the drafted changes
    MaxRevisions,      \* bound: editions kept of a post
    MaxTries,          \* bound: tries to publish a schedule, the last one no failure
    MaxTokens,         \* bound: leases that are told apart
    MaxDecisions,      \* bound: deletions, unpublishings, replacements, switches
    MaxTrouble         \* bound: publications that fail half way

ASSUME BlogAssumption ==
    /\ Posts # {} /\ NoSlug \notin Slugs
    /\ {Free, Retired} \cap Posts = {} /\ Free # Retired
    /\ \A n \in {ScheduleAttempts, ScheduleLease, RecoveryDays, MaxDue, MaxVersion} :
          n \in Nat \ {0}
    /\ \A n \in {MaxRevisions, MaxTries, MaxTokens, MaxDecisions, MaxTrouble} : n \in Nat
    /\ MaxTries > ScheduleAttempts

VARIABLES
    post,      \* posts
    kept,      \* post_revisions: the editions kept of each post, by number
    schedule,  \* post_schedules: the latest of each post
    reserved,  \* post_slugs: the post each address was published under
    announced, \* announcements queued for each post
    writer,    \* blog_writers: whether the author's switch is on
    save,      \* saves under way
    worker,    \* schedulers: the lease each holds
    spent      \* decisions and trouble so far

vars == <<post, kept, schedule, reserved, announced, writer, save, worker, spent>>

Waiting == {"pending", "publishing"}
AnyPost == CHOOSE p \in Posts : TRUE

\* words is the text of the drafted changes, 0 for an empty body.
Absent == [status |-> "none", slug |-> NoSlug, words |-> 0, version |-> 0,
           published |-> FALSE, public |-> 0, deleted |-> FALSE, left |-> 0]
Unscheduled == [state |-> "none", revision |-> 0, due |-> 0, attempts |-> 0,
                lease |-> 0, discord |-> FALSE, token |-> 0]
NoSave == [post |-> AnyPost, version |-> 0, slug |-> NoSlug, words |-> 0]
NoLease == [held |-> FALSE, post |-> AnyPost, token |-> 0, revision |-> 0,
            attempts |-> 0, discord |-> FALSE]

Init ==
    /\ post = [p \in Posts |-> Absent]
    /\ kept = [p \in Posts |-> <<>>]
    /\ schedule = [p \in Posts |-> Unscheduled]
    /\ reserved = [s \in Slugs |-> Free]
    /\ announced = [p \in Posts |-> 0]
    /\ writer = TRUE
    /\ save = [r \in Saves |-> NoSave]
    /\ worker = [w \in Workers |-> NoLease]
    /\ spent = [decisions |-> 0, trouble |-> 0]

Exists(p) == post[p].status \notin {"none", "removed"}

\* lockPost.
Lockable(p) == Exists(p) /\ ~ post[p].deleted

\* addressTaken, for post p: no row has the empty address.
AddressTaken(p, s) ==
    /\ s # NoSlug
    /\ \/ \E q \in Posts \ {p} : Exists(q) /\ post[q].slug = s
       \/ reserved[s] \notin {Free, p}

\* The unique index on posts.slug.
AddressUnique(p, s) == s = NoSlug \/ \A q \in Posts \ {p} : Exists(q) => post[q].slug # s

\* readyToPublish.
Ready(p) == post[p].words > 0 /\ post[p].slug # NoSlug

Edition(p) == [slug |-> post[p].slug, words |-> post[p].words]

\* captureRevision.
Capture(p) == /\ Len(kept[p]) < MaxRevisions
              /\ kept' = [kept EXCEPT ![p] = Append(@, Edition(p))]

\* reserveAddress: on conflict do nothing.
Reserve(p, s) == IF reserved[s] = Free THEN [reserved EXCEPT ![s] = p] ELSE reserved

Decision == /\ spent.decisions < MaxDecisions
            /\ spent' = [spent EXCEPT !.decisions = @ + 1]

------------------------------------------------------------------------------
(* Writing.                                                                 *)

\* freeSlug picks an address nobody holds, or none.
CreatePost(p) ==
    /\ post[p].status = "none" /\ writer
    /\ \E s \in {t \in Slugs : ~ AddressTaken(p, t)} \cup {NoSlug} :
          post' = [post EXCEPT ![p] = [Absent EXCEPT !.status = "draft", !.slug = s,
                                                     !.version = 1]]
    /\ UNCHANGED <<kept, schedule, reserved, announced, writer, save, worker, spent>>

\* SavePost, ImportPost: what is read and checked first.  Only a published
\* post keeps its address.
CheckSave(r, p, s) ==
    /\ save[r].version = 0
    /\ Exists(p) /\ ~ post[p].deleted
    /\ post[p].version < MaxVersion
    /\ post[p].published => s = post[p].slug
    /\ ~ AddressTaken(p, s)
    /\ save' = [save EXCEPT ![r] = [post |-> p, version |-> post[p].version,
                                    slug |-> s, words |-> post[p].words]]
    /\ UNCHANGED <<post, kept, schedule, reserved, announced, writer, worker, spent>>

\* Mutant: a save leaves the version as it is.
SavedSameVersionBug(r) ==
    LET p == save[r].post IN
    [post EXCEPT ![p] = [post[p] EXCEPT !.slug = save[r].slug, !.words = post[p].version]]

Saved(r) ==
    LET p == save[r].post IN
    [post EXCEPT ![p] = [post[p] EXCEPT !.slug = save[r].slug, !.version = @ + 1,
                                  !.words = post[p].version]]

\* The update; it fails on the unique index, and on posts_published_check for
\* a published post without an address.
SavePost(r) ==
    LET p == save[r].post IN
    /\ save[r].version > 0
    /\ save' = [save EXCEPT ![r] = NoSave]
    /\ IF /\ Exists(p) /\ post[p].version = save[r].version
          /\ AddressUnique(p, save[r].slug)
          /\ post[p].published => save[r].slug # NoSlug
       THEN post' = Saved(r)
       ELSE UNCHANGED post
    /\ UNCHANGED <<kept, schedule, reserved, announced, writer, worker, spent>>

Checkpoint(p) ==
    /\ Lockable(p)
    /\ Capture(p)
    /\ UNCHANGED <<post, schedule, reserved, announced, writer, save, worker, spent>>

\* restoredAddress.
RestoredAddress(p, n) ==
    LET s == kept[p][n].slug IN
    IF post[p].published \/ s = NoSlug \/ AddressTaken(p, s) THEN post[p].slug ELSE s

RestoreRevision(p, n) ==
    /\ Lockable(p) /\ n \in DOMAIN kept[p]
    /\ post[p].version < MaxVersion
    /\ post' = [post EXCEPT ![p] = [post[p] EXCEPT !.words = kept[p][n].words,
                                             !.slug = RestoredAddress(p, n),
                                             !.version = @ + 1]]
    /\ UNCHANGED <<kept, schedule, reserved, announced, writer, save, worker, spent>>

------------------------------------------------------------------------------
(* Publishing.                                                              *)

Settle(p, state) ==
    [schedule EXCEPT ![p] = [schedule[p] EXCEPT !.state = state, !.lease = 0, !.token = 0]]

\* overtakeSchedule, lockWaitingSchedule: an operation is refused while a
\* scheduler publishes, and cancels a schedule that waits.
Overtakable(p) == schedule[p].state # "publishing"
Overtaken(p) ==
    IF schedule[p].state = "pending" THEN Settle(p, "cancelled") ELSE schedule

\* makePublic, except for the announcement.
Public(p, n, s) ==
    [post EXCEPT ![p] = [post[p] EXCEPT !.status = "published", !.public = n, !.published = TRUE,
                                  !.slug = IF post[p].published THEN @ ELSE s]]

\* makePublic: only a first publication is announced.
Announced(p, discord) ==
    IF discord /\ ~ post[p].published
    THEN [announced EXCEPT ![p] = @ + 1] ELSE announced

Reserves(p, s) == IF post[p].published THEN reserved ELSE Reserve(p, s)

PublishPost(p) ==
    /\ Lockable(p) /\ post[p].status # "unpublished"
    /\ Ready(p) /\ Overtakable(p)
    /\ Capture(p)
    /\ post' = Public(p, Len(kept[p]) + 1, post[p].slug)
    /\ reserved' = Reserves(p, post[p].slug)
    /\ \E discord \in BOOLEAN : announced' = Announced(p, discord)
    /\ schedule' = Overtaken(p)
    /\ UNCHANGED <<writer, save, worker, spent>>

\* Mutant: a schedule that waits is left alone.
UnpublishPostKeepsScheduleBug(p) ==
    /\ Lockable(p) /\ post[p].status = "published" /\ Overtakable(p)
    /\ Decision
    /\ post' = [post EXCEPT ![p].status = "unpublished"]
    /\ UNCHANGED <<schedule, kept, reserved, announced, writer, save, worker>>

UnpublishPost(p) ==
    /\ Lockable(p) /\ post[p].status = "published" /\ Overtakable(p)
    /\ Decision
    /\ post' = [post EXCEPT ![p].status = "unpublished"]
    /\ schedule' = Overtaken(p)
    /\ UNCHANGED <<kept, reserved, announced, writer, save, worker>>

RepublishPost(p, n) ==
    /\ Lockable(p) /\ post[p].status = "unpublished" /\ n \in DOMAIN kept[p]
    /\ post' = [post EXCEPT ![p] = [post[p] EXCEPT !.status = "published", !.public = n]]
    /\ UNCHANGED <<kept, schedule, reserved, announced, writer, save, worker, spent>>

\* An admin only.
CorrectAddress(p, s) ==
    /\ Lockable(p) /\ post[p].status = "published"
    /\ s # post[p].slug /\ ~ AddressTaken(p, s)
    /\ Decision
    /\ post' = [post EXCEPT ![p].slug = s]
    /\ reserved' = Reserve(p, s)
    /\ UNCHANGED <<kept, schedule, announced, writer, save, worker>>

DeletePost(p) ==
    /\ Lockable(p) /\ Overtakable(p)
    /\ Decision
    /\ post' = [post EXCEPT ![p] = [post[p] EXCEPT !.deleted = TRUE, !.left = RecoveryDays]]
    /\ schedule' = Overtaken(p)
    /\ UNCHANGED <<kept, reserved, announced, writer, save, worker>>

RecoverPost(p) ==
    /\ Exists(p) /\ post[p].deleted /\ post[p].left > 0
    /\ post' = [post EXCEPT ![p].deleted = FALSE]
    /\ UNCHANGED <<kept, schedule, reserved, announced, writer, save, worker, spent>>

\* RemoveExpiredPosts, removePost, retireAddresses; the foreign keys take the
\* editions and schedules along and leave the addresses.
RemovePost(p) ==
    /\ Exists(p) /\ post[p].deleted /\ post[p].left = 0
    /\ post' = [post EXCEPT ![p] = [Absent EXCEPT !.status = "removed"]]
    /\ kept' = [kept EXCEPT ![p] = <<>>]
    /\ schedule' = [schedule EXCEPT ![p] = Unscheduled]
    /\ reserved' = [s \in Slugs |-> IF reserved[s] = p THEN Retired ELSE reserved[s]]
    /\ UNCHANGED <<announced, writer, save, worker, spent>>

------------------------------------------------------------------------------
(* Schedules.                                                               *)

SchedulePost(p, due, discord) ==
    /\ Lockable(p) /\ post[p].status # "unpublished"
    /\ Ready(p) /\ schedule[p].state \notin Waiting
    /\ Capture(p)
    /\ schedule' = [schedule EXCEPT ![p] =
          [Unscheduled EXCEPT !.state = "pending", !.revision = Len(kept[p]) + 1,
                              !.due = due, !.discord = discord]]
    /\ UNCHANGED <<post, reserved, announced, writer, save, worker, spent>>

ReplaceSchedule(p, n, due, discord) ==
    /\ Lockable(p) /\ schedule[p].state = "pending" /\ n \in DOMAIN kept[p]
    /\ Decision
    /\ schedule' = [schedule EXCEPT ![p] =
          [Unscheduled EXCEPT !.state = "pending", !.revision = n, !.due = due,
                              !.discord = discord]]
    /\ UNCHANGED <<post, kept, reserved, announced, writer, save, worker>>

CancelSchedule(p) ==
    /\ Lockable(p) /\ schedule[p].state = "pending"
    /\ schedule' = Settle(p, "cancelled")
    /\ UNCHANGED <<post, kept, reserved, announced, writer, save, worker, spent>>

SwitchWriterOn ==
    /\ ~ writer /\ Decision
    /\ writer' = TRUE
    /\ UNCHANGED <<post, kept, schedule, reserved, announced, save, worker>>

\* stopSchedulesBy takes a schedule from a scheduler that publishes it too.
SwitchWriterOff ==
    /\ writer /\ Decision
    /\ writer' = FALSE
    /\ schedule' = [p \in Posts |-> IF schedule[p].state \in Waiting
                                    THEN Settle(p, "stopped")[p] ELSE schedule[p]]
    /\ UNCHANGED <<post, kept, reserved, announced, save, worker>>

Leasable(p) ==
    /\ schedule[p].due = 0
    /\ \/ schedule[p].state = "pending"
       \/ schedule[p].state = "publishing" /\ schedule[p].lease = 0

\* leaseDueSchedule.  The loop reads the time once, so the lease may be
\* shorter by what its earlier schedules took.  A token is a fresh uuid: here
\* one that no schedule and no scheduler holds.
Tokens == {schedule[p].token : p \in Posts} \cup {worker[w].token : w \in Workers}
Fresh == CHOOSE t \in 1..MaxTokens : t \notin Tokens

LeaseDueSchedule(w, p) ==
    /\ ~ worker[w].held /\ Leasable(p)
    /\ schedule[p].attempts < MaxTries /\ ~ (1..MaxTokens \subseteq Tokens)
    /\ \E lease \in 0..ScheduleLease :
          schedule' = [schedule EXCEPT ![p] =
             [schedule[p] EXCEPT !.state = "publishing", !.attempts = @ + 1,
                       !.lease = lease, !.token = Fresh]]
    /\ worker' = [worker EXCEPT ![w] =
          [held |-> TRUE, post |-> p, token |-> Fresh, revision |-> schedule[p].revision,
           attempts |-> schedule[p].attempts + 1, discord |-> schedule[p].discord]]
    /\ UNCHANGED <<post, kept, reserved, announced, writer, save, spent>>

\* Mutant: the lease is not looked at again.
HeldByAnyAttemptBug(w) == schedule[worker[w].post].state \in Waiting

HeldByThisAttempt(w) ==
    LET p == worker[w].post IN
    schedule[p].state = "publishing" /\ schedule[p].token = worker[w].token

\* refusesLeased.
Refuses(w) ==
    LET p == worker[w].post
        s == kept[p][worker[w].revision].slug IN
    \/ worker[w].attempts > ScheduleAttempts
    \/ ~ writer
    \/ post[p].deleted
    \/ post[p].status = "unpublished"
    \/ ~ post[p].published /\ AddressTaken(p, s)

\* posts_slug_check: a first publication needs an address.
Possible(p, s) == post[p].published \/ s # NoSlug

\* publishLeased, by a scheduler that still holds the schedule.
PublishLeased(w) ==
    LET p == worker[w].post
        n == worker[w].revision IN
    /\ worker[w].held /\ Exists(p) /\ HeldByThisAttempt(w)
    /\ worker' = [worker EXCEPT ![w] = NoLease]
    /\ CASE Refuses(w) ->
            /\ schedule' = Settle(p, "stopped")
            /\ UNCHANGED <<post, reserved, announced>>
         [] ~ Refuses(w) /\ ~ Possible(p, kept[p][n].slug) ->
            UNCHANGED <<schedule, post, reserved, announced>>
         [] OTHER ->
            /\ post' = Public(p, n, kept[p][n].slug)
            /\ reserved' = Reserves(p, kept[p][n].slug)
            /\ announced' = Announced(p, worker[w].discord)
            /\ schedule' = Settle(p, "published")
    /\ UNCHANGED <<kept, writer, save, spent>>

\* Its lease went to another, or the schedule or the post is no more.
LeaseLost(w) ==
    /\ worker[w].held /\ ~ (Exists(worker[w].post) /\ HeldByThisAttempt(w))
    /\ worker' = [worker EXCEPT ![w] = NoLease]
    /\ UNCHANGED <<post, kept, schedule, reserved, announced, writer, save, spent>>

\* The transaction fails, or the process ends: the lease stays until it runs
\* out.
PublishFails(w) ==
    /\ worker[w].held /\ worker[w].attempts < MaxTries
    /\ spent.trouble < MaxTrouble
    /\ spent' = [spent EXCEPT !.trouble = @ + 1]
    /\ worker' = [worker EXCEPT ![w] = NoLease]
    /\ UNCHANGED <<post, kept, schedule, reserved, announced, writer, save>>

Less(n) == IF n > 0 THEN n - 1 ELSE 0

Tick ==
    /\ schedule' = [p \in Posts |-> [schedule[p] EXCEPT !.due = Less(@), !.lease = Less(@)]]
    /\ post' = [p \in Posts |-> IF post[p].deleted THEN [post[p] EXCEPT !.left = Less(@)]
                                ELSE post[p]]
    /\ UNCHANGED <<kept, reserved, announced, writer, save, worker, spent>>

------------------------------------------------------------------------------

Writing(p) ==
    \/ CreatePost(p) \/ Checkpoint(p)
    \/ \E r \in Saves, s \in Slugs \cup {NoSlug} : CheckSave(r, p, s)
    \/ \E n \in 1..MaxRevisions : RestoreRevision(p, n)

Publishing(p) ==
    \/ PublishPost(p) \/ UnpublishPost(p) \/ DeletePost(p) \/ RecoverPost(p)
    \/ \E n \in 1..MaxRevisions : RepublishPost(p, n)
    \/ \E s \in Slugs : CorrectAddress(p, s)

Scheduling(p) ==
    \/ CancelSchedule(p)
    \/ \E due \in 1..MaxDue, discord \in BOOLEAN :
          SchedulePost(p, due, discord)
          \/ \E n \in 1..MaxRevisions : ReplaceSchedule(p, n, due, discord)

Works(w) == (\E p \in Posts : LeaseDueSchedule(w, p)) \/ PublishLeased(w) \/ LeaseLost(w)

Next ==
    \/ \E p \in Posts : Writing(p) \/ Publishing(p) \/ Scheduling(p) \/ RemovePost(p)
    \/ \E r \in Saves : SavePost(r)
    \/ \E w \in Workers : Works(w) \/ PublishFails(w)
    \/ SwitchWriterOn \/ SwitchWriterOff \/ Tick

Spec == Init /\ [][Next]_vars

------------------------------------------------------------------------------
Post == [status : {"none", "draft", "published", "unpublished", "removed"},
         slug : Slugs \cup {NoSlug}, words : 0..MaxVersion, version : 0..MaxVersion,
         published : BOOLEAN, public : 0..MaxRevisions, deleted : BOOLEAN,
         left : 0..RecoveryDays]
Schedule == [state : {"none", "published", "cancelled", "stopped"} \cup Waiting,
             revision : 0..MaxRevisions, due : 0..MaxDue, attempts : 0..MaxTries,
             lease : 0..ScheduleLease, discord : BOOLEAN, token : Nat]

\* Every variable keeps its type.
TypeOK ==
    /\ post \in [Posts -> Post]
    /\ kept \in [Posts -> Seq([slug : Slugs \cup {NoSlug}, words : 0..MaxVersion])]
    /\ schedule \in [Posts -> Schedule]
    /\ reserved \in [Slugs -> Posts \cup {Free, Retired}]
    /\ announced \in [Posts -> Nat]
    /\ writer \in BOOLEAN
    /\ save \in [Saves -> [post : Posts, version : 0..MaxVersion,
                           slug : Slugs \cup {NoSlug}, words : 0..MaxVersion]]
    /\ worker \in [Workers -> [held : BOOLEAN, post : Posts, token : Nat,
                               revision : 0..MaxRevisions, attempts : 0..MaxTries,
                               discord : BOOLEAN]]
    /\ spent \in [decisions : 0..MaxDecisions, trouble : 0..MaxTrouble]

\* No edition waits to go live for a post that left public view or was deleted
\* (overtakeSchedule; TestWithdrawalStopsAnEditionThatWasWaitingToGoLive,
\* TestDeletingAPostStopsTheEditionItHadWaiting): what refusesLeased asks of
\* them is always answered before.
WaitingCanGoLive ==
    \A p \in Posts :
        schedule[p].state \in Waiting =>
            /\ Lockable(p) /\ post[p].status # "unpublished"
            /\ schedule[p].revision \in DOMAIN kept[p]

\* A scheduler makes public the edition the schedule names at that moment, and
\* each schedule once: a scheduler that outlived its lease publishes nothing
\* (heldByThisAttempt; TestASchedulePublishesTheEditionItNamedAndNotALaterOne).
PublishesWhatIsScheduled ==
    [][\A w \in Workers :
          LET p == worker[w].post IN
          (worker[w].held /\ ~ worker'[w].held /\ post'[p] # post[p])
              => /\ schedule[p].state = "publishing"
                 /\ schedule[p].token = worker[w].token
                 /\ post'[p].public = schedule[p].revision
                 /\ schedule'[p].state = "published"]_vars

\* A post is announced once, however often and by whomever it is published
\* (TestAFirstPublicationPostsToTheBlogsDiscordChannelOnce).
AnnouncedOnce == \A p \in Posts : announced[p] <= 1

\* A save overwrites only the text it was written against
\* (TestAStaleSaveIsRefusedAndLeavesTheNewerDraftedChanges).
NoSaveIsLost ==
    [][\A r \in Saves :
          LET p == save[r].post IN
          (save[r].version > 0 /\ save'[r].version = 0 /\ post'[p] # post[p])
              => post[p].words = save[r].words]_vars
==============================================================================
