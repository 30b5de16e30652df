------------------------------- MODULE Editions -------------------------------
(***************************************************************************)
(* What readers are shown of a blog post: its page, its pictures, its      *)
(* byline and what its addresses answer (blog/post, publish, revision,     *)
(* archive).                                                               *)
(*                                                                         *)
(* BlogPosts has several posts, their versions and the schedulers' leases; *)
(* this module has one post and looks at what each step does to its        *)
(* editions.  A picture belongs to the post it was uploaded for, and rows  *)
(* of uses keep it from the cleanup: those of the drafted changes and      *)
(* those of each edition kept.  The text is always ready to publish, and a *)
(* scheduled publication is one step.                                      *)
(***************************************************************************)
EXTENDS Naturals, Sequences

CONSTANTS
    Pictures,      \* pictures ever uploaded to the post
    Slugs, NoSlug, \* addresses; a draft may have none
    Names,         \* display names of the author and of who else a byline names
    NoByline,
    MaxVersion,    \* bound: versions of the drafted changes
    MaxEditions    \* bound: editions kept

Settings == /\ NoSlug \notin Slugs /\ NoByline \notin Names
            /\ MaxVersion \in Nat /\ MaxEditions \in Nat

VARIABLES
    post,      \* the row of posts
    uses,      \* post_media_uses of the drafted changes
    kept,      \* post_revisions, each with its uses
    media,     \* post_media: whether a picture has bytes
    waiting,   \* the edition a schedule waits to publish, or 0
    saving,    \* a save that has been checked
    addresses, \* post_slugs, and post_addresses once the post is removed
    byline,    \* post_bylines
    shown      \* what readers have been shown so far: pictures

editionVars == <<post, uses, kept, media, waiting, saving, addresses, byline, shown>>

NoSave == [version |-> 0, slug |-> NoSlug, placed |-> {}]

Init ==
    /\ post = [status |-> "draft", deleted |-> FALSE, ever |-> FALSE, slug |-> NoSlug,
               placed |-> {}, public |-> 0, version |-> 1]
    /\ uses = {} /\ kept = <<>> /\ media = [m \in Pictures |-> "none"]
    /\ waiting = 0 /\ saving = NoSave
    /\ addresses = [reserved |-> {}, retired |-> {}]
    /\ byline = NoByline /\ shown = {}

Lockable == post.status # "removed" /\ ~ post.deleted

------------------------------------------------------------------------------
(* Readers.                                                                 *)

\* PublishedPost: the post is found by its address or one it was published under.
IsOpen == post.status = "published" /\ ~ post.deleted

\* attachRevisionMedia: the pictures the page names, without a signature.
PagePictures(page) == {m \in page.uses : media[m] = "there"}

\* PostImageSize, without a signature.
Served(m) ==
    /\ media[m] = "there" /\ ~ post.deleted
    /\ \E n \in DOMAIN kept : kept[n].for = "publish" /\ m \in kept[n].uses

\* GetPublishedPost: PublishedPost, else UnpublishedPost and retiredAddress.
Answer(s) ==
    IF post.status = "removed" THEN IF s \in addresses.retired THEN "gone" ELSE "none"
    ELSE IF post.deleted \/ s \notin addresses.reserved \cup {post.slug} THEN "none"
    ELSE CASE post.status = "published" -> "page"
           [] post.status = "unpublished" -> "gone"
           [] OTHER -> "none"

\* What a step shows readers.
ShownBy(now, editions) ==
    IF now.status = "published" /\ ~ now.deleted
    THEN shown \cup editions[now.public].uses ELSE shown

------------------------------------------------------------------------------
(* Writing.                                                                 *)

AddPostMedia(m) ==
    /\ Lockable /\ media[m] = "none"
    /\ media' = [media EXCEPT ![m] = "there"]
    /\ UNCHANGED <<post, uses, kept, waiting, saving, addresses, byline, shown>>

\* checkDraftedChanges, checkPlacement: what is placed belongs to the post and
\* has bytes.
CheckSave(s, placed) ==
    /\ Lockable /\ saving = NoSave /\ post.version < MaxVersion
    /\ post.ever => s = post.slug
    /\ \A m \in placed : media[m] = "there"
    /\ saving' = [version |-> post.version, slug |-> s, placed |-> placed]
    /\ UNCHANGED <<post, uses, kept, media, waiting, addresses, byline, shown>>

\* SavePost, recordUses.
SavePost ==
    /\ saving # NoSave
    /\ saving' = NoSave
    /\ IF /\ post.status # "removed" /\ post.version = saving.version
          /\ post.ever => saving.slug # NoSlug
       THEN /\ post' = [post EXCEPT !.slug = saving.slug, !.placed = saving.placed,
                                    !.version = @ + 1]
            /\ uses' = saving.placed
       ELSE UNCHANGED <<post, uses>>
    /\ UNCHANGED <<kept, media, waiting, addresses, byline, shown>>

\* Mutant: only the pictures of the page before are carried along.
CapturedBug(for) == [for |-> for, slug |-> post.slug, placed |-> post.placed,
                     uses |-> IF kept = <<>> THEN uses ELSE kept[Len(kept)].uses]

\* captureRevision, carryUsesForward.
Captured(for) == [for |-> for, slug |-> post.slug, placed |-> post.placed, uses |-> uses]

Keep(for) == /\ Len(kept) < MaxEditions
             /\ kept' = Append(kept, Captured(for))

Checkpoint ==
    /\ Lockable /\ Keep("checkpoint")
    /\ UNCHANGED <<post, uses, media, waiting, saving, addresses, byline, shown>>

\* RestoreRevision, restoredAddress, carryUsesBack.
RestoreRevision(n) ==
    /\ Lockable /\ n \in DOMAIN kept /\ post.version < MaxVersion
    /\ post' = [post EXCEPT !.placed = kept[n].placed, !.version = @ + 1,
                            !.slug = IF post.ever \/ kept[n].slug = NoSlug THEN @
                                     ELSE kept[n].slug]
    /\ uses' = kept[n].uses
    /\ UNCHANGED <<kept, media, waiting, saving, addresses, byline, shown>>

------------------------------------------------------------------------------
(* Publishing.                                                              *)

\* makePublic, captureByline, reserveAddress.  A restricted author has no name.
GoPublic(n, s, editions) ==
    /\ post' = [post EXCEPT !.status = "published", !.public = n, !.ever = TRUE,
                            !.slug = IF post.ever THEN @ ELSE s]
    /\ addresses' = IF post.ever THEN addresses
                    ELSE [addresses EXCEPT !.reserved = @ \cup {s}]
    /\ IF post.ever THEN UNCHANGED byline
       ELSE \E name \in Names : byline' = IF byline = NoByline THEN name ELSE byline
    /\ shown' = shown \cup editions[n].uses

PublishPost ==
    /\ Lockable /\ post.status # "unpublished" /\ post.slug # NoSlug
    /\ Keep("publish")
    /\ GoPublic(Len(kept'), post.slug, kept')
    /\ waiting' = 0
    /\ UNCHANGED <<uses, media, saving>>

SchedulePost ==
    /\ Lockable /\ post.status # "unpublished" /\ post.slug # NoSlug /\ waiting = 0
    /\ Keep("schedule")
    /\ waiting' = Len(kept')
    /\ UNCHANGED <<post, uses, media, saving, addresses, byline, shown>>

\* ReplaceSchedule with n, CancelSchedule with 0.
ReplaceSchedule(n) ==
    /\ Lockable /\ waiting # 0 /\ n \in {0} \cup DOMAIN kept
    /\ waiting' = n
    /\ UNCHANGED <<post, uses, kept, media, saving, addresses, byline, shown>>

\* publishLeased, or the attempt is refused; a first publication needs an address.
PublishLeased ==
    /\ waiting # 0
    /\ waiting' = 0
    /\ \/ /\ post.ever \/ kept[waiting].slug # NoSlug
          /\ GoPublic(waiting, kept[waiting].slug, kept)
       \/ UNCHANGED <<post, addresses, byline, shown>>
    /\ UNCHANGED <<uses, kept, media, saving>>

UnpublishPost ==
    /\ Lockable /\ post.status = "published"
    /\ post' = [post EXCEPT !.status = "unpublished"]
    /\ waiting' = 0
    /\ UNCHANGED <<uses, kept, media, saving, addresses, byline, shown>>

\* Any edition kept may be put back.
RepublishPost(n) ==
    /\ Lockable /\ post.status = "unpublished" /\ n \in DOMAIN kept
    /\ post' = [post EXCEPT !.status = "published", !.public = n]
    /\ shown' = ShownBy(post', kept)
    /\ UNCHANGED <<uses, kept, media, waiting, saving, addresses, byline>>

\* By an admin.
CorrectAddress(s) ==
    /\ Lockable /\ post.status = "published" /\ s # post.slug
    /\ post' = [post EXCEPT !.slug = s]
    /\ addresses' = [addresses EXCEPT !.reserved = @ \cup {s}]
    /\ UNCHANGED <<uses, kept, media, waiting, saving, byline, shown>>

CorrectByline(name) ==
    /\ Lockable /\ post.status = "published"
    /\ byline' = name
    /\ UNCHANGED <<post, uses, kept, media, waiting, saving, addresses, shown>>

DeletePost ==
    /\ Lockable
    /\ post' = [post EXCEPT !.deleted = TRUE]
    /\ waiting' = 0
    /\ UNCHANGED <<uses, kept, media, saving, addresses, byline, shown>>

RecoverPost ==
    /\ post.deleted
    /\ post' = [post EXCEPT !.deleted = FALSE]
    /\ shown' = ShownBy(post', kept)
    /\ UNCHANGED <<uses, kept, media, waiting, saving, addresses, byline>>

\* retireAddresses.
Retired == IF post.ever THEN addresses.reserved ELSE {}

\* removePost, and the rows that go along.
RemovePost ==
    /\ post.deleted
    /\ post' = [post EXCEPT !.status = "removed", !.deleted = FALSE]
    /\ addresses' = [addresses EXCEPT !.retired = Retired]
    /\ uses' = {} /\ kept' = <<>> /\ media' = [m \in Pictures |-> "none"]
    /\ byline' = NoByline
    /\ UNCHANGED <<waiting, saving, shown>>

\* deleteMarkedBlob, releaseExpiredReferences: no edition uses the picture.
ReleasePicture(m) ==
    /\ media[m] = "there" /\ m \notin uses
    /\ \A n \in DOMAIN kept : m \notin kept[n].uses
    /\ media' = [media EXCEPT ![m] = "released"]
    /\ UNCHANGED <<post, uses, kept, waiting, saving, addresses, byline, shown>>

Next ==
    \/ \E m \in Pictures : AddPostMedia(m) \/ ReleasePicture(m)
    \/ \E s \in Slugs \cup {NoSlug}, placed \in SUBSET Pictures : CheckSave(s, placed)
    \/ \E s \in Slugs : CorrectAddress(s)
    \/ \E n \in 0..MaxEditions : ReplaceSchedule(n) \/ RestoreRevision(n) \/ RepublishPost(n)
    \/ \E name \in Names : CorrectByline(name)
    \/ SavePost \/ Checkpoint \/ PublishPost \/ SchedulePost \/ PublishLeased
    \/ UnpublishPost \/ DeletePost \/ RecoverPost \/ RemovePost

Spec == Init /\ [][Next]_editionVars

------------------------------------------------------------------------------
\* A page readers can open has an edition, a byline, and a row of uses for
\* each picture the edition places, so that the cleanup leaves them: whichever
\* way the edition came to be shown.
PublicPostIsWhole ==
    IsOpen => /\ post.public \in DOMAIN kept
              /\ byline # NoByline
              /\ kept[post.public].uses = kept[post.public].placed

\* A picture that was on no page readers were shown is not served without a
\* signature.
UnshownIsNotServed == \A m \in Pictures : Served(m) => m \in shown

\* An address the post was published under shows the post or tells that it is
\* gone, but for the time in which it may be recovered.
ReservedAddressesAnswer ==
    \A s \in addresses.reserved :
        post.deleted \/ post.status \in {"draft", "none"} \/ Answer(s) # "none"

\* TestAnAuthorPlacesAnUploadedPictureAndAReaderReceivesIt: the pictures of a
\* published edition are served without a signature.
ReadersReceiveThePictures ==
    IsOpen => \A m \in PagePictures(kept[post.public]) : Served(m)
===============================================================================
