------------------------------ MODULE ReadsProofs ------------------------------
(***************************************************************************)
(* What readers are given holds for any number of works, pictures, readers *)
(* and requests: a post's page is whole and its addresses answer, versions *)
(* have their pictures, slots are returned, and a reader counts once a day.*)
(***************************************************************************)
EXTENDS Reads, Sequences, FiniteSetTheorems, TLAPS

-----------------------------------------------------------------------------
(* Editions.  Each edition kept has a use for every picture it places, as    *)
(* the drafted changes do while the post is there (Carried); what waits to   *)
(* be published and what is public are editions kept (InPlace); and all that *)
(* a published edition places has been shown.                                *)

Addresses == Slugs \cup {NoSlug}

PostRow ==
    [status : {"draft", "published", "unpublished", "removed"}, deleted : BOOLEAN,
     ever : BOOLEAN, slug : Addresses, placed : SUBSET Uploaded, public : Nat, version : Nat]

EditionRow ==
    [for : {"checkpoint", "publish", "schedule"}, slug : Addresses, placed : SUBSET Uploaded,
     uses : SUBSET Uploaded]

EditionTypes ==
    /\ post \in PostRow
    /\ uses \in SUBSET Uploaded
    /\ editions \in Seq(EditionRow)
    /\ saving \in [version : Nat, slug : Addresses, placed : SUBSET Uploaded]
    /\ waiting \in 0..Len(editions)
    /\ addresses \in [reserved : SUBSET Addresses, retired : SUBSET Addresses]

Carried ==
    /\ \A n \in DOMAIN editions : editions[n].uses = editions[n].placed
    /\ post.status # "removed" => uses = post.placed

InPlace ==
    /\ ~ Visible!Lockable => waiting = 0
    /\ post.status = "published" => post.public \in DOMAIN editions /\ post.ever
    /\ post.status = "unpublished" => post.ever
    /\ post.ever /\ post.status # "removed" => byline # NoByline

ShownSoFar ==
    \A n \in DOMAIN editions : editions[n].for = "publish" => editions[n].uses \subseteq shown

Reserved ==
    /\ addresses.reserved # {} => post.ever
    /\ post.status = "removed" => addresses.retired = addresses.reserved

EditionInv == EditionTypes /\ Carried /\ InPlace /\ ShownSoFar /\ Reserved

LEMMA EditionInit == ASSUME Visible!Settings, Visible!Init PROVE EditionInv
BY DEF Visible!Init, Visible!NoSave, Visible!Lockable, EditionInv, EditionTypes, PostRow,
       Carried, InPlace, ShownSoFar, Reserved, Addresses

\* A step that keeps the editions and does not touch the post's standing.
LEMMA EditionsKept ==
    ASSUME EditionInv, EditionTypes', editions' = editions, shown \subseteq shown',
           post'.status = post.status, post'.deleted = post.deleted, post'.ever = post.ever,
           post'.public = post.public, uses = post.placed => uses' = post'.placed,
           waiting' = waiting \/ waiting' = 0 \/ Visible!Lockable,
           addresses'.reserved \subseteq addresses.reserved \/ post.ever,
           post.status = "removed" => addresses' = addresses,
           byline # NoByline => byline' # NoByline
    PROVE  EditionInv'
BY DEF EditionInv, Carried, InPlace, ShownSoFar, Reserved, Visible!Lockable

LEMMA PostEdited ==
    ASSUME EditionInv, NEW slug \in Addresses, NEW placed \in SUBSET Uploaded,
           post' = [post EXCEPT !.slug = slug, !.placed = placed, !.version = post.version + 1]
    PROVE  /\ post' \in PostRow /\ post'.status = post.status /\ post'.deleted = post.deleted
           /\ post'.ever = post.ever /\ post'.public = post.public
           /\ post'.placed = placed
<1>1. post \in PostRow
  BY DEF EditionInv, EditionTypes
<1>2. post.version + 1 \in Nat
  BY <1>1 DEF PostRow
<1> QED  BY <1>1, <1>2 DEF PostRow

LEMMA SavePostKeeps == ASSUME EditionInv, Visible!SavePost PROVE EditionInv'
<1>1. /\ saving' = Visible!NoSave
      /\ UNCHANGED <<editions, media, waiting, addresses, byline, shown>>
  BY DEF Visible!SavePost
<1>2. \/ post' = post /\ uses' = uses
      \/ /\ post' = [post EXCEPT !.slug = saving.slug, !.placed = saving.placed,
                                 !.version = post.version + 1]
         /\ uses' = saving.placed
  BY DEF Visible!SavePost
<1>3. EditionTypes' /\ post'.status = post.status /\ post'.deleted = post.deleted
      /\ post'.ever = post.ever /\ post'.public = post.public
      /\ (uses = post.placed => uses' = post'.placed)
  <2>1. Visible!NoSave \in [version : Nat, slug : Addresses, placed : SUBSET Uploaded]
    BY DEF Visible!NoSave, Addresses
  <2>2. CASE post' = post /\ uses' = uses
    BY <1>1, <2>1, <2>2 DEF EditionInv, EditionTypes
  <2>3. CASE /\ post' = [post EXCEPT !.slug = saving.slug, !.placed = saving.placed,
                                     !.version = post.version + 1]
             /\ uses' = saving.placed
    <3>1. /\ post' \in PostRow /\ post'.status = post.status /\ post'.deleted = post.deleted
          /\ post'.ever = post.ever /\ post'.public = post.public
          /\ post'.placed = saving.placed
      <4>1. saving.slug \in Addresses /\ saving.placed \in SUBSET Uploaded
        BY DEF EditionInv, EditionTypes
      <4> QED  BY <2>3, <4>1, PostEdited
    <3> QED  BY <1>1, <2>1, <2>3, <3>1 DEF EditionInv, EditionTypes
  <2> QED  BY <1>2, <2>2, <2>3
<1> QED  BY <1>1, <1>3, EditionsKept

LEMMA RestoreRevisionKeeps ==
    ASSUME EditionInv, NEW n \in DOMAIN editions, Visible!RestoreRevision(n)
    PROVE  EditionInv'
<1> DEFINE s == IF post.ever \/ editions[n].slug = NoSlug THEN post.slug ELSE editions[n].slug
<1>1. /\ post' = [post EXCEPT !.placed = editions[n].placed, !.version = post.version + 1,
                              !.slug = s]
      /\ uses' = editions[n].uses
      /\ UNCHANGED <<editions, media, waiting, saving, addresses, byline, shown>>
  BY DEF Visible!RestoreRevision
<1>2. editions[n] \in EditionRow
  BY DEF EditionInv, EditionTypes
<1>3. s \in Addresses
  BY <1>2 DEF EditionInv, EditionTypes, PostRow, EditionRow
<1> HIDE DEF s
<1>4. /\ post' \in PostRow /\ post'.status = post.status /\ post'.deleted = post.deleted
      /\ post'.ever = post.ever /\ post'.public = post.public
      /\ post'.placed = editions[n].placed
  <2>1. editions[n].placed \in SUBSET Uploaded
    BY <1>2 DEF EditionRow
  <2>2. post' = [post EXCEPT !.slug = s, !.placed = editions[n].placed,
                             !.version = post.version + 1]
    BY <1>1 DEF EditionInv, EditionTypes, PostRow
  <2> QED  BY <1>3, <2>1, <2>2, PostEdited
<1>5. EditionTypes' /\ uses' = post'.placed
  BY <1>1, <1>2, <1>4 DEF EditionInv, EditionTypes, EditionRow, Carried
<1> QED  BY <1>1, <1>4, <1>5, EditionsKept

\* An edition is kept of the drafted changes; nothing else changes but what a
\* schedule waits for.
LEMMA KeepKeeps ==
    ASSUME EditionInv, NEW for \in {"checkpoint", "publish", "schedule"}, Visible!Lockable,
           Visible!Keep(for)
    PROVE  /\ editions' \in Seq(EditionRow) /\ Len(editions') = Len(editions) + 1
           /\ \A n \in DOMAIN editions : n \in DOMAIN editions' /\ editions'[n] = editions[n]
           /\ \A n \in DOMAIN editions' : n \in DOMAIN editions \/ n = Len(editions')
           /\ editions'[Len(editions')].for = for
           /\ editions'[Len(editions')].uses = uses /\ editions'[Len(editions')].placed = uses
           /\ Len(editions') \in DOMAIN editions'
<1> DEFINE new == Visible!Captured(for)
<1>1. new \in EditionRow /\ new.for = for /\ new.uses = uses /\ new.placed = uses
  BY DEF Visible!Captured, EditionInv, EditionTypes, PostRow, EditionRow, Carried,
         Visible!Lockable
<1>2. editions' = Append(editions, new) /\ editions \in Seq(EditionRow)
  BY DEF Visible!Keep, EditionInv, EditionTypes
<1> HIDE DEF new
<1> QED  BY <1>1, <1>2

LEMMA CheckpointKeeps == ASSUME EditionInv, Visible!Checkpoint PROVE EditionInv'
<1>1. Visible!Lockable /\ Visible!Keep("checkpoint")
      /\ UNCHANGED <<post, uses, media, waiting, saving, addresses, byline, shown>>
  BY DEF Visible!Checkpoint
<1> QED  BY <1>1, KeepKeeps DEF EditionInv, EditionTypes, Carried, InPlace, ShownSoFar, Reserved,
            Visible!Lockable

LEMMA SchedulePostKeeps == ASSUME EditionInv, Visible!SchedulePost PROVE EditionInv'
<1>1. Visible!Lockable /\ Visible!Keep("schedule") /\ waiting' = Len(editions')
      /\ UNCHANGED <<post, uses, media, saving, addresses, byline, shown>>
  BY DEF Visible!SchedulePost
<1> QED  BY <1>1, KeepKeeps DEF EditionInv, EditionTypes, Carried, InPlace, ShownSoFar, Reserved,
            Visible!Lockable

\* The post goes public with an edition that is kept.
LEMMA GoPublicKeeps ==
    ASSUME Visible!Settings, EditionInv, Visible!Lockable, NEW n, NEW s \in Addresses,
           Visible!GoPublic(n, s, editions')
    PROVE  /\ (n \in Nat => post' \in PostRow)
           /\ post'.status = "published" /\ post'.public = n /\ post'.ever /\ ~ post'.deleted
           /\ post'.placed = post.placed /\ byline' # NoByline
           /\ addresses' \in [reserved : SUBSET Addresses, retired : SUBSET Addresses]
           /\ shown' = shown \cup editions'[n].uses
<1>1. /\ post' = [post EXCEPT !.status = "published", !.public = n, !.ever = TRUE,
                              !.slug = IF post.ever THEN post.slug ELSE s]
      /\ shown' = shown \cup editions'[n].uses
      /\ addresses' = IF post.ever THEN addresses
                      ELSE [addresses EXCEPT !.reserved = addresses.reserved \cup {s}]
      /\ IF post.ever THEN byline' = byline
         ELSE \E name \in Names : byline' = IF byline = NoByline THEN name ELSE byline
  BY DEF Visible!GoPublic
<1>2. post \in PostRow /\ post.status # "removed" /\ ~ post.deleted
  BY DEF EditionInv, EditionTypes, Visible!Lockable
<1>3. byline' # NoByline
  BY <1>1, <1>2 DEF Visible!Settings, EditionInv, InPlace
<1>4. addresses' \in [reserved : SUBSET Addresses, retired : SUBSET Addresses]
  BY <1>1 DEF EditionInv, EditionTypes
<1> QED  BY <1>1, <1>2, <1>3, <1>4 DEF PostRow

LEMMA PublishPostKeeps ==
    ASSUME Visible!Settings, EditionInv, Visible!PublishPost PROVE EditionInv'
<1> DEFINE n == Len(editions')
<1>1. /\ Visible!Lockable /\ Visible!Keep("publish") /\ waiting' = 0
      /\ Visible!GoPublic(n, post.slug, editions')
      /\ UNCHANGED <<uses, media, saving>>
  BY DEF Visible!PublishPost
<1>2. /\ editions' \in Seq(EditionRow) /\ n \in DOMAIN editions'
      /\ \A k \in DOMAIN editions' :
            k = n \/ (k \in DOMAIN editions /\ editions'[k] = editions[k])
      /\ editions'[n].uses = uses /\ editions'[n].placed = uses
  BY <1>1, KeepKeeps
<1>3. post.slug \in Addresses /\ post.status # "removed"
  BY <1>1 DEF EditionInv, EditionTypes, PostRow, Visible!Lockable
<1>4. n \in Nat
  BY <1>2
<1>5. /\ post' \in PostRow /\ post'.status = "published" /\ post'.public = n /\ post'.ever
      /\ post'.placed = post.placed /\ byline' # NoByline /\ ~ post'.deleted
      /\ addresses' \in [reserved : SUBSET Addresses, retired : SUBSET Addresses]
      /\ shown' = shown \cup editions'[n].uses
  BY <1>1, <1>3, <1>4, GoPublicKeeps
<1> HIDE DEF n
<1>6. EditionTypes'
  BY <1>1, <1>2, <1>5 DEF EditionInv, EditionTypes
<1>7. Carried'
  BY <1>1, <1>2, <1>3, <1>5 DEF EditionInv, Carried
<1>8. InPlace'
  BY <1>1, <1>2, <1>5 DEF InPlace, Visible!Lockable
<1>9. ShownSoFar'
  BY <1>2, <1>5 DEF EditionInv, ShownSoFar
<1>10. Reserved'
  BY <1>5 DEF Reserved
<1> QED  BY <1>6, <1>7, <1>8, <1>9, <1>10 DEF EditionInv

LEMMA PublishLeasedKeeps ==
    ASSUME Visible!Settings, EditionInv, Visible!PublishLeased PROVE EditionInv'
<1>1. /\ waiting # 0 /\ waiting' = 0
      /\ UNCHANGED <<uses, editions, media, saving>>
      /\ \/ Visible!GoPublic(waiting, editions[waiting].slug, editions)
         \/ UNCHANGED <<post, addresses, byline, shown>>
  BY DEF Visible!PublishLeased
<1>2. /\ Visible!Lockable /\ waiting \in DOMAIN editions /\ waiting \in Nat
      /\ editions[waiting].slug \in Addresses
  <2>1. waiting \in 0..Len(editions) /\ editions \in Seq(EditionRow) /\ Visible!Lockable
    BY <1>1 DEF EditionInv, EditionTypes, InPlace
  <2>2. waiting \in DOMAIN editions /\ waiting \in Nat
    BY <1>1, <2>1
  <2>3. editions[waiting] \in EditionRow
    BY <2>1, <2>2
  <2> QED  BY <2>1, <2>2, <2>3 DEF EditionRow
<1>3. CASE UNCHANGED <<post, addresses, byline, shown>>
  <2>1. EditionTypes'
    BY <1>1, <1>3 DEF EditionInv, EditionTypes
  <2> QED  BY <1>1, <1>3, <2>1, EditionsKept
<1>4. CASE Visible!GoPublic(waiting, editions[waiting].slug, editions)
  <2>1. /\ post' \in PostRow /\ post'.status = "published" /\ post'.public = waiting
        /\ post'.ever /\ post'.placed = post.placed /\ byline' # NoByline /\ ~ post'.deleted
        /\ addresses' \in [reserved : SUBSET Addresses, retired : SUBSET Addresses]
        /\ shown' = shown \cup editions[waiting].uses
    BY <1>1, <1>2, <1>4, GoPublicKeeps
  <2>2. EditionTypes'
    BY <1>1, <2>1 DEF EditionInv, EditionTypes
  <2>3. Carried'
    BY <1>1, <1>2, <2>1 DEF EditionInv, Carried, Visible!Lockable
  <2>4. InPlace'
    BY <1>1, <1>2, <2>1 DEF InPlace, Visible!Lockable
  <2>5. ShownSoFar'
    BY <1>1, <2>1 DEF EditionInv, ShownSoFar
  <2>6. Reserved'
    BY <2>1 DEF Reserved
  <2> QED  BY <2>2, <2>3, <2>4, <2>5, <2>6 DEF EditionInv
<1> QED  BY <1>1, <1>3, <1>4

\* The post's standing changes, and nothing that the editions are about.
LEMMA StandingKeeps ==
    ASSUME EditionInv,
           \/ Visible!UnpublishPost \/ Visible!DeletePost \/ Visible!RecoverPost
           \/ \E s \in Slugs : Visible!CorrectAddress(s)
    PROVE  EditionInv'
<1>0. UNCHANGED <<uses, editions, saving, byline>> /\ shown \subseteq shown'
  BY DEF Visible!UnpublishPost, Visible!DeletePost, Visible!RecoverPost, Visible!CorrectAddress,
         Visible!ShownBy
<1>1. post \in PostRow
  BY DEF EditionInv, EditionTypes
<1>2. CASE Visible!UnpublishPost
  <2>1. /\ Visible!Lockable /\ post.status = "published" /\ waiting' = 0
        /\ post' = [post EXCEPT !.status = "unpublished"] /\ addresses' = addresses
    BY <1>2 DEF Visible!UnpublishPost
  <2>2. /\ post' \in PostRow /\ post'.status = "unpublished" /\ post'.deleted = post.deleted
        /\ post'.ever = post.ever /\ post'.placed = post.placed
    BY <1>1, <2>1 DEF PostRow
  <2> QED  BY <1>0, <2>1, <2>2 DEF EditionInv, EditionTypes, Carried, InPlace, ShownSoFar, Reserved
<1>3. CASE Visible!DeletePost
  <2>1. /\ Visible!Lockable /\ waiting' = 0
        /\ post' = [post EXCEPT !.deleted = TRUE] /\ addresses' = addresses
    BY <1>3 DEF Visible!DeletePost
  <2>2. /\ post' \in PostRow /\ post'.status = post.status /\ post'.public = post.public
        /\ post'.ever = post.ever /\ post'.placed = post.placed
    BY <1>1, <2>1 DEF PostRow
  <2> QED  BY <1>0, <2>1, <2>2 DEF EditionInv, EditionTypes, Carried, InPlace, ShownSoFar, Reserved
<1>4. CASE Visible!RecoverPost
  <2>1. /\ post.deleted /\ waiting' = waiting
        /\ post' = [post EXCEPT !.deleted = FALSE] /\ addresses' = addresses
    BY <1>4 DEF Visible!RecoverPost
  <2>2. /\ post' \in PostRow /\ post'.status = post.status /\ post'.public = post.public
        /\ post'.ever = post.ever /\ post'.placed = post.placed
    BY <1>1, <2>1 DEF PostRow
  <2> QED  BY <1>0, <2>1, <2>2 DEF EditionInv, EditionTypes, Carried, InPlace, ShownSoFar, Reserved,
              Visible!Lockable
<1>5. CASE \E s \in Slugs : Visible!CorrectAddress(s)
  <2>1. PICK s \in Slugs : Visible!CorrectAddress(s)
    BY <1>5
  <2>2. /\ Visible!Lockable /\ post.status = "published" /\ waiting' = waiting
        /\ post' = [post EXCEPT !.slug = s]
        /\ addresses' = [addresses EXCEPT !.reserved = addresses.reserved \cup {s}]
    BY <2>1 DEF Visible!CorrectAddress
  <2>3. /\ post' \in PostRow /\ post'.status = post.status /\ post'.public = post.public
        /\ post'.ever = post.ever /\ post'.placed = post.placed /\ post'.deleted = post.deleted
    BY <1>1, <2>2 DEF PostRow, Addresses
  <2>4. addresses' \in [reserved : SUBSET Addresses, retired : SUBSET Addresses]
    BY <2>2 DEF EditionInv, EditionTypes, Addresses
  <2>5. EditionTypes'
    BY <1>0, <2>2, <2>3, <2>4 DEF EditionInv, EditionTypes
  <2> QED  BY <1>0, <2>2, <2>3, <2>5, EditionsKept DEF EditionInv, InPlace
<1> QED  BY <1>2, <1>3, <1>4, <1>5

LEMMA RemovePostKeeps == ASSUME EditionInv, Visible!RemovePost PROVE EditionInv'
<1>1. /\ post' = [post EXCEPT !.status = "removed", !.deleted = FALSE]
      /\ addresses' = [addresses EXCEPT !.retired = Visible!Retired]
      /\ uses' = {} /\ editions' = <<>> /\ UNCHANGED <<waiting, saving, shown>>
      /\ post.deleted
  BY DEF Visible!RemovePost
<1>2. /\ post' \in PostRow /\ post'.status = "removed" /\ post'.ever = post.ever
  BY <1>1 DEF EditionInv, EditionTypes, PostRow
<1>3. waiting = 0
  BY <1>1 DEF EditionInv, InPlace, Visible!Lockable
<1>4. /\ addresses' \in [reserved : SUBSET Addresses, retired : SUBSET Addresses]
      /\ addresses'.reserved = addresses.reserved /\ addresses'.retired = addresses.reserved
  <2>1. Visible!Retired = addresses.reserved
    BY DEF Visible!Retired, EditionInv, Reserved
  <2> QED  BY <1>1, <2>1 DEF EditionInv, EditionTypes
<1>5. EditionTypes'
  BY <1>1, <1>2, <1>3, <1>4 DEF EditionInv, EditionTypes
<1> QED  BY <1>1, <1>2, <1>3, <1>4, <1>5
         DEF EditionInv, Carried, InPlace, ShownSoFar, Reserved, Visible!Lockable

LEMMA RepublishKeeps ==
    ASSUME EditionInv, NEW n \in DOMAIN editions, Visible!RepublishPost(n) PROVE EditionInv'
<1>1. /\ Visible!Lockable /\ post.status = "unpublished"
      /\ post' = [post EXCEPT !.status = "published", !.public = n]
      /\ shown' = Visible!ShownBy(post', editions)
      /\ UNCHANGED <<uses, editions, media, waiting, saving, addresses, byline>>
  BY DEF Visible!RepublishPost
<1>2. n \in Nat
  BY DEF EditionInv, EditionTypes
<1>3. /\ post' \in PostRow /\ post'.status = "published" /\ post'.public = n
      /\ post'.ever = post.ever /\ post'.placed = post.placed /\ post'.deleted = post.deleted
  BY <1>1, <1>2 DEF EditionInv, EditionTypes, PostRow
<1>4. shown \subseteq shown'
  BY <1>1 DEF Visible!ShownBy
<1> QED  BY <1>1, <1>3, <1>4
         DEF EditionInv, EditionTypes, Carried, InPlace, ShownSoFar, Reserved, Visible!Lockable

LEMMA EditionStep ==
    ASSUME Visible!Settings, EditionInv, [Visible!Next]_Visible!editionVars PROVE EditionInv'
<1>1. CASE UNCHANGED Visible!editionVars
  <2>1. EditionTypes'
    BY <1>1 DEF Visible!editionVars, EditionInv, EditionTypes
  <2> QED  BY <1>1, <2>1, EditionsKept DEF Visible!editionVars
<1>2. ASSUME NEW m \in Uploaded, Visible!AddPostMedia(m) \/ Visible!ReleasePicture(m)
      PROVE  EditionInv'
  <2>1. UNCHANGED <<post, uses, editions, waiting, saving, addresses, byline, shown>>
    BY <1>2 DEF Visible!AddPostMedia, Visible!ReleasePicture
  <2>2. EditionTypes'
    BY <2>1 DEF EditionInv, EditionTypes
  <2> QED  BY <2>1, <2>2, EditionsKept
<1>3. ASSUME NEW s \in Addresses, NEW placed \in SUBSET Uploaded, Visible!CheckSave(s, placed)
      PROVE  EditionInv'
  <2>1. /\ saving' = [version |-> post.version, slug |-> s, placed |-> placed]
        /\ UNCHANGED <<post, uses, editions, media, waiting, addresses, byline, shown>>
    BY <1>3 DEF Visible!CheckSave
  <2>2. EditionTypes'
    BY <2>1 DEF EditionInv, EditionTypes, PostRow
  <2> QED  BY <2>1, <2>2, EditionsKept
<1>4. ASSUME NEW n \in 0..MaxEditions, Visible!ReplaceSchedule(n) PROVE EditionInv'
  <2>1. /\ Visible!Lockable /\ waiting' = n /\ n \in {0} \cup DOMAIN editions
        /\ UNCHANGED <<post, uses, editions, media, saving, addresses, byline, shown>>
    BY <1>4 DEF Visible!ReplaceSchedule
  <2>2. n \in 0..Len(editions)
    BY <2>1 DEF EditionInv, EditionTypes
  <2>3. EditionTypes'
    BY <2>1, <2>2 DEF EditionInv, EditionTypes
  <2> QED  BY <2>1, <2>3, EditionsKept
<1>5. ASSUME NEW n \in 0..MaxEditions, Visible!RestoreRevision(n) PROVE EditionInv'
  BY <1>5, RestoreRevisionKeeps DEF Visible!RestoreRevision
<1>6. ASSUME NEW n \in 0..MaxEditions, Visible!RepublishPost(n) PROVE EditionInv'
  BY <1>6, RepublishKeeps DEF Visible!RepublishPost
<1>7. ASSUME NEW name \in Names, Visible!Settings, Visible!CorrectByline(name) PROVE EditionInv'
  <2>1. /\ byline' = name
        /\ UNCHANGED <<post, uses, editions, media, waiting, saving, addresses, shown>>
    BY <1>7 DEF Visible!CorrectByline
  <2>2. EditionTypes' /\ byline' # NoByline
    BY <1>7, <2>1 DEF EditionInv, EditionTypes, Visible!Settings
  <2> QED  BY <2>1, <2>2, EditionsKept
<1>8. CASE \/ Visible!UnpublishPost \/ Visible!DeletePost \/ Visible!RecoverPost
           \/ \E s \in Slugs : Visible!CorrectAddress(s)
  BY <1>8, StandingKeeps
<1> QED
  <2>1. CASE Visible!Next
    BY <2>1, <1>2, <1>3, <1>4, <1>5, <1>6, <1>7, <1>8, SavePostKeeps, CheckpointKeeps,
       PublishPostKeeps, SchedulePostKeeps, PublishLeasedKeeps, RemovePostKeeps
       DEF Visible!Next, Addresses
  <2> QED  BY <1>1, <2>1

LEMMA EditionAlways == ASSUME Visible!Settings PROVE Visible!Spec => []EditionInv
BY EditionInit, EditionStep, PTL DEF Visible!Spec

\* Whichever way an edition came to be shown, the page has it, a byline, and a use for
\* each picture the edition places.
THEOREM PagesAreWhole == ASSUME Visible!Settings PROVE Visible!Spec => []PublicPostIsWhole
<1>1. EditionInv => PublicPostIsWhole
  BY DEF EditionInv, Carried, InPlace, PublicPostIsWhole, Visible!PublicPostIsWhole,
         Visible!IsOpen
<1> QED  BY <1>1, EditionAlways, PTL

\* A picture that was on no page readers were shown is not served without a signature.
THEOREM OnlyTheShownIsServed ==
    ASSUME Visible!Settings PROVE Visible!Spec => []Visible!UnshownIsNotServed
<1>1. EditionInv => Visible!UnshownIsNotServed
  BY DEF EditionInv, ShownSoFar, Visible!UnshownIsNotServed, Visible!Served
<1> QED  BY <1>1, EditionAlways, PTL

\* An address the post was published under answers for good, but while it may be recovered.
THEOREM AddressesAnswer ==
    ASSUME Visible!Settings PROVE Visible!Spec => []Visible!ReservedAddressesAnswer
<1>1. EditionInv => Visible!ReservedAddressesAnswer
  <2>1. SUFFICES ASSUME EditionInv, NEW s \in addresses.reserved, ~ post.deleted,
                        post.status \notin {"draft", "none"}
                 PROVE  Visible!Answer(s) # "none"
    BY DEF Visible!ReservedAddressesAnswer
  <2>2. post.status \in {"published", "unpublished", "removed"}
    BY <2>1 DEF EditionInv, EditionTypes, PostRow
  <2> QED  BY <2>1, <2>2 DEF EditionInv, Reserved, Visible!Answer
<1> QED  BY <1>1, EditionAlways, PTL

-----------------------------------------------------------------------------
(* Pictures.  What a version's page names and its cover are among its        *)
(* pictures, and the drafted cover is a current picture, of no gallery.      *)

VersionRow ==
    [pictures : SUBSET Picture!Media, cover : Avatars \cup Alternates \cup {None},
     gallery : SUBSET Galleries, withdrawn : BOOLEAN]

HasItsPictures(version) ==
    /\ version.gallery \subseteq version.pictures
    /\ version.cover # None => version.cover \in version.pictures

PictureInv ==
    /\ carried \in BOOLEAN
    /\ current \in SUBSET Picture!Media
    /\ cover \in Avatars \cup Alternates \cup {None}
    /\ cover # None => cover \in current
    /\ gallery \in SUBSET Galleries
    /\ recorded \in Seq(VersionRow)
    /\ \A v \in DOMAIN recorded : HasItsPictures(recorded[v])

LEMMA PictureInit == ASSUME Picture!Init PROVE PictureInv
BY DEF Picture!Init, PictureInv

LEMMA AddMediaKeeps ==
    ASSUME PictureInv, NEW m \in Picture!Media, Picture!AddMedia(m) PROVE PictureInv'
<1>1. UNCHANGED <<carried, gallery, recorded>>
  BY DEF Picture!AddMedia
<1>2. CASE m \in Avatars
  <2>1. cover' = m /\ current' = Picture!SupersedeCoverMedia(m)
    BY <1>2 DEF Picture!AddMedia
  <2> QED  BY <1>1, <1>2, <2>1 DEF PictureInv, Picture!SupersedeCoverMedia
<1>3. CASE m \notin Avatars
  <2>1. current' = current \cup {m} /\ (cover' = cover \/ (cover' = m /\ m \in Alternates))
    BY <1>3 DEF Picture!AddMedia, Picture!SetAlternateCoverMedia
  <2> QED  BY <1>1, <2>1 DEF PictureInv
<1> QED  BY <1>2, <1>3

LEMMA AcceptReplacementKeeps ==
    ASSUME Picture!Settings, PictureInv, NEW file \in SUBSET FromFile, NEW keep \in BOOLEAN,
           Picture!AcceptReplacement(file, keep)
    PROVE  PictureInv'
<1>1. /\ UNCHANGED <<carried, recorded>>
      /\ gallery' = gallery \/ gallery' = file \cap Galleries
  BY DEF Picture!AcceptReplacement, Picture!MergeReplacementBlocks
<1>2. /\ current' = (current \ FromFile) \cup file
      /\ \/ cover' \in file \cap Avatars
         \/ cover' = IF cover \in current \ FromFile THEN cover ELSE None
  BY DEF Picture!AcceptReplacement, Picture!RecordOriginalFile, Picture!ClearSupersededCover,
         Picture!SupersedeExtractedMedia
<1>3. file \subseteq Picture!Media
  BY DEF Picture!Settings
<1> QED  BY <1>1, <1>2, <1>3 DEF PictureInv

LEMMA RecordWorkVersionKeeps ==
    ASSUME PictureInv, Picture!RecordWorkVersion PROVE PictureInv'
<1> DEFINE new == [pictures |-> Picture!RecordedPictures, cover |-> cover, gallery |-> gallery,
                   withdrawn |-> FALSE]
<1>1. recorded' = Append(recorded, new) /\ UNCHANGED <<carried, current, cover, gallery>>
  BY DEF Picture!RecordWorkVersion
<1>2. new \in VersionRow /\ HasItsPictures(new)
  <2>1. Galleries \subseteq Picture!Media /\ Avatars \cup Alternates \subseteq Picture!Media
    BY DEF Picture!Media
  <2> QED  BY <2>1 DEF PictureInv, VersionRow, HasItsPictures, Picture!RecordedPictures,
              Picture!Referenced
<1> HIDE DEF new
<1> QED  BY <1>1, <1>2 DEF PictureInv

LEMMA PictureStep ==
    ASSUME Picture!Settings, PictureInv, [Picture!Next]_Picture!vars PROVE PictureInv'
<1>1. CASE UNCHANGED Picture!vars
  BY <1>1 DEF Picture!vars, PictureInv
<1>2. CASE Picture!SaveGallery
  BY <1>2 DEF Picture!SaveGallery, PictureInv
<1>3. ASSUME NEW v \in DOMAIN recorded, Picture!RestoreVersion(v) PROVE PictureInv'
  <2>1. recorded[v] \in VersionRow /\ HasItsPictures(recorded[v])
    BY DEF PictureInv
  <2> QED  BY <1>3, <2>1 DEF Picture!RestoreVersion, PictureInv, VersionRow, HasItsPictures
<1>4. ASSUME NEW v \in DOMAIN recorded, Picture!WithdrawVersion(v) PROVE PictureInv'
  <2> DEFINE new == [recorded[v] EXCEPT !.withdrawn = TRUE]
  <2>1. recorded[v] \in VersionRow /\ HasItsPictures(recorded[v])
    BY DEF PictureInv
  <2>2. new \in VersionRow /\ HasItsPictures(new)
    BY <2>1 DEF VersionRow, HasItsPictures
  <2>3. recorded' = [recorded EXCEPT ![v] = new]
        /\ UNCHANGED <<carried, current, cover, gallery>>
    BY <1>4 DEF Picture!WithdrawVersion
  <2> HIDE DEF new
  <2> QED  BY <2>2, <2>3 DEF PictureInv
<1> QED
  BY <1>1, <1>2, <1>3, <1>4, AddMediaKeeps, AcceptReplacementKeeps, RecordWorkVersionKeeps
  DEF Picture!Next

LEMMA PictureAlways == ASSUME Picture!Settings PROVE Picture!Spec => []PictureInv
BY PictureInit, PictureStep, PTL DEF Picture!Spec

\* Every picture that a published or recorded page names can be had by its readers and is
\* in the files written from it.
THEOREM VersionsHavePictures ==
    ASSUME Picture!Settings PROVE Picture!Spec => []VersionsHaveTheirPictures
<1>1. ASSUME PictureInv PROVE VersionsHaveTheirPictures
  <2>1. ASSUME NEW v \in DOMAIN recorded
        PROVE  recorded[v].gallery \subseteq recorded[v].pictures /\ recorded[v] \in VersionRow
    BY <1>1 DEF PictureInv, HasItsPictures
  <2>2. ASSUME Picture!Published PROVE Picture!Last.gallery \subseteq Picture!PublishedImages
    <3>1. Len(recorded) \in DOMAIN recorded /\ Picture!Last = recorded[Len(recorded)]
      BY <1>1, <2>2 DEF PictureInv, Picture!Published, Picture!Last
    <3>2. Picture!Last.gallery \subseteq Picture!Last.pictures \ (Avatars \cup Alternates)
      BY <2>1, <3>1 DEF VersionRow, Picture!Settings
    <3> QED  BY <2>2, <3>2 DEF Picture!PublishedImages, Picture!PublicMedia
  <2>3. ASSUME NEW v \in DOMAIN recorded
        PROVE  /\ recorded[v].gallery \subseteq Picture!RecordedImages(v)
               /\ ~ recorded[v].withdrawn => \A m \in recorded[v].gallery : ~ Picture!Private(m)
    <3>1. Picture!Published
      BY DEF Picture!Published
    <3> QED  BY <2>1, <3>1 DEF Picture!RecordedImages, Picture!Private
  <2> QED  BY <2>2, <2>3 DEF VersionsHaveTheirPictures, Picture!VersionsHaveTheirPictures
<1> QED  BY <1>1, PictureAlways, PTL

\* The cover is a current picture of the page, and readers have the cover they are shown.
THEOREM CoverOnPage ==
    ASSUME Picture!Settings PROVE Picture!Spec => []Picture!CoverIsOnThePage
<1>1. ASSUME PictureInv, Picture!PublicCover # None
      PROVE  Picture!PublicCover \in Picture!PublicMedia
  <2>1. CASE Picture!Published /\ carried
    <3>1. Len(recorded) \in DOMAIN recorded /\ Picture!Last = recorded[Len(recorded)]
      BY <1>1, <2>1 DEF PictureInv, Picture!Published, Picture!Last
    <3> QED  BY <1>1, <2>1, <3>1
             DEF PictureInv, HasItsPictures, Picture!PublicCover, Picture!PublicMedia
  <2>2. CASE ~ (Picture!Published /\ carried)
    <3>1. Picture!PublicCover = cover /\ cover \in current
      BY <1>1, <2>2 DEF PictureInv, Picture!PublicCover
    <3>2. cover \notin Galleries
      BY <1>1, <3>1 DEF PictureInv, Picture!Settings
    <3> QED  BY <2>2, <3>1, <3>2 DEF Picture!PublicMedia
  <2> QED  BY <2>1, <2>2
<1>2. PictureInv => Picture!CoverIsOnThePage
  BY <1>1 DEF PictureInv, Picture!CoverIsOnThePage
<1> QED  BY <1>2, PictureAlways, PTL

-----------------------------------------------------------------------------
(* Slots.  A slot is taken by a picture being prepared and by a rendering    *)
(* that has passed the queue, and each step gives or takes it with one.      *)

Preparing == {p \in Uploaded : picture[p] = "preparing"}

Running == {k \in Size!Keys : rendering[k] # None /\ rendering[k].step # "queued"}

Phases == {"absent", "stored", "preparing", "refused", "prepared", "sized", "attached", "purging",
           "unsized", "gone"}

SizeTypes ==
    /\ picture \in [Uploaded -> Phases]
    /\ slots \in Nat
    /\ rendering \in [Size!Keys -> {None} \cup Size!Flight]

SlotInv ==
    /\ SizeTypes
    /\ slots + Cardinality(Preparing) + Cardinality(Running) = Workers

\* FiniteSets as the instance names it.
LEMMA SameNotions ==
    ASSUME NEW S PROVE Size!Cardinality(S) = Cardinality(S) /\ Size!IsFiniteSet(S) = IsFiniteSet(S)
BY DEF Size!Cardinality, Cardinality, Size!IsFiniteSet, IsFiniteSet

LEMMA Finite ==
    ASSUME Size!Settings
    PROVE  /\ IsFiniteSet(Preparing) /\ Cardinality(Preparing) \in Nat
           /\ IsFiniteSet(Running) /\ Cardinality(Running) \in Nat
<1>0. IsFiniteSet(Uploaded) /\ IsFiniteSet(Sizes)
  BY SameNotions DEF Size!Settings
<1>1. IsFiniteSet(Size!Keys)
  BY <1>0, FS_Product DEF Size!Keys
<1>2. Preparing \subseteq Uploaded /\ Running \subseteq Size!Keys
  BY DEF Preparing, Running
<1> QED  BY <1>0, <1>1, <1>2, FS_Subset, FS_CardinalityType

\* No slot is given or taken.
LEMMA SameSlots ==
    ASSUME SlotInv, SizeTypes', slots' = slots, Preparing' = Preparing, Running' = Running
    PROVE  SlotInv'
BY DEF SlotInv

LEMMA SizeInit == ASSUME Size!Settings, Size!Init PROVE SlotInv
<1>1. Preparing = {} /\ Running = {}
  BY DEF Size!Init, Preparing, Running
<1>2. SizeTypes
  BY DEF Size!Init, Size!Settings, SizeTypes, Phases
<1> QED  BY <1>1, <1>2, FS_EmptySet DEF Size!Init, Size!Settings, SlotInv

\* A picture's step that is not the beginning or the end of its preparation.
LEMMA PictureMoves ==
    ASSUME SlotInv, NEW p \in Uploaded, NEW from \in Phases \ {"preparing"},
           NEW to \in Phases \ {"preparing"}, Size!Step(p, from, to),
           UNCHANGED <<slots, rendering>>
    PROVE  SlotInv'
<1>1. SizeTypes' /\ Preparing' = Preparing
  BY DEF SlotInv, SizeTypes, Preparing, Size!Step
<1>2. Running' = Running
  BY DEF Running
<1> QED  BY <1>1, <1>2, SameSlots

LEMMA PrepareBeginKeeps ==
    ASSUME Size!Settings, SlotInv, NEW p \in Uploaded, Size!PrepareBegin(p) PROVE SlotInv'
<1>1. /\ picture[p] = "stored" /\ picture' = [picture EXCEPT ![p] = "preparing"]
      /\ slots > 0 /\ slots' = slots - 1 /\ rendering' = rendering
  BY DEF Size!PrepareBegin, Size!Step, Size!AcquireSlot
<1>2. SizeTypes' /\ Preparing' = Preparing \cup {p} /\ p \notin Preparing
  BY <1>1 DEF SlotInv, SizeTypes, Preparing, Phases
<1>3. Cardinality(Preparing') = Cardinality(Preparing) + 1
  BY <1>2, Finite, FS_AddElement
<1>4. Running' = Running
  BY <1>1 DEF Running
<1> QED  BY <1>1, <1>2, <1>3, <1>4, Finite DEF SlotInv, SizeTypes

LEMMA PrepareEndKeeps ==
    ASSUME Size!Settings, SlotInv, NEW p \in Uploaded, Size!PrepareEnd(p) PROVE SlotInv'
<1>1. PICK to \in {"prepared", "refused"} :
        /\ picture[p] = "preparing" /\ picture' = [picture EXCEPT ![p] = to]
        /\ slots' = slots + 1 /\ rendering' = rendering
  BY DEF Size!PrepareEnd, Size!Step, Size!ReleaseSlot
<1>2. SizeTypes' /\ Preparing' = Preparing \ {p} /\ p \in Preparing
  BY <1>1 DEF SlotInv, SizeTypes, Preparing, Phases
<1>3. Cardinality(Preparing') = Cardinality(Preparing) - 1
  BY <1>2, Finite, FS_RemoveElement
<1>4. Running' = Running
  BY <1>1 DEF Running
<1> QED  BY <1>1, <1>2, <1>3, <1>4, Finite DEF SlotInv, SizeTypes

\* A rendering goes on, or is over; whether it had a slot before and has one then decides.
LEMMA FlightMoves ==
    ASSUME Size!Settings, SlotInv, NEW k \in Size!Keys, NEW to \in {None} \cup Size!Flight,
           picture' = picture, rendering' = [rendering EXCEPT ![k] = to],
           \/ /\ slots' = slots
              /\ k \in Running <=> (to # None /\ to.step # "queued")
           \/ slots > 0 /\ slots' = slots - 1 /\ k \notin Running /\ to # None /\ to.step # "queued"
           \/ slots' = slots + 1 /\ k \in Running /\ to = None
    PROVE  SlotInv'
<1>1. SizeTypes' /\ rendering'[k] = to /\ \A j \in Size!Keys : j # k => rendering'[j] = rendering[j]
  BY DEF SlotInv, SizeTypes
<1>2. Preparing' = Preparing
  BY DEF Preparing
<1>3. CASE slots' = slots /\ (k \in Running <=> (to # None /\ to.step # "queued"))
  <2>1. Running' = Running
    BY <1>1, <1>3 DEF Running
  <2> QED  BY <1>1, <1>2, <1>3, <2>1, SameSlots
<1>4. CASE slots > 0 /\ slots' = slots - 1 /\ k \notin Running /\ to # None /\ to.step # "queued"
  <2>1. Running' = Running \cup {k}
    BY <1>1, <1>4 DEF Running
  <2>2. Cardinality(Running') = Cardinality(Running) + 1
    BY <1>4, <2>1, Finite, FS_AddElement
  <2> QED  BY <1>1, <1>2, <1>4, <2>2, Finite DEF SlotInv, SizeTypes
<1>5. CASE slots' = slots + 1 /\ k \in Running /\ to = None
  <2>1. Running' = Running \ {k}
    BY <1>1, <1>5 DEF Running
  <2>2. Cardinality(Running') = Cardinality(Running) - 1
    BY <1>5, <2>1, Finite, FS_RemoveElement
  <2> QED  BY <1>1, <1>2, <1>5, <2>2, Finite DEF SlotInv, SizeTypes
<1> QED  BY <1>3, <1>4, <1>5

LEMMA FlightFacts ==
    ASSUME Size!Settings, SlotInv, NEW k \in Size!Keys, rendering[k] # None
    PROVE  /\ rendering[k] \in Size!Flight
           /\ \A step \in {"queued", "slot", "rendered"} :
                 /\ [rendering[k] EXCEPT !.step = step] \in Size!Flight
                 /\ [rendering[k] EXCEPT !.step = step].step = step
                 /\ [rendering[k] EXCEPT !.step = step] # None
<1>1. rendering[k] \in Size!Flight
  BY DEF SlotInv, SizeTypes
<1>2. ASSUME NEW step \in {"queued", "slot", "rendered"}
      PROVE  /\ [rendering[k] EXCEPT !.step = step] \in Size!Flight
             /\ [rendering[k] EXCEPT !.step = step].step = step
  BY <1>1 DEF Size!Flight
<1> QED  BY <1>1, <1>2 DEF Size!Settings

LEMMA RenderBeginKeeps ==
    ASSUME Size!Settings, SlotInv, NEW k \in Size!Keys, Size!RenderBegin(k) PROVE SlotInv'
<1>1. rendering[k] # None /\ rendering[k].step = "queued" /\ picture' = picture /\ k \notin Running
  BY DEF Size!RenderBegin, Running
<1>2. CASE /\ slots > 0 /\ slots' = slots - 1
           /\ rendering' = [rendering EXCEPT ![k] = [rendering[k] EXCEPT !.step = "slot"]]
  BY <1>1, <1>2, FlightFacts, FlightMoves
<1>3. CASE slots' = slots /\ rendering' = [rendering EXCEPT ![k] = None]
  BY <1>1, <1>3, FlightMoves
<1> QED  BY <1>2, <1>3 DEF Size!RenderBegin, Size!AcquireSlot, Size!Land

LEMMA OpenSourceKeeps ==
    ASSUME Size!Settings, SlotInv, NEW k \in Size!Keys, Size!OpenSource(k) PROVE SlotInv'
<1>1. rendering[k] # None /\ rendering[k].step = "slot" /\ picture' = picture /\ k \in Running
  BY DEF Size!OpenSource, Running
<1>2. CASE /\ slots' = slots
           /\ rendering' = [rendering EXCEPT ![k] = [rendering[k] EXCEPT !.step = "rendered"]]
  BY <1>1, <1>2, FlightFacts, FlightMoves
<1>3. CASE slots' = slots + 1 /\ rendering' = [rendering EXCEPT ![k] = None]
  BY <1>1, <1>3, FlightMoves
<1> QED  BY <1>2, <1>3 DEF Size!OpenSource, Size!FailedRender, Size!ReleaseSlot, Size!Land

LEMMA StoreRenderedKeeps ==
    ASSUME Size!Settings, SlotInv, NEW k \in Size!Keys, Size!StoreRendered(k) PROVE SlotInv'
<1>1. /\ rendering[k] # None /\ rendering[k].step = "rendered" /\ picture' = picture
      /\ slots' = slots + 1 /\ rendering' = [rendering EXCEPT ![k] = None]
  BY DEF Size!StoreRendered, Size!Land, Size!ReleaseSlot
<1>2. k \in Running
  BY <1>1 DEF Running
<1> QED  BY <1>1, <1>2, FlightMoves

LEMMA ServeKeeps ==
    ASSUME Size!Settings, SlotInv, NEW r \in Viewers, reader[r].key \in Size!Keys,
           Size!Serve(r)
    PROVE  SlotInv'
<1> DEFINE new == [by |-> r, step |-> "queued"]
<1>1. PICK k \in Size!Keys : k = reader[r].key
  OBVIOUS
<1>2. new \in Size!Flight /\ new.step = "queued"
  BY DEF Size!Flight
<1>3. picture' = picture /\ slots' = slots
  BY DEF Size!Serve
<1>4. CASE rendering' = rendering
  BY <1>3, <1>4, SameSlots DEF SlotInv, SizeTypes, Preparing, Running
<1>5. CASE rendering[k] = None /\ rendering' = [rendering EXCEPT ![k] = new]
  <2>1. k \notin Running
    BY <1>5 DEF Running
  <2> HIDE DEF new
  <2> QED  BY <1>2, <1>3, <1>5, <2>1, FlightMoves
<1> QED  BY <1>1, <1>4, <1>5 DEF Size!Serve

LEMMA LeaveKeeps ==
    ASSUME Size!Settings, SlotInv, NEW r \in Viewers, Size!Leave(r) PROVE SlotInv'
<1>1. /\ picture' = picture /\ slots' = slots
      /\ rendering' = [k \in Size!Keys |->
            IF rendering[k] # None /\ rendering[k].by = r
            THEN [rendering[k] EXCEPT !.by = None] ELSE rendering[k]]
  BY DEF Size!Leave
<1>2. ASSUME NEW k \in Size!Keys
      PROVE  /\ rendering'[k] \in {None} \cup Size!Flight
             /\ rendering'[k] = None <=> rendering[k] = None
             /\ rendering[k] # None => rendering'[k].step = rendering[k].step
  <2>1. CASE rendering[k] # None /\ rendering[k].by = r
    <3>1. rendering'[k] = [rendering[k] EXCEPT !.by = None]
      BY <1>1, <2>1
    <3>2. rendering'[k] \in Size!Flight /\ rendering'[k].step = rendering[k].step
      BY <2>1, <3>1 DEF SlotInv, SizeTypes, Size!Flight
    <3> QED  BY <2>1, <3>2 DEF Size!Settings
  <2>2. CASE ~ (rendering[k] # None /\ rendering[k].by = r)
    BY <1>1, <2>2 DEF SlotInv, SizeTypes
  <2> QED  BY <2>1, <2>2
<1>3. SizeTypes' /\ Running' = Running /\ Preparing' = Preparing
  BY <1>1, <1>2 DEF SlotInv, SizeTypes, Running, Preparing
<1> QED  BY <1>1, <1>3, SameSlots

ReaderPhases == {"idle", "found", "waiting", "rendered", "served", "failed", "left"}

\* A request that is under way is for a size.
KeysKnown ==
    /\ reader \in [Viewers -> [phase : ReaderPhases, key : Size!Keys \cup {None}]]
    /\ \A r \in Viewers : reader[r].phase # "idle" => reader[r].key \in Size!Keys

LEMMA KeysStayKnown ==
    ASSUME KeysKnown, [Size!Next]_Size!vars PROVE KeysKnown'
<1>1. CASE UNCHANGED reader
  BY <1>1 DEF KeysKnown
<1>2. ASSUME NEW r \in Viewers, NEW k \in Size!Keys, Size!ImageSize(r, k) PROVE KeysKnown'
  <2> DEFINE new == [phase |-> "found", key |-> k]
  <2>1. new \in [phase : ReaderPhases, key : Size!Keys \cup {None}] /\ new.key = k
    BY DEF ReaderPhases
  <2>2. reader' = [reader EXCEPT ![r] = new]
    BY <1>2 DEF Size!ImageSize
  <2> HIDE DEF new
  <2> QED  BY <2>1, <2>2 DEF KeysKnown
<1>3. ASSUME NEW r \in Viewers, NEW phase \in ReaderPhases, reader[r].phase # "idle",
             Size!Becomes(r, phase)
      PROVE  KeysKnown'
  <2> DEFINE new == [reader[r] EXCEPT !.phase = phase]
  <2>1. new \in [phase : ReaderPhases, key : Size!Keys \cup {None}] /\ new.key = reader[r].key
    BY <1>3 DEF KeysKnown
  <2>2. reader' = [reader EXCEPT ![r] = new]
    BY <1>3 DEF Size!Becomes
  <2> HIDE DEF new
  <2> QED  BY <1>3, <2>1, <2>2 DEF KeysKnown
<1>4. ASSUME NEW k \in Size!Keys, NEW phase \in ReaderPhases, Size!Land(k, phase) PROVE KeysKnown'
  <2>1. reader' = [r \in Viewers |-> IF r \in Size!Waiting(k)
                                     THEN [reader[r] EXCEPT !.phase = phase] ELSE reader[r]]
    BY <1>4 DEF Size!Land
  <2>2. ASSUME NEW r \in Viewers
        PROVE  /\ reader'[r] \in [phase : ReaderPhases, key : Size!Keys \cup {None}]
               /\ reader'[r].key = reader[r].key
               /\ reader[r].phase = "idle" => reader'[r] = reader[r]
    <3>1. reader[r] \in [phase : ReaderPhases, key : Size!Keys \cup {None}]
      BY DEF KeysKnown
    <3>2. CASE r \in Size!Waiting(k)
      BY <2>1, <3>1, <3>2 DEF Size!Waiting
    <3>3. CASE r \notin Size!Waiting(k)
      BY <2>1, <3>1, <3>3
    <3> QED  BY <3>2, <3>3
  <2> QED  BY <2>1, <2>2 DEF KeysKnown
<1>5. CASE UNCHANGED Size!vars
  BY <1>1, <1>5 DEF Size!vars
<1>6. ASSUME NEW p \in Uploaded,
             \/ Size!Put(p) \/ Size!PrepareBegin(p) \/ Size!PrepareEnd(p) \/ Size!PutSizes(p)
             \/ Size!Attach(p) \/ Size!PreparePurge(p) \/ Size!DeleteImageSizes(p)
             \/ Size!DeletePurgedBlob(p)
      PROVE  UNCHANGED reader
  BY <1>6 DEF Size!Put, Size!PrepareBegin, Size!PrepareEnd, Size!PutSizes, Size!Attach,
              Size!PreparePurge, Size!DeleteImageSizes, Size!DeletePurgedBlob
<1>7. ASSUME NEW r \in Viewers, Size!Serve(r) \/ Size!Leave(r) \/ Size!Redirect(r)
      PROVE  KeysKnown'
  <2>1. reader[r].phase # "idle"
    BY <1>7 DEF Size!Serve, Size!Leave, Size!Redirect
  <2>2. \/ Size!Becomes(r, "served") \/ Size!Becomes(r, "waiting") \/ Size!Becomes(r, "left")
        \/ Size!Becomes(r, "failed")
    BY <1>7 DEF Size!Serve, Size!Leave, Size!Redirect
  <2>3. {"served", "waiting", "left", "failed"} \subseteq ReaderPhases
    BY DEF ReaderPhases
  <2> QED  BY <1>3, <2>1, <2>2, <2>3
<1>8. ASSUME NEW k \in Size!Keys,
             Size!RenderBegin(k) \/ Size!OpenSource(k) \/ Size!StoreRendered(k)
      PROVE  KeysKnown'
  <2>1. UNCHANGED reader \/ Size!Land(k, "failed") \/ Size!Land(k, "rendered")
    BY <1>8 DEF Size!RenderBegin, Size!OpenSource, Size!StoreRendered
  <2>2. "failed" \in ReaderPhases /\ "rendered" \in ReaderPhases
    BY DEF ReaderPhases
  <2> QED  BY <1>1, <1>4, <2>1, <2>2
<1>9. CASE Size!DiskFills \/ Size!ClearImageCache
  BY <1>1, <1>9 DEF Size!DiskFills, Size!ClearImageCache
<1> QED
  BY <1>1, <1>2, <1>5, <1>6, <1>7, <1>8, <1>9 DEF Size!Next

LEMMA SlotStep ==
    ASSUME Size!Settings, KeysKnown, SlotInv, [Size!Next]_Size!vars PROVE SlotInv'
<1>1. ASSUME UNCHANGED <<picture, slots, rendering>> PROVE SlotInv'
  BY <1>1, SameSlots DEF SlotInv, SizeTypes, Preparing, Running
<1>2. ASSUME NEW p \in Uploaded, Size!Put(p) PROVE SlotInv'
  <2>1. Size!Step(p, "absent", IF Size!MakeSpace THEN "stored" ELSE "absent")
        /\ UNCHANGED <<slots, rendering>>
    BY <1>2 DEF Size!Put
  <2> QED  BY <2>1, PictureMoves DEF Phases
<1>3. ASSUME NEW p \in Uploaded,
             \/ Size!PutSizes(p) \/ Size!Attach(p) \/ Size!PreparePurge(p)
             \/ Size!DeleteImageSizes(p) \/ Size!DeletePurgedBlob(p)
      PROVE  SlotInv'
  <2>1. /\ UNCHANGED <<slots, rendering>>
        /\ \E from, to \in Phases \ {"preparing"} : Size!Step(p, from, to)
    BY <1>3 DEF Size!PutSizes, Size!Attach, Size!PreparePurge, Size!DeleteImageSizes,
                Size!DeletePurgedBlob, Phases
  <2> QED  BY <2>1, PictureMoves
<1>4. ASSUME NEW r \in Viewers, NEW k \in Size!Keys, Size!ImageSize(r, k) PROVE SlotInv'
  BY <1>1, <1>4 DEF Size!ImageSize
<1>5. ASSUME NEW r \in Viewers, Size!Serve(r) PROVE SlotInv'
  <2>1. reader[r].key \in Size!Keys
    BY <1>5 DEF Size!Serve, KeysKnown
  <2> QED  BY <1>5, <2>1, ServeKeeps
<1>6. ASSUME NEW r \in Viewers, Size!Redirect(r) PROVE SlotInv'
  BY <1>1, <1>6 DEF Size!Redirect
<1>7. CASE Size!DiskFills \/ Size!ClearImageCache \/ UNCHANGED Size!vars
  BY <1>1, <1>7 DEF Size!DiskFills, Size!ClearImageCache, Size!vars
<1> QED
  BY <1>2, <1>3, <1>4, <1>5, <1>6, <1>7, PrepareBeginKeeps, PrepareEndKeeps, RenderBeginKeeps,
     OpenSourceKeeps, StoreRenderedKeeps, LeaveKeeps
  DEF Size!Next

\* No way out of a rendering or an upload keeps its slot: neither a picture that is gone or
\* cannot be decoded, nor a reader who leaves, nor a full disk.
THEOREM SlotsComeBack == ASSUME Size!Settings PROVE Size!Spec => []SlotsAreReturned
<1>1. Size!Init => SlotInv /\ KeysKnown
  <2>1. Size!Idle \in [phase : ReaderPhases, key : Size!Keys \cup {None}] /\ Size!Idle.phase = "idle"
    BY DEF Size!Idle, ReaderPhases
  <2>2. Size!Init => KeysKnown
    BY <2>1 DEF Size!Init, KeysKnown
  <2> QED  BY <2>2, SizeInit
<1>2. SlotInv => SlotsAreReturned
  BY SameNotions DEF SlotInv, SlotsAreReturned, Size!SlotsAreReturned, Preparing, Running
<1> QED  BY <1>1, <1>2, SlotStep, KeysStayKnown, PTL DEF Size!Spec

-----------------------------------------------------------------------------
(* Counts.  While a day lasts its secret stays, so the keys of the day differ *)
(* in the reader or the counter, and each stands for one count.               *)

KeyRow == [day : Days, counter : Counters, reader : Readers, secret : Nat]

RequestRow ==
    [phase : {"make", "forget", "read", "count"}, counter : Counters, reader : Readers,
     day : Days, secret : Nat, again : BOOLEAN]

CountTypes ==
    /\ today \in Days
    /\ secret \in [Days -> Nat] /\ made \in [Days -> Nat]
    /\ keys \in SUBSET KeyRow
    /\ request \in [Requests -> {None} \cup RequestRow]
    /\ events \in [Days -> [Counters -> Nat]]

\* A request with the day's secret has the one the day still has.
RowInOrder(r) ==
    r # None =>
        /\ r.day <= today
        /\ (r.day = today /\ r.phase = "count" => r.secret = secret[today] /\ secret[today] # 0)

KeyInOrder(k) ==
    k.day <= today /\ (k.day = today => k.secret = secret[today] /\ secret[today] # 0)

NothingAhead == \A d \in Days, c \in Counters : d > today => events[d][c] = 0

CountedReaders(c) ==
    {x \in Readers : \E k \in keys : k.day = today /\ k.counter = c /\ k.reader = x}

OncePerKey ==
    \A c \in Counters : c[1] # "send" => events[today][c] <= Cardinality(CountedReaders(c))

CountInv ==
    /\ CountTypes
    /\ \A q \in Requests : RowInOrder(request[q])
    /\ \A k \in keys : KeyInOrder(k)
    /\ NothingAhead
    /\ OncePerKey

LEMMA DaysAreNaturals == ASSUME CountSettings PROVE Days \subseteq Nat /\ 0 \in Days
BY DEF Days, CountSettings

LEMMA ReadersCounted ==
    ASSUME CountSettings, NEW c
    PROVE  /\ IsFiniteSet(CountedReaders(c)) /\ Cardinality(CountedReaders(c)) \in Nat
           /\ Cardinality(CountedReaders(c)) <= Cardinality(Readers)
           /\ Cardinality(CountedReaders(c)') \in Nat
<1>1. CountedReaders(c) \subseteq Readers /\ CountedReaders(c)' \subseteq Readers
  BY DEF CountedReaders
<1> QED  BY <1>1, FS_Subset, FS_CardinalityType DEF CountSettings

LEMMA CountInitInOrder == ASSUME CountSettings, CountInit PROVE CountInv
<1>1. CountTypes
  BY DaysAreNaturals DEF CountInit, CountTypes, NoCounts
<1>2. NothingAhead
  BY <1>1 DEF CountInit, NothingAhead, NoCounts
<1>3. OncePerKey
  <2>1. ASSUME NEW c \in Counters PROVE events[today][c] = 0
    BY DaysAreNaturals DEF CountInit, NoCounts
  <2> QED  BY <2>1, ReadersCounted DEF OncePerKey
<1> QED  BY <1>1, <1>2, <1>3 DEF CountInv, CountInit, RowInOrder

\* A step of one request that counts nothing.
LEMMA RequestMoves ==
    ASSUME CountSettings, CountInv, CountTypes', NEW q \in Requests,
           \A p \in Requests : p # q => request'[p] = request[p],
           RowInOrder(request[q])', today' = today, events' = events,
           secret'[today] = secret[today] \/ secret[today] = 0,
           keys' \subseteq keys, \A k \in keys : k.day >= today => k \in keys'
    PROVE  CountInv'
<1>1. \A p \in Requests : RowInOrder(request[p])'
  BY DEF CountInv, RowInOrder
<1>2. \A k \in keys' : KeyInOrder(k)'
  BY DEF CountInv, KeyInOrder
<1>3. NothingAhead'
  BY DEF CountInv, NothingAhead
<1>4. \A c \in Counters : CountedReaders(c)' = CountedReaders(c)
  <2>1. \A k \in keys : k.day = today => k \in keys'
    BY DaysAreNaturals DEF CountInv, CountTypes, KeyRow
  <2> QED  BY <2>1 DEF CountedReaders
<1>5. OncePerKey'
  BY <1>4 DEF CountInv, OncePerKey
<1> QED  BY <1>1, <1>2, <1>3, <1>5 DEF CountInv

\* Nothing the counts depend on changes.
LEMMA NothingMoves ==
    ASSUME CountInv, UNCHANGED <<today, secret, made, keys, request, events>> PROVE CountInv'
<1>1. CountTypes' /\ NothingAhead'
  BY DEF CountInv, CountTypes, NothingAhead
<1>2. OncePerKey'
  BY DEF CountInv, OncePerKey, CountedReaders
<1> QED  BY <1>1, <1>2 DEF CountInv, RowInOrder, KeyInOrder

LEMMA BeginKeeps ==
    ASSUME CountSettings, CountInv, NEW q \in Requests, NEW counter \in Counters,
           NEW x \in Readers, Begin(q, counter, x)
    PROVE  CountInv'
<1> DEFINE new == [phase |-> "make", counter |-> counter, reader |-> x, day |-> today,
                   secret |-> 0, again |-> FALSE]
<1>1. request' = [request EXCEPT ![q] = new] /\ UNCHANGED <<today, secret, made, keys, events>>
  BY DEF Begin
<1>2. today \in Days
  BY DEF CountInv, CountTypes
<1>3. new \in RequestRow /\ new.day = today /\ new.phase = "make"
  BY <1>2 DEF RequestRow
<1> HIDE DEF new
<1>4. CountTypes' /\ request'[q] = new /\ \A p \in Requests : p # q => request'[p] = request[p]
  BY <1>1, <1>3 DEF CountInv, CountTypes
<1>5. RowInOrder(request[q])'
  BY <1>1, <1>2, <1>3, <1>4, DaysAreNaturals DEF RowInOrder
<1> QED  BY <1>1, <1>4, <1>5, RequestMoves

LEMMA RowType ==
    ASSUME CountInv, NEW q \in Requests, request[q] # None
    PROVE  /\ request[q] \in RequestRow /\ request[q].day \in Days
           /\ request[q].counter \in Counters /\ request[q].reader \in Readers
           /\ request[q].secret \in Nat /\ request[q].day <= today
BY DEF CountInv, CountTypes, RequestRow, RowInOrder

\* A request goes on in another phase, or is over.
LEMMA PhaseMoves ==
    ASSUME CountSettings, CountInv, NEW q \in Requests, request[q] # None,
           Finish(q) \/ \E phase \in {"forget", "read"} : Becomes(q, phase)
    PROVE  /\ request' \in [Requests -> {None} \cup RequestRow]
           /\ \A p \in Requests : p # q => request'[p] = request[p]
           /\ today' = today => RowInOrder(request[q])'
<1>1. request[q] \in RequestRow /\ request[q].day <= today
  BY RowType
<1>2. CASE Finish(q)
  BY <1>2 DEF Finish, CountInv, CountTypes, RowInOrder
<1>3. CASE \E phase \in {"forget", "read"} : Becomes(q, phase)
  <2>1. PICK phase \in {"forget", "read"} : Becomes(q, phase)
    BY <1>3
  <2> DEFINE new == [request[q] EXCEPT !.phase = phase]
  <2>2. new \in RequestRow /\ new.phase = phase /\ new.day = request[q].day
    BY <1>1 DEF RequestRow
  <2>3. request' = [request EXCEPT ![q] = new]
    BY <2>1 DEF Becomes
  <2> HIDE DEF new
  <2> QED  BY <1>1, <2>2, <2>3 DEF CountInv, CountTypes, RowInOrder
<1> QED  BY <1>2, <1>3

LEMMA MakeSecretKeeps ==
    ASSUME CountSettings, CountInv, NEW q \in Requests, MakeSecret(q) PROVE CountInv'
<1>1. request[q] # None /\ UNCHANGED <<today, keys, events>>
  BY DEF MakeSecret, At
<1>2. PICK d \in Days : d = request[q].day
  BY <1>1, RowType
<1>3. \/ UNCHANGED <<made, secret>>
      \/ /\ secret[d] = 0 /\ made' = [made EXCEPT ![d] = @ + 1]
         /\ secret' = [secret EXCEPT ![d] = made[d] + 1]
  BY <1>2 DEF MakeSecret
<1>4. \E phase \in {"forget", "read"} : Becomes(q, phase)
  BY DEF MakeSecret
<1>5. /\ secret' \in [Days -> Nat] /\ made' \in [Days -> Nat]
      /\ secret'[today] = secret[today] \/ secret[today] = 0
  <2>1. secret \in [Days -> Nat] /\ made \in [Days -> Nat] /\ made[d] + 1 \in Nat
    BY DEF CountInv, CountTypes
  <2>2. CASE UNCHANGED <<made, secret>>
    BY <2>1, <2>2
  <2>3. CASE /\ secret[d] = 0 /\ made' = [made EXCEPT ![d] = @ + 1]
             /\ secret' = [secret EXCEPT ![d] = made[d] + 1]
    <3>1. secret' \in [Days -> Nat] /\ made' \in [Days -> Nat]
      BY <2>1, <2>3
    <3>2. today # d => secret'[today] = secret[today]
      BY <2>1, <2>3 DEF CountInv, CountTypes
    <3> QED  BY <2>3, <3>1, <3>2
  <2> QED  BY <1>3, <2>2, <2>3
<1>6. CountTypes'
  BY <1>1, <1>4, <1>5, PhaseMoves DEF CountInv, CountTypes
<1> QED  BY <1>1, <1>4, <1>5, <1>6, PhaseMoves, RequestMoves

LEMMA ForgetKeeps ==
    ASSUME CountSettings, CountInv, NEW d \in Days, d <= today, Forget(d)
    PROVE  /\ secret' \in [Days -> Nat] /\ secret'[today] = secret[today]
           /\ keys' \subseteq keys /\ \A k \in keys : k.day >= today => k \in keys'
<1>1. today \in Nat /\ today \in Days /\ d \in Nat
  BY DaysAreNaturals DEF CountInv, CountTypes
<1>2. \A k \in keys : k.day \in Nat
  BY DaysAreNaturals DEF CountInv, CountTypes, KeyRow
<1> QED  BY <1>1, <1>2 DEF Forget, CountInv, CountTypes

LEMMA ForgetEarlierKeeps ==
    ASSUME CountSettings, CountInv, NEW q \in Requests, ForgetEarlier(q) PROVE CountInv'
<1>1. /\ request[q] # None /\ UNCHANGED <<today, made, events>>
      /\ Becomes(q, "read") /\ Forget(request[q].day)
  BY DEF ForgetEarlier, At
<1>2. request[q].day \in Days /\ request[q].day <= today
  BY <1>1, RowType
<1>3. /\ secret' \in [Days -> Nat] /\ secret'[today] = secret[today]
      /\ keys' \subseteq keys /\ \A k \in keys : k.day >= today => k \in keys'
  BY <1>1, <1>2, ForgetKeeps
<1>4. CountTypes'
  BY <1>1, <1>3, PhaseMoves DEF CountInv, CountTypes
<1> QED  BY <1>1, <1>3, <1>4, PhaseMoves, RequestMoves

LEMMA ReadSecretKeeps ==
    ASSUME CountSettings, CountInv, NEW q \in Requests, ReadSecret(q) PROVE CountInv'
<1>1. request[q] # None /\ UNCHANGED <<today, secret, made, keys, events>>
  BY DEF ReadSecret, At
<1>2. PICK d \in Days : d = request[q].day
  BY <1>1, RowType
<1>3. CASE secret[d] = 0
  <2>1. Finish(q)
    BY <1>2, <1>3 DEF ReadSecret
  <2>2. CountTypes'
    BY <1>1, <2>1, PhaseMoves DEF CountInv, CountTypes
  <2> QED  BY <1>1, <2>1, <2>2, PhaseMoves, RequestMoves
<1>4. CASE secret[d] # 0
  <2> DEFINE new == [request[q] EXCEPT !.phase = "count", !.secret = secret[d]]
  <2>1. request' = [request EXCEPT ![q] = new]
    BY <1>2, <1>4 DEF ReadSecret, CountInv, CountTypes
  <2>2. secret[d] \in Nat
    BY DEF CountInv, CountTypes
  <2>3. new \in RequestRow /\ new.day = d /\ new.secret = secret[d]
    BY <1>1, <1>2, <2>2, RowType DEF RequestRow
  <2> HIDE DEF new
  <2>4. CountTypes' /\ request'[q] = new /\ \A p \in Requests : p # q => request'[p] = request[p]
    BY <1>1, <2>1, <2>3 DEF CountInv, CountTypes
  <2>5. d <= today
    BY <1>1, <1>2, RowType
  <2>6. RowInOrder(request[q])'
    BY <1>1, <1>4, <2>3, <2>4, <2>5 DEF RowInOrder
  <2> QED  BY <1>1, <2>4, <2>6, RequestMoves
<1> QED  BY <1>3, <1>4

\* A key that is new counts a reader who had not counted yet on the day, or another day.
LEMMA RecordKeeps ==
    ASSUME CountSettings, CountInv, NEW q \in Requests, request[q] # None,
           request[q].phase = "count", secret[request[q].day] # 0, Key(request[q]) \notin keys,
           keys' = keys \cup {Key(request[q])},
           events' = [events EXCEPT ![request[q].day][request[q].counter] = @ + 1],
           Finish(q), UNCHANGED <<today, secret, made>>
    PROVE  CountInv'
<1>1. PICK d \in Days, c \in Counters, x \in Readers, n \in Nat :
        /\ d = request[q].day /\ c = request[q].counter
        /\ x = request[q].reader /\ n = request[q].secret /\ d <= today
  BY RowType
<1>2. PICK new \in KeyRow : /\ new = Key(request[q])
                            /\ new.day = d /\ new.counter = c /\ new.reader = x
                            /\ new.secret = n
  BY <1>1 DEF Key, KeyRow
<1>3. /\ events' \in [Days -> [Counters -> Nat]]
      /\ events'[d][c] = events[d][c] + 1
      /\ \A e \in Days, b \in Counters : e # d \/ b # c => events'[e][b] = events[e][b]
  <2> DEFINE row == [events[d] EXCEPT ![c] = events[d][c] + 1]
  <2>1. events' = [events EXCEPT ![d] = row]
    BY <1>1 DEF CountInv, CountTypes
  <2>2. events[d] \in [Counters -> Nat] /\ events[d][c] + 1 \in Nat
    BY DEF CountInv, CountTypes
  <2>3. /\ row \in [Counters -> Nat] /\ row[c] = events[d][c] + 1
        /\ \A b \in Counters : b # c => row[b] = events[d][b]
    BY <2>2
  <2> HIDE DEF row
  <2> QED  BY <2>1, <2>3 DEF CountInv, CountTypes
<1>4. CountTypes'
  BY <1>2, <1>3, PhaseMoves DEF CountInv, CountTypes
<1>5. d = today => n = secret[today] /\ secret[today] # 0
  BY <1>1 DEF CountInv, RowInOrder
<1>6. \A k \in keys' : KeyInOrder(k)'
  BY <1>1, <1>2, <1>5 DEF CountInv, KeyInOrder
<1>7. \A p \in Requests : RowInOrder(request[p])'
  BY PhaseMoves DEF CountInv, RowInOrder
<1>8. NothingAhead'
  <2>1. SUFFICES ASSUME NEW e \in Days, NEW b \in Counters, e > today PROVE events'[e][b] = 0
    BY DEF NothingAhead
  <2>2. e # d
    BY <1>1, <2>1, DaysAreNaturals DEF CountInv, CountTypes
  <2> QED  BY <1>3, <2>1, <2>2 DEF CountInv, NothingAhead
<1>9. OncePerKey'
  <2>1. SUFFICES ASSUME NEW b \in Counters, b[1] # "send"
                 PROVE  events'[today][b] <= Cardinality(CountedReaders(b)')
    BY DEF OncePerKey
  <2>2. /\ events[today][b] <= Cardinality(CountedReaders(b)) /\ events[today][b] \in Nat
        /\ Cardinality(CountedReaders(b)) \in Nat /\ Cardinality(CountedReaders(b)') \in Nat
        /\ IsFiniteSet(CountedReaders(b)) /\ today \in Days
    BY <2>1, ReadersCounted DEF CountInv, OncePerKey, CountTypes
  <2>3. CASE d = today /\ b = c
    <3>1. x \notin CountedReaders(b)
      <4>1. ASSUME NEW k \in keys, k.day = today, k.counter = b, k.reader = x PROVE FALSE
        <5>1. k \in KeyRow /\ k.secret = secret[today]
          BY <4>1 DEF CountInv, CountTypes, KeyInOrder
        <5>2. k = new
          BY <1>2, <1>5, <2>3, <4>1, <5>1 DEF KeyRow
        <5> QED  BY <1>2, <4>1, <5>2
      <4> QED  BY <4>1 DEF CountedReaders
    <3>2. CountedReaders(b)' = CountedReaders(b) \cup {x}
      BY <1>2, <2>3 DEF CountedReaders
    <3>3. Cardinality(CountedReaders(b)') = Cardinality(CountedReaders(b)) + 1
      BY <2>2, <3>1, <3>2, FS_AddElement
    <3> QED  BY <1>3, <2>2, <2>3, <3>3
  <2>4. CASE ~ (d = today /\ b = c)
    <3>1. CountedReaders(b)' = CountedReaders(b)
      BY <1>2, <2>4 DEF CountedReaders
    <3>2. events'[today][b] = events[today][b]
      BY <1>3, <2>2, <2>4
    <3> QED  BY <2>2, <3>1, <3>2
  <2> QED  BY <2>3, <2>4
<1> QED  BY <1>4, <1>6, <1>7, <1>8, <1>9 DEF CountInv

LEMMA CountOnceKeeps ==
    ASSUME CountSettings, CountInv, NEW q \in Requests, NEW open, CountOnce(q, open)
    PROVE  CountInv'
<1>1. request[q] # None /\ request[q].phase = "count" /\ UNCHANGED <<today, secret, made>>
  BY DEF CountOnce, At
<1>2. \/ Finish(q) /\ UNCHANGED <<keys, events>>
      \/ SecretGone(q) /\ UNCHANGED <<keys, events>>
      \/ secret[request[q].day] # 0 /\ Record(q) /\ Finish(q)
  BY DEF CountOnce
<1>3. CASE Finish(q) /\ UNCHANGED <<keys, events>>
  <2>1. CountTypes'
    BY <1>1, <1>3, PhaseMoves DEF CountInv, CountTypes
  <2> QED  BY <1>1, <1>3, <2>1, PhaseMoves, RequestMoves
<1>4. CASE /\ UNCHANGED <<keys, events>>
           /\ request' = [request EXCEPT ![q].phase = "make", ![q].again = TRUE]
  <2> DEFINE new == [request[q] EXCEPT !.phase = "make", !.again = TRUE]
  <2>1. request' = [request EXCEPT ![q] = new]
    BY <1>4 DEF CountInv, CountTypes
  <2>2. new \in RequestRow /\ new.day = request[q].day /\ new.phase = "make"
    BY <1>1, RowType DEF RequestRow
  <2> HIDE DEF new
  <2>3. CountTypes' /\ request'[q] = new /\ \A p \in Requests : p # q => request'[p] = request[p]
    BY <1>1, <1>4, <2>1, <2>2 DEF CountInv, CountTypes
  <2>4. RowInOrder(request[q])'
    BY <1>1, <2>2, <2>3, RowType DEF RowInOrder
  <2> QED  BY <1>1, <1>4, <2>3, <2>4, RequestMoves
<1>5. CASE secret[request[q].day] # 0 /\ Record(q) /\ Finish(q)
  <2>1. CASE Key(request[q]) \in keys
    BY <1>3, <1>5, <2>1 DEF Record
  <2>2. CASE Key(request[q]) \notin keys
    BY <1>1, <1>5, <2>2, RecordKeeps DEF Record
  <2> QED  BY <2>1, <2>2
<1> QED  BY <1>2, <1>3, <1>4, <1>5 DEF SecretGone

LEMMA RecordSendKeeps ==
    ASSUME CountSettings, CountInv, NEW app \in ConnectedApps, NEW w \in Works,
           RecordSend(app, w)
    PROVE  CountInv'
<1>1. UNCHANGED <<today, secret, made, keys, request>>
  BY DEF RecordSend
<1>2. CASE events' = events
  BY <1>1, <1>2, NothingMoves
<1>3. CASE events' = [events EXCEPT ![today][<<"send", w>>] = @ + 1]
  <2>1. PICK c \in Counters : c = <<"send", w>>
    BY DEF Counters
  <2>2. today \in Days /\ events[today] \in [Counters -> Nat]
    BY DEF CountInv, CountTypes
  <2> DEFINE row == [events[today] EXCEPT ![c] = events[today][c] + 1]
  <2>3. events' = [events EXCEPT ![today] = row]
    BY <1>3, <2>1, <2>2 DEF CountInv, CountTypes
  <2>4. row \in [Counters -> Nat] /\ \A b \in Counters : b # c => row[b] = events[today][b]
    BY <2>2
  <2> HIDE DEF row
  <2>5. CountTypes'
    BY <1>1, <2>3, <2>4 DEF CountInv, CountTypes
  <2>6. NothingAhead'
    <3>1. \A d \in Days : d > today => d # today
      BY <2>2, DaysAreNaturals
    <3> QED  BY <1>1, <2>3, <3>1 DEF CountInv, CountTypes, NothingAhead
  <2>7. OncePerKey'
    <3>1. \A b \in Counters : CountedReaders(b)' = CountedReaders(b)
      BY <1>1 DEF CountedReaders
    <3>2. \A b \in Counters : b[1] # "send" => events'[today][b] = events[today][b]
      BY <2>1, <2>2, <2>3, <2>4 DEF CountInv, CountTypes
    <3> QED  BY <1>1, <3>1, <3>2 DEF CountInv, OncePerKey
  <2> QED  BY <1>1, <2>5, <2>6, <2>7 DEF CountInv, RowInOrder, KeyInOrder
<1> QED  BY <1>2, <1>3 DEF RecordSend

LEMMA RollupKeeps == ASSUME CountSettings, CountInv, Rollup PROVE CountInv'
<1>1. Forget(today) /\ events' = Retained /\ UNCHANGED <<today, made, request>>
  BY DEF Rollup
<1>2. today \in Days /\ today \in Nat /\ today <= today
  BY DaysAreNaturals DEF CountInv, CountTypes
<1>3. /\ secret' \in [Days -> Nat] /\ secret'[today] = secret[today]
      /\ keys' \subseteq keys /\ \A k \in keys : k.day >= today => k \in keys'
  BY <1>1, <1>2, ForgetKeeps
<1>4. /\ events' \in [Days -> [Counters -> Nat]]
      /\ \A d \in Days : d >= today => events'[d] = events[d]
  <2>1. ASSUME NEW d \in Days
        PROVE  events'[d] \in [Counters -> Nat] /\ (d >= today => events'[d] = events[d])
    <3>1. NoCounts[d] \in [Counters -> Nat] /\ events[d] \in [Counters -> Nat]
      BY DEF NoCounts, CountInv, CountTypes
    <3>2. events'[d] = IF d < today - Retention THEN NoCounts[d] ELSE events[d]
      BY <1>1 DEF Retained
    <3>3. d >= today => ~ (d < today - Retention)
      BY <1>2, DaysAreNaturals DEF CountSettings
    <3> QED  BY <3>1, <3>2, <3>3
  <2> QED  BY <1>1, <2>1 DEF Retained
<1>5. CountTypes'
  BY <1>1, <1>3, <1>4 DEF CountInv, CountTypes
<1>6. NothingAhead'
  <2>1. \A d \in Days : d > today => d >= today
    BY <1>2, DaysAreNaturals
  <2> QED  BY <1>1, <1>4, <2>1 DEF CountInv, NothingAhead
<1>7. OncePerKey'
  <2>1. \A k \in keys : k.day = today => k \in keys'
    BY <1>2, <1>3
  <2>2. \A c \in Counters : CountedReaders(c)' = CountedReaders(c)
    BY <1>1, <1>3, <2>1 DEF CountedReaders
  <2> QED  BY <1>1, <1>2, <1>4, <2>2 DEF CountInv, OncePerKey
<1> QED  BY <1>1, <1>3, <1>5, <1>6, <1>7 DEF CountInv, RowInOrder, KeyInOrder

\* A day begins with no count and no key.
LEMMA MidnightKeeps == ASSUME CountSettings, CountInv, Midnight PROVE CountInv'
<1>1. /\ today < MaxDay /\ today' = today + 1
      /\ UNCHANGED <<secret, made, keys, request, events>>
  BY DEF Midnight
<1>2. today \in Nat /\ today \in Days /\ today' \in Days /\ today' > today
  BY <1>1, DaysAreNaturals DEF CountInv, CountTypes, Days, CountSettings
<1>3. CountTypes'
  BY <1>1, <1>2 DEF CountInv, CountTypes
<1>4. \A d \in Days : (d > today' => d > today) /\ (d <= today => d <= today' /\ d # today')
  BY <1>1, <1>2, DaysAreNaturals
<1>5. NothingAhead'
  BY <1>1, <1>4 DEF CountInv, NothingAhead
<1>6. \A k \in keys : KeyInOrder(k)' /\ k.day # today'
  BY <1>4 DEF CountInv, CountTypes, KeyRow, KeyInOrder
<1>7. \A q \in Requests : RowInOrder(request[q])'
  <2>1. ASSUME NEW q \in Requests, request[q] # None
        PROVE  request[q].day <= today' /\ request[q].day # today'
    BY <1>4, <2>1, RowType
  <2> QED  BY <1>1, <2>1 DEF RowInOrder
<1>8. OncePerKey'
  <2>1. \A c \in Counters : events'[today'][c] = 0
    BY <1>1, <1>2 DEF CountInv, NothingAhead
  <2>2. \A c \in Counters : Cardinality(CountedReaders(c)') \in Nat
    BY ReadersCounted
  <2> QED  BY <2>1, <2>2 DEF OncePerKey
<1> QED  BY <1>1, <1>3, <1>5, <1>6, <1>7, <1>8 DEF CountInv

LEMMA CountStepKeeps ==
    ASSUME CountSettings, CountInv, NEW open, CountStep(open) PROVE CountInv'
<1>1. ASSUME NEW q \in Requests, NEW x \in Readers,
             \/ \E w \in Works : RecordView(q, w, x) \/ RecordDownload(q, w, x)
             \/ RecordVisit(q, x)
      PROVE  CountInv'
  <2>1. \E c \in Counters : Begin(q, c, x)
    BY <1>1 DEF RecordView, RecordDownload, RecordVisit, Counters
  <2> QED  BY <2>1, BeginKeeps
<1> QED
  BY <1>1, MakeSecretKeeps, ForgetEarlierKeeps, ReadSecretKeeps, CountOnceKeeps, RecordSendKeeps,
     RollupKeeps, MidnightKeeps
  DEF CountStep

LEMMA CatalogueStep == ASSUME CountSettings, CountInv, [Next]_vars PROVE CountInv'
<1>1. ASSUME NEW w \in Works, NEW changed, Change(w, changed) PROVE CountInv'
  BY <1>1, NothingMoves DEF Change
<1>2. ASSUME NEW w \in Works,
             \/ Publish(w) \/ SetWorkVisibility(w) \/ Delete(w) \/ Restore(w)
             \/ TakeDown(w) \/ LiftTakedown(w)
      PROVE  CountInv'
  <2>1. \E changed : Change(w, changed)
    BY <1>2 DEF Publish, SetWorkVisibility, SetVisibility, Delete, Restore, TakeDown, LiftTakedown
  <2> QED  BY <1>1, <2>1
<1>3. ASSUME NEW own, NEW sort, ListWorks(own, sort) PROVE CountInv'
  BY <1>3, NothingMoves DEF ListWorks, countVars
<1>4. CASE ListMore
  BY <1>4, NothingMoves DEF ListMore, countVars
<1>5. CASE UNCHANGED vars
  BY <1>5, NothingMoves DEF vars, countVars
<1> QED  BY <1>2, <1>3, <1>4, <1>5, CountStepKeeps DEF Next

-----------------------------------------------------------------------------
(* The days that are over.                                                   *)

LateOf(d) == {q \in Requests : request[q] # None /\ request[q].day = d}

\* The requests of a day that is over may each count once more.
DayInv ==
    /\ overnight \in [Days -> Nat] /\ totals \in [Days -> [Counters -> Nat]]
    /\ \A d \in Days : d >= today => overnight[d] = 0
    /\ \A d \in Days, c \in Counters : c[1] # "send" =>
          /\ d < today =>
                events[d][c] + Cardinality(LateOf(d)) <= Cardinality(Readers) + overnight[d]
          /\ totals[d][c] <= Cardinality(Readers) + overnight[d]

LEMMA LateCounted ==
    ASSUME CountSettings, NEW d
    PROVE  /\ IsFiniteSet(LateOf(d)) /\ Cardinality(LateOf(d)) \in Nat
           /\ Cardinality(Readers) \in Nat
           /\ \A S \in SUBSET LateOf(d) :
                 IsFiniteSet(S) /\ Cardinality(S) \in Nat /\ Cardinality(S) <= Cardinality(LateOf(d))
<1>1. LateOf(d) \subseteq Requests
  BY DEF LateOf
<1>2. IsFiniteSet(LateOf(d))
  BY <1>1, FS_Subset DEF CountSettings
<1> QED  BY <1>2, FS_Subset, FS_CardinalityType DEF CountSettings

LEMMA TodaysCount ==
    ASSUME CountSettings, CountInv, NEW c \in Counters, c[1] # "send"
    PROVE  events[today][c] \in Nat /\ events[today][c] <= Cardinality(Readers)
<1>1. /\ events[today][c] \in Nat /\ events[today][c] <= Cardinality(CountedReaders(c))
      /\ Cardinality(CountedReaders(c)) \in Nat /\ Cardinality(Readers) \in Nat
  BY ReadersCounted, FS_CardinalityType DEF CountInv, CountTypes, OncePerKey, CountSettings
<1> QED  BY <1>1, ReadersCounted

\* A step of a day after which no more has been counted on the days that are over, and no more
\* requests of them are at work.
LEMMA DaysStay ==
    ASSUME CountSettings, CountInv, DayInv, today' = today, UNCHANGED <<totals, overnight>>,
           CountTypes', \A d \in Days : d < today => LateOf(d)' \subseteq LateOf(d),
           \A d \in Days, c \in Counters :
              d < today /\ c[1] # "send" => events'[d][c] <= events[d][c]
    PROVE  DayInv'
<1>1. ASSUME NEW d \in Days, NEW c \in Counters, c[1] # "send", d < today
      PROVE  events'[d][c] + Cardinality(LateOf(d)') <= Cardinality(Readers) + overnight[d]
  <2>1. /\ Cardinality(LateOf(d)) \in Nat /\ Cardinality(LateOf(d)') \in Nat
        /\ Cardinality(LateOf(d)') <= Cardinality(LateOf(d)) /\ Cardinality(Readers) \in Nat
    BY <1>1, LateCounted
  <2>2. events[d][c] \in Nat /\ events'[d][c] \in Nat /\ overnight[d] \in Nat
    BY DEF CountInv, CountTypes, DayInv
  <2>3. events[d][c] + Cardinality(LateOf(d)) <= Cardinality(Readers) + overnight[d]
    BY <1>1 DEF DayInv
  <2>4. events'[d][c] <= events[d][c]
    BY <1>1
  <2> QED  BY <2>1, <2>2, <2>3, <2>4
<1> QED  BY <1>1 DEF DayInv

\* The requests go on or end, and none begins.
LEMMA LateStay ==
    ASSUME \A q \in Requests :
              request'[q] # None => request[q] # None /\ request'[q].day = request[q].day
    PROVE  \A d \in Days : LateOf(d)' \subseteq LateOf(d)
BY DEF LateOf

LEMMA DaysBegin ==
    ASSUME CountSettings, CountInv, DayInv, CountInv', NEW q \in Requests,
           NEW counter \in Counters, NEW x \in Readers, Begin(q, counter, x)
    PROVE  DayInv'
<1>1. /\ request[q] = None /\ UNCHANGED <<today, events, totals, overnight>>
      /\ request'[q].day = today /\ \A p \in Requests : p # q => request'[p] = request[p]
  BY DEF Begin, CountInv, CountTypes
<1>2. ASSUME NEW d \in Days, d < today PROVE LateOf(d)' \subseteq LateOf(d)
  <2>1. d # today
    BY <1>2, DaysAreNaturals DEF CountInv, CountTypes
  <2> QED  BY <1>1, <2>1 DEF LateOf
<1>3. \A d \in Days, c \in Counters : events'[d][c] <= events[d][c]
  BY <1>1, DaysAreNaturals DEF CountInv, CountTypes
<1> QED  BY <1>1, <1>2, <1>3, DaysStay DEF CountInv

LEMMA DaysGoOn ==
    ASSUME CountSettings, CountInv, DayInv, CountInv', NEW q \in Requests, request[q] # None,
           UNCHANGED <<today, events, totals, overnight>>,
           \/ Finish(q) \/ \E phase \in {"forget", "read"} : Becomes(q, phase)
           \/ \E s \in Nat : request' = [request EXCEPT ![q].phase = "count", ![q].secret = s]
           \/ request' = [request EXCEPT ![q].phase = "make", ![q].again = TRUE]
    PROVE  DayInv'
<1>1. request[q] \in RequestRow /\ request \in [Requests -> {None} \cup RequestRow]
  BY RowType DEF CountInv, CountTypes
<1>2. ASSUME NEW p \in Requests, request'[p] # None
      PROVE  request[p] # None /\ request'[p].day = request[p].day
  <2>1. CASE Finish(q)
    BY <1>1, <1>2, <2>1 DEF Finish
  <2>2. CASE \E phase \in {"forget", "read"} : Becomes(q, phase)
    <3>1. PICK phase \in {"forget", "read"} : Becomes(q, phase)
      BY <2>2
    <3> DEFINE new == [request[q] EXCEPT !.phase = phase]
    <3>2. new.day = request[q].day
      BY <1>1 DEF RequestRow
    <3>3. request' = [request EXCEPT ![q] = new]
      BY <1>1, <3>1 DEF Becomes
    <3> HIDE DEF new
    <3> QED  BY <1>1, <1>2, <3>2, <3>3
  <2>3. CASE \E s \in Nat : request' = [request EXCEPT ![q].phase = "count", ![q].secret = s]
    <3>1. PICK s \in Nat : request' = [request EXCEPT ![q].phase = "count", ![q].secret = s]
      BY <2>3
    <3> DEFINE new == [request[q] EXCEPT !.phase = "count", !.secret = s]
    <3>2. new.day = request[q].day
      BY <1>1 DEF RequestRow
    <3>3. request' = [request EXCEPT ![q] = new]
      BY <1>1, <3>1
    <3> HIDE DEF new
    <3> QED  BY <1>1, <1>2, <3>2, <3>3
  <2>4. CASE request' = [request EXCEPT ![q].phase = "make", ![q].again = TRUE]
    <3> DEFINE new == [request[q] EXCEPT !.phase = "make", !.again = TRUE]
    <3>2. new.day = request[q].day
      BY <1>1 DEF RequestRow
    <3>3. request' = [request EXCEPT ![q] = new]
      BY <1>1, <2>4
    <3> HIDE DEF new
    <3> QED  BY <1>1, <1>2, <3>2, <3>3
  <2> QED  BY <2>1, <2>2, <2>3, <2>4
<1>3. \A d \in Days : LateOf(d)' \subseteq LateOf(d)
  BY <1>2, LateStay
<1>4. \A d \in Days, c \in Counters : events'[d][c] <= events[d][c]
  BY DaysAreNaturals DEF CountInv, CountTypes
<1> QED  BY <1>3, <1>4, DaysStay DEF CountInv

\* A late count is one more of the day, and one request of it fewer.
LEMMA DaysRecord ==
    ASSUME CountSettings, CountInv, DayInv, CountInv', NEW q \in Requests, request[q] # None,
           UNCHANGED <<today, totals, overnight>>, Finish(q),
           events' = [events EXCEPT ![request[q].day][request[q].counter] = @ + 1]
    PROVE  DayInv'
<1>1. PICK d \in Days, c \in Counters : d = request[q].day /\ c = request[q].counter
  BY RowType
<1>2. /\ events'[d][c] = events[d][c] + 1
      /\ \A e \in Days, b \in Counters : e # d \/ b # c => events'[e][b] = events[e][b]
  <2> DEFINE row == [events[d] EXCEPT ![c] = events[d][c] + 1]
  <2>1. events' = [events EXCEPT ![d] = row]
    BY <1>1 DEF CountInv, CountTypes
  <2>2. row[c] = events[d][c] + 1 /\ \A b \in Counters : b # c => row[b] = events[d][b]
    BY DEF CountInv, CountTypes
  <2> HIDE DEF row
  <2> QED  BY <2>1, <2>2 DEF CountInv, CountTypes
<1>3. request'[q] = None /\ \A p \in Requests : p # q => request'[p] = request[p]
  BY DEF Finish, CountInv, CountTypes
<1>4. \A e \in Days : LateOf(e)' \subseteq LateOf(e)
  BY <1>3, LateStay
<1>5. ASSUME NEW e \in Days, NEW b \in Counters, b[1] # "send", e < today
      PROVE  events'[e][b] + Cardinality(LateOf(e)') <= Cardinality(Readers) + overnight[e]
  <2>1. /\ Cardinality(LateOf(e)) \in Nat /\ Cardinality(LateOf(e)') \in Nat
        /\ Cardinality(LateOf(e)') <= Cardinality(LateOf(e)) /\ Cardinality(Readers) \in Nat
        /\ IsFiniteSet(LateOf(e)')
    BY <1>4, LateCounted
  <2>2. events[e][b] \in Nat /\ overnight[e] \in Nat
    BY DEF CountInv, CountTypes, DayInv
  <2>3. events[e][b] + Cardinality(LateOf(e)) <= Cardinality(Readers) + overnight[e]
    BY <1>5 DEF DayInv
  <2>4. CASE e = d
    <3>1. q \notin LateOf(e)' /\ LateOf(e) = LateOf(e)' \cup {q}
      BY <1>1, <1>3, <2>4 DEF LateOf
    <3>2. Cardinality(LateOf(e)) = Cardinality(LateOf(e)') + 1
      BY <2>1, <3>1, FS_AddElement
    <3>3. events'[e][b] = events[e][b] \/ events'[e][b] = events[e][b] + 1
      BY <1>2, <2>4
    <3> QED  BY <2>1, <2>2, <2>3, <3>2, <3>3
  <2>5. CASE e # d
    BY <1>2, <2>1, <2>2, <2>3, <2>5
  <2> QED  BY <2>4, <2>5
<1> QED  BY <1>5 DEF DayInv

LEMMA DaysSend ==
    ASSUME CountSettings, CountInv, DayInv, CountInv', NEW app \in ConnectedApps, NEW w \in Works,
           RecordSend(app, w)
    PROVE  DayInv'
<1>1. UNCHANGED <<today, request, totals, overnight>>
  BY DEF RecordSend
<1>2. ASSUME NEW d \in Days, NEW c \in Counters, c[1] # "send" PROVE events'[d][c] = events[d][c]
  <2>1. CASE events' = events
    BY <2>1
  <2>2. CASE events' = [events EXCEPT ![today][<<"send", w>>] = @ + 1]
    <3>1. c # <<"send", w>>
      BY <1>2
    <3> DEFINE row == [events[today] EXCEPT ![<<"send", w>>] = @ + 1]
    <3>2. today \in Days /\ row[c] = events[today][c]
      BY <3>1 DEF CountInv, CountTypes
    <3>3. events' = [events EXCEPT ![today] = row]
      BY <2>2 DEF CountInv, CountTypes
    <3> HIDE DEF row
    <3> QED  BY <3>2, <3>3 DEF CountInv, CountTypes
  <2> QED  BY <2>1, <2>2 DEF RecordSend
<1>3. \A d \in Days : LateOf(d)' \subseteq LateOf(d)
  BY <1>1 DEF LateOf
<1>4. \A d \in Days, c \in Counters : events[d][c] \in Nat
  BY DEF CountInv, CountTypes
<1>5. \A d \in Days, c \in Counters : c[1] # "send" => events'[d][c] <= events[d][c]
  BY <1>2, <1>4
<1> QED  BY <1>1, <1>3, <1>5, DaysStay DEF CountInv

LEMMA DaysRollUp ==
    ASSUME CountSettings, CountInv, DayInv, CountInv', Rollup PROVE DayInv'
<1>1. /\ totals' = Folded /\ events' = Retained /\ UNCHANGED <<today, request, overnight>>
  BY DEF Rollup
<1>2. ASSUME NEW d \in Days, NEW c \in Counters
      PROVE  /\ events'[d][c] = 0 \/ events'[d][c] = events[d][c]
             /\ totals'[d][c] = totals[d][c] \/ (d < today /\ totals'[d][c] = events[d][c])
  BY <1>1 DEF Retained, NoCounts, Folded
<1>3. /\ events \in [Days -> [Counters -> Nat]] /\ events' \in [Days -> [Counters -> Nat]]
      /\ totals \in [Days -> [Counters -> Nat]] /\ overnight \in [Days -> Nat]
  BY DEF CountInv, CountTypes, DayInv
<1>4. totals' \in [Days -> [Counters -> Nat]]
  BY <1>1, <1>3 DEF Folded
<1>5. ASSUME NEW d \in Days, NEW c \in Counters, c[1] # "send"
      PROVE  /\ d < today =>
                   events'[d][c] + Cardinality(LateOf(d)) <= Cardinality(Readers) + overnight[d]
             /\ totals'[d][c] <= Cardinality(Readers) + overnight[d]
  <2>1. /\ Cardinality(LateOf(d)) \in Nat /\ Cardinality(Readers) \in Nat
        /\ events[d][c] \in Nat /\ overnight[d] \in Nat
    BY <1>3, LateCounted
  <2>2. /\ d < today =>
              events[d][c] + Cardinality(LateOf(d)) <= Cardinality(Readers) + overnight[d]
        /\ totals[d][c] <= Cardinality(Readers) + overnight[d]
    BY <1>5 DEF DayInv
  <2> QED  BY <1>2, <2>1, <2>2
<1>6. \A d \in Days : LateOf(d)' = LateOf(d)
  BY <1>1 DEF LateOf
<1> QED  BY <1>1, <1>3, <1>4, <1>5, <1>6 DEF DayInv

LEMMA DaysEnd ==
    ASSUME CountSettings, CountInv, DayInv, CountInv', Midnight PROVE DayInv'
<1> DEFINE late == {q \in Requests : request[q] # None}
<1>1. /\ today' = today + 1 /\ UNCHANGED <<request, events, totals>>
      /\ \A q \in Requests : request[q] # None => request[q].day = today
      /\ overnight' = [overnight EXCEPT ![today] = Cardinality(late)]
  BY DEF Midnight
<1>2. today \in Nat /\ today \in Days /\ \A d \in Days : d \in Nat
  BY DaysAreNaturals DEF CountInv, CountTypes
<1>3. LateOf(today) = late /\ \A d \in Days : d # today => LateOf(d) = {}
  BY <1>1 DEF LateOf
<1>4. Cardinality(late) \in Nat /\ Cardinality(Readers) \in Nat
  BY <1>3, LateCounted
<1> HIDE DEF late
<1>5. /\ overnight' \in [Days -> Nat] /\ overnight'[today] = Cardinality(late)
      /\ \A d \in Days : d # today => overnight'[d] = overnight[d]
  BY <1>1, <1>2, <1>4 DEF DayInv
<1>6. \A d \in Days : d >= today' => overnight'[d] = 0
  BY <1>1, <1>2, <1>5 DEF DayInv
<1>7. \A d \in Days : LateOf(d)' = LateOf(d)
  BY <1>1 DEF LateOf
<1>8. ASSUME NEW d \in Days, NEW c \in Counters, c[1] # "send"
      PROVE  /\ d < today' =>
                   events[d][c] + Cardinality(LateOf(d)) <= Cardinality(Readers) + overnight'[d]
             /\ totals[d][c] <= Cardinality(Readers) + overnight'[d]
  <2>1. /\ events[d][c] \in Nat /\ totals[d][c] \in Nat /\ overnight[d] \in Nat
        /\ overnight[today] = 0
    BY <1>2 DEF CountInv, CountTypes, DayInv
  <2>2. /\ d < today =>
              events[d][c] + Cardinality(LateOf(d)) <= Cardinality(Readers) + overnight[d]
        /\ totals[d][c] <= Cardinality(Readers) + overnight[d]
    BY <1>8 DEF DayInv
  <2>3. CASE d = today
    <3>1. events[d][c] <= Cardinality(Readers)
      BY <1>8, <2>3, TodaysCount
    <3> QED  BY <1>3, <1>4, <1>5, <2>1, <2>2, <2>3, <3>1
  <2>4. CASE d # today
    <3>1. d < today' => d < today
      BY <1>1, <1>2, <2>4
    <3> QED  BY <1>5, <2>2, <2>4, <3>1
  <2> QED  BY <2>3, <2>4
<1> QED  BY <1>1, <1>5, <1>6, <1>7, <1>8 DEF DayInv

LEMMA DayStep == ASSUME CountSettings, CountInv, DayInv, CountInv', [Next]_vars PROVE DayInv'
<1>1. ASSUME UNCHANGED <<today, request, events, totals, overnight>> PROVE DayInv'
  BY <1>1 DEF DayInv, LateOf
<1>2. ASSUME NEW q \in Requests, NEW x \in Readers,
             \/ \E w \in Works : RecordView(q, w, x) \/ RecordDownload(q, w, x)
             \/ RecordVisit(q, x)
      PROVE  DayInv'
  <2>1. \E c \in Counters : Begin(q, c, x)
    BY <1>2 DEF RecordView, RecordDownload, RecordVisit, Counters
  <2> QED  BY <2>1, DaysBegin
<1>3. ASSUME NEW q \in Requests, MakeSecret(q) \/ ForgetEarlier(q) PROVE DayInv'
  <2>1. /\ request[q] # None /\ UNCHANGED <<today, events, totals, overnight>>
        /\ \E phase \in {"forget", "read"} : Becomes(q, phase)
    BY <1>3 DEF MakeSecret, ForgetEarlier, At
  <2> QED  BY <2>1, DaysGoOn
<1>4. ASSUME NEW q \in Requests, ReadSecret(q) PROVE DayInv'
  <2>1. request[q] # None /\ UNCHANGED <<today, events, totals, overnight>>
    BY <1>4 DEF ReadSecret, At
  <2>2. secret[request[q].day] \in Nat
    BY <2>1, RowType DEF CountInv, CountTypes
  <2>3. Finish(q) \/ \E s \in Nat :
                        request' = [request EXCEPT ![q].phase = "count", ![q].secret = s]
    BY <1>4, <2>2 DEF ReadSecret
  <2> QED  BY <2>1, <2>3, DaysGoOn
<1>5. ASSUME NEW q \in Requests, NEW open, CountOnce(q, open) PROVE DayInv'
  <2>1. request[q] # None /\ UNCHANGED <<today, totals, overnight>>
    BY <1>5 DEF CountOnce, At
  <2>2. \/ UNCHANGED events /\ (Finish(q) \/ SecretGone(q))
        \/ /\ Finish(q)
           /\ events' = [events EXCEPT ![request[q].day][request[q].counter] = @ + 1]
    BY <1>5 DEF CountOnce, Record
  <2> QED  BY <2>1, <2>2, DaysGoOn, DaysRecord DEF SecretGone
<1>6. ASSUME NEW open, CountStep(open) PROVE DayInv'
  BY <1>2, <1>3, <1>4, <1>5, <1>6, DaysSend, DaysRollUp, DaysEnd DEF CountStep
<1>7. ASSUME NEW w \in Works,
             \/ Publish(w) \/ SetWorkVisibility(w) \/ Delete(w) \/ Restore(w)
             \/ TakeDown(w) \/ LiftTakedown(w)
      PROVE  DayInv'
  <2>1. \E changed : Change(w, changed)
    BY <1>7 DEF Publish, SetWorkVisibility, SetVisibility, Delete, Restore, TakeDown, LiftTakedown
  <2> QED  BY <1>1, <2>1 DEF Change
<1>8. ASSUME NEW own, NEW sort, ListWorks(own, sort) PROVE DayInv'
  BY <1>1, <1>8 DEF ListWorks, countVars
<1>9. CASE ListMore
  BY <1>1, <1>9 DEF ListMore, countVars
<1>10. CASE UNCHANGED vars
  BY <1>1, <1>10 DEF vars, countVars
<1> QED  BY <1>6, <1>7, <1>8, <1>9, <1>10 DEF Next

\* No reader has counted twice on a day, whoever asks at the same time, forgets the days before
\* or rolls the counts up; a request that was at work at midnight may count one more for its day.
THEOREM CountedOnceADay == ASSUME CatalogueSettings PROVE Spec => []EachDayIsOnce
<1>1. CountSettings
  BY DEF CatalogueSettings
<1>2. Init => CountInv /\ DayInv
  <2>1. ASSUME CountInit PROVE DayInv
    <3>1. Cardinality(Readers) \in Nat /\ today = 0 /\ \A d \in Days : d \in Nat
      BY <1>1, <2>1, LateCounted, DaysAreNaturals DEF CountInit
    <3>2. \A d \in Days : ~ (d < today)
      BY <3>1
    <3> QED  BY <2>1, <3>1, <3>2 DEF CountInit, DayInv, NoCounts
  <2> QED  BY <1>1, <2>1, CountInitInOrder DEF Init
<1>3. CountInv /\ DayInv => EachDayIsOnce
  <2>1. SUFFICES ASSUME CountInv, DayInv, NEW d \in Days, NEW c \in Counters, c[1] # "send"
                 PROVE  DayCount(totals, events, d, c) <= Cardinality(Readers) + overnight[d]
    BY DEF EachDayIsOnce
  <2>2. /\ Cardinality(LateOf(d)) \in Nat /\ Cardinality(Readers) \in Nat
        /\ events[d][c] \in Nat /\ overnight[d] \in Nat /\ d \in Nat /\ today \in Nat
    BY <1>1, <2>1, LateCounted, DaysAreNaturals DEF CountInv, CountTypes, DayInv
  <2>3. events[d][c] <= Cardinality(Readers) + overnight[d]
    <3>1. CASE d < today
      <4>1. events[d][c] + Cardinality(LateOf(d)) <= Cardinality(Readers) + overnight[d]
        BY <2>1, <3>1 DEF DayInv
      <4> QED  BY <2>2, <4>1
    <3>2. CASE d = today
      <4>1. events[d][c] <= Cardinality(Readers)
        BY <1>1, <2>1, <3>2, TodaysCount
      <4> QED  BY <2>2, <4>1
    <3>3. CASE d > today
      BY <2>1, <2>2, <3>3 DEF CountInv, NothingAhead
    <3> QED  BY <2>2, <3>1, <3>2, <3>3
  <2> QED  BY <2>1, <2>3 DEF DayCount, DayInv
<1>4. CountInv /\ DayInv /\ [Next]_vars => (CountInv /\ DayInv)'
  BY <1>1, CatalogueStep, DayStep
<1> QED  BY <1>2, <1>3, <1>4, PTL DEF Spec

-----------------------------------------------------------------------------
(* Sums over the days, and the first and the last of a page.  The library's  *)
(* induction theorems take an operator as a parameter; the same induction    *)
(* over a set of numbers goes through its theorem on least elements.         *)

Less == {ss \in Nat \X Nat : ss[1] < ss[2]}

LEMMA LeastNumber ==
    ASSUME NEW T, T \subseteq Nat, T # {} PROVE \E x \in T : \A y \in T : x <= y
<1>1. IsWellFoundedOn(Less, Nat)
  BY NatLessThanWellFounded, Zenon DEF OpToRel, Less
<1>2. PICK x \in T : \A y \in T : ~ (<<y, x>> \in Less)
  BY <1>1, WFMin, Zenon
<1>3. ASSUME NEW y \in T PROVE x <= y
  <2>1. x \in Nat /\ y \in Nat /\ ~ (<<y, x>> \in Less)
    BY <1>2
  <2> QED  BY <2>1 DEF Less
<1> QED BY <1>3

LEMMA Induct ==
    ASSUME NEW S, 0 \in S, \A n \in Nat : n \in S => n + 1 \in S PROVE Nat \subseteq S
<1> DEFINE T == {n \in Nat : n \notin S}
<1>1. SUFFICES ASSUME T # {} PROVE FALSE
  OBVIOUS
<1>2. PICK x \in T : \A y \in T : x <= y
  <2> HIDE DEF T
  <2>1. T \subseteq Nat
    BY DEF T
  <2> QED BY <1>1, <2>1, LeastNumber
<1>3. x # 0 /\ x \in Nat /\ x \notin S
  OBVIOUS
<1>4. x - 1 \in Nat /\ ~ (x <= x - 1) /\ (x - 1) + 1 = x
  BY <1>3
<1>5. x - 1 \in S
  BY <1>2, <1>4
<1> QED BY <1>3, <1>4, <1>5


Any(s) == CHOOSE x \in s : TRUE

SumRule(g, h, s) == IF s = {} THEN 0 ELSE g[Any(s)] + h[s \ {Any(s)}]

\* The subsets of S with n elements or fewer.
UpTo(S, n) == {s \in SUBSET S : Cardinality(s) <= n}

LEMMA Smaller ==
    ASSUME NEW S, IsFiniteSet(S), NEW n \in Nat, NEW s \in UpTo(S, n + 1), s # {}
    PROVE  /\ Any(s) \in s /\ s \ {Any(s)} \in UpTo(S, n)
           /\ s \ {Any(s)} \in SUBSET S /\ s \in SUBSET S
<1>1. s \in SUBSET S /\ IsFiniteSet(s) /\ Cardinality(s) \in Nat /\ Cardinality(s) <= n + 1
  BY FS_Subset, FS_CardinalityType DEF UpTo
<1>2. Any(s) \in s
  BY DEF Any
<1>3. Cardinality(s \ {Any(s)}) = Cardinality(s) - 1
  BY <1>1, <1>2, FS_RemoveElement
<1> QED  BY <1>1, <1>2, <1>3 DEF UpTo

LEMMA UpToAll == ASSUME NEW S, IsFiniteSet(S) PROVE \E n \in Nat : UpTo(S, n) = SUBSET S
<1>1. Cardinality(S) \in Nat
  BY FS_CardinalityType
<1>2. \A s \in SUBSET S : Cardinality(s) <= Cardinality(S)
  BY FS_Subset
<1> QED  BY <1>1, <1>2 DEF UpTo

LEMMA SumExists ==
    ASSUME NEW S, IsFiniteSet(S), NEW g
    PROVE  \E h : h = [s \in SUBSET S |-> SumRule(g, h, s)]
<1> DEFINE Fits(n) == \E h : \A s \in UpTo(S, n) : h[s] = SumRule(g, h, s)
           N == {n \in Nat : Fits(n)}
<1>1. Fits(0)
  <2>1. \A s \in UpTo(S, 0) : s = {}
    <3>1. ASSUME NEW s \in UpTo(S, 0) PROVE s = {}
      <4>1. IsFiniteSet(s) /\ Cardinality(s) \in Nat /\ Cardinality(s) <= 0
        BY FS_Subset, FS_CardinalityType DEF UpTo
      <4> QED  BY <4>1, FS_EmptySet
    <3> QED  BY <3>1
  <2> DEFINE h == [s \in UpTo(S, 0) |-> 0]
  <2>2. \A s \in UpTo(S, 0) : h[s] = SumRule(g, h, s)
    BY <2>1 DEF SumRule
  <2> QED  BY <2>2
<1>2. ASSUME NEW n \in Nat, Fits(n) PROVE Fits(n + 1)
  <2>1. PICK h : \A s \in UpTo(S, n) : h[s] = SumRule(g, h, s)
    BY <1>2
  <2> DEFINE new == [s \in UpTo(S, n + 1) |-> SumRule(g, h, s)]
  <2>2. UpTo(S, n) \subseteq UpTo(S, n + 1)
    <3>1. \A s \in UpTo(S, n) : Cardinality(s) \in Nat
      BY FS_Subset, FS_CardinalityType DEF UpTo
    <3> QED  BY <3>1 DEF UpTo
  <2>3. \A s \in UpTo(S, n) : new[s] = h[s]
    BY <2>1, <2>2
  <2>4. ASSUME NEW s \in UpTo(S, n + 1) PROVE SumRule(g, h, s) = SumRule(g, new, s)
    <3>1. CASE s = {}
      BY <3>1 DEF SumRule
    <3>2. CASE s # {}
      <4>1. s \ {Any(s)} \in UpTo(S, n)
        BY <3>2, Smaller
      <4>2. new[s \ {Any(s)}] = h[s \ {Any(s)}]
        BY <2>3, <4>1
      <4> HIDE DEF new
      <4> QED  BY <4>2 DEF SumRule
    <3> QED  BY <3>1, <3>2
  <2>5. \A s \in UpTo(S, n + 1) : new[s] = SumRule(g, new, s)
    <3>1. \A s \in UpTo(S, n + 1) : new[s] = SumRule(g, h, s)
      OBVIOUS
    <3> HIDE DEF new
    <3> QED  BY <2>4, <3>1
  <2> HIDE DEF new
  <2> QED  BY <2>5
<1>3. Nat \subseteq N
  <2>1. 0 \in N /\ \A n \in Nat : n \in N => n + 1 \in N
    BY <1>1, <1>2
  <2> HIDE DEF N
  <2> QED  BY <2>1, Induct
<1>4. PICK n \in Nat : UpTo(S, n) = SUBSET S
  BY UpToAll
<1>5. PICK h : \A s \in SUBSET S : h[s] = SumRule(g, h, s)
  BY <1>3, <1>4
<1> DEFINE whole == [s \in SUBSET S |-> h[s]]
<1>6. ASSUME NEW s \in SUBSET S PROVE whole[s] = SumRule(g, whole, s)
  <2>1. whole[s] = h[s] /\ whole[s \ {Any(s)}] = h[s \ {Any(s)}]
    OBVIOUS
  <2> HIDE DEF whole
  <2> QED  BY <1>5, <2>1 DEF SumRule
<1>7. whole = [s \in SUBSET S |-> whole[s]]
  OBVIOUS
<1> HIDE DEF whole
<1>8. whole = [s \in SUBSET S |-> SumRule(g, whole, s)]
  BY <1>6, <1>7
<1> QED  BY <1>8

LEMMA SumIsNatural ==
    ASSUME NEW S, IsFiniteSet(S), NEW g, \A x \in S : g[x] \in Nat, NEW it,
           it = [s \in SUBSET S |-> SumRule(g, it, s)]
    PROVE  it[S] \in Nat
<1> DEFINE N == {n \in Nat : \A s \in UpTo(S, n) : it[s] \in Nat}
<1>0. \A s \in SUBSET S : it[s] = SumRule(g, it, s)
  <2> DEFINE body == [s \in SUBSET S |-> SumRule(g, it, s)]
  <2>1. \A s \in SUBSET S : body[s] = SumRule(g, it, s)
    OBVIOUS
  <2>2. it = body
    OBVIOUS
  <2> HIDE DEF body
  <2> QED  BY <2>1, <2>2
<1>e. it[{}] \in Nat
  <2>1. it[{}] = 0
    BY <1>0 DEF SumRule
  <2> QED  BY <2>1
<1>1. 0 \in N
  <2>1. ASSUME NEW s \in UpTo(S, 0) PROVE it[s] \in Nat
    <3>1. IsFiniteSet(s) /\ Cardinality(s) \in Nat /\ Cardinality(s) <= 0
      BY FS_Subset, FS_CardinalityType DEF UpTo
    <3>2. s = {}
      BY <3>1, FS_EmptySet
    <3> QED  BY <1>e, <3>2
  <2> QED  BY <2>1
<1>2. ASSUME NEW n \in Nat, n \in N PROVE n + 1 \in N
  <2>1. ASSUME NEW s \in UpTo(S, n + 1) PROVE it[s] \in Nat
    <3>1. CASE s = {}
      BY <1>e, <3>1
    <3>2. CASE s # {}
      <4>1. Any(s) \in S /\ s \ {Any(s)} \in UpTo(S, n) /\ s \in SUBSET S
        BY <3>2, Smaller
      <4>2. it[s] = g[Any(s)] + it[s \ {Any(s)}]
        BY <1>0, <3>2, <4>1 DEF SumRule
      <4>3. it[s \ {Any(s)}] \in Nat /\ g[Any(s)] \in Nat
        BY <1>2, <4>1
      <4> QED  BY <4>2, <4>3
    <3> QED  BY <3>1, <3>2
  <2>2. n + 1 \in Nat
    OBVIOUS
  <2> QED  BY <2>1, <2>2
<1>3. Nat \subseteq N
  <2> HIDE DEF N
  <2> QED  BY <1>1, <1>2, Induct
<1>4. PICK n \in Nat : UpTo(S, n) = SUBSET S
  BY UpToAll
<1> QED  BY <1>3, <1>4

LEMMA SinceIsNatural ==
    ASSUME NEW t, NEW e, NEW c,
           \A d \in Days : DayCount(t, e, d, c) \in Nat, IsFiniteSet(Days)
    PROVE  Since(t, e, c) \in Nat
<1> DEFINE S == {d \in Days : d >= today - Window /\ d < today}
           g == [d \in Days |-> DayCount(t, e, d, c)]
           any(s) == CHOOSE x \in s : TRUE
           rule(h, s) == IF s = {} THEN 0 ELSE DayCount(t, e, any(s), c) + h[s \ {any(s)}]
           it == CHOOSE h : h = [s \in SUBSET S |-> rule(h, s)]
           sum == CHOOSE h : h = [s \in SUBSET S |-> SumRule(g, h, s)]
<1>1. Since(t, e, c) = it[S]
  BY DEF Since, MapThenSumSet, MapThenFoldSet
<1>2. ASSUME NEW h, NEW s \in SUBSET S PROVE rule(h, s) = SumRule(g, h, s)
  <2>1. CASE s = {}
    BY <2>1 DEF SumRule
  <2>2. CASE s # {}
    <3>1. Any(s) \in Days /\ Any(s) = any(s)
      BY <2>2 DEF Any
    <3>2. g[Any(s)] = DayCount(t, e, Any(s), c)
      BY <3>1
    <3> HIDE DEF g, S
    <3> QED  BY <2>2, <3>1, <3>2 DEF SumRule
  <2> QED  BY <2>1, <2>2
<1>3. it = sum
  <2> HIDE DEF S, g
  <2>1. \A h : [s \in SUBSET S |-> rule(h, s)] = [s \in SUBSET S |-> SumRule(g, h, s)]
    BY <1>2
  <2> QED  BY <2>1
<1>4. IsFiniteSet(S) /\ \A x \in S : g[x] \in Nat
  BY FS_Subset
<1>5. sum = [s \in SUBSET S |-> SumRule(g, sum, s)]
  <2> HIDE DEF S, g
  <2> QED  BY <1>4, SumExists
<1> HIDE DEF S, g, it, sum
<1>6. sum[S] \in Nat
  BY <1>4, <1>5, SumIsNatural
<1> QED  BY <1>1, <1>3, <1>6

-----------------------------------------------------------------------------
(* A walk through the list.  While the ranking it was counted on is kept as  *)
(* it is, what has been shown lies at or above the cursor, and of the works  *)
(* that stand where they stood, what has not been shown lies below it.       *)

Sorts == {"newest", "views", "downloads"}

WalkRow ==
    [own : BOOLEAN, sort : Sorts, on : Days \cup {None}, cursor : {None} \cup (Nat \X Nat),
     more : BOOLEAN, shown : [Works -> Nat], steady : SUBSET Works, same : BOOLEAN]

ListTypes ==
    /\ totals \in [Days -> [Counters -> Nat]]
    /\ rankings \in [Days -> [Works -> Activity]]
    /\ publishedAt \in [Works -> Nat]
    /\ \A v, w \in Works : publishedAt[v] = publishedAt[w] => v = w
    /\ \E m \in Nat : \A w \in Works : publishedAt[w] <= m
    /\ walk \in {None} \cup WalkRow

Anchored(r) == IF r.on = None THEN Ranked = {} ELSE r.on \in Ranked

Standing(w, r) == BelowCursor(Place(w, r.sort, r.on), r.cursor)

Whole(r) ==
    /\ Anchored(r)
    /\ r.steady \subseteq Listing(r.own)
    /\ \A w \in Works : r.shown[w] <= 1
    /\ r.more => \A w \in Works : r.shown[w] = 1 => ~ Standing(w, r)
    /\ \A w \in r.steady : r.shown[w] = 0 => r.more /\ Standing(w, r)

WalkInv == ListTypes /\ (walk # None /\ walk.same => Whole(walk))

LEMMA HasFirst ==
    ASSUME NEW S, IsFiniteSet(S), S # {}, NEW R, \A x \in S : <<x, x>> \notin R,
           \A x, y, z \in S : <<x, y>> \in R /\ <<y, z>> \in R => <<x, z>> \in R
    PROVE  \E x \in S : \A y \in S : <<y, x>> \notin R
<1> DEFINE below(x) == {y \in S : <<y, x>> \in R}
           T == {n \in Nat : \E x \in S : n = Cardinality(below(x))}
<1>1. \A x \in S : IsFiniteSet(below(x)) /\ Cardinality(below(x)) \in Nat
  BY FS_Subset, FS_CardinalityType
<1>2. PICK n \in T : \A m \in T : n <= m
  <2>1. T \subseteq Nat /\ T # {}
    <3> HIDE DEF below
    <3> QED  BY <1>1
  <2> HIDE DEF T
  <2> QED  BY <2>1, LeastNumber
<1>3. PICK x \in S : n = Cardinality(below(x))
  OBVIOUS
<1>4. ASSUME NEW y \in S, <<y, x>> \in R PROVE FALSE
  <2>1. below(y) \subseteq below(x) /\ y \in below(x) /\ y \notin below(y)
    BY <1>4
  <2>2. Cardinality(below(y)) < Cardinality(below(x))
    <3>1. /\ Cardinality(below(y)) <= Cardinality(below(x))
          /\ Cardinality(below(y)) = Cardinality(below(x)) => below(y) = below(x)
      BY <1>1, <2>1, FS_Subset
    <3> QED  BY <1>1, <2>1, <3>1
  <2> HIDE DEF below
  <2>3. Cardinality(below(y)) \in T /\ Cardinality(below(x)) \in Nat
    BY <1>1
  <2>4. n <= Cardinality(below(y))
    BY <1>2, <2>3
  <2> QED  BY <1>1, <1>3, <2>2, <2>3, <2>4
<1> QED  BY <1>4

LEMMA GreatestNumber ==
    ASSUME NEW T, T \subseteq Nat, T # {}, NEW m \in Nat, \A x \in T : x <= m
    PROVE  Max(T) \in T /\ \A x \in T : x <= Max(T)
<1> DEFINE B == {n \in Nat : \A x \in T : x <= n}
<1>1. PICK b \in B : \A n \in B : b <= n
  <2>1. B \subseteq Nat /\ m \in B
    OBVIOUS
  <2> HIDE DEF B
  <2> QED  BY <2>1, LeastNumber
<1>2. b \in T
  <2>1. SUFFICES ASSUME b \notin T PROVE FALSE
    OBVIOUS
  <2>2. PICK x \in T : TRUE
    OBVIOUS
  <2>3. \A y \in T : y < b /\ y <= b - 1 /\ y \in Nat
    BY <2>1
  <2>4. b - 1 \in B
    BY <2>2, <2>3
  <2>5. b <= b - 1 /\ b \in Nat
    BY <1>1, <2>4
  <2> QED  BY <2>5
<1>3. \E x \in T : \A y \in T : x >= y
  BY <1>2
<1>4. Max(T) \in T /\ \A y \in T : Max(T) >= y
  BY <1>3 DEF Max
<1> QED  BY <1>4

LEMMA NewestRanking ==
    ASSUME CatalogueSettings, Ranked # {} PROVE Max(Ranked) \in Ranked /\ Max(Ranked) # None
<1>1. Ranked \subseteq Nat /\ MaxDay \in Nat /\ \A d \in Ranked : d <= MaxDay
  BY DEF Ranked, Days, CatalogueSettings, CountSettings
<1>2. Max(Ranked) \in Ranked
  BY <1>1, GreatestNumber
<1> QED  BY <1>1, <1>2 DEF CatalogueSettings

\* The places of two works are different, and one is above the other.
LEMMA Places ==
    ASSUME CatalogueSettings, ListTypes, NEW sort \in Sorts, NEW day \in Days \cup {None}
    PROVE  /\ \A w \in Works : Place(w, sort, day) \in Nat \X Nat
           /\ \A v, w \in Works : v # w =>
                 Above(Place(v, sort, day), Place(w, sort, day))
                 \/ Above(Place(w, sort, day), Place(v, sort, day))
<1>1. ASSUME NEW w \in Works PROVE ActivityOf(w, sort, day) \in Nat
  <2>1. CASE day = None \/ sort = "newest"
    BY <2>1 DEF ActivityOf
  <2>2. CASE day \in Days /\ sort = "views"
    BY <2>2 DEF ActivityOf, ListTypes, Activity
  <2>3. CASE day \in Days /\ sort = "downloads"
    BY <2>3 DEF ActivityOf, ListTypes, Activity
  <2> QED  BY <2>1, <2>2, <2>3 DEF Sorts
<1>2. \A w \in Works : publishedAt[w] \in Nat
  BY DEF ListTypes
<1>3. \A v, w \in Works : v # w => publishedAt[v] # publishedAt[w]
  BY DEF ListTypes
<1> QED  BY <1>1, <1>2, <1>3 DEF Place, Above

LEMMA AboveOrders ==
    /\ \A a \in Nat \X Nat : ~ Above(a, a)
    /\ \A a, b \in Nat \X Nat : ~ (Above(a, b) /\ Above(b, a))
    /\ \A a, b, c \in Nat \X Nat : Above(a, b) /\ Above(b, c) => Above(a, c)
BY DEF Above

\* A page takes from the top, and is everything when it is not full.
PageFacts(rows, items, sort, day) ==
    /\ items \subseteq rows
    /\ Cardinality(rows) <= PageSize => items = rows
    /\ rows # {} => items # {}
    /\ items # {} =>
          /\ LastOf(items, sort, day) \in items
          /\ \A v \in items : v # LastOf(items, sort, day) =>
                Above(Place(v, sort, day), Place(LastOf(items, sort, day), sort, day))
    /\ \A v \in items, w \in rows \ items : Above(Place(v, sort, day), Place(w, sort, day))

LEMMA PagesTakeFromTheTop ==
    ASSUME CatalogueSettings, ListTypes, NEW sort \in Sorts, NEW day \in Days \cup {None},
           NEW rows \in SUBSET Works
    PROVE  PageFacts(rows, FirstOf(rows, sort, day), sort, day)
<1> DEFINE items == FirstOf(rows, sort, day)
           before(w) == Before(w, rows, sort, day)
           P(w) == Place(w, sort, day)
<1>0. /\ \A w \in Works : P(w) \in Nat \X Nat
      /\ \A v, w \in Works : v # w => Above(P(v), P(w)) \/ Above(P(w), P(v))
  BY Places
<1>1. IsFiniteSet(rows) /\ Cardinality(rows) \in Nat /\ PageSize \in Nat /\ PageSize > 0
  BY FS_Subset, FS_CardinalityType DEF CatalogueSettings
<1>2. /\ \A w \in rows : IsFiniteSet(before(w)) /\ Cardinality(before(w)) \in Nat
      /\ \A w : before(w) \subseteq rows
  <2>1. \A w : before(w) \subseteq rows
    BY DEF Before
  <2> QED  BY <1>1, <2>1, FS_Subset, FS_CardinalityType
<1>3. items = {w \in rows : Cardinality(before(w)) < PageSize}
  BY DEF FirstOf
<1>4. ASSUME Cardinality(rows) <= PageSize, NEW w \in rows PROVE w \in items
  <2>1. w \notin before(w)
    BY <1>0, AboveOrders DEF Before
  <2>2. Cardinality(before(w)) <= Cardinality(rows)
        /\ (Cardinality(before(w)) = Cardinality(rows) => before(w) = rows)
    BY <1>1, <1>2, FS_Subset
  <2> QED  BY <1>1, <1>2, <1>3, <1>4, <2>1, <2>2
<1>5. ASSUME rows # {} PROVE items # {}
  <2> DEFINE R == {vw \in rows \X rows : Above(P(vw[1]), P(vw[2]))}
  <2>1. PICK w \in rows : \A v \in rows : <<v, w>> \notin R
    <3>1. \A v \in rows : <<v, v>> \notin R
      BY <1>0, AboveOrders
    <3>2. \A u, v, w \in rows : <<u, v>> \in R /\ <<v, w>> \in R => <<u, w>> \in R
      <4>1. ASSUME NEW u \in rows, NEW v \in rows, NEW w \in rows, Above(P(u), P(v)),
                   Above(P(v), P(w))
            PROVE  Above(P(u), P(w))
        <5>1. P(u) \in Nat \X Nat /\ P(v) \in Nat \X Nat /\ P(w) \in Nat \X Nat
          BY <1>0
        <5> HIDE DEF P
        <5> QED  BY <4>1, <5>1, AboveOrders
      <4> HIDE DEF P
      <4> QED  BY <4>1
    <3> HIDE DEF R
    <3> QED  BY <1>1, <1>5, <3>1, <3>2, HasFirst
  <2>2. before(w) = {}
    BY <2>1 DEF Before
  <2>3. Cardinality(before(w)) = 0
    BY <2>2, FS_EmptySet
  <2> QED  BY <1>1, <1>3, <2>3
<1>6. ASSUME items # {}
      PROVE  /\ LastOf(items, sort, day) \in items
             /\ \A v \in items : v # LastOf(items, sort, day) =>
                   Above(P(v), P(LastOf(items, sort, day)))
  <2> DEFINE R == {vw \in items \X items : Above(P(vw[2]), P(vw[1]))}
  <2>0. items \subseteq rows /\ IsFiniteSet(items)
    BY <1>1, <1>3, FS_Subset
  <2>1. PICK w \in items : \A v \in items : <<v, w>> \notin R
    <3> HIDE DEF items
    <3>1. \A v \in items : <<v, v>> \notin R
      BY <1>0, <2>0, AboveOrders
    <3>2. \A u, v, w \in items : <<u, v>> \in R /\ <<v, w>> \in R => <<u, w>> \in R
      <4>1. ASSUME NEW u \in items, NEW v \in items, NEW w \in items, Above(P(v), P(u)),
                   Above(P(w), P(v))
            PROVE  Above(P(w), P(u))
        <5>1. P(u) \in Nat \X Nat /\ P(v) \in Nat \X Nat /\ P(w) \in Nat \X Nat
          BY <1>0, <2>0
        <5> HIDE DEF P
        <5> QED  BY <4>1, <5>1, AboveOrders
      <4> HIDE DEF P
      <4> QED  BY <4>1
    <3> HIDE DEF R
    <3> QED  BY <1>6, <2>0, <3>1, <3>2, HasFirst
  <2> HIDE DEF items
  <2>2. \A v \in items : v # w => Above(P(v), P(w))
    BY <1>0, <2>0, <2>1
  <2>3. Before(w, items, sort, day) = items \ {w}
    BY <1>0, <2>0, <2>2, AboveOrders DEF Before
  <2>4. /\ LastOf(items, sort, day) \in items
        /\ Before(LastOf(items, sort, day), items, sort, day)
           = items \ {LastOf(items, sort, day)}
    BY <2>3 DEF LastOf
  <2> QED  BY <2>4 DEF Before
<1>7. ASSUME NEW v \in items, NEW w \in rows \ items PROVE Above(P(v), P(w))
  <2>1. /\ v \in rows /\ v \in Works /\ w \in Works /\ v # w
        /\ Cardinality(before(v)) < PageSize /\ ~ (Cardinality(before(w)) < PageSize)
    BY <1>3
  <2>2. SUFFICES ASSUME Above(P(w), P(v)) PROVE FALSE
    BY <1>0, <2>1
  <2>3. before(w) \subseteq before(v)
    <3>1. ASSUME NEW u \in rows, Above(P(u), P(w)) PROVE Above(P(u), P(v))
      <4>1. P(u) \in Nat \X Nat /\ P(v) \in Nat \X Nat /\ P(w) \in Nat \X Nat
        BY <1>0, <2>1
      <4> HIDE DEF P
      <4> QED  BY <2>2, <3>1, <4>1, AboveOrders
    <3> QED  BY <3>1 DEF Before
  <2>4. Cardinality(before(w)) <= Cardinality(before(v))
    BY <1>2, <2>1, <2>3, FS_Subset
  <2>5. Cardinality(before(w)) \in Nat /\ Cardinality(before(v)) \in Nat
    BY <1>2, <2>1
  <2> HIDE DEF before
  <2> QED  BY <1>1, <2>1, <2>4, <2>5
<1>8. items \subseteq rows
  BY <1>3
<1> HIDE DEF items
<1>9. Cardinality(rows) <= PageSize => items = rows
  BY <1>4, <1>8
<1>10. PageFacts(rows, items, sort, day)
  BY <1>5, <1>6, <1>7, <1>8, <1>9 DEF PageFacts
<1> QED  BY <1>10 DEF items

\* A page of what stands below the cursor keeps the walk whole.
PageOf(r, own, sort, day, cursor, shown_, steady_) ==
    LET rows == BrowseWorks(own, sort, day, cursor)
        items == FirstOf(rows, sort, day)
    IN /\ r.own = own /\ r.sort = sort /\ r.on = day /\ r.steady = steady_
       /\ (r.more <=> Cardinality(rows) > PageSize)
       /\ r.cursor = IF items = {} THEN None ELSE Place(LastOf(items, sort, day), sort, day)
       /\ r.shown = Counted(shown_, items)

LEMMA PageTypes ==
    ASSUME CatalogueSettings, ListTypes, NEW own, NEW sort \in Sorts, NEW day \in Days \cup {None},
           NEW cursor, NEW met \in [Works -> Nat], NEW still, NEW r,
           PageOf(r, own, sort, day, cursor, met, still)
    PROVE  r.shown \in [Works -> Nat] /\ r.cursor \in {None} \cup (Nat \X Nat)
<1> DEFINE rows == BrowseWorks(own, sort, day, cursor)
           items == FirstOf(rows, sort, day)
<1>1. rows \in SUBSET Works
  BY DEF BrowseWorks, Listing
<1>2. /\ r.cursor = IF items = {} THEN None ELSE Place(LastOf(items, sort, day), sort, day)
      /\ r.shown = Counted(met, items)
  BY DEF PageOf
<1>3. PageFacts(rows, items, sort, day)
  <2> HIDE DEF rows
  <2> QED  BY <1>1, PagesTakeFromTheTop
<1> HIDE DEF rows, items
<1>4. items # {} => LastOf(items, sort, day) \in Works
  BY <1>1, <1>3 DEF PageFacts
<1>5. items # {} => Place(LastOf(items, sort, day), sort, day) \in Nat \X Nat
  BY <1>4, Places
<1> QED  BY <1>2, <1>5 DEF Counted

LEMMA PageKeepsWhole ==
    ASSUME CatalogueSettings, ListTypes, NEW own, NEW sort \in Sorts, NEW day \in Days \cup {None},
           NEW cursor \in {None} \cup (Nat \X Nat), NEW met \in [Works -> Nat],
           NEW still \in SUBSET Listing(own), NEW r,
           IF day = None THEN Ranked = {} ELSE day \in Ranked,
           \A w \in Works : met[w] <= 1,
           \A w \in Works : met[w] = 1 => ~ BelowCursor(Place(w, sort, day), cursor),
           \A w \in still : met[w] = 0 => BelowCursor(Place(w, sort, day), cursor),
           PageOf(r, own, sort, day, cursor, met, still)
    PROVE  Whole(r)
<1> DEFINE rows == BrowseWorks(own, sort, day, cursor)
           items == FirstOf(rows, sort, day)
           last == LastOf(items, sort, day)
           P(w) == Place(w, sort, day)
<1>1. /\ r.own = own /\ r.sort = sort /\ r.on = day /\ r.steady = still
      /\ (r.more <=> Cardinality(rows) > PageSize)
      /\ r.cursor = IF items = {} THEN None ELSE P(last)
      /\ r.shown = Counted(met, items)
  BY DEF PageOf
<1>2. /\ \A w \in Works : P(w) \in Nat \X Nat
      /\ \A v, w \in Works : v # w => Above(P(v), P(w)) \/ Above(P(w), P(v))
  BY Places
<1>3. rows = {w \in Listing(own) : BelowCursor(P(w), cursor)} /\ rows \subseteq Works
  BY DEF BrowseWorks, Listing
<1>4. PageFacts(rows, items, sort, day)
  <2> HIDE DEF rows
  <2> QED  BY <1>3, PagesTakeFromTheTop
<1>5. Cardinality(rows) \in Nat /\ PageSize \in Nat /\ PageSize > 0
      /\ (rows = {} => Cardinality(rows) = 0)
  <2> HIDE DEF rows
  <2>1. IsFiniteSet(rows)
    BY <1>3, FS_Subset DEF CatalogueSettings
  <2> QED  BY <2>1, FS_CardinalityType, FS_EmptySet DEF CatalogueSettings
<1> HIDE DEF rows, items, last, P
<1>6. items \subseteq rows /\ items \subseteq Works
  BY <1>3, <1>4 DEF PageFacts
<1>7. items # {} =>
         /\ last \in items
         /\ \A v \in items : v # last => Above(P(v), P(last))
  BY <1>4 DEF PageFacts, last, P
<1>8. \A w \in Works :
         /\ r.shown[w] = IF w \in items THEN met[w] + 1 ELSE met[w]
         /\ met[w] \in Nat /\ (met[w] = 0 \/ met[w] = 1) /\ (w \in items => met[w] = 0)
  <2>1. \A w \in Works : r.shown[w] = IF w \in items THEN met[w] + 1 ELSE met[w]
    BY <1>1 DEF Counted
  <2>2. \A w \in Works : met[w] \in Nat /\ (met[w] = 0 \/ met[w] = 1)
    OBVIOUS
  <2>3. \A w \in items : met[w] # 1
    BY <1>3, <1>6 DEF P
  <2> QED  BY <1>6, <2>1, <2>2, <2>3
<1>9. \A w \in Works : r.shown[w] <= 1 /\ r.shown[w] \in Nat
  BY <1>8
<1>11. r.more => items # {}
  BY <1>1, <1>4, <1>5 DEF PageFacts
<1>12. items # {} => /\ r.cursor = P(last) /\ r.cursor # None
                     /\ \A w : Standing(w, r) <=> Above(P(last), P(w))
  <2>1. items # {} => P(last) \in Nat \X Nat
    BY <1>2, <1>6, <1>7
  <2> QED  BY <1>1, <2>1 DEF Standing, BelowCursor, CatalogueSettings, P
<1>13. ASSUME r.more, NEW w \in Works, r.shown[w] = 1 PROVE ~ Standing(w, r)
  <2>0. /\ items # {} /\ last \in items /\ last \in Works /\ last \in rows
        /\ P(last) \in Nat \X Nat /\ P(w) \in Nat \X Nat
    BY <1>2, <1>6, <1>7, <1>11, <1>13
  <2>1. CASE w \in items
    <3>1. w = last \/ Above(P(w), P(last))
      BY <1>7, <2>0, <2>1
    <3>2. ~ Above(P(last), P(w))
      BY <2>0, <3>1, AboveOrders
    <3> QED  BY <1>12, <2>0, <3>2
  <2>2. CASE w \notin items
    <3>1. ~ BelowCursor(P(w), cursor) /\ BelowCursor(P(last), cursor)
      BY <1>3, <1>8, <1>13, <2>0, <2>2 DEF P
    <3>2. cursor # None /\ cursor \in Nat \X Nat /\ ~ Above(cursor, P(w)) /\ Above(cursor, P(last))
      BY <3>1 DEF BelowCursor
    <3>3. ~ Above(P(last), P(w))
      BY <2>0, <3>2, AboveOrders
    <3> QED  BY <1>12, <2>0, <3>3
  <2> QED  BY <2>1, <2>2
<1>14. ASSUME NEW w \in still, r.shown[w] = 0 PROVE r.more /\ Standing(w, r)
  <2>1. w \in Works /\ w \in Listing(own)
    BY DEF Listing
  <2>2. w \notin items /\ met[w] = 0
    BY <1>8, <1>14, <2>1
  <2>3. w \in rows
    BY <1>3, <2>1, <2>2 DEF P
  <2>4. r.more
    BY <1>1, <1>4, <1>5, <2>2, <2>3 DEF PageFacts
  <2>5. Above(P(last), P(w))
    BY <1>4, <1>7, <1>11, <2>2, <2>3, <2>4 DEF PageFacts, P
  <2> QED  BY <1>11, <1>12, <2>4, <2>5
<1>15. Anchored(r)
  BY <1>1 DEF Anchored
<1>16. r.steady \subseteq Listing(r.own)
  BY <1>1
<1> QED  BY <1>1, <1>9, <1>13, <1>14, <1>15, <1>16 DEF Whole

LEMMA ListWorksKeeps ==
    ASSUME CatalogueSettings, WalkInv, NEW own \in BOOLEAN, NEW sort \in Sorts, ListWorks(own, sort)
    PROVE  WalkInv'
<1> DEFINE day == Ranking(None)
           zero == [w \in Works |-> 0]
           page == Browse(own, sort, None, None)
           new == Turn(own, sort, page, zero, Listing(own), TRUE)
<1>1. walk' = new /\ UNCHANGED <<countVars, catalogueVars>>
  BY DEF ListWorks
<1>2. ListTypes
  BY DEF WalkInv
<1>3. /\ day \in Days \cup {None}
      /\ IF day = None THEN Ranked = {} ELSE day \in Ranked
  BY NewestRanking DEF Ranking, Ranked
<1>5. /\ new.more = page.more /\ new.on = page.on /\ new.own = own /\ new.sort = sort
      /\ new.steady = Listing(own) /\ new.same = TRUE /\ new.cursor = page.next
      /\ new.shown = Counted(zero, page.items)
      /\ page.more \in BOOLEAN /\ page.on = day
  <2>1. page.more \in BOOLEAN /\ page.on = day
    BY DEF Browse
  <2> HIDE DEF page
  <2> QED  BY <2>1 DEF Turn
<1>6. zero \in [Works -> Nat] /\ (\A w \in Works : zero[w] = 0)
  OBVIOUS
<1>4. PageOf(new, own, sort, day, None, zero, Listing(own))
  <2> HIDE DEF new, zero
  <2> QED  BY <1>5 DEF PageOf, Browse
<1>r. new = [own |-> new.own, sort |-> new.sort, on |-> new.on, cursor |-> new.cursor,
             more |-> new.more, shown |-> new.shown, steady |-> new.steady, same |-> new.same]
  <2> HIDE DEF page
  <2> QED  BY <1>5 DEF Turn
<1> HIDE DEF new, zero, day, page
<1>7. Whole(new)
  <2>1. \A w \in Works : zero[w] <= 1 /\ zero[w] # 1
    BY <1>6
  <2>2. \A w : BelowCursor(Place(w, sort, day), None)
    BY DEF BelowCursor
  <2> QED  BY <1>2, <1>3, <1>4, <1>6, <2>1, <2>2, PageKeepsWhole
<1>8. new \in WalkRow
  <2>1. Listing(own) \in SUBSET Works
    BY DEF Listing
  <2>2. new.shown \in [Works -> Nat] /\ new.cursor \in {None} \cup (Nat \X Nat)
    BY <1>2, <1>3, <1>4, <1>6, PageTypes
  <2> QED  BY <1>3, <1>5, <1>r, <2>1, <2>2 DEF WalkRow
<1>9. ListTypes'
  BY <1>1, <1>2, <1>8 DEF ListTypes, countVars, catalogueVars, Days, Counters
<1>10. Whole(walk)'
  BY <1>1, <1>7
     DEF Whole, Anchored, Ranked, Listing, Standing, Place, ActivityOf, countVars, catalogueVars
<1> QED  BY <1>9, <1>10 DEF WalkInv

LEMMA ListMoreKeeps == ASSUME CatalogueSettings, WalkInv, ListMore PROVE WalkInv'
<1> DEFINE page == Browse(walk.own, walk.sort, walk.on, walk.cursor)
           new == Turn(walk.own, walk.sort, page, walk.shown, walk.steady, walk.same)
           day == Ranking(walk.on)
<1>1. walk # None /\ walk.more /\ UNCHANGED <<countVars, catalogueVars>>
  BY DEF ListMore
<1>2. ListTypes /\ walk \in WalkRow
  BY <1>1 DEF WalkInv, ListTypes
<1>3. walk' = new
  BY DEF ListMore
<1>4. /\ day \in Days \cup {None}
      /\ IF day = None THEN Ranked = {} ELSE day \in Ranked
  BY <1>2, NewestRanking DEF Ranking, Ranked, WalkRow
<1>5. page.more \in BOOLEAN /\ page.on = day
  BY DEF Browse
<1>6. /\ new.own = walk.own /\ new.sort = walk.sort /\ new.steady = walk.steady
      /\ new.same = walk.same /\ new.on = page.on /\ new.more = page.more
      /\ new.cursor = page.next /\ new.shown = Counted(walk.shown, page.items)
      /\ new = [own |-> new.own, sort |-> new.sort, on |-> new.on, cursor |-> new.cursor,
                more |-> new.more, shown |-> new.shown, steady |-> new.steady,
                same |-> new.same]
  <2> HIDE DEF page
  <2> QED  BY DEF Turn
<1>p. PageOf(new, walk.own, walk.sort, day, walk.cursor, walk.shown, walk.steady)
  <2> HIDE DEF new
  <2> QED  BY <1>6 DEF PageOf, Browse
<1> HIDE DEF new, page, day
<1>7. new \in WalkRow
  <2>1. new.shown \in [Works -> Nat] /\ new.cursor \in {None} \cup (Nat \X Nat)
    <3>1. walk.sort \in Sorts /\ walk.shown \in [Works -> Nat]
      BY <1>2 DEF WalkRow
    <3> QED  BY <1>2, <1>4, <1>p, <3>1, PageTypes
  <2> QED  BY <1>2, <1>4, <1>5, <1>6, <2>1 DEF WalkRow
<1>8. ListTypes'
  BY <1>1, <1>2, <1>3, <1>7 DEF ListTypes, countVars, catalogueVars, Days, Counters
<1>9. ASSUME new.same PROVE Whole(new)
  <2>1. Whole(walk) /\ walk.own \in BOOLEAN /\ walk.sort \in Sorts /\ walk.shown \in [Works -> Nat]
        /\ walk.cursor \in {None} \cup (Nat \X Nat) /\ walk.steady \in SUBSET Listing(walk.own)
    BY <1>1, <1>2, <1>6, <1>9 DEF WalkInv, Whole, WalkRow
  <2>2. day = walk.on
    BY <2>1 DEF Whole, Anchored, day, Ranking
  <2>3. /\ \A w \in Works : walk.shown[w] <= 1
        /\ \A w \in Works : walk.shown[w] = 1
              => ~ BelowCursor(Place(w, walk.sort, day), walk.cursor)
        /\ \A w \in walk.steady : walk.shown[w] = 0
              => BelowCursor(Place(w, walk.sort, day), walk.cursor)
    BY <1>1, <2>1, <2>2 DEF Whole, Standing
  <2> QED  BY <1>2, <1>4, <1>p, <2>1, <2>3, PageKeepsWhole
<1>10. walk'.same => Whole(walk)'
  BY <1>1, <1>3, <1>9
     DEF Whole, Anchored, Ranked, Listing, Standing, Place, ActivityOf, countVars, catalogueVars,
         Days
<1> QED  BY <1>8, <1>10 DEF WalkInv

\* Works come and go and rankings are made while a reader looks at a page.  A work that
\* is published again only moves up, and then it is no longer one that stood there.
LEMMA WatchKeeps ==
    ASSUME WalkInv, Watch, totals' \in [Days -> [Counters -> Nat]],
           rankings' \in [Days -> [Works -> Activity]], publishedAt' \in [Works -> Nat],
           \A v, w \in Works : publishedAt'[v] = publishedAt'[w] => v = w,
           \E m \in Nat : \A w \in Works : publishedAt'[w] <= m,
           \A w \in Works : publishedAt[w] <= publishedAt'[w]
    PROVE  WalkInv'
<1>1. CASE walk = None
  BY <1>1 DEF Watch, WalkInv, ListTypes
<1>2. CASE walk # None
  <2> DEFINE still == {w \in walk.steady :
                          Listed(work'[w], walk.own) /\ publishedAt'[w] = publishedAt[w]}
             kept == walk.same /\ IF walk.on = None THEN Ranked' = {}
                                  ELSE rankings'[walk.on] = rankings[walk.on]
             new == [walk EXCEPT !.steady = still, !.same = kept]
  <2>1. walk \in WalkRow /\ walk' = new
    BY <1>2 DEF Watch, WalkInv, ListTypes, WalkRow
  <2>2. /\ new \in WalkRow /\ new.own = walk.own /\ new.sort = walk.sort /\ new.on = walk.on
        /\ new.cursor = walk.cursor /\ new.more = walk.more /\ new.shown = walk.shown
        /\ new.steady = still /\ new.same = kept
    BY <2>1 DEF WalkRow
  <2> HIDE DEF new
  <2>3. ListTypes'
    BY <2>1, <2>2 DEF ListTypes, Days, Counters
  <2>4. ASSUME kept PROVE Whole(walk)'
    <3> DEFINE P(w) == Place(w, walk.sort, walk.on)
               Q(w) == <<ActivityOf(w, walk.sort, walk.on), publishedAt'[w]>>
    <3>1. Whole(walk)
      BY <1>2, <2>4 DEF WalkInv
    <3>2. Anchored(walk)'
      BY <2>1, <2>2, <2>4, <3>1 DEF Whole, Anchored, Ranked
    <3>3. \A w : Place(w, walk.sort, walk.on)' = Q(w)
      BY <2>1, <2>2, <2>4 DEF Place, ActivityOf
    <3>4. \A w : P(w) = <<ActivityOf(w, walk.sort, walk.on), publishedAt[w]>>
      BY DEF Place
    <3>5. ASSUME NEW w \in Works, NEW c \in Nat \X Nat, Above(c, Q(w)) PROVE Above(c, P(w))
      <4>1. publishedAt[w] \in Nat /\ publishedAt'[w] \in Nat /\ publishedAt[w] <= publishedAt'[w]
        BY DEF WalkInv, ListTypes
      <4> QED  BY <3>4, <3>5, <4>1 DEF Above
    <3> HIDE DEF P, Q
    <3>6. ASSUME NEW w \in Works PROVE Standing(w, walk)' => Standing(w, walk)
      <4>1. walk.cursor = None \/ walk.cursor \in Nat \X Nat
        BY <2>1 DEF WalkRow
      <4> QED  BY <2>1, <2>2, <3>3, <3>5, <4>1 DEF Standing, BelowCursor, P
    <3>7. ASSUME NEW w \in still PROVE Standing(w, walk) => Standing(w, walk)'
      <4>1. P(w) = Q(w)
        BY <3>4 DEF Q
      <4> QED  BY <2>1, <2>2, <3>3, <4>1 DEF Standing, BelowCursor, P
    <3>8. still \subseteq Listing(walk.own)'
      BY <2>1, <2>2 DEF Listing, WalkRow
    <3>9. \A w \in still : w \in walk.steady
      OBVIOUS
    <3> QED  BY <2>1, <2>2, <3>1, <3>2, <3>6, <3>7, <3>8, <3>9 DEF Whole
  <2> QED  BY <2>1, <2>2, <2>3, <2>4 DEF WalkInv
<1> QED  BY <1>1, <1>2

LEMMA RollupTypes ==
    ASSUME CatalogueSettings, CountInv, ListTypes, Rollup
    PROVE  /\ totals' \in [Days -> [Counters -> Nat]]
           /\ rankings' \in [Days -> [Works -> Activity]]
<1>1. /\ totals' = Folded /\ RankWorks(Folded, Retained)
      /\ events \in [Days -> [Counters -> Nat]] /\ totals \in [Days -> [Counters -> Nat]]
      /\ rankings \in [Days -> [Works -> Activity]]
  BY DEF Rollup, CountInv, CountTypes, ListTypes
<1>2. Folded \in [Days -> [Counters -> Nat]]
  BY <1>1 DEF Folded
<1>3. Retained \in [Days -> [Counters -> Nat]]
  <2>1. ASSUME NEW d \in Days
        PROVE  NoCounts[d] \in [Counters -> Nat] /\ events[d] \in [Counters -> Nat]
    BY <1>1 DEF NoCounts
  <2> QED  BY <2>1 DEF Retained
<1>4. IsFiniteSet(Days)
  BY FS_Interval DEF Days, CatalogueSettings, CountSettings
<1>5. ASSUME NEW c \in Counters PROVE Since(Folded, Retained, c) \in Nat
  <2>1. \A d \in Days : DayCount(Folded, Retained, d, c) \in Nat
    <3>1. \A d \in Days : Folded[d][c] \in Nat /\ Retained[d][c] \in Nat
      BY <1>2, <1>3
    <3> QED  BY <3>1 DEF DayCount
  <2> QED  BY <1>4, <2>1, SinceIsNatural
<1>6. Unranked \in [Works -> Activity]
  BY DEF Unranked, Activity
<1> DEFINE ranked == [w \in Works |->
              [views |-> Since(Folded, Retained, <<"view", w>>),
               downloads |-> Since(Folded, Retained, <<"download", w>>)
                             + Since(Folded, Retained, <<"send", w>>)]]
<1>7. ranked \in [Works -> Activity]
  <2>1. ASSUME NEW w \in Works
        PROVE  /\ Since(Folded, Retained, <<"view", w>>) \in Nat
               /\ Since(Folded, Retained, <<"download", w>>) \in Nat
               /\ Since(Folded, Retained, <<"send", w>>) \in Nat
    BY <1>5 DEF Counters
  <2> QED  BY <2>1 DEF Activity
<1>8. rankings' = [d \in Days |-> IF d = today THEN ranked
                                  ELSE IF d < today - KeptDays THEN Unranked ELSE rankings[d]]
  BY <1>1 DEF RankWorks
<1> HIDE DEF ranked
<1> QED  BY <1>1, <1>2, <1>6, <1>7, <1>8

LEMMA WalkInit == ASSUME CatalogueSettings, Init PROVE WalkInv
<1>1. Cardinality(Works) \in Nat
  BY FS_CardinalityType DEF CatalogueSettings
<1>2. /\ publishedAt \in [Works -> Nat] /\ \A w \in Works : publishedAt[w] <= Cardinality(Works)
      /\ \A v, w \in Works : publishedAt[v] = publishedAt[w] => v = w
  BY <1>1 DEF Init, IsInjective
<1>3. totals \in [Days -> [Counters -> Nat]] /\ rankings \in [Days -> [Works -> Activity]]
  BY DEF Init, CountInit, NoCounts, Unranked, Activity
<1> QED  BY <1>1, <1>2, <1>3 DEF Init, WalkInv, ListTypes

LEMMA CountStepWatched ==
    ASSUME CatalogueSettings, CountInv, WalkInv, NEW open, CountStep(open),
           UNCHANGED catalogueVars, Watch
    PROVE  WalkInv'
<1>0. ListTypes
  BY DEF WalkInv
<1>1. publishedAt' = publishedAt
  BY DEF catalogueVars
<1>2. \/ totals' = totals /\ rankings' = rankings
      \/ Rollup
  BY DEF CountStep, RecordView, RecordDownload, RecordVisit, Begin, MakeSecret, ForgetEarlier,
         ReadSecret, CountOnce, RecordSend, Midnight
<1>3. totals' \in [Days -> [Counters -> Nat]] /\ rankings' \in [Days -> [Works -> Activity]]
  BY <1>0, <1>2, RollupTypes DEF ListTypes
<1>4. \A w \in Works : publishedAt[w] <= publishedAt[w]
  BY <1>0 DEF ListTypes
<1> QED  BY <1>0, <1>1, <1>3, <1>4, WatchKeeps DEF ListTypes

LEMMA PublishKeeps ==
    ASSUME CatalogueSettings, WalkInv, NEW w \in Works, Publish(w) PROVE WalkInv'
<1> DEFINE dates == {publishedAt[v] : v \in Works}
           new == Max(dates) + 1
<1>1. /\ publishedAt' = [publishedAt EXCEPT ![w] = new] /\ Watch
      /\ UNCHANGED <<totals, rankings>>
  BY DEF Publish, Change
<1>2. ListTypes
  BY DEF WalkInv
<1>3. PICK m \in Nat : \A v \in Works : publishedAt[v] <= m
  BY <1>2 DEF ListTypes
<1>4. dates \subseteq Nat /\ dates # {} /\ \A n \in dates : n <= m
  BY <1>2, <1>3 DEF ListTypes
<1>5. Max(dates) \in Nat /\ \A n \in dates : n <= Max(dates)
  <2> HIDE DEF dates
  <2> QED  BY <1>4, GreatestNumber
<1>6. new \in Nat /\ \A v \in Works : publishedAt[v] \in Nat /\ publishedAt[v] < new
  <2>1. \A v \in Works : publishedAt[v] \in Nat /\ publishedAt[v] <= Max(dates)
    BY <1>2, <1>5 DEF ListTypes
  <2> HIDE DEF dates
  <2> QED  BY <1>5, <2>1
<1> HIDE DEF new, dates
<1>7. /\ publishedAt' \in [Works -> Nat] /\ publishedAt'[w] = new
      /\ \A v \in Works : v # w => publishedAt'[v] = publishedAt[v]
  BY <1>1, <1>2, <1>6 DEF ListTypes
<1>8. \A u, v \in Works : publishedAt'[u] = publishedAt'[v] => u = v
  BY <1>2, <1>6, <1>7 DEF ListTypes
<1>9. \A v \in Works : publishedAt[v] <= publishedAt'[v] /\ publishedAt'[v] <= new
  <2>1. ASSUME NEW v \in Works PROVE publishedAt[v] <= publishedAt'[v] /\ publishedAt'[v] <= new
    <3>1. new \in Nat /\ publishedAt[v] \in Nat /\ publishedAt[v] < new
      BY <1>6
    <3>2. publishedAt'[v] = new \/ publishedAt'[v] = publishedAt[v]
      BY <1>7
    <3> QED  BY <3>1, <3>2
  <2> QED  BY <2>1
<1> QED  BY <1>1, <1>2, <1>6, <1>7, <1>8, <1>9, WatchKeeps DEF ListTypes

LEMMA ChangeKeeps ==
    ASSUME WalkInv, NEW w \in Works, NEW changed, UNCHANGED publishedAt, Change(w, changed)
    PROVE  WalkInv'
<1>1. ListTypes /\ Watch /\ UNCHANGED <<totals, rankings, publishedAt>>
  BY DEF WalkInv, Change
<1>2. \A v \in Works : publishedAt[v] <= publishedAt[v]
  BY <1>1 DEF ListTypes
<1> QED  BY <1>1, <1>2, WatchKeeps DEF ListTypes

LEMMA WalkStep == ASSUME CatalogueSettings, CountInv, WalkInv, [Next]_vars PROVE WalkInv'
<1>1. CASE CountStep({Site} \cup Open) /\ UNCHANGED catalogueVars /\ Watch
  BY <1>1, CountStepWatched
<1>2. ASSUME NEW w \in Works,
             Publish(w) \/ SetWorkVisibility(w) \/ Delete(w) \/ Restore(w) \/ TakeDown(w)
             \/ LiftTakedown(w)
      PROVE  WalkInv'
  <2>1. CASE Publish(w)
    BY <2>1, PublishKeeps
  <2>2. CASE ~ Publish(w)
    <3>1. UNCHANGED publishedAt /\ \E changed : Change(w, changed)
      BY <1>2, <2>2
      DEF SetWorkVisibility, SetVisibility, Delete, Restore, TakeDown, LiftTakedown
    <3> QED  BY <3>1, ChangeKeeps
  <2> QED  BY <2>1, <2>2
<1>3. ASSUME NEW own \in BOOLEAN, NEW sort \in Sorts, ListWorks(own, sort) PROVE WalkInv'
  BY <1>3, ListWorksKeeps
<1>4. CASE ListMore
  BY <1>4, ListMoreKeeps
<1>5. CASE UNCHANGED vars
  <2>1. UNCHANGED <<totals, rankings, publishedAt, walk, work>>
    BY <1>5 DEF vars, countVars, catalogueVars
  <2>2. ListTypes'
    BY <2>1 DEF WalkInv, ListTypes, Days, Counters
  <2>3. Whole(walk)' = Whole(walk)
    BY <2>1 DEF Whole, Anchored, Ranked, Listing, Standing, Place, ActivityOf, Days
  <2> QED  BY <2>1, <2>2, <2>3 DEF WalkInv
<1> QED  BY <1>1, <1>2, <1>3, <1>4, <1>5 DEF Next, Sorts

\* A reader who asks for one page after another is shown no work twice and misses none
\* that stood in the list all along, for any number of works and any size of a page.
THEOREM WalkIsWhole == ASSUME CatalogueSettings PROVE Spec => []WalkShowsEachOnce
<1>1. CountSettings
  BY DEF CatalogueSettings
<1>2. Init => CountInv /\ WalkInv
  BY <1>1, CountInitInOrder, WalkInit DEF Init
<1>3. CountInv /\ WalkInv /\ [Next]_vars => (CountInv /\ WalkInv)'
  BY <1>1, CatalogueStep, WalkStep
<1>4. WalkInv => WalkShowsEachOnce
  <2>1. SUFFICES ASSUME ListTypes, walk # None, walk.same, Whole(walk)
                 PROVE  /\ \A w \in Works : walk.shown[w] <= 1
                        /\ ~ walk.more => \A w \in walk.steady : walk.shown[w] = 1
    BY DEF WalkInv, WalkShowsEachOnce
  <2>2. \A w \in Works : walk.shown[w] \in Nat /\ walk.shown[w] <= 1
    BY <2>1 DEF ListTypes, WalkRow, Whole
  <2>3. walk.steady \subseteq Works
    BY <2>1 DEF ListTypes, WalkRow
  <2>4. ~ walk.more => \A w \in walk.steady : walk.shown[w] # 0
    BY <2>1 DEF Whole
  <2>5. \A w \in Works : walk.shown[w] # 0 => walk.shown[w] = 1
    BY <2>2
  <2> QED  BY <2>2, <2>3, <2>4, <2>5
<1> QED  BY <1>2, <1>3, <1>4, PTL DEF Spec

===============================================================================
