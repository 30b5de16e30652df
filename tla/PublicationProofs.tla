--------------------------- MODULE PublicationProofs ---------------------------
(***************************************************************************)
(* What becomes of a published work, for any number of owners, readers,    *)
(* works and loops: posts to Discord, entries in inboxes, and the formats  *)
(* it is offered in.                                                       *)
(*                                                                         *)
(* Posts.  Each loop that has leased a post and not sent it may still show *)
(* it, so the two are counted together.  A post is leased by a second loop *)
(* only when the first outlived its lease, and then the excuse is counted; *)
(* when nothing befell a post, at most one loop has it, and what that loop *)
(* remembers of the answer is true.                                        *)
(*                                                                         *)
(* Entries.  An entry stands for no event that is in the queue or not yet  *)
(* recorded, so one that is taken off is new to every inbox; a batch goes  *)
(* in one event after the other.                                           *)
(*                                                                         *)
(* Offers.  What a stamp says was worked out then, is true while the       *)
(* release of that stamp runs; and what the report says a card's format    *)
(* carries is what its writer writes.                                      *)
(***************************************************************************)
EXTENDS Delivery, Offers, FiniteSetTheorems, WellFoundedInduction, TLAPS

-----------------------------------------------------------------------------
(* The inductive invariant.                                                  *)

PostTypes ==
    /\ hook \in [Owners -> {"none", "good", "unreadable"}]
    /\ post \in [Posts -> Post]
    /\ sender \in [Senders -> Held \cup {Idle}]
    /\ shown \in [Posts -> Nat] /\ excuse \in [Posts -> Nat]
    /\ queued \in 0..MaxPosts

Holds(s, p) == sender[s] # Idle /\ sender[s].post = p

LeasedBy(p) == {s \in Senders : Holds(s, p) /\ sender[s].outcome = "leased"}

\* A loop that may still show the post counts as having shown it.
Counted(p) == shown[p] + Cardinality(LeasedBy(p)) <= 1 + excuse[p]

\* A post that may be leased has not been shown but for a cause.
MayBeShown(p) ==
    Waiting(p) /\ (\A s \in Senders : Holds(s, p) => sender[s].outcome \in {"refused", "retry"})
        => shown[p] <= excuse[p]

\* Nothing befell the post.
Calm(p) ==
    excuse[p] = 0 =>
        /\ \A s, t \in Senders : Holds(s, p) /\ Holds(t, p) => s = t
        /\ \A s \in Senders : Holds(s, p) /\ sender[s].outcome # "taken" => shown[p] = 0
        /\ (post[p].failed => shown[p] = 0 /\ \A s \in Senders : ~ Holds(s, p))

\* What Discord is believed to have taken, it shows.
Taken(p) ==
    /\ \A s \in Senders : Holds(s, p) /\ sender[s].outcome = "taken" => shown[p] > 0
    /\ (post[p].sent => shown[p] > 0)

NotYet(p) ==
    p > queued => shown[p] = 0 /\ post[p] = NoPost /\ \A s \in Senders : ~ Holds(s, p)

InOrder(p) == Counted(p) /\ MayBeShown(p) /\ Calm(p) /\ Taken(p) /\ NotYet(p)

IInv == PostTypes /\ \A p \in Posts : InOrder(p)

-----------------------------------------------------------------------------
(* Lemmas.                                                                   *)

LEMMA NoPostType == ASSUME Settings PROVE NoPost \in Post
  BY DEF NoPost, Post, Settings

LEMMA LeasedByType ==
    ASSUME Settings, NEW p \in Posts
    PROVE  /\ IsFiniteSet(LeasedBy(p)) /\ Cardinality(LeasedBy(p)) \in Nat
           /\ IsFiniteSet(LeasedBy(p)') /\ Cardinality(LeasedBy(p)') \in Nat
<1>1. LeasedBy(p) \subseteq Senders /\ LeasedBy(p)' \subseteq Senders
  BY DEF LeasedBy
<1>2. IsFiniteSet(LeasedBy(p)) /\ IsFiniteSet(LeasedBy(p)')
  BY <1>1, FS_Subset DEF Settings
<1> QED  BY <1>2, FS_CardinalityType

\* A post whose row has not come nearer to being leased, that no loop took, and that
\* Discord shows as often as it did, stays in order.
LEMMA StaysInOrder ==
    ASSUME Settings, IInv, PostTypes', NEW p \in Posts, queued' >= queued,
           shown'[p] = shown[p], excuse'[p] = excuse[p],
           Waiting(p)' => Waiting(p),
           post'[p].failed => post[p].failed,
           post'[p].sent => post[p].sent,
           post[p] = NoPost /\ p > queued' => post'[p] = NoPost,
           \A s \in Senders : Holds(s, p)' <=> Holds(s, p),
           \A s \in Senders : Holds(s, p) => sender'[s].outcome = sender[s].outcome
    PROVE  InOrder(p)'
<1>1. LeasedBy(p)' = LeasedBy(p)
  BY DEF LeasedBy
<1>2. shown[p] \in Nat /\ excuse[p] \in Nat /\ Cardinality(LeasedBy(p)) \in Nat
  BY LeasedByType DEF IInv, PostTypes
<1>3. Counted(p)'
  BY <1>1, <1>2 DEF Counted, IInv, InOrder
<1>4. MayBeShown(p)'
  BY DEF MayBeShown, IInv, InOrder
<1>5. Calm(p)'
  BY DEF Calm, IInv, InOrder
<1>6. Taken(p)'
  BY DEF Taken, IInv, InOrder
<1>7. NotYet(p)'
  <2>1. queued \in Int /\ queued' \in Int /\ p \in Int
    BY DEF IInv, PostTypes, Posts, Settings
  <2>2. p > queued' => p > queued
    BY <2>1
  <2> QED  BY <2>2 DEF NotYet, IInv, InOrder
<1> QED  BY <1>3, <1>4, <1>5, <1>6, <1>7 DEF InOrder

\* When one loop lets a post go, or learns Discord's answer, one fewer may show it.
LEMMA OneFewer ==
    ASSUME Settings, NEW p \in Posts, NEW s \in Senders, s \in LeasedBy(p),
           LeasedBy(p)' = LeasedBy(p) \ {s}
    PROVE  Cardinality(LeasedBy(p)') = Cardinality(LeasedBy(p)) - 1
BY LeasedByType, FS_RemoveElement

LEMMA OneMoreLoop ==
    ASSUME Settings, NEW p \in Posts, NEW s \in Senders, s \notin LeasedBy(p),
           LeasedBy(p)' = LeasedBy(p) \cup {s}
    PROVE  Cardinality(LeasedBy(p)') = Cardinality(LeasedBy(p)) + 1
BY LeasedByType, FS_AddElement

-----------------------------------------------------------------------------
(* PostTypes.                                                                    *)

LEMMA HeldType ==
    ASSUME Settings, PostTypes, NEW s \in Senders, sender[s] # Idle
    PROVE  /\ sender[s] \in Held /\ sender[s].post \in Posts
           /\ sender[s].outcome \in {"leased", "taken", "refused", "retry"}
BY DEF PostTypes, Held

LEMMA AnsweredHolds ==
    ASSUME Settings, PostTypes, NEW s \in Senders, sender[s] # Idle,
           NEW outcome \in {"leased", "taken", "refused", "retry"}, Answered(s, outcome)
    PROVE  /\ sender' \in [Senders -> Held \cup {Idle}]
           /\ sender'[s] # Idle /\ sender'[s].post = sender[s].post
           /\ sender'[s].outcome = outcome
           /\ \A t \in Senders : t # s => sender'[t] = sender[t]
<1> DEFINE new == [sender[s] EXCEPT !.outcome = outcome]
<1>1. sender[s] \in Held
  BY HeldType
<1>2. new \in Held /\ new.post = sender[s].post /\ new.outcome = outcome
  BY <1>1 DEF Held
<1>3. sender' = [sender EXCEPT ![s] = new]
  BY DEF Answered
<1>4. new # Idle
  BY <1>2 DEF Settings
<1> HIDE DEF new
<1> QED  BY <1>2, <1>3, <1>4 DEF PostTypes

LEMMA IdleAgain ==
    ASSUME Settings, PostTypes, NEW s \in Senders, sender' = [sender EXCEPT ![s] = Idle]
    PROVE  /\ sender' \in [Senders -> Held \cup {Idle}]
           /\ sender'[s] = Idle
           /\ \A t \in Senders : t # s => sender'[t] = sender[t]
BY DEF PostTypes

-----------------------------------------------------------------------------
(* Owners.                                                                   *)

LEMMA ConnectInOrder == ASSUME Settings, IInv, NEW o \in Owners, Connect(o) PROVE IInv'
<1>1. PostTypes'
  BY DEF Connect, PostTypes, IInv
<1>2. ASSUME NEW p \in Posts PROVE InOrder(p)'
  <2>1. queued' >= queued
    BY DEF Connect, PostTypes, IInv
  <2> QED  BY <1>1, <2>1, StaysInOrder DEF Connect, Holds, Waiting, Exists
<1> QED  BY <1>1, <1>2 DEF IInv, Posts

LEMMA DisconnectInOrder == ASSUME Settings, IInv, NEW o \in Owners, Disconnect(o) PROVE IInv'
<1>0. post' = [p \in Posts |-> IF post[p].owner = o THEN NoPost ELSE post[p]]
  BY DEF Disconnect
<1>1. PostTypes'
  <2>1. post' \in [Posts -> Post]
    BY <1>0, NoPostType DEF PostTypes, IInv
  <2> QED  BY <2>1 DEF Disconnect, PostTypes, IInv, Posts
<1>2. ASSUME NEW p \in Posts PROVE InOrder(p)'
  <2>1. queued' >= queued
    BY DEF Disconnect, PostTypes, IInv
  <2>2. post'[p] = NoPost \/ post'[p] = post[p]
    BY <1>0
  <2>3. /\ Waiting(p)' => Waiting(p)
        /\ post'[p].failed => post[p].failed
        /\ post'[p].sent => post[p].sent
        /\ post[p] = NoPost /\ p > queued' => post'[p] = NoPost
    BY <2>2 DEF Waiting, Exists, NoPost
  <2>4. UNCHANGED <<sender, shown, excuse>>
    BY DEF Disconnect
  <2> QED  BY <1>1, <2>1, <2>3, <2>4, StaysInOrder DEF Holds
<1> QED  BY <1>1, <1>2 DEF IInv, Posts

LEMMA QueueInOrder == ASSUME Settings, IInv, NEW o \in Owners, Queue(o) PROVE IInv'
<1> DEFINE n == queued + 1
           new == [NoPost EXCEPT !.owner = o]
<1>0. queued \in Nat /\ n \in Posts /\ n > queued
  BY DEF Queue, PostTypes, IInv, Posts, Settings
<1>1. new \in Post /\ ~ new.sent /\ ~ new.failed
  <2>1. NoPost \in Post
    BY NoPostType
  <2>2. new \in Post
    BY <2>1 DEF Post
  <2>3. new.sent = NoPost.sent /\ new.failed = NoPost.failed
    BY <2>1 DEF Post
  <2> QED  BY <2>2, <2>3 DEF NoPost
<1>2. post' = [post EXCEPT ![n] = new] /\ queued' = n
          /\ UNCHANGED <<hook, sender, shown, excuse>>
  BY DEF Queue
<1> HIDE DEF new
<1>3. PostTypes'
  <2>1. post' \in [Posts -> Post]
    BY <1>0, <1>1, <1>2 DEF PostTypes, IInv
  <2>2. queued' \in 0..MaxPosts
    BY <1>0, <1>2 DEF Posts, Settings
  <2> QED  BY <1>2, <2>1, <2>2 DEF PostTypes, IInv, Posts
<1>4. ASSUME NEW p \in Posts PROVE InOrder(p)'
  <2>1. CASE p # n
    <3>1. post'[p] = post[p]
      BY <1>2, <2>1 DEF PostTypes, IInv
    <3>2. queued' >= queued
      BY <1>0, <1>2
    <3> QED  BY <1>2, <1>3, <3>1, <3>2, StaysInOrder DEF Holds, Waiting, Exists
  <2>2. CASE p = n
    <3>1. shown[p] = 0 /\ \A s \in Senders : ~ Holds(s, p)
      BY <1>0, <2>2 DEF IInv, InOrder, NotYet
    <3>2. shown'[p] = 0 /\ \A s \in Senders : ~ Holds(s, p)'
      BY <1>2, <3>1 DEF Holds
    <3>3. excuse'[p] \in Nat
      BY <1>3 DEF PostTypes
    <3>4. post'[p] = new
      BY <1>0, <1>2, <2>2 DEF PostTypes, IInv
    <3>5. LeasedBy(p)' = {}
      BY <3>2 DEF LeasedBy
    <3>6. Counted(p)'
      BY <3>2, <3>3, <3>5, FS_EmptySet DEF Counted
    <3>7. MayBeShown(p)'
      BY <3>2, <3>3 DEF MayBeShown
    <3>8. Calm(p)'
      BY <3>2 DEF Calm
    <3>9. Taken(p)'
      BY <1>1, <3>2, <3>4 DEF Taken
    <3>10. NotYet(p)'
      BY <1>0, <1>2, <2>2 DEF NotYet
    <3> QED  BY <3>6, <3>7, <3>8, <3>9, <3>10 DEF InOrder
  <2> QED  BY <2>1, <2>2
<1> QED  BY <1>3, <1>4 DEF IInv, Posts

-----------------------------------------------------------------------------
(* The loops.                                                                *)

LEMMA LeaseInOrder == ASSUME Settings, IInv, NEW s \in Senders, Lease(s) PROVE IInv'
<1>1. PICK p \in Posts :
        /\ IsNext(p)
        /\ post' = [post EXCEPT ![p] = [post[p] EXCEPT !.tries = OneMore(post[p].tries),
                                                       !.due = LeaseTime]]
        /\ sender' = [sender EXCEPT ![s] =
                        [post |-> p, address |-> hook[post[p].owner],
                         tries |-> OneMore(post[p].tries), outcome |-> "leased"]]
        /\ IF InHands(p) THEN Trouble /\ Excused(p) ELSE UNCHANGED <<excuse, trouble>>
  BY DEF Lease
<1>2. sender[s] = Idle /\ UNCHANGED <<hook, shown, queued>>
  BY DEF Lease
<1>3. PostTypes /\ InOrder(p)
  BY DEF IInv
<1> DEFINE kept == [post[p] EXCEPT !.tries = OneMore(post[p].tries), !.due = LeaseTime]
           held == [post |-> p, address |-> hook[post[p].owner],
                    tries |-> OneMore(post[p].tries), outcome |-> "leased"]
<1>4. post[p] \in Post /\ post[p].owner \in Owners /\ Waiting(p)
  BY <1>1, <1>3 DEF PostTypes, Post, IsNext, Waiting, Exists
<1>5. OneMore(post[p].tries) \in 0..(MaxTries + 1)
  <2>1. post[p].tries \in 0..(MaxTries + 1)
    BY <1>4 DEF Post
  <2> QED  BY <2>1 DEF OneMore, Settings
<1>6. kept \in Post /\ kept.owner = post[p].owner /\ kept.sent = post[p].sent
          /\ kept.failed = post[p].failed
  <2>1. LeaseTime \in Nat
    BY DEF Settings
  <2> QED  BY <1>4, <1>5, <2>1 DEF Post
<1>7. held \in Held /\ held.post = p /\ held.outcome = "leased" /\ held # Idle
  <2>1. hook[post[p].owner] \in {"none", "good", "unreadable"}
    BY <1>3, <1>4 DEF PostTypes
  <2>2. held \in Held
    BY <1>5, <2>1 DEF Held
  <2> QED  BY <2>2 DEF Settings
<1>8. post' = [post EXCEPT ![p] = kept] /\ sender' = [sender EXCEPT ![s] = held]
  BY <1>1
<1>9. /\ excuse' \in [Posts -> Nat] /\ excuse'[p] = IF InHands(p) THEN excuse[p] + 1 ELSE excuse[p]
      /\ \A q \in Posts : q # p => excuse'[q] = excuse[q]
  BY <1>1, <1>3 DEF Excused, PostTypes
<1> HIDE DEF kept, held
<1>10. PostTypes'
  BY <1>2, <1>3, <1>6, <1>7, <1>8, <1>9 DEF PostTypes, Posts
<1>11. /\ sender'[s] = held
       /\ \A t \in Senders : t # s => sender'[t] = sender[t]
  BY <1>3, <1>8 DEF PostTypes
<1>12. /\ \A q \in Posts : Holds(s, q)' <=> q = p
       /\ \A q \in Posts : ~ Holds(s, q)
       /\ \A t \in Senders, q \in Posts : t # s => (Holds(t, q)' <=> Holds(t, q))
  BY <1>2, <1>7, <1>11 DEF Holds
<1>13. ASSUME NEW q \in Posts, q # p PROVE InOrder(q)'
  <2>1. post'[q] = post[q]
    BY <1>3, <1>8, <1>13 DEF PostTypes
  <2>2. excuse'[q] = excuse[q] /\ shown'[q] = shown[q] /\ queued' >= queued
    BY <1>2, <1>3, <1>9, <1>13 DEF PostTypes
  <2>3. \A t \in Senders : Holds(t, q)' <=> Holds(t, q)
    BY <1>12, <1>13
  <2>4. \A t \in Senders : Holds(t, q) => sender'[t].outcome = sender[t].outcome
    BY <1>11, <1>12
  <2> QED  BY <1>10, <2>1, <2>2, <2>3, <2>4, StaysInOrder DEF Waiting, Exists
<1>14. InOrder(p)'
  <2>1. /\ shown[p] \in Nat /\ excuse[p] \in Nat /\ shown'[p] = shown[p]
        /\ excuse'[p] \in Nat /\ queued \in Nat /\ queued' = queued /\ p \in Nat
    BY <1>2, <1>3, <1>10 DEF PostTypes, Posts, Settings
  <2>2. post'[p] = kept /\ Waiting(p)'
    BY <1>3, <1>4, <1>6, <1>8 DEF PostTypes, Waiting, Exists
  <2>3. InHands(p) <=> \E t \in Senders : Holds(t, p)
    BY DEF InHands, Holds
  <2>4. s \notin LeasedBy(p) /\ LeasedBy(p)' = LeasedBy(p) \cup {s}
    BY <1>7, <1>11, <1>12 DEF LeasedBy
  <2>5. Cardinality(LeasedBy(p)') = Cardinality(LeasedBy(p)) + 1
            /\ Cardinality(LeasedBy(p)) \in Nat
    BY <2>4, OneMoreLoop, LeasedByType
  <2>6. ASSUME ~ InHands(p)
        PROVE  /\ Cardinality(LeasedBy(p)) = 0 /\ shown[p] <= excuse[p]
               /\ \A t \in Senders : Holds(t, p)' => t = s
    <3>1. \A t \in Senders : ~ Holds(t, p)
      BY <2>3, <2>6
    <3>2. LeasedBy(p) = {}
      BY <3>1 DEF LeasedBy
    <3>3. shown[p] <= excuse[p]
      BY <1>3, <1>4, <3>1 DEF InOrder, MayBeShown
    <3> QED  BY <1>12, <3>1, <3>2, <3>3, FS_EmptySet
  <2>7. Counted(p)'
    <3>1. CASE InHands(p)
      <4>1. excuse'[p] = excuse[p] + 1
        BY <1>9, <3>1
      <4> QED  BY <1>3, <2>1, <2>5, <4>1 DEF InOrder, Counted
    <3>2. CASE ~ InHands(p)
      <4>1. excuse'[p] = excuse[p]
        BY <1>9, <3>2
      <4> QED  BY <2>1, <2>5, <2>6, <3>2, <4>1 DEF Counted
    <3> QED  BY <3>1, <3>2
  <2>8. MayBeShown(p)'
    BY <1>7, <1>11, <1>12 DEF MayBeShown
  <2>9. Calm(p)'
    <3>1. SUFFICES ASSUME excuse'[p] = 0 PROVE Calm(p)'
      BY DEF Calm
    <3>2. ~ InHands(p)
      BY <1>9, <2>1, <3>1
    <3>3. excuse[p] = 0 /\ shown'[p] = 0
      BY <1>9, <2>1, <2>6, <3>1, <3>2
    <3>4. ~ post'[p].failed
      BY <2>2 DEF Waiting
    <3> QED  BY <2>6, <3>2, <3>3, <3>4 DEF Calm
  <2>10. Taken(p)'
    <3>1. ~ post'[p].sent
      BY <2>2 DEF Waiting
    <3>2. \A t \in Senders : Holds(t, p)' /\ sender'[t].outcome = "taken" => t # s
      BY <1>7, <1>11
    <3>3. \A t \in Senders : Holds(t, p)' /\ sender'[t].outcome = "taken" => shown[p] > 0
      BY <1>3, <1>11, <1>12, <3>2 DEF InOrder, Taken
    <3> QED  BY <2>1, <3>1, <3>3 DEF Taken
  <2>11. NotYet(p)'
    <3>1. post[p] # NoPost
      BY <1>4 DEF Waiting, Exists, NoPost
    <3> QED  BY <1>3, <2>1, <3>1 DEF NotYet, InOrder
  <2> QED  BY <2>7, <2>8, <2>9, <2>10, <2>11 DEF InOrder
<1> QED  BY <1>10, <1>13, <1>14 DEF IInv, Posts

\* A loop's step with the post it has leaves the other posts in order.
LEMMA OthersInOrder ==
    ASSUME Settings, IInv, PostTypes', NEW s \in Senders, sender[s] # Idle,
           \A t \in Senders : t # s => sender'[t] = sender[t],
           sender'[s] = Idle \/ sender'[s].post = sender[s].post,
           NEW q \in Posts, q # sender[s].post, queued' = queued,
           post'[q] = post[q], shown'[q] = shown[q], excuse'[q] = excuse[q]
    PROVE  InOrder(q)'
<1>1. \A t \in Senders : Holds(t, q)' <=> Holds(t, q)
  BY DEF Holds
<1>2. \A t \in Senders : Holds(t, q) => sender'[t].outcome = sender[t].outcome
  BY DEF Holds
<1>3. queued' >= queued
  BY DEF IInv, PostTypes
<1> QED  BY <1>1, <1>2, <1>3, StaysInOrder DEF Waiting, Exists

\* A loop lets its post go: it may be settled by what Discord answered, and may be
\* leased again after it was taken only with an excuse.
LEMMA LetGoInOrder ==
    ASSUME Settings, IInv, PostTypes', NEW s \in Senders, sender[s] # Idle, sender'[s] = Idle,
           \A t \in Senders : t # s => sender'[t] = sender[t],
           NEW p \in Posts, p = sender[s].post, queued' = queued, shown'[p] = shown[p],
           \/ excuse'[p] = excuse[p] /\ (sender[s].outcome = "taken" => ~ Waiting(p)')
           \/ excuse'[p] = excuse[p] + 1,
           Waiting(p)' => Waiting(p),
           post'[p].failed => post[p].failed \/ sender[s].outcome \in {"refused", "retry"},
           post'[p].sent => post[p].sent \/ sender[s].outcome = "taken"
    PROVE  InOrder(p)'
<1>1. /\ shown[p] \in Nat /\ excuse[p] \in Nat /\ excuse'[p] \in Nat /\ Holds(s, p)
      /\ PostTypes /\ InOrder(p)
  BY DEF IInv, PostTypes, Holds
<1>2. /\ ~ Holds(s, p)'
      /\ \A t \in Senders : t # s => (Holds(t, p)' <=> Holds(t, p)) /\ sender'[t] = sender[t]
  BY DEF Holds
<1>3. LeasedBy(p)' = LeasedBy(p) \ {s}
  BY <1>2 DEF LeasedBy
<1>4. Cardinality(LeasedBy(p)) \in Nat /\ Cardinality(LeasedBy(p)') \in Nat
  BY LeasedByType
<1>5. CASE sender[s].outcome = "leased"
  <2>1. Cardinality(LeasedBy(p)') = Cardinality(LeasedBy(p)) - 1
    BY <1>1, <1>3, <1>5, OneFewer DEF LeasedBy
  <2> QED
    <3>1. shown[p] <= excuse[p] /\ Counted(p)'
      BY <1>1, <1>4, <2>1 DEF InOrder, Counted
    <3>2. MayBeShown(p)'
      BY <1>1, <3>1 DEF MayBeShown
    <3>3. Calm(p)'
      BY <1>1, <1>2, <1>5 DEF InOrder, Calm
    <3>4. Taken(p)'
      BY <1>1, <1>2, <1>5 DEF InOrder, Taken
    <3>5. NotYet(p)'
      BY <1>1 DEF InOrder, NotYet
    <3> QED  BY <3>1, <3>2, <3>3, <3>4, <3>5 DEF InOrder
<1>6. CASE sender[s].outcome # "leased"
  <2>1. LeasedBy(p)' = LeasedBy(p)
    BY <1>3, <1>6 DEF LeasedBy
  <2>2. Counted(p)'
    BY <1>1, <1>4, <2>1 DEF InOrder, Counted
  <2>3. MayBeShown(p)'
    <3>1. SUFFICES ASSUME Waiting(p)',
                          \A t \in Senders :
                              Holds(t, p)' => sender'[t].outcome \in {"refused", "retry"}
                   PROVE  shown[p] <= excuse'[p]
      BY DEF MayBeShown
    <3>2. CASE sender[s].outcome = "taken"
      BY <1>1, <1>4, <3>1, <3>2 DEF InOrder, Counted
    <3>3. CASE sender[s].outcome # "taken"
      <4>1. sender[s].outcome \in {"refused", "retry"}
        BY <1>1, <1>6, <3>3, HeldType
      <4>2. shown[p] <= excuse[p]
        BY <1>1, <1>2, <3>1, <4>1 DEF InOrder, MayBeShown
      <4> QED  BY <1>1, <4>2
    <3> QED  BY <3>2, <3>3
  <2>4. Calm(p)'
    <3>1. SUFFICES ASSUME excuse'[p] = 0 PROVE Calm(p)'
      BY DEF Calm
    <3>2. excuse[p] = 0
      BY <1>1, <3>1
    <3>3. /\ \A t \in Senders : Holds(t, p) => t = s
          /\ sender[s].outcome # "taken" => shown[p] = 0
          /\ ~ post[p].failed
      BY <1>1, <3>2 DEF InOrder, Calm
    <3> QED  BY <1>2, <3>3 DEF Calm
  <2>5. Taken(p)'
    BY <1>1, <1>2 DEF InOrder, Taken
  <2>6. NotYet(p)'
    BY <1>1 DEF InOrder, NotYet
  <2> QED  BY <2>2, <2>3, <2>4, <2>5, <2>6 DEF InOrder
<1> QED  BY <1>5, <1>6

LEMMA OpenFailsInOrder == ASSUME Settings, IInv, NEW s \in Senders, OpenFails(s) PROVE IInv'
<1>1. /\ sender[s] # Idle /\ sender[s].outcome = "leased"
      /\ sender' = [sender EXCEPT ![s] = Idle]
      /\ UNCHANGED <<hook, post, shown, excuse, queued>>
  BY DEF OpenFails
<1>2. PostTypes
  BY DEF IInv
<1>3. /\ sender'[s] = Idle
      /\ \A t \in Senders : t # s => sender'[t] = sender[t]
      /\ PostTypes'
  BY <1>1, <1>2, IdleAgain DEF PostTypes, Posts
<1>4. sender[s].post \in Posts
  BY <1>1, <1>2, HeldType
<1>5. ASSUME NEW q \in Posts PROVE InOrder(q)'
  <2>1. CASE q # sender[s].post
    BY <1>1, <1>3, <2>1, OthersInOrder
  <2>2. CASE q = sender[s].post
    BY <1>1, <1>3, <2>2, LetGoInOrder DEF Waiting, Exists
  <2> QED  BY <2>1, <2>2
<1> QED  BY <1>3, <1>5 DEF IInv, Posts

LEMMA StopInOrder == ASSUME Settings, IInv, NEW s \in Senders, Stop(s) PROVE IInv'
<1> DEFINE p == sender[s].post
<1>1. /\ sender[s] # Idle
      /\ sender' = [sender EXCEPT ![s] = Idle]
      /\ IF sender[s].outcome = "taken" THEN Excused(p) ELSE UNCHANGED excuse
      /\ UNCHANGED <<hook, post, shown, queued>>
  BY DEF Stop
<1>2. PostTypes
  BY DEF IInv
<1>3. PICK n \in Posts : n = p
  BY <1>1, <1>2, HeldType
<1>4. /\ excuse' \in [Posts -> Nat]
      /\ excuse'[n] = IF sender[s].outcome = "taken" THEN excuse[n] + 1 ELSE excuse[n]
      /\ \A q \in Posts : q # n => excuse'[q] = excuse[q]
  BY <1>1, <1>2, <1>3 DEF Excused, PostTypes
<1>5. /\ sender'[s] = Idle
      /\ \A t \in Senders : t # s => sender'[t] = sender[t]
      /\ PostTypes'
  BY <1>1, <1>2, <1>4, IdleAgain DEF PostTypes, Posts
<1>6. ASSUME NEW q \in Posts, q # n PROVE InOrder(q)'
  BY <1>1, <1>3, <1>4, <1>5, <1>6, OthersInOrder
<1>7. InOrder(n)'
  BY <1>1, <1>3, <1>4, <1>5, LetGoInOrder DEF Waiting, Exists
<1> QED  BY <1>5, <1>6, <1>7 DEF IInv, Posts

LEMMA SettleInOrder == ASSUME Settings, IInv, NEW s \in Senders, Settle(s) PROVE IInv'
<1>1. /\ sender[s] # Idle /\ sender[s].outcome # "leased"
      /\ sender' = [sender EXCEPT ![s] = Idle]
      /\ UNCHANGED <<hook, shown, excuse, queued>>
  BY DEF Settle
<1>2. PostTypes
  BY DEF IInv
<1>3. PICK p \in Posts : p = sender[s].post
  BY <1>1, <1>2, HeldType
<1>4. \/ post' = post /\ ~ Exists(p)
      \/ post' = [post EXCEPT ![p].sent = TRUE] /\ sender[s].outcome = "taken"
      \/ post' = [post EXCEPT ![p].due = Backoff] /\ sender[s].outcome # "taken"
      \/ post' = [post EXCEPT ![p].failed = TRUE] /\ sender[s].outcome # "taken"
  BY <1>3 DEF Settle
<1>5. /\ post' \in [Posts -> Post]
      /\ \A q \in Posts : q # p => post'[q] = post[q]
      /\ sender[s].outcome = "taken" => ~ Waiting(p)'
      /\ Waiting(p)' => Waiting(p)
      /\ post'[p].failed => post[p].failed \/ sender[s].outcome # "taken"
      /\ post'[p].sent => post[p].sent \/ sender[s].outcome = "taken"
  <2>0. post[p] \in Post /\ Backoff \in Nat
    BY <1>2 DEF PostTypes, Backoff
  <2>1. CASE post' = post /\ ~ Exists(p)
    BY <1>2, <2>1 DEF PostTypes, Waiting, Exists
  <2>2. CASE post' = [post EXCEPT ![p].sent = TRUE] /\ sender[s].outcome = "taken"
    <3> DEFINE new == [post[p] EXCEPT !.sent = TRUE]
    <3>1. new \in Post /\ new.sent /\ new.failed = post[p].failed
      BY <2>0 DEF Post
    <3>2. post' = [post EXCEPT ![p] = new]
      BY <2>2
    <3> HIDE DEF new
    <3> QED  BY <1>2, <2>2, <3>1, <3>2 DEF PostTypes, Waiting
  <2>3. CASE post' = [post EXCEPT ![p].due = Backoff] /\ sender[s].outcome # "taken"
    <3> DEFINE new == [post[p] EXCEPT !.due = Backoff]
    <3>1. /\ new \in Post /\ new.sent = post[p].sent /\ new.failed = post[p].failed
          /\ new.owner = post[p].owner
      BY <2>0 DEF Post
    <3>2. post' = [post EXCEPT ![p] = new]
      BY <2>3
    <3> HIDE DEF new
    <3> QED  BY <1>2, <2>3, <3>1, <3>2 DEF PostTypes, Waiting, Exists
  <2>4. CASE post' = [post EXCEPT ![p].failed = TRUE] /\ sender[s].outcome # "taken"
    <3> DEFINE new == [post[p] EXCEPT !.failed = TRUE]
    <3>1. new \in Post /\ new.sent = post[p].sent /\ new.failed
      BY <2>0 DEF Post
    <3>2. post' = [post EXCEPT ![p] = new]
      BY <2>4
    <3> HIDE DEF new
    <3> QED  BY <1>2, <2>4, <3>1, <3>2 DEF PostTypes, Waiting
  <2> QED  BY <1>4, <2>1, <2>2, <2>3, <2>4
<1>6. /\ sender'[s] = Idle
      /\ \A t \in Senders : t # s => sender'[t] = sender[t]
      /\ PostTypes'
  BY <1>1, <1>2, <1>5, IdleAgain DEF PostTypes, Posts
<1>7. sender[s].outcome \in {"taken", "refused", "retry"}
  BY <1>1, <1>2, HeldType
<1>8. ASSUME NEW q \in Posts, q # p PROVE InOrder(q)'
  BY <1>1, <1>3, <1>5, <1>6, <1>8, OthersInOrder
<1>9. InOrder(p)'
  BY <1>1, <1>3, <1>5, <1>6, <1>7, LetGoInOrder
<1> QED  BY <1>6, <1>8, <1>9 DEF IInv, Posts

LEMMA TickInOrder == ASSUME Settings, IInv, Tick PROVE IInv'
<1>1. UNCHANGED <<hook, sender, shown, excuse, queued>>
  BY DEF Tick
<1>2. post' = [p \in Posts |-> IF p \in {q \in Posts : Waiting(q) /\ post[q].due > 0}
                               THEN [post[p] EXCEPT !.due = @ - 1] ELSE post[p]]
  BY DEF Tick
<1>3. ASSUME NEW p \in Posts
      PROVE  /\ post'[p] \in Post
             /\ post'[p].owner = post[p].owner
             /\ post'[p].sent = post[p].sent /\ post'[p].failed = post[p].failed
             /\ post[p] = NoPost => post'[p] = NoPost
  <2>1. post[p] \in Post
    BY DEF IInv, PostTypes
  <2>2. CASE ~ (Waiting(p) /\ post[p].due > 0)
    BY <1>2, <2>1, <2>2
  <2>3. CASE Waiting(p) /\ post[p].due > 0
    <3>1. post'[p] = [post[p] EXCEPT !.due = post[p].due - 1]
      BY <1>2, <2>3
    <3>2. post[p].due - 1 \in Nat
      BY <2>1, <2>3 DEF Post
    <3>3. post[p] # NoPost
      BY <2>3 DEF Waiting, Exists, NoPost
    <3> QED  BY <2>1, <3>1, <3>2, <3>3 DEF Post
  <2> QED  BY <2>2, <2>3
<1>4. PostTypes'
  <2>1. post' \in [Posts -> Post]
    BY <1>2, <1>3
  <2> QED  BY <1>1, <2>1 DEF PostTypes, IInv, Posts
<1>5. ASSUME NEW p \in Posts PROVE InOrder(p)'
  <2>1. queued' >= queued
    BY <1>1 DEF PostTypes, IInv
  <2> QED  BY <1>1, <1>3, <1>4, <2>1, StaysInOrder DEF Holds, Waiting, Exists
<1> QED  BY <1>4, <1>5 DEF IInv, Posts

\* A loop that had leased the post has Discord's answer.
LEMMA AnswerInOrder ==
    ASSUME Settings, IInv, PostTypes', NEW s \in Senders, sender[s] # Idle,
           sender[s].outcome = "leased",
           NEW outcome \in {"taken", "refused", "retry"}, Answered(s, outcome),
           NEW p \in Posts, p = sender[s].post, queued' = queued, post'[p] = post[p],
           \/ /\ outcome = "taken" /\ shown'[p] = shown[p] + 1 /\ excuse'[p] = excuse[p]
           \/ outcome # "taken" /\ shown'[p] = shown[p] /\ excuse'[p] = excuse[p]
           \/ /\ outcome # "taken" /\ shown'[p] = shown[p] + 1
              /\ excuse'[p] = excuse[p] + 1
    PROVE  InOrder(p)'
<1>1. /\ shown[p] \in Nat /\ excuse[p] \in Nat /\ shown'[p] \in Nat /\ excuse'[p] \in Nat
      /\ PostTypes /\ InOrder(p) /\ Holds(s, p)
  BY DEF IInv, PostTypes, Holds
<1>2. /\ sender'[s] # Idle /\ sender'[s].post = p /\ sender'[s].outcome = outcome
      /\ \A t \in Senders : t # s => sender'[t] = sender[t]
  BY <1>1, AnsweredHolds
<1>3. \A t \in Senders : Holds(t, p)' <=> Holds(t, p)
  BY <1>2 DEF Holds
<1>4. LeasedBy(p)' = LeasedBy(p) \ {s} /\ s \in LeasedBy(p)
  BY <1>1, <1>2, <1>3 DEF LeasedBy
<1>5. /\ Cardinality(LeasedBy(p)') = Cardinality(LeasedBy(p)) - 1
      /\ Cardinality(LeasedBy(p)) \in Nat /\ Cardinality(LeasedBy(p)') \in Nat
  BY <1>4, OneFewer, LeasedByType
<1>6. shown[p] <= excuse[p]
  BY <1>1, <1>5 DEF InOrder, Counted
<1>7. Counted(p)'
  BY <1>1, <1>5 DEF InOrder, Counted
<1>8. MayBeShown(p)'
  <2>1. CASE outcome = "taken"
    BY <1>1, <1>2, <1>3, <2>1 DEF MayBeShown
  <2>2. CASE outcome # "taken"
    BY <1>1, <1>6, <2>2 DEF MayBeShown
  <2> QED  BY <2>1, <2>2
<1>9. Calm(p)'
  <2>1. SUFFICES ASSUME excuse'[p] = 0 PROVE Calm(p)'
    BY DEF Calm
  <2>2. excuse[p] = 0 /\ (outcome # "taken" => shown'[p] = shown[p])
    BY <1>1, <2>1
  <2>3. /\ \A t \in Senders : Holds(t, p) => t = s
        /\ shown[p] = 0 /\ ~ post[p].failed
    BY <1>1, <2>2 DEF InOrder, Calm
  <2> QED  BY <1>2, <1>3, <2>2, <2>3 DEF Calm
<1>10. Taken(p)'
  <2>1. shown[p] > 0 => shown'[p] > 0
    BY <1>1
  <2>2. outcome = "taken" => shown'[p] > 0
    BY <1>1
  <2> QED  BY <1>1, <1>2, <1>3, <2>1, <2>2 DEF InOrder, Taken
<1>11. NotYet(p)'
  BY <1>1 DEF InOrder, NotYet
<1> QED  BY <1>7, <1>8, <1>9, <1>10, <1>11 DEF InOrder

LEMMA SendInOrder == ASSUME Settings, IInv, NEW s \in Senders, Send(s) PROVE IInv'
<1>1. /\ sender[s] # Idle /\ sender[s].outcome = "leased"
      /\ UNCHANGED <<hook, post, queued>>
  BY DEF Send
<1>2. PostTypes
  BY DEF IInv
<1>3. PICK p \in Posts : p = sender[s].post
  BY <1>1, <1>2, HeldType
<1>4. PICK outcome \in {"taken", "refused", "retry"} :
        /\ Answered(s, outcome)
        /\ \/ outcome = "taken" /\ shown' = [shown EXCEPT ![p] = @ + 1] /\ excuse' = excuse
           \/ outcome # "taken" /\ shown' = shown /\ excuse' = excuse
           \/ /\ outcome # "taken" /\ shown' = [shown EXCEPT ![p] = @ + 1]
              /\ excuse' = [excuse EXCEPT ![p] = @ + 1]
  BY <1>3 DEF Send, Excused
<1>5. /\ shown' \in [Posts -> Nat] /\ excuse' \in [Posts -> Nat]
      /\ \A q \in Posts : q # p => shown'[q] = shown[q] /\ excuse'[q] = excuse[q]
      /\ \/ outcome = "taken" /\ shown'[p] = shown[p] + 1 /\ excuse'[p] = excuse[p]
         \/ outcome # "taken" /\ shown'[p] = shown[p] /\ excuse'[p] = excuse[p]
         \/ /\ outcome # "taken" /\ shown'[p] = shown[p] + 1
            /\ excuse'[p] = excuse[p] + 1
  BY <1>2, <1>4 DEF PostTypes
<1>6. /\ sender' \in [Senders -> Held \cup {Idle}]
      /\ sender'[s].post = sender[s].post
      /\ \A t \in Senders : t # s => sender'[t] = sender[t]
  BY <1>1, <1>2, <1>4, AnsweredHolds
<1>7. PostTypes'
  BY <1>1, <1>2, <1>5, <1>6 DEF PostTypes, Posts
<1>8. ASSUME NEW q \in Posts, q # p PROVE InOrder(q)'
  BY <1>1, <1>3, <1>5, <1>6, <1>7, <1>8, OthersInOrder
<1>9. InOrder(p)'
  BY <1>1, <1>3, <1>4, <1>5, <1>7, AnswerInOrder
<1> QED  BY <1>7, <1>8, <1>9 DEF IInv, Posts

-----------------------------------------------------------------------------
(* The theorem.                                                              *)

LEMMA InitInOrder == ASSUME Settings, Init PROVE IInv
<1>1. post \in [Posts -> Post]
  BY NoPostType DEF Init
<1>2. PostTypes
  BY <1>1 DEF Init, PostTypes, Settings
<1>3. ASSUME NEW p \in Posts PROVE InOrder(p)
  <2>1. \A s \in Senders : ~ Holds(s, p)
    BY DEF Init, Holds
  <2>2. LeasedBy(p) = {}
    BY <2>1 DEF LeasedBy
  <2>3. shown[p] = 0 /\ excuse[p] = 0 /\ post[p] = NoPost
    BY DEF Init
  <2>4. Cardinality(LeasedBy(p)) = 0
    BY <2>2, FS_EmptySet
  <2> QED  BY <2>1, <2>3, <2>4 DEF InOrder, Counted, MayBeShown, Calm, Taken, NotYet, NoPost
<1> QED  BY <1>2, <1>3 DEF IInv

LEMMA StepInOrder == ASSUME Settings, IInv, [Next]_vars PROVE IInv'
<1>1. CASE UNCHANGED vars
  <2>1. PostTypes'
    BY <1>1 DEF vars, PostTypes, IInv, Posts
  <2>2. ASSUME NEW p \in Posts PROVE InOrder(p)'
    <3>1. queued' >= queued
      BY <1>1 DEF vars, PostTypes, IInv
    <3> QED  BY <1>1, <2>1, <3>1, StaysInOrder DEF vars, Holds, Waiting, Exists
  <2> QED  BY <2>1, <2>2 DEF IInv, Posts
<1>2. CASE Next
  <2>1. CASE \E o \in Owners : Connect(o) \/ Disconnect(o) \/ Queue(o)
    BY <2>1, ConnectInOrder, DisconnectInOrder, QueueInOrder
  <2>2. CASE \E s \in Senders : Lease(s) \/ OpenFails(s) \/ Send(s) \/ Settle(s) \/ Stop(s)
    BY <2>2, LeaseInOrder, OpenFailsInOrder, SendInOrder, SettleInOrder, StopInOrder
  <2>3. CASE Tick
    BY <2>3, TickInOrder
  <2> QED  BY <1>2, <2>1, <2>2, <2>3 DEF Next
<1> QED  BY <1>1, <1>2

\* However the loops, the owners and Discord interleave, a post is shown once, and once
\* more for each lost answer, stop between sending and settling, or lease outlived.
THEOREM OnceButForACause == ASSUME Settings PROVE Spec => []RepeatsHaveACause
<1>1. IInv => RepeatsHaveACause
  <2>1. SUFFICES ASSUME IInv, NEW p \in Posts
                 PROVE  /\ shown[p] <= 1 + excuse[p]
                        /\ post[p].failed /\ excuse[p] = 0 => shown[p] = 0
                        /\ post[p].sent => shown[p] > 0
    BY DEF RepeatsHaveACause
  <2>2. shown[p] \in Nat /\ excuse[p] \in Nat /\ Cardinality(LeasedBy(p)) \in Nat
    BY <2>1, LeasedByType DEF IInv, PostTypes
  <2>3. shown[p] <= 1 + excuse[p]
    BY <2>1, <2>2 DEF IInv, InOrder, Counted
  <2> QED  BY <2>1, <2>3 DEF IInv, InOrder, Calm, Taken
<1> QED  BY <1>1, InitInOrder, StepInOrder, PTL DEF Spec

-----------------------------------------------------------------------------
(* An account hears of an event once.                                        *)

Texts == [account : Accounts, type : Notify!Types, work : Works \cup {NoWork},
          of : SUBSET Nat, words : Nat, count : Nat, read : BOOLEAN]

\* One unread update of a work.
Open(x) == x.type = "work_updated" /\ ~ x.read

(* Entries that stand for some of the events that have left the queue.      *)
Sound(entries, waiting) ==
    /\ entries \subseteq Texts
    /\ \A x \in entries :
          /\ IsFiniteSet(x.of) /\ x.count = Cardinality(x.of) /\ x.words \in x.of
          /\ x.of \cap waiting = {}
    /\ \A x, y \in entries : x # y /\ x.account = y.account =>
          /\ x.of \cap y.of = {}
          /\ ~ (x.work = y.work /\ Open(x) /\ Open(y))

LEMMA HearersType ==
    ASSUME NEW n \in DOMAIN events, events \in Seq(Notify!Event)
    PROVE  Notify!Hearers(events[n]) \subseteq Accounts
<1>1. events[n] \in Notify!Event
  OBVIOUS
<1>2. events[n].account \in Accounts \cup {NoOne}
  BY <1>1 DEF Notify!Event
<1> QED  BY <1>2 DEF Notify!Hearers, Notify!WorkFollowers

LEMMA FoldedIs ==
    ASSUME NEW x \in Texts, NEW n \in Nat, x.of \in SUBSET Nat
    PROVE  /\ Notify!Folded(x, n) \in Texts
           /\ Notify!Folded(x, n).account = x.account /\ Notify!Folded(x, n).type = x.type
           /\ Notify!Folded(x, n).work = x.work /\ Notify!Folded(x, n).of = x.of \cup {n}
           /\ Notify!Folded(x, n).words = n /\ Notify!Folded(x, n).count = x.count + 1
           /\ (Notify!Folded(x, n).read <=> x.read)
BY DEF Notify!Folded, Texts

LEMMA FreshIs ==
    ASSUME NEW n \in DOMAIN events, events \in Seq(Notify!Event), NEW a \in Accounts
    PROVE  /\ Notify!FreshEntry(n, a) \in Texts
           /\ Notify!FreshEntry(n, a).account = a
                  /\ Notify!FreshEntry(n, a).type = events[n].type
           /\ Notify!FreshEntry(n, a).work = events[n].work /\ Notify!FreshEntry(n, a).of = {n}
           /\ Notify!FreshEntry(n, a).words = n /\ Notify!FreshEntry(n, a).count = 1
           /\ ~ Notify!FreshEntry(n, a).read
<1>1. events[n] \in Notify!Event /\ n \in Nat
  OBVIOUS
<1> QED  BY <1>1 DEF Notify!FreshEntry, Texts, Notify!Event

(* One event, to all who hear of it.                                        *)
LEMMA HearingKeeps ==
    ASSUME NEW n \in DOMAIN events, events \in Seq(Notify!Event), NEW entries, NEW waiting,
           Sound(entries, waiting), n \in waiting
    PROVE  Sound(Notify!WriteEntries(entries, n), waiting \ {n})
<1> DEFINE hearers == Notify!Hearers(events[n])
           folding == {x \in entries : x.account \in hearers /\ Notify!FoldsInto(x, n)}
           new == {h \in hearers : \A x \in folding : x.account # h}
           kept == entries \ folding
           folded == {Notify!Folded(x, n) : x \in folding}
           fresh == {Notify!FreshEntry(n, a) : a \in new}
           result == kept \cup folded \cup fresh
<1>1. Notify!WriteEntries(entries, n) = result
  BY DEF Notify!WriteEntries
<1>2. hearers \subseteq Accounts /\ n \in Nat /\ events[n] \in Notify!Event
  BY HearersType
<1>3. \A x \in entries :
          x \in Texts /\ IsFiniteSet(x.of) /\ x.count = Cardinality(x.of) /\ x.words \in x.of
                         /\ x.of \cap waiting = {} /\ n \notin x.of /\ x.of \in SUBSET Nat
  BY DEF Sound, Texts
<1>4. \A x \in folding :
          x \in entries /\ x.work = events[n].work /\ Open(x) /\ events[n].type = "work_updated"
  BY DEF Notify!FoldsInto, Open
<1>5. \A x \in kept : x \in entries /\
        ~ (x.account \in hearers /\ x.work = events[n].work /\ Open(x)
            /\ events[n].type = "work_updated")
  BY DEF Notify!FoldsInto, Open
<1>6. new \subseteq hearers /\ \A h \in new, x \in folding : x.account # h
  OBVIOUS
<1>7. \A y \in folded : \E x \in folding :
        /\ y = Notify!Folded(x, n) /\ y \in Texts /\ y.account = x.account /\ y.type = x.type
               /\ y.work = x.work
        /\ y.of = x.of \cup {n} /\ y.words = n /\ y.count = x.count + 1 /\ (y.read <=> x.read)
  BY <1>2, <1>3, <1>4, FoldedIs
<1>8. \A y \in fresh : \E a \in new :
        /\ y = Notify!FreshEntry(n, a) /\ y \in Texts /\ y.account = a
               /\ y.type = events[n].type
        /\ y.work = events[n].work /\ y.of = {n} /\ y.words = n /\ y.count = 1 /\ ~ y.read
  BY <1>2, <1>6, FreshIs
<1>9. \A x, y \in entries : x # y /\ x.account = y.account =>
          x.of \cap y.of = {} /\ ~ (x.work = y.work /\ Open(x) /\ Open(y))
  BY DEF Sound
<1> HIDE DEF hearers, folding, new, kept, folded, fresh
<1>10. result \subseteq Texts
  BY <1>3, <1>5, <1>7, <1>8
<1>11. ASSUME NEW y \in result
       PROVE  /\ IsFiniteSet(y.of) /\ y.count = Cardinality(y.of) /\ y.words \in y.of
              /\ y.of \cap (waiting \ {n}) = {}
  <2>1. CASE y \in kept
    BY <1>3, <1>5, <2>1
  <2>2. CASE y \in folded
    <3>1. PICK x \in folding : y.of = x.of \cup {n} /\ y.words = n /\ y.count = x.count + 1
      BY <1>7, <2>2
    <3>2. x \in entries /\ IsFiniteSet(x.of) /\ x.count = Cardinality(x.of) /\ n \notin x.of
              /\ x.of \cap waiting = {}
      BY <1>3, <1>4
    <3>3. IsFiniteSet(x.of \cup {n}) /\ Cardinality(x.of \cup {n}) = Cardinality(x.of) + 1
      BY <3>2, FS_AddElement
    <3> QED  BY <3>1, <3>2, <3>3
  <2>3. CASE y \in fresh
    <3>1. y.of = {n} /\ y.words = n /\ y.count = 1
      BY <1>8, <2>3
    <3> QED  BY <3>1, FS_Singleton
  <2> QED  BY <2>1, <2>2, <2>3
<1>12. ASSUME NEW x \in result, NEW y \in result, x # y, x.account = y.account
       PROVE  x.of \cap y.of = {} /\ ~ (x.work = y.work /\ Open(x) /\ Open(y))
  <2>1. ASSUME NEW u \in kept, NEW v \in result, u # v, u.account = v.account
        PROVE  u.of \cap v.of = {} /\ ~ (u.work = v.work /\ Open(u) /\ Open(v))
    <3>1. u \in entries /\ n \notin u.of
      BY <1>3, <1>5
    <3>2. CASE v \in kept
      BY <1>5, <1>9, <2>1, <3>1, <3>2
    <3>3. CASE v \in folded
      <4>1. PICK z \in folding : /\ v.account = z.account /\ v.type = z.type /\ v.work = z.work
                                 /\ v.of = z.of \cup {n} /\ (v.read <=> z.read)
        BY <1>7, <3>3
      <4>2. z \in entries /\ z # u
        BY <1>4 DEF kept
      <4> QED  BY <1>9, <2>1, <3>1, <4>1, <4>2 DEF Open
    <3>4. CASE v \in fresh
      <4>1. v.account \in hearers /\ v.type = events[n].type /\ v.work = events[n].work
                /\ v.of = {n}
        BY <1>6, <1>8, <3>4
      <4> QED  BY <1>5, <2>1, <3>1, <4>1 DEF Open
    <3> QED  BY <2>1, <3>2, <3>3, <3>4
  <2>2. CASE x \in kept
    BY <1>12, <2>1, <2>2
  <2>3. CASE y \in kept
    <3>1. y.of \cap x.of = {} /\ ~ (y.work = x.work /\ Open(y) /\ Open(x))
      BY <1>12, <2>1, <2>3
    <3> QED  BY <3>1
  <2>4. CASE x \in folded /\ y \in folded
    <3>1. PICK u \in folding : x = Notify!Folded(u, n) /\ x.account = u.account
      BY <1>7, <2>4
    <3>2. PICK v \in folding : y = Notify!Folded(v, n) /\ y.account = v.account
      BY <1>7, <2>4
    <3>3. u # v
      BY <1>12, <3>1, <3>2
    <3> QED  BY <1>4, <1>9, <1>12, <3>1, <3>2, <3>3
  <2>5. CASE x \in folded /\ y \in fresh
    <3>1. PICK u \in folding : x.account = u.account
      BY <1>7, <2>5
    <3>2. y.account \in new
      BY <1>8, <2>5
    <3> QED  BY <1>6, <1>12, <3>1, <3>2
  <2>6. CASE x \in fresh /\ y \in folded
    <3>1. PICK u \in folding : y.account = u.account
      BY <1>7, <2>6
    <3>2. x.account \in new
      BY <1>8, <2>6
    <3> QED  BY <1>6, <1>12, <3>1, <3>2
  <2>7. CASE x \in fresh /\ y \in fresh
    <3>1. x = Notify!FreshEntry(n, x.account) /\ y = Notify!FreshEntry(n, y.account)
      BY <1>8, <2>7
    <3> QED  BY <1>12, <3>1
  <2> QED  BY <1>12, <2>2, <2>3, <2>4, <2>5, <2>6, <2>7
<1>13. Sound(result, waiting \ {n})
  BY <1>10, <1>11, <1>12 DEF Sound
<1> QED  BY <1>1, <1>13

-----------------------------------------------------------------------------
(* Induction, as in ReadsProofs: the library's theorems take an operator.    *)

Less == {ss \in Nat \X Nat : ss[1] < ss[2]}

LEMMA LeastNumber ==
    ASSUME NEW T, T \subseteq Nat, T # {} PROVE \E x \in T : \A y \in T : x <= y
<1>1. IsWellFoundedOn(Less, Nat)
  BY NatLessThanWellFounded, Zenon DEF OpToRel, Less
<1>2. PICK x \in T : \A y \in T : ~ (<<y, x>> \in Less)
  BY <1>1, WFMin, Zenon
<1>3. ASSUME NEW y \in T PROVE x <= y
  <2>1. x \in Nat /\ y \in Nat /\ ~ (<<y, x>> \in Less)
    BY <1>2
  <2> QED  BY <2>1 DEF Less
<1> QED BY <1>3

LEMMA Induct ==
    ASSUME NEW S, 0 \in S, \A n \in Nat : n \in S => n + 1 \in S PROVE Nat \subseteq S
<1> DEFINE T == {n \in Nat : n \notin S}
<1>1. SUFFICES ASSUME T # {} PROVE FALSE
  OBVIOUS
<1>2. PICK x \in T : \A y \in T : x <= y
  <2> HIDE DEF T
  <2>1. T \subseteq Nat
    BY DEF T
  <2> QED BY <1>1, <2>1, LeastNumber
<1>3. x # 0 /\ x \in Nat /\ x \notin S
  OBVIOUS
<1>4. x - 1 \in Nat /\ ~ (x <= x - 1) /\ (x - 1) + 1 = x
  BY <1>3
<1>5. x - 1 \in S
  BY <1>2, <1>4
<1> QED BY <1>3, <1>4, <1>5


(* What was read is left alone, and those who hear of an event have it.     *)
Told(entries, heard) ==
    /\ {x \in inbox : x.read} \subseteq entries
    /\ \A k \in heard :
           \A a \in Notify!Hearers(events[k]) : \E x \in entries : x.account = a /\ k \in x.of

LEMMA HearingTells ==
    ASSUME NEW n \in DOMAIN events, events \in Seq(Notify!Event), NEW entries, entries \subseteq Texts,
           NEW heard, Told(entries, heard)
    PROVE  Told(Notify!WriteEntries(entries, n), heard \cup {n})
<1> DEFINE hearers == Notify!Hearers(events[n])
           folding == {x \in entries : x.account \in hearers /\ Notify!FoldsInto(x, n)}
           new == {h \in hearers : \A x \in folding : x.account # h}
           result == (entries \ folding) \cup {Notify!Folded(x, n) : x \in folding}
                     \cup {Notify!FreshEntry(n, a) : a \in new}
<1>1. Notify!WriteEntries(entries, n) = result
  BY DEF Notify!WriteEntries
<1>2. \A x \in folding : ~ x.read
  BY DEF Notify!FoldsInto
<1>3. {x \in inbox : x.read} \subseteq result
  BY <1>2 DEF Told
<1>4. \A x \in folding : /\ Notify!Folded(x, n) \in result
                         /\ Notify!Folded(x, n).account = x.account
                                /\ Notify!Folded(x, n).of = x.of \cup {n}
  BY DEF Notify!Folded
<1>5. \A a \in new : /\ Notify!FreshEntry(n, a) \in result
                     /\ Notify!FreshEntry(n, a).account = a /\ Notify!FreshEntry(n, a).of = {n}
  BY DEF Notify!FreshEntry
<1>6. \A x \in entries : \E y \in result : y.account = x.account /\ x.of \subseteq y.of
  <2>1. ASSUME NEW x \in entries
        PROVE \E y \in result : y.account = x.account /\ x.of \subseteq y.of
    <3>1. CASE x \in folding
      <4> HIDE DEF folding, result
      <4> QED  BY <1>4, <3>1
    <3>2. CASE x \notin folding
      <4>1. x \in result
        BY <3>2
      <4> HIDE DEF folding, result
      <4> QED  BY <4>1
    <3> QED  BY <3>1, <3>2
  <2> QED  BY <2>1
<1>7. \A a \in hearers : a \in new \/ \E x \in folding : x.account = a
  OBVIOUS
<1> HIDE DEF hearers, folding, new, result
<1>8. \A a \in hearers : \E y \in result : y.account = a /\ n \in y.of
  BY <1>4, <1>5, <1>7
<1>9. ASSUME NEW k \in heard \cup {n}, NEW a \in Notify!Hearers(events[k])
      PROVE  \E y \in result : y.account = a /\ k \in y.of
  <2>1. CASE k = n
    BY <1>8, <1>9, <2>1 DEF hearers
  <2>2. CASE k \in heard
    <3>1. PICK x \in entries : x.account = a /\ k \in x.of
      BY <1>9, <2>2 DEF Told
    <3> QED  BY <1>6, <3>1
  <2> QED  BY <2>1, <2>2
<1> QED  BY <1>1, <1>3, <1>9 DEF Told

(* The events of a batch, one after the other.  The library folds a sequence *)
(* with a function on the sets of its places; it has one value at each, and  *)
(* that value is sound for the events of those places.                       *)
Largest(s) == CHOOSE x \in s : \A y \in s : x >= y

After(it, line, s) ==
    IF s = {} THEN inbox ELSE Notify!WriteEntries(it[s \ {Largest(s)}], line[Largest(s)])

LEMMA FoldIs ==
    ASSUME NEW line, NEW m \in Nat, DOMAIN line = 1..m, NEW h,
           h = [s \in SUBSET (1..m) |-> After(h, line, s)]
    PROVE  \E it : it = [s \in SUBSET (1..m) |-> After(it, line, s)]
        /\ Notify!FoldLeft(Notify!WriteEntries, inbox, line) = it[1..m]
<1> DEFINE iter == CHOOSE it : it = [s \in SUBSET (1..m) |-> After(it, line, s)]
<1>1. iter = [s \in SUBSET (1..m) |-> After(iter, line, s)]
  OBVIOUS
<1>2. Notify!FoldLeft(Notify!WriteEntries, inbox, line) = iter[1..m]
  BY DEF Notify!FoldLeft, Notify!MapThenFoldSet, Notify!Max, After, Largest
<1> QED  BY <1>1, <1>2

(* The places of a line among the first n.                                  *)
LEMMA LargestIsIn ==
    ASSUME NEW n \in Nat, NEW s \in SUBSET (1..n), s # {}
    PROVE  Largest(s) \in s /\ \A y \in s : Largest(s) >= y
<1> DEFINE T == {n - y : y \in s}
<1>1. T \subseteq Nat /\ T # {}
  OBVIOUS
<1>2. PICK t \in T : \A u \in T : t <= u
  <2> HIDE DEF T
  <2> QED  BY <1>1, LeastNumber
<1>3. PICK x \in s : t = n - x
  OBVIOUS
<1>4. ASSUME NEW y \in s PROVE x >= y
  <2>1. n - y \in T
    OBVIOUS
  <2>2. n - x <= n - y
    BY <1>2, <1>3, <2>1
  <2>3. x \in 1..n /\ y \in 1..n
    OBVIOUS
  <2> QED  BY <2>2, <2>3
<1>5. \E z \in s : \A y \in s : z >= y
  BY <1>4
<1> QED  BY <1>5 DEF Largest

LEMMA WithoutLargest ==
    ASSUME NEW n \in Nat, NEW s \in SUBSET (1..(n + 1)), s # {}
    PROVE  Largest(s) \in s /\ s \ {Largest(s)} \in SUBSET (1..n)
<1>0. n + 1 \in Nat
  OBVIOUS
<1>1. Largest(s) \in s /\ \A y \in s : Largest(s) >= y
  BY <1>0, LargestIsIn
<1>2. ASSUME NEW y \in s \ {Largest(s)} PROVE y \in 1..n
  <2>1. y \in 1..(n + 1) /\ Largest(s) \in 1..(n + 1) /\ Largest(s) >= y /\ y # Largest(s)
    BY <1>1
  <2> QED  BY <2>1
<1> QED  BY <1>1, <1>2

LEMMA AfterExists ==
    ASSUME NEW line, NEW m \in Nat
    PROVE  \E it : it = [s \in SUBSET (1..m) |-> After(it, line, s)]
<1> DEFINE Fits(n) == \E it : it = [s \in SUBSET (1..n) |-> After(it, line, s)]
           N == {n \in Nat : Fits(n)}
<1>1. Fits(0)
  <2> DEFINE it == [s \in SUBSET (1..0) |-> inbox]
  <2>1. \A s \in SUBSET (1..0) : s = {}
    OBVIOUS
  <2>2. \A s \in SUBSET (1..0) : After(it, line, s) = inbox
    BY <2>1 DEF After
  <2>3. it = [s \in SUBSET (1..0) |-> After(it, line, s)]
    <3> DEFINE new == [s \in SUBSET (1..0) |-> After(it, line, s)]
    <3>1. \A s \in SUBSET (1..0) : new[s] = it[s]
      BY <2>2
    <3> QED  BY <3>1
  <2> QED  BY <2>3
<1>2. ASSUME NEW n \in Nat, Fits(n) PROVE Fits(n + 1)
  <2>1. PICK it : it = [s \in SUBSET (1..n) |-> After(it, line, s)]
    BY <1>2
  <2> DEFINE body == [s \in SUBSET (1..n) |-> After(it, line, s)]
             new == [s \in SUBSET (1..(n + 1)) |-> After(it, line, s)]
  <2>2. \A s \in SUBSET (1..n) : it[s] = After(it, line, s)
    <3>1. \A s \in SUBSET (1..n) : body[s] = After(it, line, s)
      OBVIOUS
    <3>2. it = body
      BY <2>1
    <3> HIDE DEF body
    <3> QED  BY <3>1, <3>2
  <2>3. SUBSET (1..n) \subseteq SUBSET (1..(n + 1))
    OBVIOUS
  <2>4. \A s \in SUBSET (1..n) : new[s] = it[s]
    BY <2>2, <2>3
  <2>5. ASSUME NEW s \in SUBSET (1..(n + 1)) PROVE After(it, line, s) = After(new, line, s)
    <3>1. CASE s = {}
      BY <3>1 DEF After
    <3>2. CASE s # {}
      <4>1. s \ {Largest(s)} \in SUBSET (1..n)
        BY <3>2, WithoutLargest
      <4>2. new[s \ {Largest(s)}] = it[s \ {Largest(s)}]
        BY <2>4, <4>1
      <4> HIDE DEF new
      <4> QED  BY <4>2 DEF After
    <3> QED  BY <3>1, <3>2
  <2>6. new = [s \in SUBSET (1..(n + 1)) |-> After(new, line, s)]
    <3> DEFINE again == [s \in SUBSET (1..(n + 1)) |-> After(new, line, s)]
    <3>1. \A s \in SUBSET (1..(n + 1)) : new[s] = After(it, line, s)
      OBVIOUS
    <3>2. \A s \in SUBSET (1..(n + 1)) : again[s] = After(new, line, s)
      OBVIOUS
    <3>3. \A s \in SUBSET (1..(n + 1)) : new[s] = again[s]
      <4> HIDE DEF new, again
      <4> QED  BY <2>5, <3>1, <3>2
    <3>4. new = [s \in SUBSET (1..(n + 1)) |-> new[s]]
              /\ again = [s \in SUBSET (1..(n + 1)) |-> again[s]]
      OBVIOUS
    <3>5. new = again
      <4> HIDE DEF new, again
      <4> QED  BY <3>3, <3>4
    <3> HIDE DEF new
    <3> QED  BY <3>5
  <2> HIDE DEF new
  <2> QED  BY <2>6
<1>3. Nat \subseteq N
  <2> HIDE DEF Fits
  <2>1. 0 \in N /\ \A n \in Nat : n \in N => n + 1 \in N
    BY <1>1, <1>2
  <2> HIDE DEF N
  <2> QED  BY <2>1, Induct
<1> QED  BY <1>3

\* The events that stand at some places of a line.
At(line, s) == {line[i] : i \in s}

LEMMA AllOfThemKeep ==
    ASSUME NEW line, NEW m \in Nat, NEW it, it = [s \in SUBSET (1..m) |-> After(it, line, s)],
           events \in Seq(Notify!Event), NEW waiting, Sound(inbox, waiting),
           \A i \in 1..m : line[i] \in waiting \cap DOMAIN events,
           \A i, j \in 1..m : i # j => line[i] # line[j]
    PROVE  Sound(it[1..m], waiting \ At(line, 1..m)) /\ Told(it[1..m], At(line, 1..m))
<1> DEFINE Kept(n) == \A s \in SUBSET (1..n) : Sound(it[s], waiting \ At(line, s))
    /\ Told(it[s], At(line, s))
           N == {n \in Nat : n <= m => Kept(n)}
           body == [s \in SUBSET (1..m) |-> After(it, line, s)]
<1>1. \A s \in SUBSET (1..m) : it[s] = After(it, line, s)
  <2>1. \A s \in SUBSET (1..m) : body[s] = After(it, line, s)
    OBVIOUS
  <2>2. it = body
    OBVIOUS
  <2> HIDE DEF body
  <2> QED  BY <2>1, <2>2
<1>2. Sound(it[{}], waiting \ At(line, {})) /\ Told(it[{}], At(line, {}))
  <2>1. it[{}] = inbox
    BY <1>1 DEF After
  <2>2. waiting \ At(line, {}) = waiting
    BY DEF At
  <2>3. Told(inbox, At(line, {}))
    BY DEF At, Told
  <2> QED  BY <2>1, <2>2, <2>3
<1>3. 0 \in N
  <2>1. \A s \in SUBSET (1..0) : s = {}
    OBVIOUS
  <2> QED  BY <1>2, <2>1
<1>4. ASSUME NEW n \in Nat, Kept(n), n + 1 <= m, NEW s \in SUBSET (1..(n + 1))
      PROVE  Sound(it[s], waiting \ At(line, s)) /\ Told(it[s], At(line, s))
  <2>1. CASE s = {}
    BY <1>2, <2>1
  <2>2. CASE s # {}
    <3>1. Largest(s) \in s /\ s \ {Largest(s)} \in SUBSET (1..n)
      BY <2>2, WithoutLargest
    <3>2. PICK x \in s : x = Largest(s)
      BY <3>1
    <3>3. PICK r \in SUBSET (1..n) : r = s \ {x}
      BY <3>1, <3>2
    <3>4. s \in SUBSET (1..m) /\ x \in 1..m
      BY <1>4
    <3>5. Sound(it[r], waiting \ At(line, r)) /\ Told(it[r], At(line, r))
      BY <1>4, <3>3
    <3>6. line[x] \in waiting /\ line[x] \in DOMAIN events
      BY <3>4
    <3>7. line[x] \notin At(line, r)
      <4>1. \A i \in r : i # x /\ i \in 1..m
        BY <3>3, <3>4
      <4> QED  BY <3>4, <4>1 DEF At
    <3>8. Sound(Notify!WriteEntries(it[r], line[x]), (waiting \ At(line, r)) \ {line[x]})
      BY <3>5, <3>6, <3>7, HearingKeeps
    <3>9. it[s] = Notify!WriteEntries(it[r], line[x])
      BY <1>1, <2>2, <3>2, <3>3, <3>4 DEF After
    <3>10. (waiting \ At(line, r)) \ {line[x]} = waiting \ At(line, s)
      BY <3>2, <3>3 DEF At
    <3>11. Told(Notify!WriteEntries(it[r], line[x]), At(line, r) \cup {line[x]})
      BY <3>5, <3>6, HearingTells DEF Sound
    <3>12. At(line, r) \cup {line[x]} = At(line, s)
      BY <3>2, <3>3 DEF At
    <3> QED  BY <3>8, <3>9, <3>10, <3>11, <3>12
  <2> QED  BY <2>1, <2>2
<1>5. Nat \subseteq N
  <2>1. \A n \in Nat : Kept(n) /\ n + 1 <= m => Kept(n + 1)
    BY <1>4
  <2> HIDE DEF Kept
  <2>2. \A n \in Nat : n \in N => n + 1 \in N
    <3>1. \A n \in Nat : n + 1 <= m => n <= m
      OBVIOUS
    <3> QED  BY <2>1, <3>1
  <2> HIDE DEF N
  <2> QED  BY <1>3, <2>2, Induct
<1>6. Kept(m)
  <2> HIDE DEF Kept
  <2> QED  BY <1>5
<1> QED  BY <1>6

LEMMA FanOutKeeps ==
    ASSUME NEW batch, IsFiniteSet(batch), NEW line \in Notify!SetToSeqs(batch),
           events \in Seq(Notify!Event), NEW waiting, Sound(inbox, waiting),
           batch \subseteq waiting \cap DOMAIN events
    PROVE  /\ Sound(Notify!FoldLeft(Notify!WriteEntries, inbox, line), waiting \ batch)
           /\ Told(Notify!FoldLeft(Notify!WriteEntries, inbox, line), batch)
<1>1. Notify!Cardinality(batch) = Cardinality(batch)
  BY DEF Notify!Cardinality, Cardinality, Notify!IsFiniteSet, IsFiniteSet
<1>2. PICK m \in Nat : m = Cardinality(batch)
  BY FS_CardinalityType
<1>3. line \in [1..m -> batch] /\ \A i, j \in 1..m : i # j => line[i] # line[j]
  BY <1>1, <1>2 DEF Notify!SetToSeqs
<1>4. PICK h : h = [s \in SUBSET (1..m) |-> After(h, line, s)]
  BY AfterExists
<1>5. PICK it : /\ it = [s \in SUBSET (1..m) |-> After(it, line, s)]
                /\ Notify!FoldLeft(Notify!WriteEntries, inbox, line) = it[1..m]
  <2>1. DOMAIN line = 1..m
    BY <1>3
  <2> QED  BY <1>4, <2>1, FoldIs
<1>6. \A i \in 1..m : line[i] \in waiting \cap DOMAIN events
  BY <1>3
<1>7. Sound(it[1..m], waiting \ At(line, 1..m)) /\ Told(it[1..m], At(line, 1..m))
  BY <1>3, <1>5, <1>6, AllOfThemKeep
(* Each of the batch has its place.                                         *)
<1>8. At(line, 1..m) = batch
  <2>1. line \in Injection(1..m, batch)
    BY <1>3 DEF Injection, IsInjective
  <2>2. IsFiniteSet(1..m) /\ Cardinality(1..m) = m
    BY FS_Interval
  <2>3. line \in Surjection(1..m, batch)
    BY <1>2, <2>1, <2>2, FS_Injection
  <2> QED  BY <1>2, <1>3, <2>1, <2>3 DEF At, Surjection
<1> QED  BY <1>5, <1>7, <1>8

-----------------------------------------------------------------------------
(* The inductive invariant.                                                  *)

\* Events that no entry may stand for: not yet taken for good, or not yet recorded.
Ahead == queue \cup {n \in Nat : n > Len(events)}

InboxInv ==
    /\ events \in Seq(Notify!Event)
    /\ queue \subseteq DOMAIN events
    /\ taken \in [Passes -> SUBSET queue]
    /\ \A r, s \in Passes : r # s => taken[r] \cap taken[s] = {}
    /\ Sound(inbox, Ahead)

LEMMA InboxBegins == Notify!Init => InboxInv
BY DEF Notify!Init, InboxInv, Sound

LEMMA RecordKeeps ==
    ASSUME InboxInv, NEW type \in Notify!Types, NEW c \in Accounts \cup {NoOne}, NEW k \in Works \cup {NoWork},
           Notify!Record(type, c, k)
    PROVE  InboxInv'
<1> DEFINE e == [type |-> type, account |-> c, work |-> k]
<1>1. e \in Notify!Event
  BY DEF Notify!Event
<1>2. /\ events' = Append(events, e) /\ queue' = queue \cup {Len(events) + 1}
      /\ taken' = taken /\ inbox' = inbox
  BY DEF Notify!Record
<1> HIDE DEF e
<1>3. events \in Seq(Notify!Event) /\ Len(events) \in Nat /\ queue \subseteq 1..Len(events)
  BY DEF InboxInv
<1>4. events' \in Seq(Notify!Event) /\ Len(events') = Len(events) + 1
          /\ DOMAIN events' = 1..(Len(events) + 1)
  BY <1>1, <1>2, <1>3
<1>5. Ahead' = Ahead
  BY <1>2, <1>3, <1>4 DEF Ahead
<1>6. Sound(inbox, Ahead)'
  BY <1>2, <1>5 DEF InboxInv, Sound
<1>7. queue' \subseteq DOMAIN events' /\ queue \subseteq queue'
  <2>1. PICK n \in Nat : n = Len(events)
    BY <1>3
  <2>2. 1..n \subseteq 1..(n + 1) /\ n + 1 \in 1..(n + 1)
    OBVIOUS
  <2>3. queue' = queue \cup {n + 1} /\ queue \subseteq 1..n /\ DOMAIN events' = 1..(n + 1)
    BY <1>2, <1>3, <1>4, <2>1
  <2> QED  BY <2>2, <2>3
<1> QED  BY <1>2, <1>4, <1>6, <1>7 DEF InboxInv

LEMMA TakingKeeps == ASSUME InboxInv, NEW r \in Passes, Notify!TakeDueEvents(r) PROVE InboxInv'
<1>1. PICK S \in SUBSET {n \in queue : Notify!Free(n)} : taken' = [taken EXCEPT ![r] = S]
  BY DEF Notify!TakeDueEvents
<1>2. UNCHANGED <<events, queue, inbox>>
  BY DEF Notify!TakeDueEvents
<1>3. \A s \in Passes : S \cap taken[s] = {}
  BY DEF Notify!Free
<1>4. taken' \in [Passes -> SUBSET queue] /\ taken'[r] = S /\ \A s \in Passes : s # r
          => taken'[s] = taken[s]
  BY <1>1 DEF InboxInv
<1>5. \A p, s \in Passes : p # s => taken'[p] \cap taken'[s] = {}
  BY <1>3, <1>4 DEF InboxInv
<1> QED  BY <1>2, <1>4, <1>5 DEF InboxInv, Sound, Ahead

LEMMA RollBackKeeps == ASSUME InboxInv, NEW r \in Passes, Notify!RollBack(r) PROVE InboxInv'
<1>1. taken' = [taken EXCEPT ![r] = {}] /\ UNCHANGED <<events, queue, inbox>>
  BY DEF Notify!RollBack
<1>2. taken' \in [Passes -> SUBSET queue] /\ \A s \in Passes : taken'[s] \subseteq taken[s]
  BY <1>1 DEF InboxInv
<1>3. \A p, s \in Passes : p # s => taken'[p] \cap taken'[s] = {}
  BY <1>2 DEF InboxInv
<1> QED  BY <1>1, <1>2, <1>3 DEF InboxInv, Sound, Ahead

LEMMA BatchKeeps == ASSUME InboxInv, NEW r \in Passes, Notify!FanOutBatch(r) PROVE InboxInv'
<1>1. PICK line \in Notify!SetToSeqs(taken[r]) : inbox' = Notify!FoldLeft(Notify!WriteEntries, inbox, line)
  BY DEF Notify!FanOutBatch
<1>2. queue' = queue \ taken[r] /\ taken' = [taken EXCEPT ![r] = {}] /\ events' = events
  BY DEF Notify!FanOutBatch
<1>3. /\ events \in Seq(Notify!Event) /\ Sound(inbox, Ahead) /\ taken[r] \subseteq queue
      /\ queue \subseteq DOMAIN events /\ DOMAIN events = 1..Len(events) /\ Len(events) \in Nat
  BY DEF InboxInv
<1>4. IsFiniteSet(taken[r])
  <2>1. IsFiniteSet(1..Len(events))
    BY <1>3, FS_Interval
  <2>2. taken[r] \subseteq 1..Len(events)
    BY <1>3
  <2> QED  BY <2>1, <2>2, FS_Subset
<1>5. taken[r] \subseteq Ahead \cap DOMAIN events
  BY <1>3 DEF Ahead
<1>6. Sound(inbox', Ahead \ taken[r])
  BY <1>1, <1>3, <1>4, <1>5, FanOutKeeps
<1>7. Ahead' = Ahead \ taken[r]
  BY <1>2, <1>3 DEF Ahead
<1>8. \A s \in Passes : taken'[s] = IF s = r THEN {} ELSE taken[s]
  BY <1>2 DEF InboxInv
<1>9. taken' \in [Passes -> SUBSET queue']
  <2>1. DOMAIN taken' = Passes /\ taken' = [s \in Passes |-> taken'[s]]
    BY <1>2 DEF InboxInv
  <2>2. \A s \in Passes : taken'[s] \subseteq queue'
    BY <1>2, <1>8 DEF InboxInv
  <2> QED  BY <2>1, <2>2
<1>10. \A p, s \in Passes : p # s => taken'[p] \cap taken'[s] = {}
  BY <1>8 DEF InboxInv
<1>11. Sound(inbox, Ahead)'
  BY <1>6, <1>7 DEF Sound
<1>12. queue' \subseteq DOMAIN events'
  BY <1>2, <1>3
<1> QED  BY <1>2, <1>3, <1>9, <1>10, <1>11, <1>12 DEF InboxInv

(* A reader's entries are marked or taken away.                             *)
LEMMA FewerKeep ==
    ASSUME InboxInv, UNCHANGED <<events, queue, taken>>, inbox' \subseteq inbox
    PROVE  InboxInv'
BY DEF InboxInv, Sound, Ahead

LEMMA MarkingKeeps ==
    ASSUME InboxInv, NEW a, NEW S \in SUBSET inbox, Notify!MarkRead(a, S)
    PROVE  InboxInv'
<1>1. inbox' = (inbox \ S) \cup {[x EXCEPT !.read = TRUE] : x \in S}
  BY DEF Notify!MarkRead
<1>2. UNCHANGED <<events, queue, taken>>
  BY DEF Notify!MarkRead, Notify!Kept
<1>3. \A x \in inbox :
          x \in Texts /\ IsFiniteSet(x.of) /\ x.count = Cardinality(x.of) /\ x.words \in x.of
                       /\ x.of \cap Ahead = {}
  BY DEF InboxInv, Sound
<1>4. \A x \in Texts : LET y == [x EXCEPT !.read = TRUE]
                       IN  /\ y \in Texts /\ y.account = x.account /\ y.type = x.type
                           /\ y.work = x.work
                           /\ y.of = x.of /\ y.words = x.words /\ y.count = x.count /\ y.read
  BY DEF Texts
<1>5. \A y \in inbox' : \E x \in inbox :
        /\ y \in Texts /\ y.account = x.account /\ y.type = x.type /\ y.work = x.work
        /\ y.of = x.of /\ y.words = x.words /\ y.count = x.count /\ (~ y.read => ~ x.read)
        /\ (y = x \/ (x \in S /\ y = [x EXCEPT !.read = TRUE]))
  BY <1>1, <1>3, <1>4
<1>6. inbox' \subseteq Texts
  BY <1>5
<1>7. \A y \in inbox' :
          IsFiniteSet(y.of) /\ y.count = Cardinality(y.of) /\ y.words \in y.of /\ y.of \cap Ahead = {}
  BY <1>3, <1>5
<1>8. ASSUME NEW y \in inbox', NEW z \in inbox', y # z, y.account = z.account
      PROVE  y.of \cap z.of = {} /\ ~ (y.work = z.work /\ Open(y) /\ Open(z))
  <2>1. PICK u \in inbox : /\ y.account = u.account /\ y.type = u.type /\ y.work = u.work
            /\ y.of = u.of
                           /\ (~ y.read => ~ u.read) /\ (y = u \/ (u \in S
                                  /\ y = [u EXCEPT !.read = TRUE]))
    BY <1>5
  <2>2. PICK v \in inbox : /\ z.account = v.account /\ z.type = v.type /\ z.work = v.work
            /\ z.of = v.of
                           /\ (~ z.read => ~ v.read) /\ (z = v \/ (v \in S
                                  /\ z = [v EXCEPT !.read = TRUE]))
    BY <1>5
  <2>3. ASSUME u = v PROVE FALSE
    <3>1. (y = u /\ z = [u EXCEPT !.read = TRUE] /\ u \in S) \/ (z = u
              /\ y = [u EXCEPT !.read = TRUE] /\ u \in S)
      BY <1>8, <2>1, <2>2, <2>3
    <3>2. u \in inbox' /\ u \in S
      BY <3>1
    <3>3. PICK t \in S : u = [t EXCEPT !.read = TRUE]
      BY <1>1, <3>2
    <3>4. u \in Texts /\ t \in Texts
      BY <1>3
    <3>5. [u EXCEPT !.read = TRUE] = u
      BY <3>3, <3>4 DEF Texts
    <3> QED  BY <1>8, <3>1, <3>5
  <2>4. u.of \cap v.of = {} /\ ~ (u.work = v.work /\ Open(u) /\ Open(v))
    <3>1. u # v /\ u.account = v.account
      BY <1>8, <2>1, <2>2, <2>3
    <3> QED  BY <3>1 DEF InboxInv, Sound
  <2> QED  BY <2>1, <2>2, <2>4 DEF Open
<1>9. Sound(inbox', Ahead)
  BY <1>6, <1>7, <1>8 DEF Sound
<1>10. Ahead' = Ahead
  BY <1>2 DEF Ahead
<1>11. Sound(inbox, Ahead)'
  BY <1>9, <1>10 DEF Sound
<1> QED  BY <1>2, <1>11 DEF InboxInv

LEMMA WorkStepKeeps ==
    ASSUME InboxInv, DeliverySettings, NEW k \in Works,
           \/ Notify!TellFollowers(k) \/ Notify!Publish(k) \/ Notify!TakeDown(k) \/ Notify!LiftTakedown(k)
           \/ Notify!HoldRelease(k)
    PROVE  InboxInv'
<1>1. Creator[k] \in Accounts
  BY DEF DeliverySettings, Notify!Settings
<1>2. \E type \in Notify!Types, c \in {NoOne, Creator[k]} : Notify!Record(type, c, k)
  BY DEF Notify!TellFollowers, Notify!Publish, Notify!TakeDown, Notify!LiftTakedown,
     Notify!HoldRelease,
         Notify!Types
<1> QED  BY <1>1, <1>2, RecordKeeps

LEMMA ProfileStepKeeps ==
    ASSUME InboxInv, NEW c \in Accounts, Notify!RestrictProfile(c) \/ Notify!RestoreProfile(c)
    PROVE  InboxInv'
<1>1. \E type \in Notify!Types : Notify!Record(type, c, NoWork)
  BY DEF Notify!RestrictProfile, Notify!RestoreProfile, Notify!Types
<1> QED  BY <1>1, RecordKeeps

LEMMA ReaderStepKeeps ==
    ASSUME InboxInv, NEW c \in Accounts,
           Notify!MarkOneRead(c) \/ Notify!MarkAllRead(c) \/ Notify!RemoveEntry(c) \/ Notify!Clear(c)
    PROVE  InboxInv'
<1>1. Notify!Mine(c) \subseteq inbox
  BY DEF Notify!Mine
<1>2. CASE Notify!MarkOneRead(c)
  <2>1. PICK x \in Notify!Mine(c) : Notify!MarkRead(c, {x})
    BY <1>2 DEF Notify!MarkOneRead
  <2>2. {x} \in SUBSET inbox
    BY <1>1
  <2> QED  BY <2>1, <2>2, MarkingKeeps
<1>3. CASE Notify!MarkAllRead(c)
  BY <1>1, <1>3, MarkingKeeps DEF Notify!MarkAllRead
<1>4. CASE Notify!RemoveEntry(c) \/ Notify!Clear(c)
  <2>1. inbox' \subseteq inbox /\ UNCHANGED <<events, queue, taken>>
    BY <1>4 DEF Notify!RemoveEntry, Notify!Clear, Notify!Kept
  <2> QED  BY <2>1, FewerKeep
<1> QED  BY <1>2, <1>3, <1>4

LEMMA OthersKeep ==
    ASSUME InboxInv,
           \/ \E c \in Accounts, k \in Works :
                  \/ Notify!Install(c, k) \/ Notify!SetFollow(c, k, "following")
                                               \/ Notify!SetFollow(c, k, "stopped")
           \/ \E c, d \in Accounts :
                  Notify!FollowCreator(c, d) \/ Notify!StopFollowingCreator(c, d)
           \/ Notify!Cleanup \/ Notify!Tick \/ UNCHANGED Notify!vars
    PROVE  InboxInv'
<1>1. inbox' \subseteq inbox /\ UNCHANGED <<events, queue, taken>>
  BY DEF Notify!Install, Notify!SetFollow, Notify!FollowCreator, Notify!StopFollowingCreator,
     Notify!Cleanup,
         Notify!Tick, Notify!Chosen, Notify!Kept, Notify!vars
<1> QED  BY <1>1, FewerKeep

LEMMA InboxStep == DeliverySettings /\ InboxInv /\ [Notify!Next]_Notify!vars => InboxInv'
<1> SUFFICES ASSUME DeliverySettings, InboxInv, [Notify!Next]_Notify!vars PROVE InboxInv'
  OBVIOUS
<1>1. CASE \E k \in Works : \/ Notify!TellFollowers(k) \/ Notify!Publish(k) \/ Notify!TakeDown(k)
                            \/ Notify!LiftTakedown(k) \/ Notify!HoldRelease(k)
  BY <1>1, WorkStepKeeps
<1>2. CASE \E c \in Accounts : Notify!RestrictProfile(c) \/ Notify!RestoreProfile(c)
  BY <1>2, ProfileStepKeeps
<1>3. CASE \E c \in Accounts : \/ Notify!MarkOneRead(c) \/ Notify!MarkAllRead(c) \/ Notify!RemoveEntry(c)
                               \/ Notify!Clear(c)
  BY <1>3, ReaderStepKeeps
<1>4. CASE \E r \in Passes : Notify!TakeDueEvents(r) \/ Notify!FanOutBatch(r) \/ Notify!RollBack(r)
  BY <1>4, TakingKeeps, BatchKeeps, RollBackKeeps
<1>5. CASE \/ \E c \in Accounts, k \in Works : \/ Notify!Install(c, k) \/ Notify!SetFollow(c, k, "following")
                                               \/ Notify!SetFollow(c, k, "stopped")
           \/ \E c, d \in Accounts :
                  Notify!FollowCreator(c, d) \/ Notify!StopFollowingCreator(c, d)
           \/ Notify!Cleanup \/ Notify!Tick \/ UNCHANGED Notify!vars
  BY <1>5, OthersKeep
<1> QED  BY <1>1, <1>2, <1>3, <1>4, <1>5 DEF Notify!Next

THEOREM EventsAreToldOnce == ASSUME DeliverySettings PROVE Notify!Spec => []ToldOnce
<1>1. InboxInv => ToldOnce
  <2>1. Notify!ToldOnce <=>
          /\ \A x \in inbox :
                 x.count = Notify!Cardinality(x.of) /\ x.words \in x.of /\ x.of \cap queue = {}
          /\ \A x, y \in inbox : x # y /\ x.account = y.account =>
                /\ x.of \cap y.of = {}
                /\ x.work = y.work /\ x.type = "work_updated" /\ y.type = "work_updated"
                      => x.read \/ y.read
    BY DEF Notify!ToldOnce
  <2>2. \A S : Notify!Cardinality(S) = Cardinality(S)
    BY DEF Notify!Cardinality, Cardinality, Notify!IsFiniteSet, IsFiniteSet
  <2> QED  BY <2>1, <2>2 DEF ToldOnce, InboxInv, Sound, Open, Ahead
<1> QED  BY <1>1, InboxBegins, InboxStep, PTL DEF Notify!Spec

LEMMA BatchTells ==
    ASSUME InboxInv, NEW r \in Passes, Notify!FanOutBatch(r)
    PROVE  /\ {x \in inbox : x.read} \subseteq inbox' /\ queue' = queue \ taken[r]
           /\ \A k \in taken[r] :
                  \A a \in Notify!Hearers(events[k]) : \E x \in inbox' : x.account = a /\ k \in x.of
<1>1. PICK line \in Notify!SetToSeqs(taken[r]) : inbox' = Notify!FoldLeft(Notify!WriteEntries, inbox, line)
  BY DEF Notify!FanOutBatch
<1>2. /\ events \in Seq(Notify!Event) /\ Sound(inbox, Ahead) /\ taken[r] \subseteq queue
      /\ queue \subseteq DOMAIN events /\ DOMAIN events = 1..Len(events) /\ Len(events) \in Nat
  BY DEF InboxInv
<1>3. IsFiniteSet(taken[r])
  <2>1. IsFiniteSet(1..Len(events))
    BY <1>2, FS_Interval
  <2>2. taken[r] \subseteq 1..Len(events)
    BY <1>2
  <2> QED  BY <2>1, <2>2, FS_Subset
<1>4. taken[r] \subseteq Ahead \cap DOMAIN events
  BY <1>2 DEF Ahead
<1>5. Told(inbox', taken[r])
  BY <1>1, <1>2, <1>3, <1>4, FanOutKeeps
<1> QED  BY <1>5 DEF Told, Notify!FanOutBatch

\* Steps that take no event from the queue for good leave the inbox, or mark or remove entries.
LEMMA OtherStepsTell ==
    ASSUME InboxInv, [Notify!Next]_Notify!vars, \A r \in Passes : ~ Notify!FanOutBatch(r)
    PROVE  /\ queue \subseteq queue'
           /\ \/ inbox' \subseteq inbox
              \/ {x \in inbox : x.read} \subseteq inbox'
<1>1. CASE \E k \in Works : \/ Notify!TellFollowers(k) \/ Notify!Publish(k) \/ Notify!TakeDown(k)
                            \/ Notify!LiftTakedown(k) \/ Notify!HoldRelease(k)
  BY <1>1 DEF Notify!TellFollowers, Notify!Publish, Notify!TakeDown, Notify!LiftTakedown,
     Notify!HoldRelease,
              Notify!Record
<1>2. CASE \E c \in Accounts : Notify!RestrictProfile(c) \/ Notify!RestoreProfile(c)
  BY <1>2 DEF Notify!RestrictProfile, Notify!RestoreProfile, Notify!Record
<1>3. CASE \E c \in Accounts : Notify!MarkOneRead(c) \/ Notify!MarkAllRead(c)
  <2>1. PICK c \in Accounts : \E S \in SUBSET inbox : Notify!MarkRead(c, S)
    <3>1. \A c \in Accounts : Notify!Mine(c) \in SUBSET inbox
      BY DEF Notify!Mine
    <3>2. PICK c \in Accounts : Notify!MarkOneRead(c) \/ Notify!MarkAllRead(c)
      BY <1>3
    <3>3. \A x \in Notify!Mine(c) : {x} \in SUBSET inbox
      BY <3>1
    <3> QED  BY <3>1, <3>2, <3>3 DEF Notify!MarkOneRead, Notify!MarkAllRead
  <2>2. PICK S \in SUBSET inbox : Notify!MarkRead(c, S)
    BY <2>1
  <2>3. inbox' = (inbox \ S) \cup {[x EXCEPT !.read = TRUE] : x \in S} /\ queue' = queue
    BY <2>2 DEF Notify!MarkRead, Notify!Kept
  <2>4. ASSUME NEW x \in inbox, x.read PROVE x \in inbox'
    <3>1. x \in Texts
      BY DEF InboxInv, Sound
    <3>2. [x EXCEPT !.read = TRUE] = x
      BY <2>4, <3>1 DEF Texts
    <3> QED  BY <2>3, <3>2
  <2> QED  BY <2>3, <2>4
<1>4. CASE \E c \in Accounts : Notify!RemoveEntry(c) \/ Notify!Clear(c)
  BY <1>4 DEF Notify!RemoveEntry, Notify!Clear, Notify!Kept
<1>5. CASE \E r \in Passes : Notify!TakeDueEvents(r) \/ Notify!RollBack(r)
  BY <1>5 DEF Notify!TakeDueEvents, Notify!RollBack
<1>6. CASE \/ \E c \in Accounts, k \in Works : \/ Notify!Install(c, k) \/ Notify!SetFollow(c, k, "following")
                                               \/ Notify!SetFollow(c, k, "stopped")
           \/ \E c, d \in Accounts :
                  Notify!FollowCreator(c, d) \/ Notify!StopFollowingCreator(c, d)
           \/ Notify!Cleanup \/ Notify!Tick \/ UNCHANGED Notify!vars
  BY <1>6 DEF Notify!Install, Notify!SetFollow, Notify!FollowCreator,
     Notify!StopFollowingCreator, Notify!Cleanup,
         Notify!Tick, Notify!Chosen, Notify!Kept, Notify!vars
<1> QED  BY <1>1, <1>2, <1>3, <1>4, <1>5, <1>6 DEF Notify!Next

\* No event leaves the queue without the entries of those who follow then.
THEOREM EventsAreNotLost == ASSUME DeliverySettings PROVE Notify!Spec => Notify!NoEventIsLost
<1> DEFINE Stays == \A n \in queue \ queue' : \A a \in Notify!Hearers(events[n]) :
                      \E x \in inbox' : x.account = a /\ n \in x.of
<1>1. InboxInv /\ [Notify!Next]_Notify!vars => [Stays]_Notify!vars
  <2> SUFFICES ASSUME InboxInv, [Notify!Next]_Notify!vars PROVE Stays
    OBVIOUS
  <2>1. CASE \E r \in Passes : Notify!FanOutBatch(r)
    BY <2>1, BatchTells
  <2>2. CASE \A r \in Passes : ~ Notify!FanOutBatch(r)
    BY <2>2, OtherStepsTell
  <2> QED  BY <2>1, <2>2
<1> QED  BY <1>1, InboxBegins, InboxStep, PTL DEF Notify!Spec, Notify!NoEventIsLost

\* What was read stays, or is gone for good.
THEOREM WhatWasReadStays == ASSUME DeliverySettings PROVE Notify!Spec => Notify!ReadStaysRead
<1> DEFINE Stays == \A x \in inbox : x.read =>
                      x \in inbox' \/ ~ \E y \in inbox' : y.account = x.account
                          /\ y.of \cap x.of # {}
<1>1. InboxInv /\ [Notify!Next]_Notify!vars => [Stays]_Notify!vars
  <2> SUFFICES ASSUME InboxInv, [Notify!Next]_Notify!vars PROVE Stays
    OBVIOUS
  <2>1. inbox' \subseteq inbox \/ {x \in inbox : x.read} \subseteq inbox'
    BY BatchTells, OtherStepsTell
  <2>2. \A x, y \in inbox : x # y /\ x.account = y.account => x.of \cap y.of = {}
    BY DEF InboxInv, Sound
  <2> QED  BY <2>1, <2>2
<1> QED  BY <1>1, InboxBegins, InboxStep, PTL DEF Notify!Spec, Notify!ReadStaysRead

-----------------------------------------------------------------------------
(***************************************************************************)
(* What a work is offered in.                                              *)
(***************************************************************************)
AllTraits == UNION {TraitsOf(r) : r \in UNION {RolesOf(t) : t \in Types}}
Contents(type) ==
    {c \in [RolesOf(type) -> SUBSET AllTraits] : \A r \in RolesOf(type) : c[r] \subseteq TraitsOf(r)}
Drafts(type) == [origin : IDs \cup {"illarin", "v1"}, content : Contents(type)]
Rows(type) ==
    [export : SUBSET {Offered(ModuleOf(rel, id), c) : rel \in Releases, id \in IDs, c \in Contents(type)},
     stamp : Releases, facets : SUBSET RolesOf(type), facetStamp : Releases]

OffersTypes ==
    /\ work \in [type : WorkTypes, deleted : BOOLEAN, asleep : BOOLEAN]
    /\ draft \in Drafts(work.type)
    /\ versions \in Seq(Drafts(work.type))
    /\ row \in Rows(work.type)
    /\ recorded \in Seq(Rows(work.type)) /\ Len(recorded) = Len(versions)
    /\ release \in Releases

(* What the report says holds of the release that wrote it, and the version *)
(* published is always told by the same release as the draft.               *)
Kept(one, d) == Truthful(one, d) /\ (release = "earlier" => one.stamp = "earlier"
    /\ one.facetStamp = "earlier")
OffersInv ==
    /\ OffersTypes
    /\ Kept(row, draft)
    /\ Published =>
        /\ Kept(recorded[LastVersion], versions[LastVersion])
        /\ recorded[LastVersion].stamp = row.stamp
               /\ recorded[LastVersion].facetStamp = row.facetStamp
    /\ ~work.asleep => UpToDate(row)

LEMMA OffersOfType ==
    ASSUME NEW rel \in Releases, NEW type, NEW d \in Drafts(type)
    PROVE  OffersOf(rel, type, d) \in
            SUBSET {Offered(ModuleOf(r, id), c) : r \in Releases, id \in IDs, c \in Contents(type)}
  <1>1. d.content \in Contents(type)  BY DEF Drafts
  <1>. QED  BY <1>1, SMT DEF OffersOf, OfferedFormats

LEMMA CountsType ==
    ASSUME NEW rel, NEW type, NEW c \in Contents(type), NEW hid
    PROVE  Counts(rel, c, hid) \in SUBSET RolesOf(type)
  BY DEF Counts, WrittenRoles, Contents

LEMMA SummaryType ==
    ASSUME NEW rel \in Releases, NEW type, NEW d \in Drafts(type), NEW hid
    PROVE  Summary(rel, type, d, hid) \in Rows(type)
  <1>1. d.content \in Contents(type)  BY DEF Drafts
  <1>2. Counts(rel, d.content, hid) \in SUBSET RolesOf(type)  BY <1>1, CountsType
  <1>. QED  BY <1>2, OffersOfType, SMT DEF Summary, Rows, CapabilityStamp, FacetStamp

LEMMA FiltersType ==
    ASSUME NEW type, NEW one \in Rows(type), NEW rel \in Releases, NEW c \in Contents(type), NEW hid
    PROVE  /\ WithFilters(one, rel, c, hid) \in Rows(type)
           /\ WithFilters(one, rel, c, hid).export = one.export
           /\ WithFilters(one, rel, c, hid).stamp = one.stamp
           /\ WithFilters(one, rel, c, hid).facets = Counts(rel, c, hid)
           /\ WithFilters(one, rel, c, hid).facetStamp = rel
  <1>1. Counts(rel, c, hid) \in SUBSET RolesOf(type)  BY CountsType
  <1>2. DOMAIN one = {"export", "stamp", "facets", "facetStamp"}
        /\ one.export \in SUBSET {Offered(ModuleOf(r, id), k) : r \in Releases, id \in IDs, k \in Contents(type)}
        /\ one.stamp \in Releases
    BY DEF Rows
  <1>3. WithFilters(one, rel, c, hid) =
            [export |-> one.export, stamp |-> one.stamp, facets |-> Counts(rel, c, hid), facetStamp |-> rel]
    <2>. DEFINE counted == [one EXCEPT !.facets = Counts(rel, c, hid)]
    <2>1. counted = [export |-> one.export, stamp |-> one.stamp, facets |-> Counts(rel, c, hid),
                     facetStamp |-> one.facetStamp]
      BY DEF Rows
    <2>2. WithFilters(one, rel, c, hid) = [counted EXCEPT !.facetStamp = rel]
      BY <1>2 DEF WithFilters, FacetStamp
    <2>. HIDE DEF counted
    <2>. QED  BY <2>1, <2>2
  <1>. QED  BY <1>1, <1>2, <1>3 DEF Rows

(* A summary written now is up to date and true.                           *)
LEMMA SummaryIsTrue ==
    ASSUME OffersTypes, NEW d \in Drafts(work.type)
    PROVE  LET one == Summary(release, work.type, d, hidden)
           IN  one \in Rows(work.type) /\ Kept(one, d) /\ UpToDate(one)
               /\ one.stamp = release /\ one.facetStamp = release
  <1>1. Summary(release, work.type, d, hidden) \in Rows(work.type)
    BY SummaryType DEF OffersTypes
  <1>. QED  BY <1>1 DEF Summary, Kept, Truthful, UpToDate, CapabilityStamp, FacetStamp

LEMMA RequiredRoleIsKnown ==
    ASSUME NEW type \in Types
    PROVE  RequiredRoles(type) \subseteq RolesOf(type)
  BY DEF Types, RequiredRoles, RolesOf, Definitions, Shared

LEMMA StartedType ==
    ASSUME NEW type \in Types,
           NEW required \in [RequiredRoles(type) -> {{t} : t \in UNION {TraitsOf(r) : r \in RequiredRoles(type)}}],
           \A r \in RequiredRoles(type) : required[r] \subseteq TraitsOf(r)
    PROVE  Started(type, required) \in Contents(type)
  <1>1. RequiredRoles(type) \subseteq RolesOf(type)  BY RequiredRoleIsKnown
  <1>2. \A r \in RequiredRoles(type) : TraitsOf(r) \subseteq AllTraits
    BY <1>1 DEF AllTraits
  <1>3. \A r \in RequiredRoles(type) : required[r] \subseteq AllTraits
    BY <1>2
  <1>. QED  BY <1>3 DEF Started, Contents

LEMMA OffersBegin == OffersInit => OffersInv
  <1>. SUFFICES ASSUME OffersInit PROVE OffersInv  OBVIOUS
  <1>1. PICK type \in WorkTypes : \E origin \in Origins(type),
            required \in [RequiredRoles(type) -> {{t} : t \in UNION {TraitsOf(r) : r \in RequiredRoles(type)}}] :
        /\ \A r \in RequiredRoles(type) : required[r] \subseteq TraitsOf(r)
        /\ work = [type |-> type, deleted |-> FALSE, asleep |-> FALSE]
        /\ draft = [origin |-> origin, content |-> Started(type, required)]
    BY DEF OffersInit
  <1>2. PICK origin \in Origins(type),
             required \in [RequiredRoles(type) -> {{t} : t \in UNION {TraitsOf(r) : r \in RequiredRoles(type)}}] :
        /\ \A r \in RequiredRoles(type) : required[r] \subseteq TraitsOf(r)
        /\ work = [type |-> type, deleted |-> FALSE, asleep |-> FALSE]
        /\ draft = [origin |-> origin, content |-> Started(type, required)]
    BY <1>1
  <1>3. Started(type, required) \in Contents(type)
    BY <1>2, StartedType, OffersAssumption
  <1>4. origin \in IDs \cup {"illarin", "v1"}
    BY DEF Origins, IDs
  <1>5. draft \in Drafts(work.type)  BY <1>2, <1>3, <1>4 DEF Drafts
  <1>6. versions = <<>> /\ recorded = <<>> /\ release = "earlier"
        /\ row = Summary(release, work.type, draft, hidden)
    BY DEF OffersInit
  <1>7. release \in Releases  BY <1>6 DEF Releases
  <1>8. row \in Rows(work.type)  BY <1>5, <1>6, <1>7, SummaryType
  <1>9. versions \in Seq(Drafts(work.type)) /\ recorded \in Seq(Rows(work.type))
        /\ Len(recorded) = Len(versions)
    BY <1>6
  <1>10. work \in [type : WorkTypes, deleted : BOOLEAN, asleep : BOOLEAN]  BY <1>2
  <1>11. OffersTypes  BY <1>5, <1>7, <1>8, <1>9, <1>10 DEF OffersTypes
  <1>12. Kept(row, draft) /\ UpToDate(row)  BY <1>5, <1>6, <1>11, SummaryIsTrue
  <1>. QED  BY <1>6, <1>11, <1>12 DEF OffersInv, Published

(* What every change of the content ends with.                             *)
LEMMA PublishedRowsType ==
    ASSUME OffersTypes, NEW rel \in Releases, NEW hid
    PROVE  /\ WritePublished(recorded, rel, hid) \in Seq(Rows(work.type))
           /\ Len(WritePublished(recorded, rel, hid)) = Len(versions)
           /\ Published => WritePublished(recorded, rel, hid)[LastVersion] = Summary(rel, work.type, versions[LastVersion], hid)
  <1>1. CASE ~Published  BY <1>1 DEF WritePublished, OffersTypes
  <1>2. CASE Published
    <2>1. LastVersion \in DOMAIN versions /\ LastVersion \in 1 .. Len(recorded)
              /\ versions[LastVersion] \in Drafts(work.type)
      BY <1>2 DEF Published, LastVersion, OffersTypes
    <2>2. Summary(rel, work.type, versions[LastVersion], hid) \in Rows(work.type)
      BY <2>1, SummaryType
    <2>3. WritePublished(recorded, rel, hid) = [recorded EXCEPT ![LastVersion] = Summary(rel, work.type, versions[LastVersion], hid)]
      BY <1>2 DEF WritePublished
    <2>4. recorded \in Seq(Rows(work.type)) /\ Len(recorded) = Len(versions)  BY DEF OffersTypes
    <2>. HIDE DEF LastVersion
    <2>. QED  BY <2>1, <2>2, <2>3, <2>4
  <1>. QED  BY <1>1, <1>2

(* The work keeps its type and so its rows and drafts their sets.          *)
LEMMA SummaryIsWritten ==
    OffersInv /\ WriteSummary /\ draft' \in Drafts(work.type)
        /\ UNCHANGED <<versions, hidden, release>>
        => OffersInv'
  <1>. SUFFICES ASSUME OffersInv, WriteSummary, draft' \in Drafts(work.type), UNCHANGED <<versions, hidden, release>>
                PROVE  OffersInv'
    OBVIOUS
  <1>1. OffersTypes  BY DEF OffersInv
  <1>2. work' \in [type : WorkTypes, deleted : BOOLEAN, asleep : BOOLEAN]
            /\ work'.type = work.type /\ ~work'.asleep
    BY <1>1 DEF WriteSummary, OffersTypes
  <1>3. row' = Summary(release, work.type, draft', hidden)
        /\ recorded' = WritePublished(recorded, release, hidden)
    BY DEF WriteSummary
  <1>4. /\ row' \in Rows(work.type)
        /\ row'.export = OffersOf(release, work.type, draft') /\ row'.stamp = release
        /\ row'.facets = Counts(release, draft'.content, hidden) /\ row'.facetStamp = release
    BY <1>1, <1>3, SummaryType DEF OffersTypes, Summary, CapabilityStamp, FacetStamp
  <1>5. recorded' \in Seq(Rows(work.type)) /\ Len(recorded') = Len(versions)
        /\ (Published => recorded'[LastVersion] = Summary(release, work.type, versions[LastVersion], hidden))
    BY <1>1, <1>3, PublishedRowsType DEF OffersTypes
  <1>6. OffersTypes'  BY <1>1, <1>2, <1>4, <1>5 DEF OffersTypes
  <1>7. LastVersion' = LastVersion /\ (Published' <=> Published)  BY DEF LastVersion, Published
  <1>8. Kept(row, draft)' /\ UpToDate(row)'
    BY <1>2, <1>4 DEF Kept, Truthful, UpToDate, CapabilityStamp, FacetStamp
  <1>9. ASSUME Published
        PROVE  /\ Kept(recorded[LastVersion], versions[LastVersion])'
               /\ (recorded[LastVersion].stamp = row.stamp
                      /\ recorded[LastVersion].facetStamp = row.facetStamp)'
    <2>1. versions[LastVersion] \in Drafts(work.type)
      BY <1>1, <1>9 DEF OffersTypes, Published, LastVersion
    <2>2. /\ recorded'[LastVersion].export = OffersOf(release, work.type, versions[LastVersion])
          /\ recorded'[LastVersion].stamp = release
                 /\ recorded'[LastVersion].facetStamp = release
          /\ recorded'[LastVersion].facets = Counts(release, versions[LastVersion].content, hidden)
      BY <1>5, <1>9 DEF Summary, CapabilityStamp, FacetStamp
    <2>. QED  BY <1>2, <1>4, <1>7, <2>2 DEF Kept, Truthful, CapabilityStamp, FacetStamp
  <1>. QED  BY <1>6, <1>7, <1>8, <1>9 DEF OffersInv

LEMMA SomeType == ASSUME NEW type \in Types, NEW role \in RolesOf(type)
                  PROVE Some(role) \subseteq SUBSET TraitsOf(role)
                      /\ TraitsOf(role) \subseteq AllTraits
  BY DEF Some, AllTraits

LEMMA EditKeepsOffers ==
    OffersInv /\ (SaveBlocks \/ ReplaceContent \/ RestoreVersion) => OffersInv'
  <1>. SUFFICES ASSUME OffersInv, SaveBlocks \/ ReplaceContent \/ RestoreVersion
                PROVE OffersInv'
    OBVIOUS
  <1>1. OffersTypes  BY DEF OffersInv
  <1>2. work.type \in Types  BY <1>1, OffersAssumption DEF OffersTypes
  <1>3. DOMAIN draft = {"origin", "content"} /\ draft.content \in Contents(work.type)
        /\ draft.origin \in IDs \cup {"illarin", "v1"}
    BY <1>1 DEF OffersTypes, Drafts
  <1>4. WriteSummary /\ UNCHANGED <<versions, hidden, release>>
    BY DEF SaveBlocks, ReplaceContent, RestoreVersion
  <1>5. draft' \in Drafts(work.type)
    <2>1. CASE SaveBlocks
      <3>5. PICK role \in RolesOf(work.type) :
                \E traits \in Some(role) : draft' = [draft EXCEPT !.content[role] = traits]
        BY <2>1 DEF SaveBlocks
      <3>1. PICK traits \in Some(role) : draft' = [draft EXCEPT !.content[role] = traits]
        BY <3>5
      <3>2. traits \in SUBSET TraitsOf(role) /\ traits \in SUBSET AllTraits  BY <1>2, SomeType
      <3>3. [draft.content EXCEPT ![role] = traits] \in Contents(work.type)
        BY <1>3, <3>2 DEF Contents
      <3>4. draft' = [origin |-> draft.origin, content |-> [draft.content EXCEPT ![role] = traits]]
        BY <1>1, <3>1 DEF OffersTypes, Drafts
      <3>. QED  BY <1>3, <3>3, <3>4 DEF Drafts
    <2>2. CASE ReplaceContent
      <3>5. PICK d \in Declarations, role \in RolesOf(work.type) :
                \E traits \in Some(role) :
                    draft' = [origin |-> d.id, content |-> [draft.content EXCEPT ![role] = traits]]
        BY <2>2 DEF ReplaceContent
      <3>1. PICK traits \in Some(role) :
                draft' = [origin |-> d.id, content |-> [draft.content EXCEPT ![role] = traits]]
        BY <3>5
      <3>2. traits \in SUBSET TraitsOf(role) /\ traits \in SUBSET AllTraits  BY <1>2, SomeType
      <3>3. [draft.content EXCEPT ![role] = traits] \in Contents(work.type)
        BY <1>3, <3>2 DEF Contents
      <3>4. d.id \in IDs  BY DEF IDs
      <3>. QED  BY <3>1, <3>3, <3>4 DEF Drafts
    <2>3. CASE RestoreVersion  BY <1>1, <2>3 DEF RestoreVersion, OffersTypes
    <2>. QED  BY <2>1, <2>2, <2>3
  <1>. QED  BY <1>4, <1>5, SummaryIsWritten

LEMMA PublishedCountsType ==
    ASSUME OffersTypes, NEW hid
    PROVE  /\ PublishedFilters(recorded, release, hid) \in Seq(Rows(work.type))
           /\ Len(PublishedFilters(recorded, release, hid)) = Len(versions)
           /\ Published =>
                LET one == PublishedFilters(recorded, release, hid)[LastVersion]
                IN  /\ one.export = recorded[LastVersion].export
                    /\ one.stamp = recorded[LastVersion].stamp
                    /\ one.facets = Counts(release, versions[LastVersion].content, hid)
                           /\ one.facetStamp = release
  <1>1. CASE ~Published  BY <1>1 DEF PublishedFilters, OffersTypes
  <1>2. CASE Published
    <2>5. LastVersion \in DOMAIN versions /\ LastVersion \in 1 .. Len(recorded)
      BY <1>2 DEF Published, LastVersion, OffersTypes
    <2>6. recorded[LastVersion] \in Rows(work.type)
              /\ versions[LastVersion] \in Drafts(work.type)
      BY <2>5 DEF OffersTypes
    <2>1. LastVersion \in DOMAIN versions /\ LastVersion \in 1 .. Len(recorded)
              /\ recorded[LastVersion] \in Rows(work.type)
          /\ versions[LastVersion].content \in Contents(work.type)
      BY <2>5, <2>6 DEF Drafts
    <2>. DEFINE told == WithFilters(recorded[LastVersion], release, versions[LastVersion].content, hid)
    <2>2. /\ told \in Rows(work.type) /\ told.export = recorded[LastVersion].export
                 /\ told.stamp = recorded[LastVersion].stamp
          /\ told.facets = Counts(release, versions[LastVersion].content, hid)
                 /\ told.facetStamp = release
      BY <2>1, FiltersType DEF OffersTypes
    <2>3. PublishedFilters(recorded, release, hid) = [recorded EXCEPT ![LastVersion] = told]
      BY <1>2 DEF PublishedFilters
    <2>4. recorded \in Seq(Rows(work.type)) /\ Len(recorded) = Len(versions)  BY DEF OffersTypes
    <2>. HIDE DEF LastVersion, told
    <2>. QED  BY <2>1, <2>2, <2>3, <2>4
  <1>. QED  BY <1>1, <1>2

(* What a page shows changes the counts and not the offers.                *)
LEMMA ArrangementKeepsOffers == OffersInv /\ SaveArrangement => OffersInv'
  <1>. SUFFICES ASSUME OffersInv, SaveArrangement PROVE OffersInv'  OBVIOUS
  <1>1. OffersTypes  BY DEF OffersInv
  <1>2. /\ row' = WithFilters(row, release, draft.content, hidden')
        /\ recorded' = PublishedFilters(recorded, release, hidden')
        /\ work' = work /\ draft' = draft /\ versions' = versions /\ release' = release
    BY DEF SaveArrangement
  <1>3. draft.content \in Contents(work.type)  BY <1>1 DEF OffersTypes, Drafts
  <1>4. /\ row' \in Rows(work.type) /\ row'.export = row.export /\ row'.stamp = row.stamp
        /\ row'.facets = Counts(release, draft.content, hidden') /\ row'.facetStamp = release
    BY <1>1, <1>2, <1>3, FiltersType DEF OffersTypes
  <1>5. /\ recorded' \in Seq(Rows(work.type)) /\ Len(recorded') = Len(versions)
        /\ Published =>
            /\ recorded'[LastVersion].export = recorded[LastVersion].export
                   /\ recorded'[LastVersion].stamp = recorded[LastVersion].stamp
            /\ recorded'[LastVersion].facets = Counts(release, versions[LastVersion].content, hidden')
            /\ recorded'[LastVersion].facetStamp = release
    BY <1>1, <1>2, PublishedCountsType
  <1>6. OffersTypes'  BY <1>1, <1>2, <1>4, <1>5 DEF OffersTypes
  <1>7. LastVersion' = LastVersion /\ (Published' <=> Published)
    BY <1>2 DEF LastVersion, Published
  <1>8. Kept(row, draft)' /\ (~work'.asleep => UpToDate(row)')
    BY <1>2, <1>4 DEF OffersInv, Kept, Truthful, UpToDate, CapabilityStamp, FacetStamp
  <1>9. ASSUME Published
        PROVE  /\ Kept(recorded[LastVersion], versions[LastVersion])'
               /\ (recorded[LastVersion].stamp = row.stamp
                      /\ recorded[LastVersion].facetStamp = row.facetStamp)'
    BY <1>2, <1>4, <1>5, <1>7, <1>9 DEF OffersInv, Kept, Truthful, CapabilityStamp, FacetStamp
  <1>. QED  BY <1>6, <1>7, <1>8, <1>9 DEF OffersInv

(* The version's row is the draft's, whose content the version is.         *)
LEMMA PublishKeepsOffers == OffersInv /\ Publish => OffersInv'
  <1>. SUFFICES ASSUME OffersInv, Publish PROVE OffersInv'  OBVIOUS
  <1>1. OffersTypes  BY DEF OffersInv
  <1>2. /\ versions' = Append(versions, draft) /\ recorded' = Append(recorded, row)
        /\ work' = work /\ draft' = draft /\ hidden' = hidden /\ row' = row
               /\ release' = release
    BY DEF Publish
  <1>3. /\ versions' \in Seq(Drafts(work.type)) /\ recorded' \in Seq(Rows(work.type))
        /\ Len(versions') = Len(versions) + 1 /\ Len(recorded') = Len(versions')
    BY <1>1, <1>2 DEF OffersTypes
  <1>4. versions'[Len(versions')] = draft /\ recorded'[Len(versions')] = row
    BY <1>1, <1>2, <1>3 DEF OffersTypes
  <1>5. OffersTypes'  BY <1>1, <1>2, <1>3 DEF OffersTypes
  <1>. QED
    BY <1>2, <1>4, <1>5 DEF OffersInv, LastVersion, Kept, Truthful, UpToDate

LEMMA DeletingKeepsOffers == OffersInv /\ (DeleteWork \/ RestoreWork) => OffersInv'
  <1>. SUFFICES ASSUME OffersInv, DeleteWork \/ RestoreWork PROVE OffersInv'  OBVIOUS
  <1>1. OffersTypes  BY DEF OffersInv
  <1>2. UNCHANGED <<draft, versions, hidden, row, recorded, release>>
        /\ work' \in [type : WorkTypes, deleted : BOOLEAN, asleep : BOOLEAN]
        /\ work'.type = work.type /\ work'.asleep = work.asleep
    BY <1>1 DEF DeleteWork, RestoreWork, OffersTypes
  <1>3. OffersTypes'  BY <1>1, <1>2 DEF OffersTypes
  <1>. QED  BY <1>2, <1>3 DEF OffersInv, Kept, Truthful, UpToDate, LastVersion, Published

(* What the start of a server leaves of the row: all of it when it is not  *)
(* behind, and nothing that another release has told.                      *)
FreshRow(rel) ==
    IF StaleFormats(rel)
    THEN [row EXCEPT !.export = OffersOf(rel, work.type, draft), !.stamp = CapabilityStamp(rel)]
    ELSE row
LEMMA FreshRowIs ==
    ASSUME OffersTypes, NEW rel \in Releases
    PROVE  /\ FreshRow(rel) \in Rows(work.type)
           /\ FreshRow(rel).facets = row.facets /\ FreshRow(rel).facetStamp = row.facetStamp
           /\ StaleFormats(rel) => FreshRow(rel).export = OffersOf(rel, work.type, draft)
                  /\ FreshRow(rel).stamp = rel
           /\ ~StaleFormats(rel) => FreshRow(rel) = row
  <1>1. CASE ~StaleFormats(rel)  BY <1>1 DEF FreshRow, OffersTypes
  <1>2. CASE StaleFormats(rel)
    <2>. DEFINE offers == OffersOf(rel, work.type, draft)
                told == [row EXCEPT !.export = offers]
    <2>1. offers \in SUBSET {Offered(ModuleOf(r, id), c) : r \in Releases, id \in IDs, c \in Contents(work.type)}
      BY OffersOfType DEF OffersTypes
    <2>. HIDE DEF offers
    <2>2. told = [export |-> offers, stamp |-> row.stamp, facets |-> row.facets, facetStamp |-> row.facetStamp]
      BY DEF OffersTypes, Rows
    <2>3. FreshRow(rel) = [told EXCEPT !.stamp = rel]
      BY <1>2 DEF FreshRow, CapabilityStamp, offers
    <2>. HIDE DEF told
    <2>4. FreshRow(rel) = [export |-> offers, stamp |-> rel, facets |-> row.facets, facetStamp |-> row.facetStamp]
      BY <2>2, <2>3
    <2>5. FreshRow(rel) \in Rows(work.type)  BY <2>1, <2>4 DEF OffersTypes, Rows
    <2>. QED  BY <1>2, <2>4, <2>5 DEF offers
  <1>. QED  BY <1>1, <1>2

LEMMA StartKeepsOffers == OffersInv /\ Start => OffersInv'
  <1>. SUFFICES ASSUME OffersInv, Start PROVE OffersInv'  OBVIOUS
  <1>1. OffersTypes  BY DEF OffersInv
  <1>2. PICK rel \in {release, "today"} :
            /\ row' = IF StaleFilters(rel) THEN WithFilters(FreshRow(rel), rel, draft.content, hidden)
                                           ELSE FreshRow(rel)
            /\ recorded' = IF StaleFormats(rel) \/ StaleFilters(rel)
                           THEN WritePublished(recorded, rel, hidden) ELSE recorded
            /\ release' = rel
    BY DEF Start, FreshRow
  <1>3. work' = [work EXCEPT !.asleep = work.deleted] /\ UNCHANGED <<draft, versions, hidden>>
    BY DEF Start
  <1>4. rel \in Releases  BY <1>1 DEF OffersTypes, Releases
  <1>5. work' \in [type : WorkTypes, deleted : BOOLEAN, asleep : BOOLEAN]
            /\ work'.type = work.type
        /\ (work'.asleep <=> work.deleted)
    BY <1>1, <1>3 DEF OffersTypes
  <1>6. draft.content \in Contents(work.type)  BY <1>1 DEF OffersTypes, Drafts
  <1>7. /\ FreshRow(rel) \in Rows(work.type)
        /\ FreshRow(rel).facets = row.facets /\ FreshRow(rel).facetStamp = row.facetStamp
        /\ StaleFormats(rel) => FreshRow(rel).export = OffersOf(rel, work.type, draft)
               /\ FreshRow(rel).stamp = rel
        /\ ~StaleFormats(rel) => FreshRow(rel) = row
    BY <1>1, <1>4, FreshRowIs
  <1>8. /\ row' \in Rows(work.type)
        /\ row'.export = FreshRow(rel).export /\ row'.stamp = FreshRow(rel).stamp
        /\ StaleFilters(rel) => row'.facets = Counts(rel, draft.content, hidden)
               /\ row'.facetStamp = rel
        /\ ~StaleFilters(rel) => row'.facets = row.facets /\ row'.facetStamp = row.facetStamp
    <2>1. CASE StaleFilters(rel)  BY <1>2, <1>4, <1>6, <1>7, <2>1, FiltersType
    <2>2. CASE ~StaleFilters(rel)  BY <1>2, <1>7, <2>2
    <2>. QED  BY <2>1, <2>2
  <1>9. recorded' \in Seq(Rows(work.type)) /\ Len(recorded') = Len(versions)
    BY <1>1, <1>2, <1>4, PublishedRowsType DEF OffersTypes
  <1>10. OffersTypes'  BY <1>1, <1>2, <1>3, <1>4, <1>5, <1>8, <1>9 DEF OffersTypes
  <1>11. LastVersion' = LastVersion /\ (Published' <=> Published)
    BY <1>3 DEF LastVersion, Published
  <1>12. row.stamp \in Releases /\ row.facetStamp \in Releases  BY <1>1 DEF OffersTypes, Rows
  <1>13. Kept(row, draft)
    BY DEF OffersInv
  <1>14. ~work'.asleep => row'.stamp = rel /\ row'.facetStamp = rel
    BY <1>5, <1>7, <1>8 DEF StaleFormats, StaleFilters, CapabilityStamp, FacetStamp
  (* A stamp of the release that starts was there, or was written just now. *)
  <1>17. rel = release \/ (release = "earlier" /\ rel = "today" /\ row.stamp = "earlier"
             /\ row.facetStamp = "earlier")
    BY <1>1, <1>2, <1>13 DEF OffersTypes, Releases, Kept
  <1>15. Kept(row, draft)'
    <2>1. row'.stamp = rel => row'.export = OffersOf(rel, work.type, draft)
      BY <1>7, <1>8, <1>13, <1>17 DEF Kept, Truthful, CapabilityStamp
    <2>2. row'.facetStamp = rel => row'.facets = Counts(rel, draft.content, hidden)
      BY <1>8, <1>13, <1>17 DEF Kept, Truthful, FacetStamp
    <2>3. rel = "earlier" => row'.stamp = "earlier" /\ row'.facetStamp = "earlier"
      BY <1>7, <1>8, <1>13, <1>17 DEF Kept
    <2>. QED
      BY <1>2, <1>3, <1>5, <2>1, <2>2, <2>3 DEF Kept, Truthful, CapabilityStamp, FacetStamp
  <1>16. ASSUME Published
         PROVE  /\ Kept(recorded[LastVersion], versions[LastVersion])'
                /\ (recorded[LastVersion].stamp = row.stamp
                       /\ recorded[LastVersion].facetStamp = row.facetStamp)'
    <2>1. CASE StaleFormats(rel) \/ StaleFilters(rel)
      <3>1. recorded'[LastVersion] = Summary(rel, work.type, versions[LastVersion], hidden)
        BY <1>1, <1>2, <1>4, <1>16, <2>1, PublishedRowsType
      <3>2. ~work'.asleep  BY <1>5, <2>1 DEF StaleFormats, StaleFilters
      <3>3. row'.stamp = rel /\ row'.facetStamp = rel  BY <1>14, <3>2
      <3>4. /\ recorded'[LastVersion].export = OffersOf(rel, work.type, versions[LastVersion]) /\ recorded'[LastVersion].stamp = rel
            /\ recorded'[LastVersion].facets = Counts(rel, versions[LastVersion].content, hidden) /\ recorded'[LastVersion].facetStamp = rel
        BY <3>1 DEF Summary, CapabilityStamp, FacetStamp
      <3>. QED
        BY <1>2, <1>3, <1>5, <1>11, <3>3, <3>4 DEF Kept, Truthful, CapabilityStamp, FacetStamp
    <2>2. CASE ~StaleFormats(rel) /\ ~StaleFilters(rel)
      <3>1. recorded' = recorded /\ row'.stamp = row.stamp /\ row'.facetStamp = row.facetStamp
        BY <1>2, <1>7, <1>8, <2>2
      <3>2. Kept(recorded[LastVersion], versions[LastVersion])
                /\ recorded[LastVersion].stamp = row.stamp
            /\ recorded[LastVersion].facetStamp = row.facetStamp
        BY <1>16 DEF OffersInv
      <3>3. /\ recorded[LastVersion].stamp = rel
                   => recorded[LastVersion].export = OffersOf(rel, work.type, versions[LastVersion])
            /\ recorded[LastVersion].facetStamp = rel
                   => recorded[LastVersion].facets = Counts(rel, versions[LastVersion].content, hidden)
            /\ rel = "earlier" => recorded[LastVersion].stamp = "earlier"
                   /\ recorded[LastVersion].facetStamp = "earlier"
        BY <1>17, <3>2 DEF Kept, Truthful, CapabilityStamp, FacetStamp
      <3>. QED
        BY <1>2, <1>3, <1>5, <1>11, <3>1, <3>2, <3>3
           DEF Kept, Truthful, CapabilityStamp, FacetStamp
    <2>. QED  BY <2>1, <2>2
  <1>. QED
    BY <1>2, <1>3, <1>10, <1>11, <1>14, <1>15, <1>16
       DEF OffersInv, UpToDate, CapabilityStamp, FacetStamp

LEMMA OffersInvariant == OffersSpec => []OffersInv
  <1>1. ASSUME OffersInv, [OffersNext]_offersVars PROVE OffersInv'
    <2>1. CASE OffersNext
      BY <1>1, <2>1, EditKeepsOffers, ArrangementKeepsOffers, PublishKeepsOffers,
         DeletingKeepsOffers,
         StartKeepsOffers
      DEF OffersNext
    <2>2. CASE UNCHANGED offersVars
      BY <1>1, <2>2 DEF offersVars, OffersInv, OffersTypes, Kept, Truthful, UpToDate,
         LastVersion, Published
    <2>. QED  BY <1>1, <2>1, <2>2
  <1>. QED  BY <1>1, OffersBegin, PTL DEF OffersSpec

(* What a page says of the formats is what a download accepts now.         *)
THEOREM OffersAreOfToday == OffersSpec => []OffersAreToday
  <1>1. OffersInv => OffersAreToday
    BY DEF OffersInv, OffersAreToday, Kept, UpToDate
  <1>. QED  BY <1>1, OffersInvariant, PTL

-----------------------------------------------------------------------------
Known == {<<"chara_card_v2", "character">>, <<"chara_card_v3", "character">>, <<"charx", "character">>,
   <<"lorebook", "lorebook">>, <<"lorebook_sillytavern", "lorebook">>, <<"preset_lumiverse", "preset">>,
   <<"preset_sillytavern", "preset">>, <<"theme_lumiverse", "theme">>, <<"theme_sillytavern", "theme">>,
   <<"pack_lumiverse", "pack">>, <<"extension_spindle", "extension">>, <<"extension_sillytavern", "extension">>}

LEMMA CardDeclared ==
  ASSUME NEW id \in Cards
  PROVE  /\ CardModule(id).id = id /\ CardModule(id).type = "character"
         /\ CardModule(id).roles = CardRoles(id) /\ CardModule(id).keepsUpload = FALSE
BY DEF CardModule, Module

LEMMA OthersDeclared ==
  /\ Lorebook.id = "lorebook" /\ Lorebook.type = "lorebook"
  /\ SillyTavernLorebook.id = "lorebook_sillytavern" /\ SillyTavernLorebook.type = "lorebook"
  /\ LumiversePreset.id = "preset_lumiverse" /\ LumiversePreset.type = "preset"
  /\ SillyTavernPreset.id = "preset_sillytavern" /\ SillyTavernPreset.type = "preset"
  /\ LumiverseTheme.id = "theme_lumiverse" /\ LumiverseTheme.type = "theme"
  /\ SillyTavernTheme.id = "theme_sillytavern" /\ SillyTavernTheme.type = "theme"
  /\ Pack.id = "pack_lumiverse" /\ Pack.type = "pack"
  /\ Spindle.id = "extension_spindle" /\ Spindle.type = "extension"
  /\ SillyTavernExtension.id = "extension_sillytavern"
         /\ SillyTavernExtension.type = "extension"
<1>1. Lorebook.id = "lorebook" /\ Lorebook.type = "lorebook"
  BY DEF Lorebook, Module
<1>2. SillyTavernLorebook.id = "lorebook_sillytavern" /\ SillyTavernLorebook.type = "lorebook"
  BY DEF SillyTavernLorebook, Module
<1>3. LumiversePreset.id = "preset_lumiverse" /\ LumiversePreset.type = "preset"
  BY DEF LumiversePreset, Module
<1>4. SillyTavernPreset.id = "preset_sillytavern" /\ SillyTavernPreset.type = "preset"
  BY DEF SillyTavernPreset, Module
<1>5. LumiverseTheme.id = "theme_lumiverse" /\ LumiverseTheme.type = "theme"
  BY DEF LumiverseTheme, Module
<1>6. SillyTavernTheme.id = "theme_sillytavern" /\ SillyTavernTheme.type = "theme"
  BY DEF SillyTavernTheme, Module
<1>7. Pack.id = "pack_lumiverse" /\ Pack.type = "pack"
  BY DEF Pack, Module
<1>8. Spindle.id = "extension_spindle" /\ Spindle.type = "extension"
  BY DEF Spindle, Module
<1>9. SillyTavernExtension.id = "extension_sillytavern"
          /\ SillyTavernExtension.type = "extension"
  BY DEF SillyTavernExtension, Module
<1> QED BY <1>1, <1>2, <1>3, <1>4, <1>5, <1>6, <1>7, <1>8, <1>9

LEMMA DeclaredTypes == \A d \in Declarations : <<d.id, d.type>> \in Known
BY CardDeclared, OthersDeclared DEF Declarations, Known, Cards

LEMMA DeclarationOf ==
  ASSUME NEW id \in IDs
  PROVE Declaration(id) \in Declarations /\ Declaration(id).id = id
BY DEF IDs, Declaration

LEMMA CardDeclaration ==
  ASSUME NEW id \in Cards
  PROVE  id \in IDs /\ Declaration(id) = CardModule(id)
<1>1. CardModule(id) \in Declarations /\ CardModule(id).id = id
  BY CardDeclared DEF Declarations
<1>2. ASSUME NEW d \in Declarations, d.id = id PROVE d = CardModule(id)
  <2>1. CASE d \in {CardModule(c) : c \in Cards}
    BY <1>2, <2>1, CardDeclared
  <2>2. CASE d \notin {CardModule(c) : c \in Cards}
    BY <1>2, <2>2, OthersDeclared DEF Declarations, Cards
  <2> QED BY <2>1, <2>2
<1> QED BY <1>1, <1>2 DEF IDs, Declaration

LEMMA OneFormatOfAType ==
  ASSUME NEW app \in Apps, NEW i \in IDs \cap Reads(app), NEW j \in IDs \cap Reads(app),
         Declaration(i).type = Declaration(j).type, Declaration(i).type # "character"
  PROVE  i = j
<1>1. <<i, Declaration(i).type>> \in Known /\ <<j, Declaration(j).type>> \in Known
  BY DeclaredTypes, DeclarationOf
<1> QED BY <1>1 DEF Known, Apps, Reads
LEMMA CardsOfAType ==
  ASSUME NEW i \in IDs, Declaration(i).type = "character"
  PROVE  i \in Cards
<1>1. <<i, Declaration(i).type>> \in Known
  BY DeclaredTypes, DeclarationOf
<1> QED BY <1>1 DEF Known, Cards

LEMMA CarriedRole ==
    ASSUME NEW id \in Cards, NEW r \in RolesOf("character"), NEW traits \in SUBSET TraitsOf(r), traits # {},
           NEW app \in Apps
    PROVE  Reaches(Loss(CardRoles(id)[r], traits), app) <=>
              /\ (IF r \in {"gallery", "expressions"} THEN CardPictures(id, traits) ELSE CardFields(id, r, traits)) = traits
              /\ ~(id = "chara_card_v3" /\ r \in {"gallery", "expressions"} /\ app # "risu")
  <1>. DEFINE s == CardRoles(id)[r]
  <1>1. r \in {"description", "greetings", "example_dialogue", "group_greetings", "expressions", "lorebook_entries",
               "gallery", "creator_notes"}
    BY DEF RolesOf, Definitions, Shared
  <1>2. \A t : (Reaches(Loss(t, traits), app) <=>
            /\ ~(t.grade = "none" \/ (t.needs # {} /\ t.needs \cap traits = {}))
            /\ ~(t.grade = "partial" /\ t.loses \cap traits # {})
            /\ app \in t.shownBy)
    BY DEF Reaches, Lossy, Loss, Verdict
  <1>3. CASE r = "greetings"
    <2>1. s = Partial({"named"})  BY <1>3 DEF CardRoles
    <2>. QED  BY <1>2, <1>3, <2>1 DEF Partial, Support, CardFields
  <1>4. CASE r = "example_dialogue"
    <2>1. s = Partial({"multiline"})  BY <1>4 DEF CardRoles
    <2>. QED  BY <1>2, <1>4, <2>1 DEF Partial, Support, CardFields
  <1>5. CASE r = "group_greetings"
    <2>1. s = IF id = "chara_card_v2" THEN None ELSE Full  BY <1>5 DEF CardRoles
    <2>. QED  BY <1>2, <1>5, <2>1 DEF None, Full, Support, CardFields
  <1>6. CASE r = "gallery"
    <2>1. s = PictureSupport(id, Full)  BY <1>6 DEF CardRoles
    <2>2. "unnamed" \notin traits  BY <1>6 DEF TraitsOf
    <2>. QED
      BY <1>2, <1>6, <2>1, <2>2 DEF PictureSupport, ShownBy, None, Full, Support,
         CardPictures, Cards
  <1>7. CASE r = "expressions"
    <2>1. s = PictureSupport(id, Partial({"unnamed"}))  BY <1>7 DEF CardRoles
    <2>. QED
      BY <1>2, <1>7, <2>1 DEF PictureSupport, ShownBy, None, Partial, Support, CardPictures,
         Cards
  <1>8. CASE r \in {"description", "lorebook_entries", "creator_notes"}
    <2>1. s = Full  BY <1>8 DEF CardRoles
    <2>. QED  BY <1>2, <1>8, <2>1 DEF Full, Support, CardFields
  <1>. QED  BY <1>1, <1>3, <1>4, <1>5, <1>6, <1>7, <1>8

LEMMA WhatArrives ==
    ASSUME NEW id \in Cards, NEW content \in Contents("character"), NEW app \in Apps
    PROVE  LossesFor(Offered(Declaration(id), content), app) =
              Cardinality(WrittenRoles(content) \ ArrivesIn(id, content, app))
  <1>. DEFINE d == Declaration(id)
              report == LossReport(d, content)
              W == WrittenRoles(content)
  <1>1. d = CardModule(id) /\ d.roles = CardRoles(id) /\ d.keepsUpload = FALSE
    <2>1. d = CardModule(id)  BY CardDeclaration
    <2>. HIDE DEF d
    <2>. QED  BY <2>1, CardDeclared
  <1>2. report = [r \in W |-> Loss(Write(d, r), content[r])]
    BY <1>1 DEF LossReport
  <1>3. W \subseteq RolesOf("character") /\ \A r \in W : content[r] # {}
            /\ content[r] \subseteq TraitsOf(r)
    BY DEF WrittenRoles, Contents
  <1>4. DOMAIN CardRoles(id) = RolesOf("character")  BY DEF CardRoles
  <1>5. \A r \in W : report[r] = Loss(CardRoles(id)[r], content[r])
    BY <1>1, <1>2, <1>3, <1>4 DEF Write
  <1>6. DOMAIN report = W  BY <1>2
  <1>7. WrittenFile(id, content) = WriteCard(id, content)  BY DEF WrittenFile, Cards
  <1>8. \A r \in W : WrittenFile(id, content)[r] =
            IF r \in {"gallery", "expressions"} THEN CardPictures(id, content[r]) ELSE CardFields(id, r, content[r])
    BY <1>3, <1>7 DEF WriteCard, WrittenRoles
  <1>. HIDE DEF d, report, W
  <1>9. \A r \in W : Reaches(report[r], app) <=> r \in ArrivesIn(id, content, app)
    BY <1>3, <1>5, <1>8, CarriedRole DEF ArrivesIn, W
  <1>10. {r \in DOMAIN report : ~Reaches(report[r], app)} = W \ ArrivesIn(id, content, app)
    BY <1>6, <1>9
  <1>. QED  BY <1>10 DEF LossesFor, Offered, report, d, W

LEMMA CardRolesAreFew == IsFiniteSet(RolesOf("character"))
  <1>1. RolesOf("character") =
            {"description", "greetings", "example_dialogue", "group_greetings"}
            \cup {"expressions", "lorebook_entries", "gallery", "creator_notes"}
    BY DEF RolesOf, Definitions, Shared
  <1>2. \A p, q, r, s : IsFiniteSet({p, q, r, s})
    <2>1. ASSUME NEW p, NEW q, NEW r, NEW s PROVE IsFiniteSet({p, q, r, s})
      <3>1. IsFiniteSet({p})  BY FS_Singleton
      <3>2. IsFiniteSet({p} \cup {q})  BY <3>1, FS_AddElement
      <3>3. IsFiniteSet(({p} \cup {q}) \cup {r})  BY <3>2, FS_AddElement
      <3>4. IsFiniteSet((({p} \cup {q}) \cup {r}) \cup {s})  BY <3>3, FS_AddElement
      <3>5. {p, q, r, s} = (({p} \cup {q}) \cup {r}) \cup {s}  OBVIOUS
      <3>. QED  BY <3>4, <3>5
    <2>. QED  BY <2>1
  <1>3. /\ IsFiniteSet({"description", "greetings", "example_dialogue", "group_greetings"})
        /\ IsFiniteSet({"expressions", "lorebook_entries", "gallery", "creator_notes"})
    BY <1>2
  <1>. QED  BY <1>1, <1>3, FS_Union

Decisive(x1, y1, x2, y2, x3, y3, x4, y4) ==
    x1 > y1 \/ (x1 = y1 /\ (x2 > y2 \/ (x2 = y2 /\ (x3 > y3 \/ (x3 = y3 /\ x4 > y4)))))

LEMMA DecidesByFour ==
    ASSUME NEW x1, NEW y1, NEW x2, NEW y2, NEW x3, NEW y3, NEW x4, NEW y4
    PROVE  Decides(<< <<x1, y1>>, <<x2, y2>>, <<x3, y3>>, <<x4, y4>> >>)
              <=> Decisive(x1, y1, x2, y2, x3, y3, x4, y4)
  <1>. DEFINE c == << <<x1, y1>>, <<x2, y2>>, <<x3, y3>>, <<x4, y4>> >>
  <1>1. DOMAIN c = 1 .. 4  OBVIOUS
  <1>2. /\ c[1][1] = x1 /\ c[1][2] = y1 /\ c[2][1] = x2 /\ c[2][2] = y2
        /\ c[3][1] = x3 /\ c[3][2] = y3 /\ c[4][1] = x4 /\ c[4][2] = y4
    OBVIOUS
  <1>3. Decides(c) <=> \E i \in 1 .. 4 : c[i][1] > c[i][2]
            /\ \A j \in 1 .. i - 1 : c[j][1] = c[j][2]
    BY <1>1 DEF Decides
  <1>. HIDE DEF c
  <1>4. \A i : i \in 1 .. 4 <=> (i = 1 \/ i = 2 \/ i = 3 \/ i = 4)  OBVIOUS
  <1>5. /\ \A j : j \in 1 .. 1 - 1 <=> FALSE
        /\ \A j : j \in 1 .. 2 - 1 <=> j = 1
        /\ \A j : j \in 1 .. 3 - 1 <=> (j = 1 \/ j = 2)
        /\ \A j : j \in 1 .. 4 - 1 <=> (j = 1 \/ j = 2 \/ j = 3)
    OBVIOUS
  <1>6. Decides(c) <=>
            \/ c[1][1] > c[1][2]
            \/ c[2][1] > c[2][2] /\ c[1][1] = c[1][2]
            \/ c[3][1] > c[3][2] /\ c[1][1] = c[1][2] /\ c[2][1] = c[2][2]
            \/ c[4][1] > c[4][2] /\ c[1][1] = c[1][2] /\ c[2][1] = c[2][2] /\ c[3][1] = c[3][2]
    BY <1>3, <1>4, <1>5
  <1>7. Decides(c) <=> Decisive(x1, y1, x2, y2, x3, y3, x4, y4)
    BY <1>2, <1>6 DEF Decisive
  <1>. QED  BY <1>7 DEF c

\* What decides between two formats for an app, as numbers.
Score(id, content, app) ==
    << LossesFor(Offered(Declaration(id), content), app), Notes(Offered(Declaration(id), content)),
       WritableRoles(id), Place(id) >>
Wins(s, t) == Decisive(t[1], s[1], t[2], s[2], s[3], t[3], t[4], s[4])

LEMMA ScoresAreNumbers ==
    ASSUME NEW id \in Cards, NEW content \in Contents("character"), NEW app \in Apps
    PROVE  Score(id, content, app) \in Nat \X Nat \X Nat \X Nat
  <1>1. IsFiniteSet(RolesOf("character"))  BY CardRolesAreFew
  <1>2. \A S \in SUBSET RolesOf("character") : Cardinality(S) \in Nat
    BY <1>1, FS_Subset, FS_CardinalityType
  <1>. DEFINE report == LossReport(Declaration(id), content)
  <1>3. Declaration(id).roles = CardRoles(id) /\ Declaration(id).keepsUpload = FALSE
    <2>1. Declaration(id) = CardModule(id)  BY CardDeclaration
    <2>. QED  BY <2>1, CardDeclared
  <1>4. DOMAIN report = WrittenRoles(content)
            /\ WrittenRoles(content) \in SUBSET RolesOf("character")
    BY <1>3 DEF LossReport, WrittenRoles, Contents
  <1>5. Offered(Declaration(id), content).roles = report  BY DEF Offered
  <1>. HIDE DEF report
  <1>6. LossesFor(Offered(Declaration(id), content), app) \in Nat
    <2>1. {r \in DOMAIN report : ~Reaches(report[r], app)} \in SUBSET RolesOf("character")
      BY <1>4
    <2>. QED  BY <1>2, <1>5, <2>1 DEF LossesFor
  <1>7. Notes(Offered(Declaration(id), content)) \in Nat
    <2>1. {r \in DOMAIN report : ~Lossy(report[r])
              /\ report[r].shownBy # Apps} \in SUBSET RolesOf("character")
      BY <1>4
    <2>. QED  BY <1>2, <1>5, <2>1 DEF Notes
  <1>8. WritableRoles(id) \in Nat
    <2>1. DOMAIN CardRoles(id) = RolesOf("character")  BY DEF CardRoles
    <2>2. {r \in DOMAIN CardRoles(id) : CardRoles(id)[r].grade # "none"} \in SUBSET RolesOf("character")
      BY <2>1
    <2>. QED  BY <1>2, <1>3, <2>2 DEF WritableRoles
  <1>9. Place(id) \in Nat
    <2>1. \E i \in DOMAIN Named : Named[i] = id  BY DEF Named, Cards
    <2>2. Place(id) \in DOMAIN Named  BY <2>1 DEF Place
    <2>. QED  BY <2>2 DEF Named
  <1>. QED  BY <1>6, <1>7, <1>8, <1>9 DEF Score

LEMMA PlacesDiffer ==
    ASSUME NEW i \in Cards, NEW j \in Cards, i # j PROVE Place(i) # Place(j)
  <1>1. \A id \in Cards : Named[Place(id)] = id
    <2>1. \A id \in Cards : \E n \in DOMAIN Named : Named[n] = id  BY DEF Named, Cards
    <2>. QED  BY <2>1 DEF Place
  <1>. QED  BY <1>1

LEMMA LandsBetterIs ==
    ASSUME NEW i \in Cards, NEW j \in Cards, NEW content, NEW app
    PROVE  LandsBetter(Offered(Declaration(i), content), Offered(Declaration(j), content), app)
              <=> Wins(Score(i, content, app), Score(j, content, app))
  <1>1. Declaration(i).id = i /\ Declaration(j).id = j
    BY CardDeclaration, CardDeclared
  <1>2. Offered(Declaration(i), content).format = i
            /\ Offered(Declaration(j), content).format = j
    BY <1>1 DEF Offered
  <1>. QED  BY <1>2, DecidesByFour DEF LandsBetter, Wins, Score

(* Of some scores that all differ in the last number one wins.              *)
Scored(S, three, score) ==
    /\ S # {} /\ S \subseteq three
    /\ \A x \in three : score[x] \in Nat \X Nat \X Nat \X Nat
    /\ \A x, y \in three : x # y => score[x][4] # score[y][4]
HasWinner(S, score) == \E x \in S : \A y \in S \ {x} : Wins(score[x], score[y])
LEMMA OneWins ==
    ASSUME NEW S, NEW p, NEW q, NEW r, NEW score, Scored(S, {p, q, r}, score)
    PROVE  HasWinner(S, score)
  <1>1. \A x, y \in {p, q, r} : x # y => Wins(score[x], score[y]) \/ Wins(score[y], score[x])
    BY DEF Scored, Wins, Decisive
  <1>2. \A x, y, z \in {p, q, r} :
            Wins(score[x], score[y]) /\ Wins(score[y], score[z]) => Wins(score[x], score[z])
    BY DEF Scored, Wins, Decisive
  <1>. QED  BY <1>1, <1>2 DEF Scored, HasWinner

\* The best of the offers that an app reads, and what an offer brings to it.
Best(F, app) == CHOOSE x \in F : \A y \in F \ {x} : LandsBetter(x, y, app)
BringsMore(o, p, content, app) ==
    /\ ArrivesIn(p.format, content, app) \subseteq ArrivesIn(o.format, content, app)
    /\ ArrivesIn(p.format, content, app) # ArrivesIn(o.format, content, app)

LEMMA CardOffers ==
    ASSUME NEW content \in Contents("character"), NEW app \in Apps,
           NEW F \in SUBSET {Offered(Declaration(id), content) : id \in Cards}, NEW o \in F
    PROVE  ~BringsMore(o, Best(F, app), content, app)
  <1>. DEFINE best == Best(F, app)
              S == {id \in Cards : Offered(Declaration(id), content) \in F}
              score == [id \in Cards |-> Score(id, content, app)]
              W == WrittenRoles(content)
  <1>1. \A id \in Cards : Offered(Declaration(id), content).format = id
    <2>1. \A id \in Cards : Declaration(id).id = id  BY CardDeclaration, CardDeclared
    <2>. QED  BY <2>1 DEF Offered
  <1>2. S # {}  OBVIOUS
  <1>3. PICK x \in S : \A y \in S \ {x} : Wins(score[x], score[y])
    <2>1. Cards = {"chara_card_v2", "chara_card_v3", "charx"}  BY DEF Cards
    <2>2. \A id \in Cards : score[id] \in Nat \X Nat \X Nat \X Nat  BY ScoresAreNumbers
    <2>3. \A id \in Cards : score[id][4] = Place(id)  BY DEF Score
    <2>4. \A i, j \in Cards : i # j => score[i][4] # score[j][4]  BY <2>3, PlacesDiffer
    <2>5. S \subseteq Cards  OBVIOUS
    <2>. HIDE DEF S, score
    <2>6. PICK p, q, r : Cards = {p, q, r}  BY <2>1
    <2>7. Scored(S, {p, q, r}, score)  BY <1>2, <2>2, <2>4, <2>5, <2>6 DEF Scored
    <2>8. HasWinner(S, score)  BY <2>7, OneWins
    <2>. QED  BY <2>8 DEF HasWinner
  <1>4. ASSUME NEW y \in F \ {Offered(Declaration(x), content)}
        PROVE  LandsBetter(Offered(Declaration(x), content), y, app)
    <2>1. PICK j \in Cards : y = Offered(Declaration(j), content)  BY <1>4
    <2>2. j \in S /\ j # x  BY <1>4, <2>1
    <2>3. Wins(Score(x, content, app), Score(j, content, app))  BY <1>3, <2>2
    <2>. QED  BY <2>1, <2>3, LandsBetterIs
  <1>5. best \in F /\ \A y \in F \ {best} : LandsBetter(best, y, app)
    BY <1>3, <1>4 DEF Best
  <1>. HIDE DEF best, S, score
  <1>6. PICK i \in Cards : best = Offered(Declaration(i), content)  BY <1>5
  <1>7. PICK j \in Cards : o = Offered(Declaration(j), content)  OBVIOUS
  <1>8. best.format = i /\ o.format = j  BY <1>1, <1>6, <1>7
  <1>9. SUFFICES ASSUME ArrivesIn(i, content, app) \subseteq ArrivesIn(j, content, app),
                        ArrivesIn(i, content, app) # ArrivesIn(j, content, app)
                 PROVE  FALSE
    BY <1>8 DEF best, BringsMore
  <1>10. Wins(Score(i, content, app), Score(j, content, app))
    <2>1. o \in F \ {best}  BY <1>6, <1>7, <1>8, <1>9
    <2>. QED  BY <1>5, <1>6, <1>7, <2>1, LandsBetterIs
  (* The format that brings more loses less, and losses decide first.       *)
  <1>11. Cardinality(W \ ArrivesIn(j, content, app)) < Cardinality(W \ ArrivesIn(i, content, app))
    <2>1. IsFiniteSet(W)
      <3>1. W \subseteq RolesOf("character")  BY DEF WrittenRoles, Contents
      <3>. QED  BY <3>1, CardRolesAreFew, FS_Subset
    <2>2. ArrivesIn(i, content, app) \subseteq W /\ ArrivesIn(j, content, app) \subseteq W
      BY DEF ArrivesIn
    <2>. DEFINE A == W \ ArrivesIn(j, content, app)
                B == W \ ArrivesIn(i, content, app)
    <2>3. A \subseteq B /\ A # B
      BY <1>9, <2>2
    <2>4. IsFiniteSet(B)  BY <2>1, FS_Subset
    <2>. HIDE DEF A, B
    <2>5. IsFiniteSet(A) /\ Cardinality(A) <= Cardinality(B)
              /\ (Cardinality(A) = Cardinality(B) => A = B)
          /\ Cardinality(A) \in Nat /\ Cardinality(B) \in Nat
      BY <2>3, <2>4, FS_Subset, FS_CardinalityType
    <2>6. Cardinality(A) < Cardinality(B)  BY <2>3, <2>5
    <2>. QED  BY <2>6 DEF A, B
  <1>12. /\ Score(i, content, app)[1] = Cardinality(W \ ArrivesIn(i, content, app))
         /\ Score(j, content, app)[1] = Cardinality(W \ ArrivesIn(j, content, app))
    BY WhatArrives DEF Score
  <1>13. Score(i, content, app) \in Nat \X Nat \X Nat \X Nat
             /\ Score(j, content, app) \in Nat \X Nat \X Nat \X Nat
    BY ScoresAreNumbers
  <1>. QED  BY <1>10, <1>11, <1>12, <1>13 DEF Wins, Decisive

LEMMA MostForEachApp ==
    ASSUME work.type \in Types, draft.content \in Contents(work.type)
    PROVE  EachAppGetsTheMost
  <1>. SUFFICES ASSUME NEW app \in Apps, NEW o \in For(OffersOf("today", work.type, draft), app)
                PROVE  LET picked == AppFormat(For(OffersOf("today", work.type, draft), app), app).format
                       IN  ~(ArrivesIn(picked, draft.content, app) \subseteq ArrivesIn(o.format, draft.content, app)
                             /\ ArrivesIn(picked, draft.content, app) # ArrivesIn(o.format, draft.content, app))
    BY DEF EachAppGetsTheMost
  <1>. DEFINE F == For(OffersOf("today", work.type, draft), app)
              G == For(F, app)
  <1>1. G = F  BY DEF For
  <1>2. ASSUME NEW u \in F
        PROVE  \E id \in IDs \cap Reads(app) : u = Offered(Declaration(id), draft.content)
                                               /\ Declaration(id).type = work.type
    <2>1. PICK id \in IDs : u = Offered(ModuleOf("today", id), draft.content)
                            /\ ModuleOf("today", id).type = work.type
      BY <1>2 DEF For, OffersOf, OfferedFormats
    <2>2. ModuleOf("today", id) = Declaration(id)  BY DEF ModuleOf
    <2>3. u.format = id  BY <2>1, <2>2, DeclarationOf DEF Offered
    <2>. QED  BY <1>2, <2>1, <2>2, <2>3 DEF For
  <1>3. AppFormat(F, app) = CHOOSE x \in F : \A y \in F \ {x} : LandsBetter(x, y, app)
    BY <1>1 DEF AppFormat
  <1>4. CASE work.type = "character"
    <2>1. F \subseteq {Offered(Declaration(id), draft.content) : id \in Cards}
      BY <1>2, <1>4, CardsOfAType
    <2>2. draft.content \in Contents("character")  BY <1>4
    <2>. HIDE DEF F, G
    <2>3. o \in F  BY DEF F
    <2>4. ~BringsMore(o, Best(F, app), draft.content, app)  BY <2>1, <2>2, <2>3, CardOffers
    <2>5. AppFormat(F, app) = Best(F, app)  BY <1>3 DEF Best
    <2>. QED  BY <2>4, <2>5 DEF F, BringsMore
  <1>5. CASE work.type # "character"
    <2>1. \A u \in F : u = o
      BY <1>2, <1>5, OneFormatOfAType
    <2>2. F = {o}  BY <2>1
    <2>. HIDE DEF F, G
    <2>3. AppFormat(F, app) = o  BY <1>3, <2>2
    <2>. QED  BY <2>3 DEF F
  <1>. QED  BY <1>4, <1>5

(* The app is given the format that brings the most of the work to it.      *)
THEOREM MostIsGiven == OffersSpec => []EachAppGetsTheMost
  <1>1. OffersInv => EachAppGetsTheMost
    <2>. SUFFICES ASSUME OffersInv PROVE EachAppGetsTheMost  OBVIOUS
    <2>1. work.type \in Types /\ draft.content \in Contents(work.type)
      BY OffersAssumption DEF OffersInv, OffersTypes, Drafts
    <2>. QED  BY <2>1, MostForEachApp
  <1>. QED  BY <1>1, OffersInvariant, PTL

-----------------------------------------------------------------------------
Fields == {"id", "type", "roles", "tested", "keepsUpload"}

LEMMA DeclaredFields == \A d \in Declarations : Fields \subseteq DOMAIN d
<1>1. \A id \in Cards : Fields \subseteq DOMAIN CardModule(id)
  BY DEF Fields, CardModule, Module
<1>2. Fields \subseteq DOMAIN Lorebook
  BY DEF Fields, Lorebook, Module
<1>3. Fields \subseteq DOMAIN SillyTavernLorebook
  BY DEF Fields, SillyTavernLorebook, Module
<1>4. Fields \subseteq DOMAIN LumiversePreset
  BY DEF Fields, LumiversePreset, Module
<1>5. Fields \subseteq DOMAIN SillyTavernPreset
  BY DEF Fields, SillyTavernPreset, Module
<1>6. Fields \subseteq DOMAIN LumiverseTheme
  BY DEF Fields, LumiverseTheme, Module
<1>7. Fields \subseteq DOMAIN SillyTavernTheme
  BY DEF Fields, SillyTavernTheme, Module
<1>8. Fields \subseteq DOMAIN Pack
  BY DEF Fields, Pack, Module
<1>9. Fields \subseteq DOMAIN Spindle
  BY DEF Fields, Spindle, Module
<1>10. Fields \subseteq DOMAIN SillyTavernExtension
  BY DEF Fields, SillyTavernExtension, Module
<1> QED
  BY <1>1, <1>2, <1>3, <1>4, <1>5, <1>6, <1>7, <1>8, <1>9, <1>10 DEF Declarations

(* A new release may offer fewer roles of a format, but the formats offered *)
(* for a work are the same as long as what it must have can be written.     *)
LEMMA SameFormatsSurvive ==
  ASSUME NEW type \in Types, NEW id \in IDs, NEW content
  PROVE  LET d == Declaration(id)
             e == Earlier(d)
         IN  /\ e.type = d.type /\ e.tested = d.tested
             /\ Survives(e, type, content) <=> Survives(d, type, content)
<1> DEFINE d == Declaration(id)
           e == Earlier(d)
<1>1. d \in Declarations
  BY DEF Declaration, IDs
<1>2. {"id", "type", "roles", "tested", "keepsUpload"} \subseteq DOMAIN d
  BY <1>1, DeclaredFields DEF Fields
<1> HIDE DEF d
<1>3. /\ e.type = d.type /\ e.tested = d.tested /\ e.keepsUpload = d.keepsUpload
      /\ e.roles = [r \in DOMAIN d.roles |->
                      IF r \in {"gallery", "expressions"} THEN None ELSE d.roles[r]]
  BY <1>2 DEF Earlier
<1>4. RequiredRoles(type) \cap {"gallery", "expressions"} = {}
  BY DEF Types, Definitions, RequiredRoles
<1> HIDE DEF e
<1>5. \A r \in RequiredRoles(type) : Write(e, r) = Write(d, r)
  BY <1>3, <1>4 DEF Write
<1>6. ASSUME ~d.keepsUpload, NEW r \in WrittenRoles(content) \cap RequiredRoles(type)
      PROVE  LossReport(e, content)[r].verdict = LossReport(d, content)[r].verdict
  BY <1>3, <1>5, <1>6 DEF LossReport
<1>7. Survives(e, type, content) <=> Survives(d, type, content)
  BY <1>3, <1>6 DEF Survives
<1> QED  BY <1>3, <1>7 DEF d, e

LEMMA SomeFormatInEitherRelease ==
  ASSUME NEW type \in Types, NEW d, NEW rel \in Releases, NEW other \in Releases,
         OffersOf(rel, type, d) # {}
  PROVE  OffersOf(other, type, d) # {}
<1> DEFINE Fits(r, i) == LET m == ModuleOf(r, i)
                         IN  m.type = type /\ d.origin \in m.tested /\ Survives(m, type, d.content)
<1>1. \A r : OffersOf(r, type, d) # {} <=> \E i \in IDs : Fits(r, i)
  BY DEF OffersOf, OfferedFormats
<1>2. \A i \in IDs : Fits("earlier", i) <=> Fits("today", i)
  BY SameFormatsSurvive DEF ModuleOf
<1> HIDE DEF Fits
<1> QED  BY <1>1, <1>2 DEF Releases

VersionsAreOffered == \A n \in DOMAIN versions : OffersOf(release, work.type, versions[n]) # {}

(* Readers can always download what is published.                          *)
THEOREM PublishedIsOffered == OffersSpec => []PublishedCanBeDownloaded
<1>1. OffersInit => VersionsAreOffered
  BY DEF OffersInit, VersionsAreOffered
<1>2. ASSUME OffersInv, OffersInv', VersionsAreOffered, [OffersNext]_offersVars
      PROVE  VersionsAreOffered'
  <2>0. /\ work.type \in Types /\ release \in Releases /\ release' \in Releases
        /\ versions \in Seq(Drafts(work.type))
    BY <1>2, OffersAssumption DEF OffersInv, OffersTypes
  <2>1. CASE /\ versions' = versions /\ work'.type = work.type
    BY <1>2, <2>0, <2>1, SomeFormatInEitherRelease DEF VersionsAreOffered
  <2>2. CASE Publish
    <3>1. /\ versions' = Append(versions, draft) /\ UNCHANGED <<work, release>>
          /\ OffersOf(release, work.type, draft) # {}
      BY <2>2 DEF Publish, CandidateReadiness
    <3>2. DOMAIN versions' = DOMAIN versions \cup {Len(versions) + 1}
          /\ versions'[Len(versions) + 1] = draft
          /\ \A n \in DOMAIN versions : versions'[n] = versions[n]
      BY <2>0, <3>1
    <3> QED  BY <1>2, <3>1, <3>2 DEF VersionsAreOffered
  <2>3. CASE \/ SaveBlocks \/ ReplaceContent \/ RestoreVersion \/ SaveArrangement
             \/ DeleteWork \/ RestoreWork \/ Start \/ UNCHANGED offersVars
    <3>1. work \in [type : WorkTypes, deleted : BOOLEAN, asleep : BOOLEAN]
      BY <1>2 DEF OffersInv, OffersTypes
    <3>2. versions' = versions
      BY <2>3 DEF SaveBlocks, ReplaceContent, RestoreVersion, SaveArrangement, DeleteWork,
         RestoreWork, Start, offersVars
    <3>3. work'.type = work.type
      BY <2>3, <3>1 DEF SaveBlocks, ReplaceContent, RestoreVersion, SaveArrangement, DeleteWork,
         RestoreWork, Start, WriteSummary, offersVars
    <3> QED  BY <2>1, <3>2, <3>3
  <2> QED  BY <1>2, <2>2, <2>3 DEF OffersNext
<1>3. ASSUME OffersInv, VersionsAreOffered PROVE PublishedCanBeDownloaded
  <2>1. versions \in Seq(Drafts(work.type))
    BY <1>3 DEF OffersInv, OffersTypes
  <2>2. Published => Len(versions) \in DOMAIN versions
    BY <2>1 DEF Published
  <2> QED  BY <1>3, <2>2 DEF VersionsAreOffered, PublishedCanBeDownloaded, LastVersion
<1> QED  BY <1>1, <1>2, <1>3, OffersInvariant, PTL DEF OffersSpec
================================================================================
