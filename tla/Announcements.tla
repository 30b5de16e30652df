---------------------------- MODULE Announcements ----------------------------
(***************************************************************************)
(* Discord posts: api/internal/integration.                                *)
(*                                                                         *)
(* An owner (a creator, or the blog) connects a channel by a webhook       *)
(* address, which is kept sealed.  A publication queues a post in its own  *)
(* transaction.  A loop of the server leases the posts that are due by     *)
(* moving their due time on, sends each and settles it by its id alone.    *)
(* Two loops run while a new server takes over from an old one.  Discord   *)
(* may take a post and its answer be lost, and a loop may stop between     *)
(* sending and settling: a post may be shown twice, but not without cause. *)
(***************************************************************************)
EXTENDS Integers, Sequences, FiniteSets, SequencesExt

CONSTANTS
    Owners,     \* accounts with a channel, and the blog
    MaxPosts,   \* bound: posts ever queued
    Senders,    \* loops of RunAnnouncements, one for each server process
    NoOwner,    \* the owner of a post that is not in the table
    Idle,       \* a sender between two posts
    MaxTries,   \* maxTries
    LeaseTime,  \* lease, in ticks
    MaxTrouble  \* bound: lost answers, loops that stop, leases outlived, and
                \* connections and disconnections

VARIABLES
    hook,     \* discord_webhooks: has an owner one, and can it be unsealed
    post,     \* discord_posts
    ready,    \* the waiting posts that are due, the one due longest first
    sender,   \* what each loop holds in memory
    shown,    \* how often Discord shows each post
    excuse,   \* how often something went wrong that may show a post again
    queued,   \* how many posts have been queued; their ids are 1..queued
    trouble   \* what MaxTrouble bounds, so far

vars == <<hook, post, ready, sender, shown, excuse, queued, trouble>>

Posts == 1..MaxPosts

Post == [owner : Owners \cup {NoOwner}, tries : 0..(MaxTries + 1), due : Nat,
         sent : BOOLEAN, failed : BOOLEAN]

Held == [post : Posts, address : {"none", "good", "unreadable"},
         tries : 0..(MaxTries + 1), outcome : {"leased", "taken", "refused", "retry"}]

Settings ==
    /\ MaxTries \in Nat \ {0} /\ LeaseTime \in Nat \ {0}
    /\ MaxPosts \in Nat /\ MaxTrouble \in Nat
    /\ NoOwner \notin Owners /\ IsFiniteSet(Senders) /\ Idle \notin Held

NoPost == [owner |-> NoOwner, tries |-> 0, due |-> 0, sent |-> FALSE, failed |-> FALSE]

\* An address sealed under a key the server no longer has cannot be opened.
Init ==
    /\ hook \in [Owners -> {"good", "unreadable"}]
    /\ post = [p \in Posts |-> NoPost]
    /\ ready = <<>>
    /\ sender = [s \in Senders |-> Idle]
    /\ shown = [p \in Posts |-> 0]
    /\ excuse = [p \in Posts |-> 0]
    /\ queued = 0
    /\ trouble = 0

Exists(p) == post[p].owner # NoOwner

\* A loop has leased the post and not settled it.
InHands(p) == \E s \in Senders : sender[s] # Idle /\ sender[s].post = p

Waiting(p) == Exists(p) /\ ~ post[p].sent /\ ~ post[p].failed

Trouble == trouble < MaxTrouble /\ trouble' = trouble + 1

------------------------------------------------------------------------------
(* Owners and publications.                                                 *)

\* A new address replaces the sealed one in the same row.
Connect(o) ==
    /\ Trouble
    /\ hook' = [hook EXCEPT ![o] = "good"]
    /\ UNCHANGED <<post, ready, sender, shown, excuse, queued>>

\* The posts of a channel go with it (on delete cascade).
Disconnect(o) ==
    /\ Trouble
    /\ hook' = [hook EXCEPT ![o] = "none"]
    /\ post' = [p \in Posts |-> IF post[p].owner = o THEN NoPost ELSE post[p]]
    /\ ready' = SelectSeq(ready, LAMBDA p : post[p].owner # o)
    /\ UNCHANGED <<sender, shown, excuse, queued>>

\* Without a channel nothing is queued.
Queue(o) ==
    /\ hook[o] # "none"
    /\ queued < MaxPosts
    /\ queued' = queued + 1
    /\ post' = [post EXCEPT ![queued + 1] = [NoPost EXCEPT !.owner = o]]
    /\ ready' = Append(ready, queued + 1)
    /\ UNCHANGED <<hook, sender, shown, excuse, trouble>>

------------------------------------------------------------------------------
(* The loops.                                                               *)

Excused(p) == excuse' = [excuse EXCEPT ![p] = @ + 1]

\* The code only asks whether tries are below the limit.
OneMore(tries) == IF tries > MaxTries THEN tries ELSE tries + 1

\* The post that has been due longest.
IsNext(p) == Waiting(p) /\ post[p].due = 0 /\ ready # <<>> /\ Head(ready) = p

LeaseWithoutDueBug(s) ==
    /\ sender[s] = Idle
    /\ \E p \in Posts :
       LET tries == OneMore(post[p].tries) IN
       /\ IsNext(p)
       /\ post' = [post EXCEPT ![p].tries = tries]
       /\ sender' = [sender EXCEPT ![s] =
                       [post |-> p, address |-> hook[post[p].owner], tries |-> tries,
                        outcome |-> "leased"]]
    /\ UNCHANGED <<hook, ready, shown, excuse, queued, trouble>>

Lease(s) ==
    /\ sender[s] = Idle
    /\ \E p \in Posts :
       LET tries == OneMore(post[p].tries) IN
       /\ IsNext(p)
       /\ post' = [post EXCEPT ![p] = [post[p] EXCEPT !.tries = tries, !.due = LeaseTime]]
       /\ ready' = Tail(ready)
       /\ sender' = [sender EXCEPT ![s] =
                       [post |-> p, address |-> hook[post[p].owner], tries |-> tries,
                        outcome |-> "leased"]]
       \* whoever has it still has outlived its lease
       /\ IF InHands(p) THEN Trouble /\ Excused(p) ELSE UNCHANGED <<excuse, trouble>>
    /\ UNCHANGED <<hook, shown, queued>>

\* An address that cannot be unsealed ends the round; the row is left as it is.
OpenFails(s) ==
    /\ sender[s] # Idle
    /\ sender[s].outcome = "leased"
    /\ sender[s].address = "unreadable"
    /\ sender' = [sender EXCEPT ![s] = Idle]
    /\ UNCHANGED <<hook, post, ready, shown, excuse, queued, trouble>>

Answered(s, outcome) == sender' = [sender EXCEPT ![s].outcome = outcome]

\* Discord takes the post, refuses it, asks for another try or is not reached;
\* or takes it and the answer is lost.
Send(s) ==
    /\ sender[s] # Idle
    /\ sender[s].outcome = "leased"
    /\ sender[s].address = "good"
    /\ \/ /\ Answered(s, "taken")
          /\ shown' = [shown EXCEPT ![sender[s].post] = @ + 1]
          /\ UNCHANGED <<excuse, trouble>>
       \/ /\ \E outcome \in {"refused", "retry"} : Answered(s, outcome)
          /\ UNCHANGED <<shown, excuse, trouble>>
       \/ /\ Trouble
          /\ Excused(sender[s].post)
          /\ Answered(s, "retry")
          /\ shown' = [shown EXCEPT ![sender[s].post] = @ + 1]
    /\ UNCHANGED <<hook, post, ready, queued>>

\* 30 s and twice as long after each further try, which here is one tick.
Backoff == 1

SettleRetryForEverBug(s) ==
    /\ sender[s] # Idle
    /\ sender[s].outcome # "leased"
    /\ LET p == sender[s].post IN
       /\ post' = IF ~ Exists(p) THEN post
                  ELSE IF sender[s].outcome = "taken" THEN [post EXCEPT ![p].sent = TRUE]
                  ELSE IF sender[s].outcome = "retry" THEN [post EXCEPT ![p].due = Backoff]
                  ELSE [post EXCEPT ![p].failed = TRUE]
       /\ ready' = SelectSeq(ready, LAMBDA q : q # p)
    /\ sender' = [sender EXCEPT ![s] = Idle]
    /\ UNCHANGED <<hook, shown, excuse, queued, trouble>>

\* The row may be gone with its channel; whose lease it is under is not asked.
Settle(s) ==
    /\ sender[s] # Idle
    /\ sender[s].outcome # "leased"
    /\ LET p == sender[s].post
           again == sender[s].outcome = "retry" /\ sender[s].tries < MaxTries IN
       /\ post' = IF ~ Exists(p) THEN post
                  ELSE IF sender[s].outcome = "taken" THEN [post EXCEPT ![p].sent = TRUE]
                  ELSE IF again THEN [post EXCEPT ![p].due = Backoff]
                  ELSE [post EXCEPT ![p].failed = TRUE]
       /\ ready' = SelectSeq(ready, LAMBDA q : q # p)
    /\ sender' = [sender EXCEPT ![s] = Idle]
    /\ UNCHANGED <<hook, shown, excuse, queued, trouble>>

\* The process stops, or the statement that settles the post fails.
Stop(s) ==
    /\ sender[s] # Idle
    /\ Trouble
    /\ sender' = [sender EXCEPT ![s] = Idle]
    /\ IF sender[s].outcome = "taken" THEN Excused(sender[s].post) ELSE UNCHANGED excuse
    /\ UNCHANGED <<hook, post, ready, shown, queued>>

\* Posts whose time has come join those that are due, in any order.
Tick ==
    LET counting == {p \in Posts : Waiting(p) /\ post[p].due > 0}
        arriving == {p \in counting : post[p].due = 1} IN
    /\ counting # {}
    /\ post' = [p \in Posts |-> IF p \in counting THEN [post[p] EXCEPT !.due = @ - 1]
                                ELSE post[p]]
    /\ \E line \in SetToSeqs(arriving) : ready' = ready \o line
    /\ UNCHANGED <<hook, sender, shown, excuse, queued, trouble>>

Step(s) == Lease(s) \/ OpenFails(s) \/ Send(s) \/ Settle(s)

Next ==
    \/ \E o \in Owners : Connect(o) \/ Disconnect(o) \/ Queue(o)
    \/ \E s \in Senders : Lease(s) \/ OpenFails(s) \/ Send(s) \/ Settle(s) \/ Stop(s)
    \/ Tick

\* The loops run as long as the server does, and time passes.
Fairness == WF_vars(Tick) /\ \A s \in Senders : WF_vars(Step(s))

Spec == Init /\ [][Next]_vars /\ Fairness

------------------------------------------------------------------------------
TypeOK ==
    /\ hook \in [Owners -> {"none", "good", "unreadable"}]
    /\ post \in [Posts -> Post]
    /\ ready \in Seq(Posts)
    /\ sender \in [Senders -> Held \cup {Idle}]
    /\ shown \in [Posts -> Nat] /\ excuse \in [Posts -> Nat]
    /\ queued \in 0..MaxPosts /\ trouble \in 0..MaxTrouble

\* Discord shows a post once, and once more at most for each lost answer,
\* loop that stopped between sending and settling, and lease outlived.  When
\* nothing of the kind befell it, a post settled as failed was never shown.
RepeatsHaveACause ==
    \A p \in Posts :
        /\ shown[p] <= 1 + excuse[p]
        /\ post[p].failed /\ excuse[p] = 0 => shown[p] = 0
        /\ post[p].sent => shown[p] > 0

\* A queued post is sent or fails unless its channel goes, however often other
\* posts are tried again; a channel whose address cannot be opened holds up
\* its own posts and nobody else's.
PostsSettle ==
    \A p \in Posts :
        Waiting(p) ~> (~ Waiting(p) \/ hook[post[p].owner] = "unreadable")
==============================================================================
