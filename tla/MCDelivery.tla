------------------------------ MODULE MCDelivery ------------------------------
(***************************************************************************)
(* Posts to Discord and entries in inboxes.  The two share nothing, so a   *)
(* behaviour follows one of them while the other stays as it began; part   *)
(* says which.                                                             *)
(***************************************************************************)
EXTENDS Delivery, TLC

CONSTANTS a, b, w

VARIABLE part

CreatorOf == w :> a

ASSUME SettingsHold == DeliverySettings

notifyVars == <<events, queue, taken, inbox, follow, installed, fans, hiddenWorks, age,
                choices>>

all == <<part, vars, notifyVars>>

MCInit ==
    /\ part \in {"discord", "notify"}
    /\ Init /\ hook = (a :> "good" @@ b :> "unreadable")
    /\ Notify!Init

MCNext ==
    \/ part = "discord" /\ Next /\ UNCHANGED <<part, notifyVars>>
    \/ part = "notify" /\ Notify!Next /\ UNCHANGED <<part, vars>>

MCSpec == MCInit /\ [][MCNext]_all /\ Fairness /\ Notify!Fairness

\* Neither a queued post nor a recorded event waits for good.
NothingWaitsForGood == PostsSettle /\ Notify!EventsArrive
===============================================================================
