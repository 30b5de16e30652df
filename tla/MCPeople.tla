------------------------------- MODULE MCPeople -------------------------------
(***************************************************************************)
(* Accounts, their public profiles and their connected apps.  The three    *)
(* share no state, so a behaviour follows one of them while the others     *)
(* stay as they began; part says which.                                    *)
(***************************************************************************)
EXTENDS People, TLC

CONSTANTS
    user1, user2, name1, name2, mail1, mail2, req1, req2,
    owner1, owner2, work1, work2, work3, app1, app2

VARIABLE part

ASSUME PeopleSettings

\* The other works belong to another account, whose profile nobody edits here.
OwnerOfEach == work1 :> owner1 @@ work2 :> owner2 @@ work3 :> owner2

profileVars == <<text, shown, media, featured, recommended, restricted, audits, browse,
                 edits, changes, profileReq>>

connectVars == <<ask, proof, tries, app, access, history, library, minted, call, held, said,
                 doubled, reused>>

all == <<part, vars, profileVars, connectVars>>

MCInit ==
    /\ part \in {"accounts", "profiles", "connections"}
    /\ Init /\ Profile!Init /\ Connect!Init

MCNext ==
    \/ part = "accounts" /\ Next /\ UNCHANGED <<part, profileVars, connectVars>>
    \/ part = "profiles" /\ Profile!Next /\ UNCHANGED <<part, vars, connectVars>>
    \/ part = "connections" /\ Connect!Next /\ UNCHANGED <<part, vars, profileVars>>

MCSpec == MCInit /\ [][MCNext]_all

\* Users, requests and calls, names and apps, addresses and the works of others
\* are alike.  The pairs of a set are swapped together: no part has two of them.
Alike == {{{user1, user2}}, {{req1, req2}}, {{name1, name2}, {app1, app2}},
          {{mail1, mail2}, {work2, work3}}}

Swap(pairs) ==
    [z \in UNION UNION Alike |->
        IF \E pair \in pairs : z \in pair
        THEN CHOOSE other \in UNION pairs : other # z /\ {z, other} \in pairs
        ELSE z]

Symmetry == {Swap(UNION swapped) : swapped \in SUBSET Alike}
==================================================
