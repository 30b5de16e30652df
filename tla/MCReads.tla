------------------------------- MODULE MCReads -------------------------------
(***************************************************************************)
(* A behaviour follows one of the things readers are given while the       *)
(* others stay as they began; part says which.                             *)
(***************************************************************************)
EXTENDS Reads, TLC

VARIABLE part

ASSUME ReadsSettings

pictureVars == <<carried, known, current, cover, gallery, recorded>>

sizeVars == <<picture, cache, space, slots, rendering, reader, asks>>

editionVars == <<post, uses, editions, media, waiting, saving, addresses, byline, shown>>

all == <<part, vars, pictureVars, sizeVars, editionVars>>

AnyDates == CHOOSE f \in [Works -> 1..Cardinality(Works)] : IsInjective(f)

\* The part that is not followed stays in one state.
MCInit ==
    /\ part \in {"list", "pictures", "sizes", "editions"}
    /\ Init /\ Picture!Init /\ Size!Init /\ Visible!Init
    /\ part # "list" => publishedAt = AnyDates /\ \A w \in Works : work[w] = Draft
    /\ part # "pictures" => carried

MCNext ==
    \/ part = "list" /\ Next /\ UNCHANGED <<part, pictureVars, sizeVars, editionVars>>
    \/ part = "pictures" /\ Picture!Next /\ UNCHANGED <<part, vars, sizeVars, editionVars>>
    \/ part = "sizes" /\ Size!Next /\ UNCHANGED <<part, vars, pictureVars, editionVars>>
    \/ part = "editions" /\ Visible!Next /\ UNCHANGED <<part, vars, pictureVars, sizeVars>>

MCSpec == MCInit /\ [][MCNext]_all

-----------------------------------------------------------------------------
Count(kind, w) == \E d \in Days : DayCount(totals, events, d, <<kind, w>>) > 0

Requested == \E d \in Days, q \in Requests : made[d] # 0 \/ request[q] # None

Asked ==
    {w \in Works :
        \/ Count("view", w) \/ Count("download", w)
        \/ \E q \in Requests : request[q] # None /\ request[q].counter[2] = w}

Walked == walk # None \/ \E w \in Works : work[w] # [Draft EXCEPT !.lifecycle = "published"]

\* A walk sees counts only through a ranking, and works are counted apart.  Behaviours
\* with requests leave the works alone and count one of them; in the others sends count.
Apart ==
    part = "list" /\ Requested =>
        /\ ~ Walked
        /\ Cardinality(Asked) <= 1
        /\ ~ \E w \in Works : Count("send", w)

Alike == Permutations(Works) \cup Permutations(Requests) \cup Permutations(Uploaded)
===============================================================================
