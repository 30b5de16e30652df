----------------------------- MODULE OneShotJobs -----------------------------
(***************************************************************************)
(* What a queue of jobs promises to those who put jobs in it: a job once   *)
(* recorded is done exactly once, or is given up, or waits for somebody's  *)
(* review; and it does not stay open for good.  Nothing is said of leases, *)
(* attempts or workers.                                                    *)
(*                                                                         *)
(* UploadQueue implements it (UploadQueue!ImplementsJobs).                 *)
(***************************************************************************)
EXTENDS Naturals

CONSTANT Jobs

VARIABLES
    stage,   \* how far each job has come
    results  \* how often each job has been done

jobVars == <<stage, results>>

Unfinished == {"open", "review"}

Init ==
    /\ stage = [j \in Jobs |-> "unknown"]
    /\ results = [j \in Jobs |-> 0]

Submit(j) ==
    /\ stage[j] = "unknown"
    /\ stage' = [stage EXCEPT ![j] = "open"]
    /\ UNCHANGED results

Stage(j) ==
    /\ stage[j] = "open"
    /\ stage' = [stage EXCEPT ![j] = "review"]
    /\ UNCHANGED results

Finish(j) ==
    /\ stage[j] \in Unfinished
    /\ stage' = [stage EXCEPT ![j] = "done"]
    /\ results' = [results EXCEPT ![j] = @ + 1]

\* Several jobs may be given up at once.
GiveUp(S) ==
    /\ \A j \in S : stage[j] \in Unfinished
    /\ stage' = [j \in Jobs |-> IF j \in S THEN "dropped" ELSE stage[j]]
    /\ UNCHANGED results

Next ==
    \/ \E j \in Jobs : Submit(j) \/ Stage(j) \/ Finish(j)
    \/ \E S \in SUBSET Jobs : GiveUp(S)

Safe == Init /\ [][Next]_jobVars

Moves == \A j \in Jobs : stage[j] = "open" ~> stage[j] # "open"

Spec == Safe /\ Moves
==============================================================================
