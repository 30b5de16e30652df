------------------------------- MODULE MCSends -------------------------------
(* Sends for TLC.                                                            *)
EXTENDS Sends, TLC

\* A behaviour has two sends to one app that does not change, or one send and
\* whatever apps there are.
Apart ==
    \/ Cardinality({s \in SendIds : send[s].state # "none"}) <= 1
    \/ /\ spent.changes = 0
       /\ \A r \in Requests : req[r].app = AnyApp
       /\ \A s \in SendIds : send[s].app = AnyApp

SendSymmetry == Permutations(SendIds) \cup Permutations(Requests)
==============================================================================
