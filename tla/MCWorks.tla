------------------------------- MODULE MCWorks -------------------------------
(***************************************************************************)
(* A work and the files that leave it.  A behaviour watches a tab, has an  *)
(* answer about a prompt or a file read, and not two of them.              *)
(***************************************************************************)
EXTENDS Downloads, TLC

CONSTANTS p, q

ASSUME WorksSettings == Settings

MCIdentity == (p :> "one" @@ q :> "one")

MCPermutations == Permutations({p, q})

Watched == tab # None

Answered == asked # None \/ answer # Unanswered

FileRead == sent # None \/ reads > 0

Apart == ~ (Watched /\ Answered) /\ ~ (Watched /\ FileRead) /\ ~ (Answered /\ FileRead)
===============================================================================
