-------------------------- MODULE MCSourceShipping --------------------------
(* Two required files (1 and 4), an ordinary one (2), a secret (3) and an  *)
(* ignored one (5); 2 is untracked: git lists it as one of the others.       *)
EXTENDS SourceShipping

MCTrees ==
    {[f \in 1..5 |-> IF f \in {3, 5} THEN 1 ELSE choice[f]] :
        choice \in [{1, 2, 4} -> -2..2]}
=============================================================================
