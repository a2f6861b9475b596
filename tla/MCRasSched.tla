----------------------------- MODULE MCRasSched -----------------------------
(* RasSched with symmetric tasks for the runs that check safety. *)
EXTENDS RasSched

Symmetry == Permutations(Tasks)

=============================================================================
