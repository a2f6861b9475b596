----------------------------- MODULE MCRaceProb -----------------------------
(* RaceProb with symmetric tasks for the runs that check safety. *)
EXTENDS RaceProb

Symmetry == Permutations(Tasks)

=============================================================================
