---------------------------- MODULE MCEncServer ----------------------------
(* EncServer with interchangeable clients, in each of its environments. *)
EXTENDS EncServer, TLC

Symmetry == Permutations(Clients)

Calm == {{}}
All  == SUBSET {"crowd", "deaths"}

=============================================================================
