---------------------------- MODULE KernelParts -----------------------------
(***************************************************************************)
(* Four parts of core.c that share no variable, checked side by side: every *)
(* behaviour is one of one part, with the others at rest.                   *)
(***************************************************************************)
EXTENDS Admission, Completion, LoadAvg, CpuTime, TLC

CONSTANTS t1, c1, g0, g1, g2

VARIABLE part  \* the part that moves

allVars == <<part, vars, waitVars, loadVars, timeVars>>

PartsInit ==
    /\ part \in {"admission", "completion", "load", "time"}
    /\ Init /\ WaitInit /\ LoadInit /\ TimeInit

PartsNext ==
    \/ /\ part = "admission" /\ Next
       /\ UNCHANGED <<part, waitVars, loadVars, timeVars>>
    \/ /\ part = "completion" /\ WaitNext
       /\ UNCHANGED <<part, vars, loadVars, timeVars>>
    \/ /\ part = "load" /\ LoadNext
       /\ UNCHANGED <<part, vars, waitVars, timeVars>>
    \/ /\ part = "time" /\ TimeNext
       /\ UNCHANGED <<part, vars, waitVars, loadVars>>

PartsSpec == PartsInit /\ [][PartsNext]_allVars

-----------------------------------------------------------------------------
(* The instance *)

MCOwns == {<<c1, t1>>}
MCOver == (g1 :> g0) @@ (g2 :> g1)

\* The writers are interchangeable.
Symmetry == Permutations(Writers)

=============================================================================
