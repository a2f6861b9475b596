----------------------------- MODULE MCMemTrace -----------------------------
(***************************************************************************)
(* Tracing, with the callers of the test programs, and the page faults of  *)
(* the threads of a process, side by side: every behaviour is one of one   *)
(* of the two.                                                             *)
(***************************************************************************)
EXTENDS MemTrace, PageFault

VARIABLE part  \* the one that moves

\* syscall(361, getpid()): the benchmark and all the tests trace themselves.
OwnTracing == {<<t, t>> : t \in Tasks}
AnyTracing == Tasks \X Tasks

BothInit == part \in {"tracing", "faults"} /\ Init /\ FaultInit

BothNext ==
    \/ part = "tracing" /\ Next /\ UNCHANGED <<part, faultVars>>
    \/ part = "faults" /\ FaultNext /\ UNCHANGED <<part, vars>>

BothSpec == BothInit /\ [][BothNext]_<<part, vars, faultVars>>

=============================================================================
