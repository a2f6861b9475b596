----------------------------- MODULE MCRtBalance -----------------------------
EXTENDS RtBalance, TLC

CONSTANTS b1, b2, b3

MCPrio == (b1 :> {1}) @@ (b2 :> {1, 3, 4}) @@ (b3 :> {2})
MCMask == [b \in {b1, b2, b3} |-> IF b = b2 THEN {{1}, {1, 2}} ELSE {{1, 2}}]

=============================================================================
