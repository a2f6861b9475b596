---------------------------- MODULE MCRtThrottle ----------------------------
(* RtThrottle with one group under the root. *)
EXTENDS RtThrottle, TLC

CONSTANT a

MCParent == a :> Root

=============================================================================
