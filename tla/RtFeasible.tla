----------------------------- MODULE RtFeasible -----------------------------
(***************************************************************************)
(* The admission test of the bandwidth of real-time groups: __rt_schedulable *)
(* of core.c over a tree of task groups.                                    *)
(***************************************************************************)
EXTENDS Integers, FiniteSets, FiniteSetsExt

CONSTANTS
    RUNTIME_INF, \* the runtime of a group without a limit
    RatioUnit    \* the ratio of an unlimited group, 1 << 20 in the code

ASSUME RatioAssumption == RatioUnit \in Nat \ {0} /\ RUNTIME_INF \notin Nat

ToRatio(period, runtime) ==
    IF runtime = RUNTIME_INF THEN RatioUnit ELSE (runtime * RatioUnit) \div period

\* bw is the bandwidth of every group, the new one of the group under change
\* included; busy are the groups with real-time tasks.
TgRtSchedulable(g, bw, children, busy, enabled, globalRatio) ==
    LET total == ToRatio(bw[g].period, bw[g].runtime)
        share(c) == ToRatio(bw[c].period, bw[c].runtime)
    IN /\ bw[g].runtime # RUNTIME_INF => bw[g].runtime <= bw[g].period
       /\ ~(enabled /\ bw[g].runtime = 0 /\ g \in busy)
       /\ total <= globalRatio
       /\ MapThenSumSet(share, children[g]) <= total

\* The walk visits every group of the tree and stops at the first refusal.
RtSchedulable(bw, children, busy, enabled, globalRatio) ==
    \A g \in DOMAIN bw : TgRtSchedulable(g, bw, children, busy, enabled, globalRatio)

=============================================================================
