------------------------- MODULE MCLeaderLifecycle -------------------------
\* Two processes that run commands, one task.
EXTENDS LeaderLifecycle, TLC

CONSTANTS c1, c2, w1, k1

MCCaller == {c1, c2}
MCTask == {w1}
MCCommit == {k1}

Symmetry == Permutations(MCCaller)

=============================================================================
