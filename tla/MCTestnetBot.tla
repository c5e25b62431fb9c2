---------------------------- MODULE MCTestnetBot ----------------------------
EXTENDS TestnetBot, TLC

CONSTANTS r1, r2, q1, q2, s1, a1, u1

\* The instances of the application are alike, and so are their passes.
Symmetry == Permutations(Runners) \cup Permutations(Retriers)
=============================================================================
