---------------------------- MODULE MCCommandHub ----------------------------
EXTENDS CommandHub, TLC

CONSTANTS r1, r2

\* Commands are interchangeable.
Symmetry == Permutations({r1, r2})
=============================================================================
