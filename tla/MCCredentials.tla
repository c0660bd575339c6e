--------------------------- MODULE MCCredentials ---------------------------
EXTENDS Credentials, TLC

CONSTANTS r1, r2, p1, p2, h1, h2, t1

Symmetry == Permutations(Rotations) \cup Permutations(Pairings) \cup Permutations(Handlers)
=============================================================================
