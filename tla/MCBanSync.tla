------------------------------ MODULE MCBanSync ------------------------------
EXTENDS BanSync, TLC

CONSTANTS h1, h2

TwoHandlers == {h1, h2}
Symmetry == Permutations(TwoHandlers)
=============================================================================
