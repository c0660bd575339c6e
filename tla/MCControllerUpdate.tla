-------------------------- MODULE MCControllerUpdate --------------------------
EXTENDS ControllerUpdate, TLC

CONSTANTS h1, h2

Symmetry == Permutations(Handlers)
=============================================================================
