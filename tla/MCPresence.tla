------------------------------ MODULE MCPresence ------------------------------
EXTENDS Presence

CONSTANTS a1, a2, b1

TwoSockets == {a1, a2}
OneSession == {b1}
=============================================================================
