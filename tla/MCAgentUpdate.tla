---------------------------- MODULE MCAgentUpdate ----------------------------
EXTENDS AgentUpdate

CONSTANTS w1, w2

TwoWorkers == {w1, w2}
=============================================================================
