---------------------------- MODULE MCAgentTasks ----------------------------
EXTENDS AgentTasks

CONSTANT a1

OneRetrier == {a1}
=============================================================================
