---------------------------- MODULE MCAgentLoop ----------------------------
EXTENDS AgentLoop, TLC

TaskSymmetry == Permutations(Tasks)
=============================================================================
