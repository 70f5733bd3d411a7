---------------------------- MODULE MCAgentQueue ----------------------------
EXTENDS AgentQueue, TLC
QueueSymmetry == Permutations(Calls) \cup Permutations(Replicas)
=============================================================================
