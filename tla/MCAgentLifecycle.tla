-------------------------- MODULE MCAgentLifecycle --------------------------
EXTENDS AgentLifecycle, TLC
CONSTANTS ann, ben, o1, o2, p1, p2, p3, p4
=============================================================================
