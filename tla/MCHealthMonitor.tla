-------------------------- MODULE MCHealthMonitor ---------------------------
EXTENDS HealthMonitor, TLC
CONSTANTS ann, ben, e1, e2, l1, l2
=============================================================================
