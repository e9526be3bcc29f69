---------------------------- MODULE MCTaskBoard ----------------------------
EXTENDS TaskBoard, TLC
CONSTANTS t1, t2, t3, ada, bob, d1, d2, r1, r2

Perms == Permutations(Tasks) \cup Permutations(DispatchRuns)
=============================================================================
