---------------------------- MODULE MCSeedTasks ----------------------------
EXTENDS SeedTasks, TLC
Symmetry == Permutations(Requests) \cup Permutations(Instances)
=============================================================================
