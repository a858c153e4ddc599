------------------------- MODULE MCChildSupervisor -------------------------
EXTENDS ChildSupervisor, TLC
Interchangeable == Permutations(Creations) \cup Permutations(ChildIds)
=============================================================================
