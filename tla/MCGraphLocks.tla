---------------------------- MODULE MCGraphLocks ----------------------------
(* Bounded instance of GraphLocks.  Holders, graphs and lock identifiers    *)
(* are interchangeable: no operator orders them.                            *)
EXTENDS GraphLocks, TLC

Interchangeable ==
  Permutations(GraphIds) \cup Permutations(Holders) \cup Permutations(LockIds)
=============================================================================
