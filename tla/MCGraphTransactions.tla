------------------------- MODULE MCGraphTransactions -------------------------
(* Bounded instance of GraphTransactions: two contents, one of which changes *)
(* layout when it is stamped.  MCGraphTools has one that validation refuses. *)
EXTENDS GraphTransactions, TLC

MCStamp == [c \in Contents |-> IF c = "a" THEN "b" ELSE c]

Interchangeable == Permutations(TxIds)
=============================================================================
