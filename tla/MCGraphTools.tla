---------------------------- MODULE MCGraphTools ----------------------------
(* Bounded instance of GraphTools.  "plain" is a graph never stamped, in     *)
(* sorted layout; committing it appends the commit time to its metadata      *)
(* ("stamped", out of order), which sorting brings into place ("sorted").    *)
(* "cyclic" is refused by validation.                                        *)
EXTENDS GraphTools, TLC

MCStamp == [c \in Contents |-> IF c = "plain" THEN "stamped" ELSE c]
MCCanonical == [c \in Contents |-> IF c = "stamped" THEN "sorted" ELSE c]
MCOwners == Callers

Interchangeable == Permutations(TxIds) \cup Permutations(Holders)
=============================================================================
