------------------------- MODULE MCHttpIdempotency -------------------------
(* Bounded instance: "a1" and "a2" are one idempotency key with two payloads, *)
(* "b1" another idempotency key.                                              *)
EXTENDS HttpIdempotency
MCMethodKey == [k \in Keys |-> IF k = "b1" THEN "b" ELSE "a"]
Interchangeable == Permutations(Requests) \cup Permutations(Replies)
=============================================================================
