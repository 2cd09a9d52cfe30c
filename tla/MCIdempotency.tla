--------------------------- MODULE MCIdempotency ----------------------------
(* Idempotency for TLC: the requests are interchangeable.                  *)
EXTENDS Idempotency, TLC

Symmetry == Permutations(Workers) \cup Permutations(Prints)
=============================================================================
