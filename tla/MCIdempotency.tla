--------------------------- MODULE MCIdempotency ---------------------------
(* A small instance of Idempotency for TLC.                                *)
EXTENDS Idempotency, TLC

Symmetry == Permutations(Calls) \cup Permutations(Scopes) \cup Permutations(Hashes)
=============================================================================
