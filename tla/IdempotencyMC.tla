--------------------------- MODULE IdempotencyMC ---------------------------
(* Idempotency on a small instance: calls and alike operations are
   interchangeable. *)
EXTENDS Idempotency, TLC

Interchangeable == Permutations(Calls) \cup Permutations(Operations \ Bodiless)
=============================================================================
