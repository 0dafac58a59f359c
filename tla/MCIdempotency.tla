---------------------------- MODULE MCIdempotency ----------------------------
(* Instance of Idempotency for TLC. Requests and fingerprints are             *)
(* interchangeable.                                                           *)
EXTENDS Idempotency, TLC

Symmetry == Permutations(Requests) \cup Permutations(Fingerprints)

=============================================================================
