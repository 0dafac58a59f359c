--------------------------- MODULE MCPaymentOrder ---------------------------
(* Instances of PaymentOrder for TLC. *)
EXTENDS PaymentOrder, TLC

\* Workers run the same code and are interchangeable.
WorkerSymmetry == Permutations(Workers)

=============================================================================
