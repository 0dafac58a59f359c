-------------------------- MODULE MCPaymentRefund --------------------------
(* PaymentRefund for TLC: requests are interchangeable. *)
EXTENDS PaymentRefund, TLC

AdminSymmetry == Permutations(Admins)

=============================================================================
