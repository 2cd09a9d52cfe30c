--------------------------- MODULE MCPaymentRefund --------------------------
(* PaymentRefund for model checking: workers are interchangeable.          *)
EXTENDS PaymentRefund, TLC

WorkerSymmetry == Permutations(Workers)
=============================================================================
