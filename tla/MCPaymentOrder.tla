--------------------------- MODULE MCPaymentOrder ---------------------------
(* Instances of PaymentOrder for TLC.                                      *)
EXTENDS PaymentOrder, TLC

\* Handlers are interchangeable.
WorkerSymmetry == Permutations(Workers)
=============================================================================
