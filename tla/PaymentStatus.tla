---------------------------- MODULE PaymentStatus ---------------------------
(***************************************************************************)
(* The statuses of a payment order and the changes of status that refunds  *)
(* make, shared by the modules of the order life cycle and of refunds.     *)
(***************************************************************************)

RefundStatuses == {"REFUND_REQUESTED", "REFUNDING", "REFUND_PENDING",
                   "REFUNDED", "PARTIALLY_REFUNDED", "REFUND_FAILED"}

\* "NONE" is the order whose row does not exist yet.
Statuses == {"NONE", "PENDING", "PAID", "RECHARGING", "COMPLETED", "FAILED",
             "CANCELLED", "EXPIRED"} \cup RefundStatuses

\* What may be, or is being, delivered.
Fulfillable == {"PAID", "FAILED", "RECHARGING"}

\* What was delivered, whatever has been refunded since.
Settled == {"COMPLETED"} \cup RefundStatuses

\* The statuses a refund may start from.
Refundable == {"COMPLETED", "REFUND_REQUESTED", "REFUND_FAILED"}

\* The status changes of payment_refund.go.
RefundEdges ==
    (Refundable \X {"REFUNDING"})
    \cup {<<"COMPLETED", "REFUND_REQUESTED">>}
    \cup ({"REFUNDING"} \X {"COMPLETED", "REFUND_REQUESTED", "REFUND_FAILED",
                            "REFUND_PENDING", "REFUNDED", "PARTIALLY_REFUNDED"})
    \cup ({"REFUND_PENDING"} \X {"REFUND_FAILED", "REFUNDED",
                                 "PARTIALLY_REFUNDED"})
=============================================================================
