--------------------------- MODULE PaymentContract --------------------------
(***************************************************************************)
(* What the payment subsystem promises a customer about one purchase,      *)
(* without leases, codes, audits or statuses: money is captured, then what *)
(* was bought is delivered, once, and only then is the order settled.      *)
(***************************************************************************)
EXTENDS Naturals

CONSTANT Orders

VARIABLES captured, delivered, settled
cvars == <<captured, delivered, settled>>

Init ==
    /\ captured = [o \in Orders |-> FALSE]
    /\ delivered = [o \in Orders |-> 0]
    /\ settled = [o \in Orders |-> FALSE]

Capture(o) ==
    /\ ~captured[o]
    /\ captured' = [captured EXCEPT ![o] = TRUE]
    /\ UNCHANGED <<delivered, settled>>

Deliver(o) ==
    /\ captured[o] /\ delivered[o] = 0
    /\ delivered' = [delivered EXCEPT ![o] = 1]
    /\ UNCHANGED <<captured, settled>>

Settle(o) ==
    /\ delivered[o] = 1 /\ ~settled[o]
    /\ settled' = [settled EXCEPT ![o] = TRUE]
    /\ UNCHANGED <<captured, delivered>>

Next == \E o \in Orders : Capture(o) \/ Deliver(o) \/ Settle(o)

Spec == Init /\ [][Next]_cvars
=============================================================================
