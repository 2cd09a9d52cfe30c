--------------------------- MODULE RefundContract ---------------------------
(***************************************************************************)
(* What a refund promises the customer, without statuses, audits, plans or *)
(* retries.  got[o] is what the refund holds of what order o delivered,    *)
(* paid[o] how often the gateway has paid the order back.                  *)
(*                                                                         *)
(* Something is taken only when nothing is held, and given back whole; the *)
(* gateway pays once; once it has paid, nothing more is taken and nothing  *)
(* is given back.  The promise ends when an error is dropped (lost): then  *)
(* only this is left, that no more is given back than was taken.           *)
(***************************************************************************)
EXTENDS Naturals

CONSTANTS Orders, Amount

VARIABLES got, paid, lost
cvars == <<got, paid, lost>>

Init ==
    /\ got = [o \in Orders |-> 0]
    /\ paid = [o \in Orders |-> 0]
    /\ lost = 0

Take(o) ==
    /\ paid[o] = 0 /\ got[o] = 0
    /\ \E n \in 1..Amount : got' = [got EXCEPT ![o] = n]
    /\ UNCHANGED <<paid, lost>>

GiveBack(o) ==
    /\ paid[o] = 0
    /\ got' = [got EXCEPT ![o] = 0]
    /\ UNCHANGED <<paid, lost>>

Pay(o) ==
    /\ paid[o] = 0
    /\ paid' = [paid EXCEPT ![o] = 1]
    /\ UNCHANGED <<got, lost>>

Careless ==
    /\ lost' = 1
    /\ got' \in [Orders -> Nat]
    /\ paid' \in [Orders -> Nat]

Next ==
    \/ lost = 0 /\ \E o \in Orders : Take(o) \/ GiveBack(o) \/ Pay(o)
    \/ Careless

Spec == Init /\ [][Next]_cvars
=============================================================================
