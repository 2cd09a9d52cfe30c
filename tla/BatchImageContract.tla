------------------------- MODULE BatchImageContract -------------------------
(***************************************************************************)
(* What billing promises the owner of a batch: the balance is held once    *)
(* and the hold ends once, in a charge or in a refund, whatever the rows,  *)
(* queues, retries and workers behind it do.                               *)
(***************************************************************************)
CONSTANT Jobs

VARIABLE stage

Init == stage = [j \in Jobs |-> "open"]

Hold(j) ==
    /\ stage[j] = "open"
    /\ stage' = [stage EXCEPT ![j] = "held"]

Settle(j, end) ==
    /\ stage[j] = "held"
    /\ stage' = [stage EXCEPT ![j] = end]

Next == \E j \in Jobs : Hold(j) \/ Settle(j, "charged") \/ Settle(j, "refunded")

Spec == Init /\ [][Next]_stage
=============================================================================
