------------------------ MODULE PaymentRefundProofs -------------------------
(***************************************************************************)
(* Proofs about PaymentRefund for every set of orders and workers, every   *)
(* amount and any number of faults.                                        *)
(***************************************************************************)
EXTENDS PaymentRefund, TLAPS

-----------------------------------------------------------------------------
(* The inductive invariant, whichever calls fail.                          *)

\* The steps between the deduction and its return.
Deducted == {"refund", "markOk", "markPending", "rollback"}

\* The steps of QueryAndFinalizeRefund.
Finalizing == {"query", "finalOk", "finalFail", "finalUnreturned"}

\* A worker that runs serves an order.
Serving == \A w \in Workers : pc[w] # "idle" => ord[w] \in Orders

\* An order being refunded shows REFUNDING.
OwnerShows ==
    \A w \in Workers : pc[w] \in Refunding => status[ord[w]] = "REFUNDING"

\* No two workers refund the same order: the lock of ExecuteRefund.
OneOwner ==
    \A w, v \in Workers :
        pc[w] \in Refunding /\ pc[v] \in Refunding /\ ord[w] = ord[v] => w = v

\* A worker that finalizes works from the order's only REFUND_PENDING audit.
PlanIsHeld ==
    /\ \A o \in Orders : status[o] = "REFUND_PENDING" => held[o] # NotHeld
    /\ \A w \in Workers :
         pc[w] \in Finalizing =>
            held[ord[w]] # NotHeld /\ plan[w] = held[ord[w]]

\* What is to be returned has been taken.
Backed ==
    /\ \A w \in Workers : pc[w] \in Deducted => plan[w].take <= taken[ord[w]]
    /\ \A o \in Orders :
         status[o] = "REFUND_PENDING" => held[o].take <= taken[o]

IInv ==
    /\ TypeOK
    /\ Serving
    /\ OwnerShows
    /\ OneOwner
    /\ PlanIsHeld
    /\ Backed
    /\ NeverOverReturned

-----------------------------------------------------------------------------
(* The steps: each conjunct of the invariant is kept by every action.      *)

USE DEF At, Goto, Begin, Leave, Fault, SilentFault, NoFault, SetStatus, Least,
        orderVars, goodsVars, auditVars, gatewayVars, workVars, faultVars
USE OrderAssumption, AmountAssumption, FaultAssumption

\* The plan of a worker at rest is one.
LEMMA NoPlanIsPlan == NoPlan \in Plans
BY DEF NoPlan, Plans, Refundable

\* A refund that fails leaves the order completed or requested.
LEMMA RestoredFrom ==
    ASSUME TypeOK, NEW w \in Workers
    PROVE  plan[w].from \in {"COMPLETED", "REFUND_REQUESTED"}
BY DEF TypeOK, WorkerTypes, Plans

\* Planning another deduction leaves a plan.
LEMMA PlanWithTake ==
    ASSUME NEW p \in Plans, NEW d \in 0..Amount
    PROVE  [p EXCEPT !.take = d] \in Plans
BY DEF Plans

\* The order row and the gateway's record keep their types in every step.
LEMMA OrderTypesStep ==
    ASSUME TypeOK, Serving, OwnerShows, Next
    PROVE  OrderTypes'
<1> USE DEF TypeOK, OrderTypes, AuditTypes, WorkerTypes, Serving, Settled,
      RefundStatuses, Refundable, Refunding
<1>1. ASSUME NEW w \in Workers, NEW o \in Orders, Arrive(w, o)
      PROVE  OrderTypes'
  <2>1. CASE RequestRefund(w, o) BY <2>1 DEF RequestRefund
  <2>2. CASE PrepareRefund(w, o) BY <2>2 DEF PrepareRefund
  <2>3. CASE QueryAndFinalizeRefund(w, o) BY <2>3 DEF QueryAndFinalizeRefund
  <2> QED BY <1>1, <2>1, <2>2, <2>3 DEF Arrive
<1>2. ASSUME NEW w \in Workers, Step(w) \/ Crash(w)
      PROVE  OrderTypes'
  <2>1. CASE SaveRequest(w) BY <2>1 DEF SaveRequest
  <2>2. CASE PrepDeduct(w) BY <2>2 DEF PrepDeduct, Deductible
  <2>3. CASE LockOrder(w) BY <2>3 DEF LockOrder
  <2>4. CASE SkipTakenDeduction(w) BY <2>4 DEF SkipTakenDeduction
  <2>5. CASE Deduct(w) BY <2>5 DEF Deduct, TakeBalance, TakeDays
  <2>6. CASE GwRefund(w) BY <2>6 DEF GwRefund, Pay
  <2>7. CASE MarkRefundOk(w) BY <2>7 DEF MarkRefundOk, RefundedStatus
  <2>8. CASE MarkRefundPending(w) BY <2>8 DEF MarkRefundPending
  <2>9. CASE RollbackRefund(w) BY <2>9 DEF RollbackRefund, GiveBack,
        Returnable
  <2>10. CASE RestoreStatus(w) BY <2>10, RestoredFrom DEF RestoreStatus
  <2>11. CASE AuditRollbackFailed(w) BY <2>11 DEF AuditRollbackFailed
  <2>12. CASE WriteRefundFailed(w) BY <2>12 DEF WriteRefundFailed
  <2>13. CASE AuditRefundFailed(w) BY <2>13 DEF AuditRefundFailed
  <2>14. CASE QueryRefund(w) BY <2>14 DEF QueryRefund
  <2>15. CASE FinalizeSuccess(w) BY <2>15 DEF FinalizeSuccess, RefundedStatus
  <2>16. CASE FinalizeFailed(w) BY <2>16 DEF FinalizeFailed, GiveBack,
        Returnable
  <2>17. CASE FinalizeUnreturned(w) BY <2>17 DEF FinalizeUnreturned
  <2>18. CASE Crash(w) BY <2>18 DEF Crash
  <2> QED BY <1>2, <2>1, <2>2, <2>3, <2>4, <2>5, <2>6, <2>7, <2>8, <2>9,
        <2>10, <2>11, <2>12, <2>13, <2>14, <2>15, <2>16, <2>17, <2>18 DEF Step
<1>3. ASSUME NEW o \in Orders, Spend(o) \/ SettleAtGateway(o)
      PROVE  OrderTypes'
  <2>1. CASE Spend(o) BY <2>1 DEF Spend
  <2>2. CASE SettleAtGateway(o) BY <2>2 DEF SettleAtGateway, Pay
  <2> QED BY <1>3, <2>1, <2>2
<1> QED BY <1>1, <1>2, <1>3 DEF Next

\* No deduction overdraws a balance.
LEMMA GoodsTypesStep ==
    ASSUME TypeOK, Serving, PlanIsHeld, Next
    PROVE  GoodsTypes'
<1> USE DEF TypeOK, OrderTypes, GoodsTypes, AuditTypes, WorkerTypes, Plans,
      Serving, PlanIsHeld, Finalizing
<1>1. ASSUME NEW w \in Workers, NEW o \in Orders, Arrive(w, o)
      PROVE  GoodsTypes'
  <2>1. CASE RequestRefund(w, o) BY <2>1 DEF RequestRefund
  <2>2. CASE PrepareRefund(w, o) BY <2>2 DEF PrepareRefund, Refundable
  <2>3. CASE QueryAndFinalizeRefund(w, o) BY <2>3 DEF QueryAndFinalizeRefund
  <2> QED BY <1>1, <2>1, <2>2, <2>3 DEF Arrive
<1>2. ASSUME NEW w \in Workers, Step(w) \/ Crash(w)
      PROVE  GoodsTypes'
  <2>1. CASE SaveRequest(w) BY <2>1 DEF SaveRequest
  <2>2. CASE PrepDeduct(w) BY <2>2 DEF PrepDeduct, Deductible
  <2>3. CASE LockOrder(w) BY <2>3 DEF LockOrder, Refundable
  <2>4. CASE SkipTakenDeduction(w) BY <2>4 DEF SkipTakenDeduction
  <2>5. CASE Deduct(w)
    <3>1. CASE TakeBalance(w) BY <2>5, <3>1 DEF Deduct, TakeBalance
    <3>2. CASE TakeDays(w)
      <4>1. ord[w] \in Orders /\ plan[w].take \in Nat BY <2>5 DEF Deduct
      <4>2. CASE purse[ord[w]] > plan[w].take BY <3>2, <4>1, <4>2 DEF TakeDays
      <4>3. CASE ~(purse[ord[w]] > plan[w].take)
        <5>1. /\ purse' = [purse EXCEPT ![ord[w]] = 0]
              /\ revoked' = [revoked EXCEPT ![ord[w]] = TRUE]
          BY <3>2, <4>3 DEF TakeDays
        <5>2. taken' = [taken EXCEPT ![ord[w]] = taken[ord[w]] + plan[w].take]
          BY <3>2 DEF TakeDays
        <5>3. purse' \in [Orders -> Nat] /\ taken' \in [Orders -> Int]
          BY <4>1, <5>1, <5>2
        <5>4. revoked' \in [Orders -> BOOLEAN] BY <5>1, Zenon
        <5> QED BY <5>3, <5>4
      <4> QED BY <4>2, <4>3
    <3>3. CASE UNCHANGED goodsVars BY <3>3
    <3> QED BY <2>5, <3>1, <3>2, <3>3 DEF Deduct
  <2>6. CASE GwRefund(w) BY <2>6 DEF GwRefund, Pay
  <2>7. CASE MarkRefundOk(w) BY <2>7 DEF MarkRefundOk, RefundedStatus
  <2>8. CASE MarkRefundPending(w) BY <2>8 DEF MarkRefundPending
  <2>9. CASE RollbackRefund(w) BY <2>9 DEF RollbackRefund, GiveBack,
        Returnable
  <2>10. CASE RestoreStatus(w) BY <2>10 DEF RestoreStatus
  <2>11. CASE AuditRollbackFailed(w) BY <2>11 DEF AuditRollbackFailed
  <2>12. CASE WriteRefundFailed(w) BY <2>12 DEF WriteRefundFailed
  <2>13. CASE AuditRefundFailed(w) BY <2>13 DEF AuditRefundFailed
  <2>14. CASE QueryRefund(w) BY <2>14 DEF QueryRefund
  <2>15. CASE FinalizeSuccess(w) BY <2>15 DEF FinalizeSuccess, RefundedStatus
  <2>16. CASE FinalizeFailed(w) BY <2>16 DEF FinalizeFailed, GiveBack,
        Returnable
  <2>17. CASE FinalizeUnreturned(w) BY <2>17 DEF FinalizeUnreturned
  <2>18. CASE Crash(w) BY <2>18 DEF Crash
  <2> QED BY <1>2, <2>1, <2>2, <2>3, <2>4, <2>5, <2>6, <2>7, <2>8, <2>9,
        <2>10, <2>11, <2>12, <2>13, <2>14, <2>15, <2>16, <2>17, <2>18 DEF Step
<1>3. ASSUME NEW o \in Orders, Spend(o) \/ SettleAtGateway(o)
      PROVE  GoodsTypes'
  <2>1. CASE Spend(o) BY <2>1 DEF Spend
  <2>2. CASE SettleAtGateway(o) BY <2>2 DEF SettleAtGateway, Pay
  <2> QED BY <1>3, <2>1, <2>2
<1> QED BY <1>1, <1>2, <1>3 DEF Next

\* The audits keep their types.
LEMMA AuditTypesStep ==
    ASSUME TypeOK, Serving, Next
    PROVE  AuditTypes'
<1> USE DEF TypeOK, AuditTypes, WorkerTypes, Serving
<1>1. ASSUME NEW w \in Workers, NEW o \in Orders, Arrive(w, o)
      PROVE  AuditTypes'
  <2>1. CASE RequestRefund(w, o) BY <2>1 DEF RequestRefund
  <2>2. CASE PrepareRefund(w, o) BY <2>2 DEF PrepareRefund, Refundable
  <2>3. CASE QueryAndFinalizeRefund(w, o) BY <2>3 DEF QueryAndFinalizeRefund
  <2> QED BY <1>1, <2>1, <2>2, <2>3 DEF Arrive
<1>2. ASSUME NEW w \in Workers, Step(w) \/ Crash(w)
      PROVE  AuditTypes'
  <2>1. CASE SaveRequest(w) BY <2>1 DEF SaveRequest
  <2>2. CASE PrepDeduct(w) BY <2>2 DEF PrepDeduct, Deductible
  <2>3. CASE LockOrder(w) BY <2>3 DEF LockOrder, Refundable
  <2>4. CASE SkipTakenDeduction(w) BY <2>4 DEF SkipTakenDeduction
  <2>5. CASE Deduct(w) BY <2>5 DEF Deduct, TakeBalance, TakeDays
  <2>6. CASE GwRefund(w) BY <2>6 DEF GwRefund, Pay
  <2>7. CASE MarkRefundOk(w) BY <2>7 DEF MarkRefundOk, RefundedStatus
  <2>8. CASE MarkRefundPending(w) BY <2>8 DEF MarkRefundPending
  <2>9. CASE RollbackRefund(w) BY <2>9 DEF RollbackRefund, GiveBack,
        Returnable
  <2>10. CASE RestoreStatus(w) BY <2>10 DEF RestoreStatus
  <2>11. CASE AuditRollbackFailed(w) BY <2>11 DEF AuditRollbackFailed
  <2>12. CASE WriteRefundFailed(w) BY <2>12 DEF WriteRefundFailed
  <2>13. CASE AuditRefundFailed(w) BY <2>13 DEF AuditRefundFailed
  <2>14. CASE QueryRefund(w) BY <2>14 DEF QueryRefund
  <2>15. CASE FinalizeSuccess(w) BY <2>15 DEF FinalizeSuccess, RefundedStatus
  <2>16. CASE FinalizeFailed(w) BY <2>16 DEF FinalizeFailed, GiveBack,
        Returnable
  <2>17. CASE FinalizeUnreturned(w) BY <2>17 DEF FinalizeUnreturned
  <2>18. CASE Crash(w) BY <2>18 DEF Crash
  <2> QED BY <1>2, <2>1, <2>2, <2>3, <2>4, <2>5, <2>6, <2>7, <2>8, <2>9,
        <2>10, <2>11, <2>12, <2>13, <2>14, <2>15, <2>16, <2>17, <2>18 DEF Step
<1>3. ASSUME NEW o \in Orders, Spend(o) \/ SettleAtGateway(o)
      PROVE  AuditTypes'
  <2>1. CASE Spend(o) BY <2>1 DEF Spend
  <2>2. CASE SettleAtGateway(o) BY <2>2 DEF SettleAtGateway, Pay
  <2> QED BY <1>3, <2>1, <2>2
<1> QED BY <1>1, <1>2, <1>3 DEF Next

\* A plan never refunds or deducts more than the order's amount.
LEMMA WorkerTypesStep ==
    ASSUME TypeOK, Serving, PlanIsHeld, Next
    PROVE  WorkerTypes'
<1> USE DEF TypeOK, OrderTypes, GoodsTypes, AuditTypes, WorkerTypes, Serving,
      PlanIsHeld, Refunding, Steps
<1> USE NoPlanIsPlan
<1>1. ASSUME NEW w \in Workers, NEW o \in Orders, Arrive(w, o)
      PROVE  WorkerTypes'
  <2>1. CASE RequestRefund(w, o) BY <2>1 DEF RequestRefund
  <2>2. CASE PrepareRefund(w, o)
    <3>1. PICK a \in 1..Amount, step \in {"prepDeduct", "lock"} :
            /\ Begin(w, o, step)
            /\ plan' = [plan EXCEPT ![w] =
                          [from |-> RestoredStatus(status[o]), amount |-> a, take |-> 0]]
      BY <2>2 DEF PrepareRefund
    <3>2. [from |-> RestoredStatus(status[o]), amount |-> a, take |-> 0] \in Plans
      BY <2>2 DEF PrepareRefund, Plans, RestoredStatus
    <3> QED BY <2>2, <3>1, <3>2 DEF PrepareRefund
  <2>3. CASE QueryAndFinalizeRefund(w, o) BY <2>3 DEF QueryAndFinalizeRefund
  <2> QED BY <1>1, <2>1, <2>2, <2>3 DEF Arrive
<1>2. ASSUME NEW w \in Workers, Step(w) \/ Crash(w)
      PROVE  WorkerTypes'
  <2>1. CASE SaveRequest(w) BY <2>1 DEF SaveRequest
  <2>2. CASE PrepDeduct(w)
    <3>1. plan[w] \in Plans /\ ord[w] \in Orders BY <2>2 DEF PrepDeduct
    <3>2. Deductible(w) \in 0..Amount
      BY <3>1 DEF Deductible, Plans
    <3>3. [plan[w] EXCEPT !.take = Deductible(w)] \in Plans BY <3>1, <3>2, PlanWithTake
    <3> QED BY <2>2, <3>1, <3>3 DEF PrepDeduct
  <2>3. CASE LockOrder(w) BY <2>3 DEF LockOrder, Refundable
  <2>4. CASE SkipTakenDeduction(w)
    <3>1. plan[w] \in Plans /\ ord[w] \in Orders BY <2>4 DEF SkipTakenDeduction
    <3>2. 0 \in 0..Amount
      BY <3>1 DEF Plans
    <3>3. [plan[w] EXCEPT !.take = 0] \in Plans BY <3>1, <3>2, PlanWithTake
    <3> QED BY <2>4, <3>1, <3>3 DEF SkipTakenDeduction
  <2>5. CASE Deduct(w)
    <3>1. plan[w] \in Plans /\ ord[w] \in Orders BY <2>5 DEF Deduct
    <3>2. Least(plan[w].take, purse[ord[w]]) \in 0..Amount
      BY <3>1 DEF Plans
    <3>3. [plan[w] EXCEPT !.take = Least(plan[w].take, purse[ord[w]])] \in Plans BY <3>1, <3>2, PlanWithTake
    <3> QED BY <2>5, <3>1, <3>3 DEF Deduct, TakeBalance, TakeDays
  <2>6. CASE GwRefund(w) BY <2>6 DEF GwRefund, Pay
  <2>7. CASE MarkRefundOk(w) BY <2>7 DEF MarkRefundOk, RefundedStatus
  <2>8. CASE MarkRefundPending(w) BY <2>8 DEF MarkRefundPending
  <2>9. CASE RollbackRefund(w) BY <2>9 DEF RollbackRefund, GiveBack,
        Returnable
  <2>10. CASE RestoreStatus(w) BY <2>10 DEF RestoreStatus
  <2>11. CASE AuditRollbackFailed(w) BY <2>11 DEF AuditRollbackFailed
  <2>12. CASE WriteRefundFailed(w) BY <2>12 DEF WriteRefundFailed
  <2>13. CASE AuditRefundFailed(w) BY <2>13 DEF AuditRefundFailed
  <2>14. CASE QueryRefund(w) BY <2>14 DEF QueryRefund
  <2>15. CASE FinalizeSuccess(w) BY <2>15 DEF FinalizeSuccess, RefundedStatus
  <2>16. CASE FinalizeFailed(w) BY <2>16 DEF FinalizeFailed, GiveBack,
        Returnable
  <2>17. CASE FinalizeUnreturned(w) BY <2>17 DEF FinalizeUnreturned
  <2>18. CASE Crash(w) BY <2>18 DEF Crash
  <2> QED BY <1>2, <2>1, <2>2, <2>3, <2>4, <2>5, <2>6, <2>7, <2>8, <2>9,
        <2>10, <2>11, <2>12, <2>13, <2>14, <2>15, <2>16, <2>17, <2>18 DEF Step
<1>3. ASSUME NEW o \in Orders, Spend(o) \/ SettleAtGateway(o)
      PROVE  WorkerTypes'
  <2>1. CASE Spend(o) BY <2>1 DEF Spend
  <2>2. CASE SettleAtGateway(o) BY <2>2 DEF SettleAtGateway, Pay
  <2> QED BY <1>3, <2>1, <2>2
<1> QED BY <1>1, <1>2, <1>3 DEF Next

\* A running worker has an order.
LEMMA ServingStep ==
    ASSUME TypeOK, Serving, Next
    PROVE  Serving'
<1> USE DEF TypeOK, WorkerTypes, Serving
<1>1. ASSUME NEW w \in Workers, NEW o \in Orders, Arrive(w, o)
      PROVE  Serving'
  <2>1. CASE RequestRefund(w, o) BY <2>1 DEF RequestRefund
  <2>2. CASE PrepareRefund(w, o) BY <2>2 DEF PrepareRefund, Refundable
  <2>3. CASE QueryAndFinalizeRefund(w, o) BY <2>3 DEF QueryAndFinalizeRefund
  <2> QED BY <1>1, <2>1, <2>2, <2>3 DEF Arrive
<1>2. ASSUME NEW w \in Workers, Step(w) \/ Crash(w)
      PROVE  Serving'
  <2>1. CASE SaveRequest(w) BY <2>1 DEF SaveRequest
  <2>2. CASE PrepDeduct(w) BY <2>2 DEF PrepDeduct, Deductible
  <2>3. CASE LockOrder(w) BY <2>3 DEF LockOrder, Refundable
  <2>4. CASE SkipTakenDeduction(w) BY <2>4 DEF SkipTakenDeduction
  <2>5. CASE Deduct(w) BY <2>5 DEF Deduct, TakeBalance, TakeDays
  <2>6. CASE GwRefund(w) BY <2>6 DEF GwRefund, Pay
  <2>7. CASE MarkRefundOk(w) BY <2>7 DEF MarkRefundOk, RefundedStatus
  <2>8. CASE MarkRefundPending(w) BY <2>8 DEF MarkRefundPending
  <2>9. CASE RollbackRefund(w) BY <2>9 DEF RollbackRefund, GiveBack,
        Returnable
  <2>10. CASE RestoreStatus(w) BY <2>10 DEF RestoreStatus
  <2>11. CASE AuditRollbackFailed(w) BY <2>11 DEF AuditRollbackFailed
  <2>12. CASE WriteRefundFailed(w) BY <2>12 DEF WriteRefundFailed
  <2>13. CASE AuditRefundFailed(w) BY <2>13 DEF AuditRefundFailed
  <2>14. CASE QueryRefund(w) BY <2>14 DEF QueryRefund
  <2>15. CASE FinalizeSuccess(w) BY <2>15 DEF FinalizeSuccess, RefundedStatus
  <2>16. CASE FinalizeFailed(w) BY <2>16 DEF FinalizeFailed, GiveBack,
        Returnable
  <2>17. CASE FinalizeUnreturned(w) BY <2>17 DEF FinalizeUnreturned
  <2>18. CASE Crash(w) BY <2>18 DEF Crash
  <2> QED BY <1>2, <2>1, <2>2, <2>3, <2>4, <2>5, <2>6, <2>7, <2>8, <2>9,
        <2>10, <2>11, <2>12, <2>13, <2>14, <2>15, <2>16, <2>17, <2>18 DEF Step
<1>3. ASSUME NEW o \in Orders, Spend(o) \/ SettleAtGateway(o)
      PROVE  Serving'
  <2>1. CASE Spend(o) BY <2>1 DEF Spend
  <2>2. CASE SettleAtGateway(o) BY <2>2 DEF SettleAtGateway, Pay
  <2> QED BY <1>3, <2>1, <2>2
<1> QED BY <1>1, <1>2, <1>3 DEF Next

\* Nobody but its owner moves an order out of REFUNDING.
LEMMA OwnerShowsStep ==
    ASSUME TypeOK, Serving, OwnerShows, OneOwner, Next
    PROVE  OwnerShows'
<1> USE DEF TypeOK, OrderTypes, WorkerTypes, Serving, OwnerShows, OneOwner,
      Refunding, Refundable
<1>1. ASSUME NEW w \in Workers, NEW o \in Orders, Arrive(w, o)
      PROVE  OwnerShows'
  <2>1. CASE RequestRefund(w, o) BY <2>1 DEF RequestRefund
  <2>2. CASE PrepareRefund(w, o) BY <2>2 DEF PrepareRefund
  <2>3. CASE QueryAndFinalizeRefund(w, o) BY <2>3 DEF QueryAndFinalizeRefund
  <2> QED BY <1>1, <2>1, <2>2, <2>3 DEF Arrive
<1>2. ASSUME NEW w \in Workers, Step(w) \/ Crash(w)
      PROVE  OwnerShows'
  <2>1. CASE SaveRequest(w) BY <2>1 DEF SaveRequest
  <2>2. CASE PrepDeduct(w) BY <2>2 DEF PrepDeduct, Deductible
  <2>3. CASE LockOrder(w) BY <2>3 DEF LockOrder
  <2>4. CASE SkipTakenDeduction(w) BY <2>4 DEF SkipTakenDeduction
  <2>5. CASE Deduct(w) BY <2>5 DEF Deduct, TakeBalance, TakeDays
  <2>6. CASE GwRefund(w) BY <2>6 DEF GwRefund, Pay
  <2>7. CASE MarkRefundOk(w) BY <2>7 DEF MarkRefundOk, RefundedStatus
  <2>8. CASE MarkRefundPending(w) BY <2>8 DEF MarkRefundPending
  <2>9. CASE RollbackRefund(w) BY <2>9 DEF RollbackRefund, GiveBack,
        Returnable
  <2>10. CASE RestoreStatus(w) BY <2>10 DEF RestoreStatus
  <2>11. CASE AuditRollbackFailed(w) BY <2>11 DEF AuditRollbackFailed
  <2>12. CASE WriteRefundFailed(w) BY <2>12 DEF WriteRefundFailed
  <2>13. CASE AuditRefundFailed(w) BY <2>13 DEF AuditRefundFailed
  <2>14. CASE QueryRefund(w) BY <2>14 DEF QueryRefund
  <2>15. CASE FinalizeSuccess(w) BY <2>15 DEF FinalizeSuccess, RefundedStatus
  <2>16. CASE FinalizeFailed(w) BY <2>16 DEF FinalizeFailed, GiveBack,
        Returnable
  <2>17. CASE FinalizeUnreturned(w) BY <2>17 DEF FinalizeUnreturned
  <2>18. CASE Crash(w) BY <2>18 DEF Crash
  <2> QED BY <1>2, <2>1, <2>2, <2>3, <2>4, <2>5, <2>6, <2>7, <2>8, <2>9,
        <2>10, <2>11, <2>12, <2>13, <2>14, <2>15, <2>16, <2>17, <2>18 DEF Step
<1>3. ASSUME NEW o \in Orders, Spend(o) \/ SettleAtGateway(o)
      PROVE  OwnerShows'
  <2>1. CASE Spend(o) BY <2>1 DEF Spend
  <2>2. CASE SettleAtGateway(o) BY <2>2 DEF SettleAtGateway, Pay
  <2> QED BY <1>3, <2>1, <2>2
<1> QED BY <1>1, <1>2, <1>3 DEF Next

\* An order in REFUNDING is not locked again.
LEMMA OneOwnerStep ==
    ASSUME TypeOK, Serving, OwnerShows, OneOwner, Next
    PROVE  OneOwner'
<1> USE DEF TypeOK, OrderTypes, WorkerTypes, Serving, OwnerShows, OneOwner,
      Refunding, Refundable
<1>1. ASSUME NEW w \in Workers, NEW o \in Orders, Arrive(w, o)
      PROVE  OneOwner'
  <2>1. CASE RequestRefund(w, o) BY <2>1 DEF RequestRefund
  <2>2. CASE PrepareRefund(w, o) BY <2>2 DEF PrepareRefund
  <2>3. CASE QueryAndFinalizeRefund(w, o) BY <2>3 DEF QueryAndFinalizeRefund
  <2> QED BY <1>1, <2>1, <2>2, <2>3 DEF Arrive
<1>2. ASSUME NEW w \in Workers, Step(w) \/ Crash(w)
      PROVE  OneOwner'
  <2>1. CASE SaveRequest(w) BY <2>1 DEF SaveRequest
  <2>2. CASE PrepDeduct(w) BY <2>2 DEF PrepDeduct, Deductible
  <2>3. CASE LockOrder(w) BY <2>3 DEF LockOrder
  <2>4. CASE SkipTakenDeduction(w) BY <2>4 DEF SkipTakenDeduction
  <2>5. CASE Deduct(w) BY <2>5 DEF Deduct, TakeBalance, TakeDays
  <2>6. CASE GwRefund(w) BY <2>6 DEF GwRefund, Pay
  <2>7. CASE MarkRefundOk(w) BY <2>7 DEF MarkRefundOk, RefundedStatus
  <2>8. CASE MarkRefundPending(w) BY <2>8 DEF MarkRefundPending
  <2>9. CASE RollbackRefund(w) BY <2>9 DEF RollbackRefund, GiveBack,
        Returnable
  <2>10. CASE RestoreStatus(w) BY <2>10 DEF RestoreStatus
  <2>11. CASE AuditRollbackFailed(w) BY <2>11 DEF AuditRollbackFailed
  <2>12. CASE WriteRefundFailed(w) BY <2>12 DEF WriteRefundFailed
  <2>13. CASE AuditRefundFailed(w) BY <2>13 DEF AuditRefundFailed
  <2>14. CASE QueryRefund(w) BY <2>14 DEF QueryRefund
  <2>15. CASE FinalizeSuccess(w) BY <2>15 DEF FinalizeSuccess, RefundedStatus
  <2>16. CASE FinalizeFailed(w) BY <2>16 DEF FinalizeFailed, GiveBack,
        Returnable
  <2>17. CASE FinalizeUnreturned(w) BY <2>17 DEF FinalizeUnreturned
  <2>18. CASE Crash(w) BY <2>18 DEF Crash
  <2> QED BY <1>2, <2>1, <2>2, <2>3, <2>4, <2>5, <2>6, <2>7, <2>8, <2>9,
        <2>10, <2>11, <2>12, <2>13, <2>14, <2>15, <2>16, <2>17, <2>18 DEF Step
<1>3. ASSUME NEW o \in Orders, Spend(o) \/ SettleAtGateway(o)
      PROVE  OneOwner'
  <2>1. CASE Spend(o) BY <2>1 DEF Spend
  <2>2. CASE SettleAtGateway(o) BY <2>2 DEF SettleAtGateway, Pay
  <2> QED BY <1>3, <2>1, <2>2
<1> QED BY <1>1, <1>2, <1>3 DEF Next

\* The audit of a pending refund is written once, with the status.
LEMMA PlanIsHeldStep ==
    ASSUME TypeOK, Serving, OwnerShows, PlanIsHeld, Next
    PROVE  PlanIsHeld'
<1> USE DEF TypeOK, OrderTypes, AuditTypes, WorkerTypes, Serving, OwnerShows,
      PlanIsHeld, Refunding, Refundable, Finalizing, Plans, NotHeld
<1>1. ASSUME NEW w \in Workers, NEW o \in Orders, Arrive(w, o)
      PROVE  PlanIsHeld'
  <2>1. CASE RequestRefund(w, o) BY <2>1 DEF RequestRefund
  <2>2. CASE PrepareRefund(w, o) BY <2>2 DEF PrepareRefund
  <2>3. CASE QueryAndFinalizeRefund(w, o) BY <2>3 DEF QueryAndFinalizeRefund
  <2> QED BY <1>1, <2>1, <2>2, <2>3 DEF Arrive
<1>2. ASSUME NEW w \in Workers, Step(w) \/ Crash(w)
      PROVE  PlanIsHeld'
  <2>1. CASE SaveRequest(w) BY <2>1 DEF SaveRequest
  <2>2. CASE PrepDeduct(w) BY <2>2 DEF PrepDeduct, Deductible
  <2>3. CASE LockOrder(w)
    <3>1. CASE UNCHANGED status BY <2>3, <3>1 DEF LockOrder
    <3>2. CASE SetStatus(ord[w], "REFUNDING") /\ status[ord[w]] \in Refundable
      <4>1. CASE Leave(w) BY <2>3, <3>2, <4>1 DEF LockOrder
      <4>2. CASE Goto(w, "marker") BY <2>3, <3>2, <4>2 DEF LockOrder
      <4>3. CASE Goto(w, "refund") /\ ~(plan[w].take > 0)
        BY <2>3, <3>2, <4>3 DEF LockOrder
      <4> QED BY <2>3, <3>2, <4>1, <4>2, <4>3 DEF LockOrder
    <3> QED BY <2>3, <3>1, <3>2 DEF LockOrder
  <2>4. CASE SkipTakenDeduction(w) BY <2>4 DEF SkipTakenDeduction
  <2>5. CASE Deduct(w) BY <2>5 DEF Deduct, TakeBalance, TakeDays
  <2>6. CASE GwRefund(w) BY <2>6 DEF GwRefund, Pay
  <2>7. CASE MarkRefundOk(w) BY <2>7 DEF MarkRefundOk, RefundedStatus
  <2>8. CASE MarkRefundPending(w) BY <2>8 DEF MarkRefundPending
  <2>9. CASE RollbackRefund(w) BY <2>9 DEF RollbackRefund, GiveBack,
        Returnable
  <2>10. CASE RestoreStatus(w) BY <2>10 DEF RestoreStatus
  <2>11. CASE AuditRollbackFailed(w) BY <2>11 DEF AuditRollbackFailed
  <2>12. CASE WriteRefundFailed(w) BY <2>12 DEF WriteRefundFailed
  <2>13. CASE AuditRefundFailed(w) BY <2>13 DEF AuditRefundFailed
  <2>14. CASE QueryRefund(w) BY <2>14 DEF QueryRefund
  <2>15. CASE FinalizeSuccess(w) BY <2>15 DEF FinalizeSuccess, RefundedStatus
  <2>16. CASE FinalizeFailed(w) BY <2>16 DEF FinalizeFailed, GiveBack,
        Returnable
  <2>17. CASE FinalizeUnreturned(w) BY <2>17 DEF FinalizeUnreturned
  <2>18. CASE Crash(w) BY <2>18 DEF Crash
  <2> QED BY <1>2, <2>1, <2>2, <2>3, <2>4, <2>5, <2>6, <2>7, <2>8, <2>9,
        <2>10, <2>11, <2>12, <2>13, <2>14, <2>15, <2>16, <2>17, <2>18 DEF Step
<1>3. ASSUME NEW o \in Orders, Spend(o) \/ SettleAtGateway(o)
      PROVE  PlanIsHeld'
  <2>1. CASE Spend(o) BY <2>1 DEF Spend
  <2>2. CASE SettleAtGateway(o) BY <2>2 DEF SettleAtGateway, Pay
  <2> QED BY <1>3, <2>1, <2>2
<1> QED BY <1>1, <1>2, <1>3 DEF Next

\* What is to be returned stays taken until it is returned.
LEMMA BackedStep ==
    ASSUME TypeOK, Serving, OwnerShows, OneOwner, PlanIsHeld, Backed,
           NeverOverReturned, Next
    PROVE  Backed'
<1> USE DEF TypeOK, OrderTypes, GoodsTypes, AuditTypes, WorkerTypes, Serving,
      OwnerShows, OneOwner, PlanIsHeld, Backed, Refunding, Refundable,
      Finalizing, Deducted, Plans, NeverOverReturned
<1>1. ASSUME NEW w \in Workers, NEW o \in Orders, Arrive(w, o)
      PROVE  Backed'
  <2>1. CASE RequestRefund(w, o) BY <2>1 DEF RequestRefund
  <2>2. CASE PrepareRefund(w, o) BY <2>2 DEF PrepareRefund
  <2>3. CASE QueryAndFinalizeRefund(w, o) BY <2>3 DEF QueryAndFinalizeRefund
  <2> QED BY <1>1, <2>1, <2>2, <2>3 DEF Arrive
<1>2. ASSUME NEW w \in Workers, Step(w) \/ Crash(w)
      PROVE  Backed'
  <2>1. CASE SaveRequest(w) BY <2>1 DEF SaveRequest
  <2>2. CASE PrepDeduct(w) BY <2>2 DEF PrepDeduct, Deductible
  <2>3. CASE LockOrder(w)
    <3>1. CASE UNCHANGED status BY <2>3, <3>1 DEF LockOrder
    <3>2. CASE SetStatus(ord[w], "REFUNDING") /\ status[ord[w]] \in Refundable
      <4>1. CASE Leave(w) BY <2>3, <3>2, <4>1 DEF LockOrder
      <4>2. CASE Goto(w, "marker") BY <2>3, <3>2, <4>2 DEF LockOrder
      <4>3. CASE Goto(w, "refund") /\ ~(plan[w].take > 0)
        BY <2>3, <3>2, <4>3 DEF LockOrder
      <4> QED BY <2>3, <3>2, <4>1, <4>2, <4>3 DEF LockOrder
    <3> QED BY <2>3, <3>1, <3>2 DEF LockOrder
  <2>4. CASE SkipTakenDeduction(w) BY <2>4 DEF SkipTakenDeduction
  <2>5. CASE Deduct(w)
    <3>1. ord[w] \in Orders /\ plan[w].take \in 0..Amount /\ pc[w] = "deduct"
      BY <2>5 DEF Deduct
    <3>2. CASE UNCHANGED goodsVars /\ Goto(w, "restore")
      BY <2>5, <3>1, <3>2 DEF Deduct
    <3>3. CASE /\ TakeBalance(w) \/ TakeDays(w)
               /\ \/ pc' = [pc EXCEPT ![w] = "refund"]
                  \/ pc' = [pc EXCEPT ![w] = "restore"]
      <4>1. /\ plan'[w].take \in 0..Amount
            /\ taken' = [taken EXCEPT ![ord[w]] = taken[ord[w]] + plan'[w].take]
            /\ \A v \in Workers \ {w} : plan'[v] = plan[v]
        BY <3>1, <3>3 DEF TakeBalance, TakeDays
      <4>2. UNCHANGED <<status, held, unreturned, ord>>
        BY <2>5 DEF Deduct
      <4> QED BY <3>1, <3>3, <4>1, <4>2
    <3> QED BY <2>5, <3>2, <3>3 DEF Deduct
  <2>6. CASE GwRefund(w) BY <2>6 DEF GwRefund, Pay
  <2>7. CASE MarkRefundOk(w) BY <2>7 DEF MarkRefundOk, RefundedStatus
  <2>8. CASE MarkRefundPending(w) BY <2>8 DEF MarkRefundPending
  <2>9. CASE RollbackRefund(w)
    <3>1. /\ ord[w] \in Orders /\ pc[w] = "rollback"
          /\ status[ord[w]] = "REFUNDING" /\ plan[w].take \in 0..Amount
      BY <2>9 DEF RollbackRefund
    <3>2. /\ UNCHANGED <<status, held, ord, plan>>
          /\ Goto(w, "auditRollback") \/ Goto(w, "restore")
      BY <2>9 DEF RollbackRefund
    <3>3. CASE UNCHANGED taken BY <3>1, <3>2, <3>3
    <3>4. CASE taken' = [taken EXCEPT ![ord[w]] = taken[ord[w]] - plan[w].take]
      BY <3>1, <3>2, <3>4
    <3> QED BY <2>9, <3>3, <3>4 DEF RollbackRefund, GiveBack
  <2>10. CASE RestoreStatus(w) BY <2>10 DEF RestoreStatus
  <2>11. CASE AuditRollbackFailed(w) BY <2>11 DEF AuditRollbackFailed
  <2>12. CASE WriteRefundFailed(w) BY <2>12 DEF WriteRefundFailed
  <2>13. CASE AuditRefundFailed(w) BY <2>13 DEF AuditRefundFailed
  <2>14. CASE QueryRefund(w) BY <2>14 DEF QueryRefund
  <2>15. CASE FinalizeSuccess(w) BY <2>15 DEF FinalizeSuccess, RefundedStatus
  <2>16. CASE FinalizeFailed(w)
    <3>1. /\ ord[w] \in Orders /\ pc[w] = "finalFail"
          /\ plan[w] = held[ord[w]] /\ plan[w].take \in 0..Amount
      BY <2>16 DEF FinalizeFailed
    <3>2. UNCHANGED <<held, unreturned, gateway, refunded>>
      BY <2>16 DEF FinalizeFailed
    <3>3. CASE UNCHANGED <<status, taken>>
      <4>1. Leave(w) \/ Goto(w, "finalUnreturned") BY <2>16 DEF FinalizeFailed
      <4> QED BY <2>16, <3>1, <3>2, <3>3, <4>1 DEF FinalizeFailed
    <3>4. CASE /\ status[ord[w]] = "REFUND_PENDING" /\ Leave(w)
               /\ SetStatus(ord[w], "REFUND_FAILED")
               /\ taken' = [taken EXCEPT ![ord[w]] = taken[ord[w]] - plan[w].take]
      BY <3>1, <3>2, <3>4
    <3> QED BY <2>16, <3>3, <3>4 DEF FinalizeFailed, GiveBack
  <2>17. CASE FinalizeUnreturned(w) BY <2>17 DEF FinalizeUnreturned
  <2>18. CASE Crash(w) BY <2>18 DEF Crash
  <2> QED BY <1>2, <2>1, <2>2, <2>3, <2>4, <2>5, <2>6, <2>7, <2>8, <2>9,
        <2>10, <2>11, <2>12, <2>13, <2>14, <2>15, <2>16, <2>17, <2>18 DEF Step
<1>3. ASSUME NEW o \in Orders, Spend(o) \/ SettleAtGateway(o)
      PROVE  Backed'
  <2>1. CASE Spend(o) BY <2>1 DEF Spend
  <2>2. CASE SettleAtGateway(o) BY <2>2 DEF SettleAtGateway, Pay
  <2> QED BY <1>3, <2>1, <2>2
<1> QED BY <1>1, <1>2, <1>3 DEF Next

\* A return is covered by what was taken.
LEMMA NeverOverReturnedStep ==
    ASSUME TypeOK, Serving, OwnerShows, OneOwner, PlanIsHeld, Backed,
           NeverOverReturned, Next
    PROVE  NeverOverReturned'
<1> USE DEF TypeOK, OrderTypes, GoodsTypes, AuditTypes, WorkerTypes, Serving,
      OwnerShows, PlanIsHeld, Backed, Refunding, Finalizing, Deducted, Plans,
      NeverOverReturned
<1>1. ASSUME NEW w \in Workers, NEW o \in Orders, Arrive(w, o)
      PROVE  NeverOverReturned'
  <2>1. CASE RequestRefund(w, o) BY <2>1 DEF RequestRefund
  <2>2. CASE PrepareRefund(w, o) BY <2>2 DEF PrepareRefund, Refundable
  <2>3. CASE QueryAndFinalizeRefund(w, o) BY <2>3 DEF QueryAndFinalizeRefund
  <2> QED BY <1>1, <2>1, <2>2, <2>3 DEF Arrive
<1>2. ASSUME NEW w \in Workers, Step(w) \/ Crash(w)
      PROVE  NeverOverReturned'
  <2>1. CASE SaveRequest(w) BY <2>1 DEF SaveRequest
  <2>2. CASE PrepDeduct(w) BY <2>2 DEF PrepDeduct, Deductible
  <2>3. CASE LockOrder(w) BY <2>3 DEF LockOrder, Refundable
  <2>4. CASE SkipTakenDeduction(w) BY <2>4 DEF SkipTakenDeduction
  <2>5. CASE Deduct(w) BY <2>5 DEF Deduct, TakeBalance, TakeDays
  <2>6. CASE GwRefund(w) BY <2>6 DEF GwRefund, Pay
  <2>7. CASE MarkRefundOk(w) BY <2>7 DEF MarkRefundOk, RefundedStatus
  <2>8. CASE MarkRefundPending(w) BY <2>8 DEF MarkRefundPending
  <2>9. CASE RollbackRefund(w) BY <2>9 DEF RollbackRefund, GiveBack,
        Returnable
  <2>10. CASE RestoreStatus(w) BY <2>10 DEF RestoreStatus
  <2>11. CASE AuditRollbackFailed(w) BY <2>11 DEF AuditRollbackFailed
  <2>12. CASE WriteRefundFailed(w) BY <2>12 DEF WriteRefundFailed
  <2>13. CASE AuditRefundFailed(w) BY <2>13 DEF AuditRefundFailed
  <2>14. CASE QueryRefund(w) BY <2>14 DEF QueryRefund
  <2>15. CASE FinalizeSuccess(w) BY <2>15 DEF FinalizeSuccess, RefundedStatus
  <2>16. CASE FinalizeFailed(w) BY <2>16 DEF FinalizeFailed, GiveBack,
        Returnable
  <2>17. CASE FinalizeUnreturned(w) BY <2>17 DEF FinalizeUnreturned
  <2>18. CASE Crash(w) BY <2>18 DEF Crash
  <2> QED BY <1>2, <2>1, <2>2, <2>3, <2>4, <2>5, <2>6, <2>7, <2>8, <2>9,
        <2>10, <2>11, <2>12, <2>13, <2>14, <2>15, <2>16, <2>17, <2>18 DEF Step
<1>3. ASSUME NEW o \in Orders, Spend(o) \/ SettleAtGateway(o)
      PROVE  NeverOverReturned'
  <2>1. CASE Spend(o) BY <2>1 DEF Spend
  <2>2. CASE SettleAtGateway(o) BY <2>2 DEF SettleAtGateway, Pay
  <2> QED BY <1>3, <2>1, <2>2
<1> QED BY <1>1, <1>2, <1>3 DEF Next

-----------------------------------------------------------------------------
(* Theorems that hold whichever calls fail.                                *)

\* The invariant holds in every reachable state.
THEOREM Invariance == Spec => []IInv
<1>1. Init => IInv
  <2> SUFFICES ASSUME Init PROVE IInv
    OBVIOUS
  <2> USE DEF Init
  <2>1. TypeOK
    BY DEF TypeOK, OrderTypes, GoodsTypes, AuditTypes, WorkerTypes, Settled,
           Plans, NoPlan, Refundable, Steps, Refunding
  <2>2. Serving /\ OwnerShows /\ OneOwner
    BY DEF Serving, OwnerShows, OneOwner, Refunding
  <2>3. PlanIsHeld /\ Backed BY DEF PlanIsHeld, Backed, Finalizing, Deducted
  <2>4. NeverOverReturned BY DEF NeverOverReturned
  <2> QED BY <2>1, <2>2, <2>3, <2>4 DEF IInv
<1>2. IInv /\ [Next]_vars => IInv'
  <2> SUFFICES ASSUME IInv, [Next]_vars PROVE IInv'
    OBVIOUS
  <2>1. CASE Next
    <3>1. TypeOK'
      BY <2>1, OrderTypesStep, GoodsTypesStep, AuditTypesStep, WorkerTypesStep
      DEF IInv, TypeOK
    <3>2. Serving' /\ OwnerShows' /\ OneOwner'
      BY <2>1, ServingStep, OwnerShowsStep, OneOwnerStep DEF IInv
    <3>3. PlanIsHeld' /\ Backed' /\ NeverOverReturned'
      BY <2>1, PlanIsHeldStep, BackedStep, NeverOverReturnedStep DEF IInv
    <3> QED BY <3>1, <3>2, <3>3 DEF IInv
  <2>2. CASE UNCHANGED vars
    BY <2>2 DEF vars, IInv, TypeOK, OrderTypes, GoodsTypes, AuditTypes,
       WorkerTypes, Serving, OwnerShows, OneOwner, PlanIsHeld, Backed,
       NeverOverReturned
  <2> QED BY <2>1, <2>2
<1> QED BY <1>1, <1>2, PTL DEF Spec

\* Type correctness: no balance goes below zero, no plan exceeds the amount.
THEOREM TypeCorrectness == Spec => []TypeOK
<1>1. IInv => TypeOK BY DEF IInv
<1> QED BY <1>1, Invariance, PTL

\* However refunds, retries and finalizations interleave and fail, no more is
\* returned to the customer than was taken.
THEOREM NoOverReturn == Spec => []NeverOverReturned
<1>1. IInv => NeverOverReturned BY DEF IInv
<1> QED BY <1>1, Invariance, PTL

\* The change of status of one step.
EdgeGoal ==
    \A x \in Orders :
        status'[x] # status[x] => <<status[x], status'[x]>> \in RefundEdges

\* Each action makes only changes of status that are refund edges.
LEMMA EdgeStep ==
    ASSUME TypeOK, Serving, OwnerShows, Next
    PROVE  EdgeGoal
<1> USE DEF TypeOK, OrderTypes, WorkerTypes, Serving, OwnerShows, Refunding,
      Refundable, RefundEdges, Settled, RefundStatuses, EdgeGoal
<1>1. ASSUME NEW w \in Workers, NEW o \in Orders, Arrive(w, o)
      PROVE  EdgeGoal
  <2>1. CASE RequestRefund(w, o) BY <2>1 DEF RequestRefund
  <2>2. CASE PrepareRefund(w, o) BY <2>2 DEF PrepareRefund
  <2>3. CASE QueryAndFinalizeRefund(w, o) BY <2>3 DEF QueryAndFinalizeRefund
  <2> QED BY <1>1, <2>1, <2>2, <2>3 DEF Arrive
<1>2. ASSUME NEW w \in Workers, Step(w) \/ Crash(w)
      PROVE  EdgeGoal
  <2>1. CASE SaveRequest(w) BY <2>1 DEF SaveRequest
  <2>2. CASE PrepDeduct(w) BY <2>2 DEF PrepDeduct, Deductible
  <2>3. CASE LockOrder(w) BY <2>3 DEF LockOrder
  <2>4. CASE SkipTakenDeduction(w) BY <2>4 DEF SkipTakenDeduction
  <2>5. CASE Deduct(w) BY <2>5 DEF Deduct, TakeBalance, TakeDays
  <2>6. CASE GwRefund(w) BY <2>6 DEF GwRefund, Pay
  <2>7. CASE MarkRefundOk(w) BY <2>7 DEF MarkRefundOk, RefundedStatus
  <2>8. CASE MarkRefundPending(w) BY <2>8 DEF MarkRefundPending
  <2>9. CASE RollbackRefund(w) BY <2>9 DEF RollbackRefund, GiveBack,
        Returnable
  <2>10. CASE RestoreStatus(w) BY <2>10, RestoredFrom DEF RestoreStatus
  <2>11. CASE AuditRollbackFailed(w) BY <2>11 DEF AuditRollbackFailed
  <2>12. CASE WriteRefundFailed(w) BY <2>12 DEF WriteRefundFailed
  <2>13. CASE AuditRefundFailed(w) BY <2>13 DEF AuditRefundFailed
  <2>14. CASE QueryRefund(w) BY <2>14 DEF QueryRefund
  <2>15. CASE FinalizeSuccess(w) BY <2>15 DEF FinalizeSuccess, RefundedStatus
  <2>16. CASE FinalizeFailed(w) BY <2>16 DEF FinalizeFailed, GiveBack,
        Returnable
  <2>17. CASE FinalizeUnreturned(w) BY <2>17 DEF FinalizeUnreturned
  <2>18. CASE Crash(w) BY <2>18 DEF Crash
  <2> QED BY <1>2, <2>1, <2>2, <2>3, <2>4, <2>5, <2>6, <2>7, <2>8, <2>9,
        <2>10, <2>11, <2>12, <2>13, <2>14, <2>15, <2>16, <2>17, <2>18 DEF Step
<1>3. ASSUME NEW o \in Orders, Spend(o) \/ SettleAtGateway(o)
      PROVE  EdgeGoal
  <2>1. CASE Spend(o) BY <2>1 DEF Spend
  <2>2. CASE SettleAtGateway(o) BY <2>2 DEF SettleAtGateway, Pay
  <2> QED BY <1>3, <2>1, <2>2
<1> QED BY <1>1, <1>2, <1>3 DEF Next

\* A refund moves the order along the edges the order life cycle allows for.
THEOREM RefundsKeepToTheirEdges == Spec => OnlyRefundEdges
<1>1. IInv /\ [Next]_vars =>
        [\A o \in Orders :
           status'[o] # status[o] => <<status[o], status'[o]>> \in RefundEdges]_vars
  BY EdgeStep DEF IInv, EdgeGoal
<1> QED BY <1>1, Invariance, PTL DEF Spec, OnlyRefundEdges

-----------------------------------------------------------------------------
(* The strengthening for reliable audits and answers.                      *)

\* The gateway has paid at most once, and not before it was asked.
PaidAtGateway ==
    /\ \A o \in Orders : refunded[o] = IF gateway[o] = "done" THEN 1 ELSE 0
    /\ \A o \in Orders :
         status[o] \in Refundable => gateway[o] \in {"none", "failed"}
    /\ \A w \in Workers :
         /\ pc[w] \in Refunding \ {"markOk", "markPending"} =>
              gateway[ord[w]] \in {"none", "failed"}
         /\ /\ pc[w] \in {"finalFail", "finalUnreturned"}
            /\ status[ord[w]] = "REFUND_PENDING"
            => gateway[ord[w]] = "failed"

\* What is taken is what the worker at it, the pending audit or the
\* REFUND_ROLLBACK_FAILED audit accounts for.
Accounted ==
    /\ \A o \in Orders :
         /\ status[o] \in Refundable /\ taken[o] # 0 => unreturned[o]
         /\ status[o] = "REFUND_PENDING" =>
              held[o].take = IF unreturned[o] THEN 0 ELSE taken[o]
    /\ \A w \in Workers :
         /\ pc[w] \in {"marker", "restore", "writeFailed"} /\ taken[ord[w]] # 0
            => unreturned[ord[w]]
         /\ pc[w] = "deduct" => taken[ord[w]] = 0 /\ ~unreturned[ord[w]]
         /\ pc[w] \in Deducted =>
              plan[w].take = IF unreturned[ord[w]] THEN 0 ELSE taken[ord[w]]

RInv == silent = 0 => TakenAtMostOnce /\ PaidAtGateway /\ Accounted

\* The gateway is asked again only after it has refused.
LEMMA PaidAtGatewayStep ==
    ASSUME silent = 0, silent' = 0, TypeOK, Serving, OwnerShows, OneOwner, PlanIsHeld,
           PaidAtGateway, Next
    PROVE  PaidAtGateway'
<1> USE DEF TypeOK, OrderTypes, GoodsTypes, AuditTypes, WorkerTypes, Serving,
      OwnerShows, OneOwner, PlanIsHeld, Refunding, Refundable, Finalizing,
      Deducted, Plans, NotHeld, PaidAtGateway
<1>1. ASSUME NEW w \in Workers, NEW o \in Orders, Arrive(w, o)
      PROVE  PaidAtGateway'
  <2>1. CASE RequestRefund(w, o) BY <2>1 DEF RequestRefund
  <2>2. CASE PrepareRefund(w, o) BY <2>2 DEF PrepareRefund
  <2>3. CASE QueryAndFinalizeRefund(w, o) BY <2>3 DEF QueryAndFinalizeRefund
  <2> QED BY <1>1, <2>1, <2>2, <2>3 DEF Arrive
<1>2. ASSUME NEW w \in Workers, Step(w) \/ Crash(w)
      PROVE  PaidAtGateway'
  <2>1. CASE SaveRequest(w) BY <2>1 DEF SaveRequest
  <2>2. CASE PrepDeduct(w) BY <2>2 DEF PrepDeduct, Deductible
  <2>3. CASE LockOrder(w)
    <3>1. CASE UNCHANGED status BY <2>3, <3>1 DEF LockOrder
    <3>2. CASE SetStatus(ord[w], "REFUNDING") /\ status[ord[w]] \in Refundable
      <4>1. CASE Leave(w) BY <2>3, <3>2, <4>1 DEF LockOrder
      <4>2. CASE Goto(w, "marker") BY <2>3, <3>2, <4>2 DEF LockOrder
      <4>3. CASE Goto(w, "refund") /\ ~(plan[w].take > 0)
        BY <2>3, <3>2, <4>3 DEF LockOrder
      <4> QED BY <2>3, <3>2, <4>1, <4>2, <4>3 DEF LockOrder
    <3> QED BY <2>3, <3>1, <3>2 DEF LockOrder
  <2>4. CASE SkipTakenDeduction(w) BY <2>4 DEF SkipTakenDeduction
  <2>5. CASE Deduct(w) BY <2>5 DEF Deduct, TakeBalance, TakeDays
  <2>6. CASE GwRefund(w)
    <3>1. /\ ord[w] \in Orders /\ pc[w] = "refund"
          /\ status[ord[w]] = "REFUNDING" /\ refunded[ord[w]] = 0
      BY <2>6 DEF GwRefund
    <3>2. UNCHANGED <<status, ord>> BY <2>6 DEF GwRefund
    <3>3. CASE UNCHANGED gatewayVars BY <2>6, <3>1, <3>2, <3>3 DEF GwRefund
    <3>4. CASE Pay(ord[w]) /\ Goto(w, "markOk")
      BY <3>1, <3>2, <3>4 DEF Pay
    <3>5. CASE /\ gateway' = [gateway EXCEPT ![ord[w]] = "pending"]
               /\ Goto(w, "markPending") /\ UNCHANGED refunded
      BY <3>1, <3>2, <3>5
    <3> QED BY <2>6, <3>3, <3>4, <3>5 DEF GwRefund
  <2>7. CASE MarkRefundOk(w) BY <2>7 DEF MarkRefundOk, RefundedStatus
  <2>8. CASE MarkRefundPending(w) BY <2>8 DEF MarkRefundPending
  <2>9. CASE RollbackRefund(w)
    <3>1. /\ UNCHANGED <<status, gateway, refunded, ord>> /\ pc[w] = "rollback"
          /\ Goto(w, "auditRollback") \/ Goto(w, "restore")
      BY <2>9 DEF RollbackRefund
    <3> QED BY <3>1
  <2>10. CASE RestoreStatus(w)
    <3>1. plan[w].from \in {"COMPLETED", "REFUND_REQUESTED"} BY RestoredFrom
    <3> HIDE DEF Plans, NotHeld
    <3>2. /\ UNCHANGED <<gateway, refunded>> /\ pc[w] = "restore" /\ Leave(w)
          /\ ord[w] \in Orders /\ gateway[ord[w]] \in {"none", "failed"}
      BY <2>10 DEF RestoreStatus
    <3>3. CASE UNCHANGED status BY <3>2, <3>3
    <3>4. CASE SetStatus(ord[w], plan[w].from) BY <3>1, <3>2, <3>4
    <3> QED BY <2>10, <3>3, <3>4 DEF RestoreStatus
  <2>11. CASE AuditRollbackFailed(w) BY <2>11 DEF AuditRollbackFailed
  <2>12. CASE WriteRefundFailed(w)
    <3> HIDE DEF Plans, NotHeld
    <3>1. /\ UNCHANGED <<gateway, refunded>> /\ pc[w] = "writeFailed"
          /\ Goto(w, "auditFailed")
      BY <2>12 DEF WriteRefundFailed
    <3>2. CASE UNCHANGED status BY <3>1, <3>2
    <3>3. CASE SetStatus(ord[w], "REFUND_FAILED") BY <3>1, <3>3
    <3> QED BY <2>12, <3>2, <3>3 DEF WriteRefundFailed
  <2>13. CASE AuditRefundFailed(w) BY <2>13 DEF AuditRefundFailed
  <2>14. CASE QueryRefund(w) BY <2>14 DEF QueryRefund
  <2>15. CASE FinalizeSuccess(w) BY <2>15 DEF FinalizeSuccess, RefundedStatus
  <2>16. CASE FinalizeFailed(w)
    <3>1. /\ ord[w] \in Orders /\ pc[w] = "finalFail"
          /\ plan[w] = held[ord[w]] /\ plan[w].take \in 0..Amount
      BY <2>16 DEF FinalizeFailed
    <3>2. UNCHANGED <<held, unreturned, gateway, refunded>>
      BY <2>16 DEF FinalizeFailed
    <3>3. CASE UNCHANGED <<status, taken>>
      <4>1. Leave(w) \/ Goto(w, "finalUnreturned") BY <2>16 DEF FinalizeFailed
      <4> QED BY <2>16, <3>1, <3>2, <3>3, <4>1 DEF FinalizeFailed
    <3>4. CASE /\ status[ord[w]] = "REFUND_PENDING" /\ Leave(w)
               /\ SetStatus(ord[w], "REFUND_FAILED")
               /\ taken' = [taken EXCEPT ![ord[w]] = taken[ord[w]] - plan[w].take]
      BY <3>1, <3>2, <3>4
    <3> QED BY <2>16, <3>3, <3>4 DEF FinalizeFailed, GiveBack
  <2>17. CASE FinalizeUnreturned(w) BY <2>17 DEF FinalizeUnreturned
  <2>18. CASE Crash(w) BY <2>18 DEF Crash
  <2> QED BY <1>2, <2>1, <2>2, <2>3, <2>4, <2>5, <2>6, <2>7, <2>8, <2>9,
        <2>10, <2>11, <2>12, <2>13, <2>14, <2>15, <2>16, <2>17, <2>18 DEF Step
<1>3. ASSUME NEW o \in Orders, Spend(o) \/ SettleAtGateway(o)
      PROVE  PaidAtGateway'
  <2>1. CASE Spend(o) BY <2>1 DEF Spend
  <2>2. CASE SettleAtGateway(o)
    <3>1. UNCHANGED <<status, pc, ord>> /\ gateway[o] = "pending"
      BY <2>2 DEF SettleAtGateway
    <3>2. status[o] \notin Refundable BY <3>1
    <3>3. CASE Pay(o) BY <3>1, <3>2, <3>3 DEF Pay
    <3>4. CASE gateway' = [gateway EXCEPT ![o] = "failed"] /\ UNCHANGED refunded
      BY <3>1, <3>2, <3>4
    <3> QED BY <2>2, <3>3, <3>4 DEF SettleAtGateway
  <2> QED BY <1>3, <2>1, <2>2
<1> QED BY <1>1, <1>2, <1>3 DEF Next

\* A deduction passes from the worker to an audit, or is returned.
LEMMA AccountedStep ==
    ASSUME silent = 0, silent' = 0, IInv, TakenAtMostOnce, Accounted, Next
    PROVE  Accounted'
<1> USE DEF IInv, NeverOverReturned, TakenAtMostOnce, TypeOK, OrderTypes,
      GoodsTypes, AuditTypes, WorkerTypes, Serving, OwnerShows, OneOwner,
      PlanIsHeld, Refunding, Refundable, Finalizing, Deducted, Plans, NotHeld,
      Accounted
<1>1. ASSUME NEW w \in Workers, NEW o \in Orders, Arrive(w, o)
      PROVE  Accounted'
  <2>1. CASE RequestRefund(w, o) BY <2>1 DEF RequestRefund
  <2>2. CASE PrepareRefund(w, o) BY <2>2 DEF PrepareRefund
  <2>3. CASE QueryAndFinalizeRefund(w, o) BY <2>3 DEF QueryAndFinalizeRefund
  <2> QED BY <1>1, <2>1, <2>2, <2>3 DEF Arrive
<1>2. ASSUME NEW w \in Workers, Step(w) \/ Crash(w)
      PROVE  Accounted'
  <2>1. CASE SaveRequest(w) BY <2>1 DEF SaveRequest
  <2>2. CASE PrepDeduct(w) BY <2>2 DEF PrepDeduct, Deductible
  <2>3. CASE LockOrder(w)
    <3>1. /\ UNCHANGED <<taken, held, unreturned>> /\ pc[w] = "lock"
      BY <2>3 DEF LockOrder
    <3>2. CASE Leave(w) /\ UNCHANGED status BY <3>1, <3>2
    <3>3. CASE /\ SetStatus(ord[w], "REFUNDING") /\ status[ord[w]] \in Refundable
               /\ Goto(w, "marker")
      BY <3>1, <3>3
    <3>4. CASE /\ SetStatus(ord[w], "REFUNDING") /\ status[ord[w]] \in Refundable
               /\ Goto(w, "refund") /\ ~(plan[w].take > 0)
      BY <3>1, <3>4
    <3> QED BY <2>3, <3>2, <3>3, <3>4 DEF LockOrder
  <2>4. CASE SkipTakenDeduction(w) BY <2>4 DEF SkipTakenDeduction
  <2>5. CASE Deduct(w)
    <3>1. ord[w] \in Orders /\ plan[w].take \in 0..Amount /\ pc[w] = "deduct"
      BY <2>5 DEF Deduct
    <3>2. CASE UNCHANGED goodsVars /\ Goto(w, "restore")
      BY <2>5, <3>1, <3>2 DEF Deduct
    <3>3. CASE /\ TakeBalance(w) \/ TakeDays(w)
               /\ pc' = [pc EXCEPT ![w] = "refund"]
      <4>1. /\ plan'[w].take \in 0..Amount
            /\ taken' = [taken EXCEPT ![ord[w]] = taken[ord[w]] + plan'[w].take]
            /\ \A v \in Workers \ {w} : plan'[v] = plan[v]
        BY <3>1, <3>3 DEF TakeBalance, TakeDays
      <4>2. UNCHANGED <<status, held, unreturned, ord>>
        BY <2>5 DEF Deduct
      <4> QED BY <3>1, <3>3, <4>1, <4>2
    <3> QED BY <2>5, <3>2, <3>3 DEF Deduct
  <2>6. CASE GwRefund(w) BY <2>6 DEF GwRefund, Pay
  <2>7. CASE MarkRefundOk(w) BY <2>7 DEF MarkRefundOk, RefundedStatus
  <2>8. CASE MarkRefundPending(w) BY SMTT(30), <2>8 DEF MarkRefundPending
  <2>9. CASE RollbackRefund(w)
    <3>1. /\ ord[w] \in Orders /\ pc[w] = "rollback"
          /\ status[ord[w]] = "REFUNDING" /\ plan[w].take \in 0..Amount
      BY <2>9 DEF RollbackRefund
    <3>2. UNCHANGED <<status, held, unreturned, ord, plan>>
      BY <2>9 DEF RollbackRefund
    <3>3. CASE UNCHANGED taken /\ Goto(w, "auditRollback")
      BY <3>1, <3>2, <3>3
    <3>4. CASE /\ taken' = [taken EXCEPT ![ord[w]] = taken[ord[w]] - plan[w].take]
               /\ Goto(w, "restore")
      BY <3>1, <3>2, <3>4
    <3> QED BY <2>9, <3>3, <3>4 DEF RollbackRefund, GiveBack
  <2>10. CASE RestoreStatus(w) BY <2>10 DEF RestoreStatus
  <2>11. CASE AuditRollbackFailed(w)
    <3>1. /\ UNCHANGED <<status, taken, held, ord, plan>>
          /\ pc[w] = "auditRollback" /\ Goto(w, "writeFailed")
          /\ unreturned' = [unreturned EXCEPT ![ord[w]] = TRUE]
      BY <2>11 DEF AuditRollbackFailed
    <3>2. status[ord[w]] = "REFUNDING" /\ ord[w] \in Orders
      BY <3>1
    <3> QED BY <3>1, <3>2
  <2>12. CASE WriteRefundFailed(w) BY <2>12 DEF WriteRefundFailed
  <2>13. CASE AuditRefundFailed(w) BY <2>13 DEF AuditRefundFailed
  <2>14. CASE QueryRefund(w) BY <2>14 DEF QueryRefund
  <2>15. CASE FinalizeSuccess(w) BY <2>15 DEF FinalizeSuccess, RefundedStatus
  <2>16. CASE FinalizeFailed(w)
    <3>1. /\ ord[w] \in Orders /\ pc[w] = "finalFail"
          /\ plan[w] = held[ord[w]] /\ plan[w].take \in 0..Amount
      BY <2>16 DEF FinalizeFailed
    <3>2. UNCHANGED <<held, unreturned, gateway, refunded>>
      BY <2>16 DEF FinalizeFailed
    <3>3. CASE UNCHANGED <<status, taken>>
      <4>1. Leave(w) \/ Goto(w, "finalUnreturned") BY <2>16 DEF FinalizeFailed
      <4> QED BY <2>16, <3>1, <3>2, <3>3, <4>1 DEF FinalizeFailed
    <3>4. CASE /\ status[ord[w]] = "REFUND_PENDING" /\ Leave(w)
               /\ SetStatus(ord[w], "REFUND_FAILED")
               /\ taken' = [taken EXCEPT ![ord[w]] = taken[ord[w]] - plan[w].take]
      BY <3>1, <3>2, <3>4
    <3> QED BY <2>16, <3>3, <3>4 DEF FinalizeFailed, GiveBack
  <2>17. CASE FinalizeUnreturned(w)
    <3>1. ord[w] \in Orders /\ UNCHANGED <<held, taken>> /\ Leave(w)
      BY <2>17 DEF FinalizeUnreturned
    <3>2. CASE UNCHANGED <<status, unreturned>> BY <3>1, <3>2
    <3>3. CASE /\ status[ord[w]] = "REFUND_PENDING"
               /\ SetStatus(ord[w], "REFUND_FAILED")
               /\ unreturned' = [unreturned EXCEPT ![ord[w]] = TRUE]
      BY <3>1, <3>3
    <3> QED BY <2>17, <3>2, <3>3 DEF FinalizeUnreturned
  <2>18. CASE Crash(w) BY <2>18 DEF Crash
  <2> QED BY <1>2, <2>1, <2>2, <2>3, <2>4, <2>5, <2>6, <2>7, <2>8, <2>9,
        <2>10, <2>11, <2>12, <2>13, <2>14, <2>15, <2>16, <2>17, <2>18 DEF Step
<1>3. ASSUME NEW o \in Orders, Spend(o) \/ SettleAtGateway(o)
      PROVE  Accounted'
  <2>1. CASE Spend(o) BY <2>1 DEF Spend
  <2>2. CASE SettleAtGateway(o) BY <2>2 DEF SettleAtGateway, Pay
  <2> QED BY <1>3, <2>1, <2>2
<1> QED BY <1>1, <1>2, <1>3 DEF Next

\* A deduction is made only when nothing is taken.
LEMMA TakenStep ==
    ASSUME silent = 0, silent' = 0, IInv, Accounted, TakenAtMostOnce, Next
    PROVE  TakenAtMostOnce'
<1> USE DEF IInv, TypeOK, OrderTypes, GoodsTypes, AuditTypes, WorkerTypes,
      Serving, OwnerShows, OneOwner, PlanIsHeld, Refunding, Refundable,
      Finalizing, Deducted, Plans, NotHeld, Accounted, TakenAtMostOnce
<1>1. ASSUME NEW w \in Workers, NEW o \in Orders, Arrive(w, o)
      PROVE  TakenAtMostOnce'
  <2>1. CASE RequestRefund(w, o) BY <2>1 DEF RequestRefund
  <2>2. CASE PrepareRefund(w, o) BY <2>2 DEF PrepareRefund
  <2>3. CASE QueryAndFinalizeRefund(w, o) BY <2>3 DEF QueryAndFinalizeRefund
  <2> QED BY <1>1, <2>1, <2>2, <2>3 DEF Arrive
<1>2. ASSUME NEW w \in Workers, Step(w) \/ Crash(w)
      PROVE  TakenAtMostOnce'
  <2>1. CASE SaveRequest(w) BY <2>1 DEF SaveRequest
  <2>2. CASE PrepDeduct(w) BY <2>2 DEF PrepDeduct, Deductible
  <2>3. CASE LockOrder(w) BY <2>3 DEF LockOrder
  <2>4. CASE SkipTakenDeduction(w) BY <2>4 DEF SkipTakenDeduction
  <2>5. CASE Deduct(w)
    <3>1. ord[w] \in Orders /\ plan[w].take \in 0..Amount /\ pc[w] = "deduct"
      BY <2>5 DEF Deduct
    <3>2. CASE UNCHANGED goodsVars /\ Goto(w, "restore")
      BY <2>5, <3>1, <3>2 DEF Deduct
    <3>3. CASE /\ TakeBalance(w) \/ TakeDays(w)
               /\ pc' = [pc EXCEPT ![w] = "refund"]
      <4>1. /\ plan'[w].take \in 0..Amount
            /\ taken' = [taken EXCEPT ![ord[w]] = taken[ord[w]] + plan'[w].take]
            /\ \A v \in Workers \ {w} : plan'[v] = plan[v]
        BY <3>1, <3>3 DEF TakeBalance, TakeDays
      <4>2. UNCHANGED <<status, held, unreturned, ord>>
        BY <2>5 DEF Deduct
      <4> QED BY <3>1, <3>3, <4>1, <4>2
    <3> QED BY <2>5, <3>2, <3>3 DEF Deduct
  <2>6. CASE GwRefund(w) BY <2>6 DEF GwRefund, Pay
  <2>7. CASE MarkRefundOk(w) BY <2>7 DEF MarkRefundOk, RefundedStatus
  <2>8. CASE MarkRefundPending(w) BY <2>8 DEF MarkRefundPending
  <2>9. CASE RollbackRefund(w)
    <3>1. /\ ord[w] \in Orders /\ pc[w] = "rollback"
          /\ status[ord[w]] = "REFUNDING" /\ plan[w].take \in 0..Amount
      BY <2>9 DEF RollbackRefund
    <3>2. UNCHANGED <<status, held, unreturned, ord, plan>>
      BY <2>9 DEF RollbackRefund
    <3>3. CASE UNCHANGED taken /\ Goto(w, "auditRollback")
      BY <3>1, <3>2, <3>3
    <3>4. CASE /\ taken' = [taken EXCEPT ![ord[w]] = taken[ord[w]] - plan[w].take]
               /\ Goto(w, "restore")
      BY <3>1, <3>2, <3>4
    <3> QED BY <2>9, <3>3, <3>4 DEF RollbackRefund, GiveBack
  <2>10. CASE RestoreStatus(w) BY <2>10 DEF RestoreStatus
  <2>11. CASE AuditRollbackFailed(w) BY <2>11 DEF AuditRollbackFailed
  <2>12. CASE WriteRefundFailed(w) BY <2>12 DEF WriteRefundFailed
  <2>13. CASE AuditRefundFailed(w) BY <2>13 DEF AuditRefundFailed
  <2>14. CASE QueryRefund(w) BY <2>14 DEF QueryRefund
  <2>15. CASE FinalizeSuccess(w) BY <2>15 DEF FinalizeSuccess, RefundedStatus
  <2>16. CASE FinalizeFailed(w) BY <2>16 DEF FinalizeFailed, GiveBack,
        Returnable
  <2>17. CASE FinalizeUnreturned(w) BY <2>17 DEF FinalizeUnreturned
  <2>18. CASE Crash(w) BY <2>18 DEF Crash
  <2> QED BY <1>2, <2>1, <2>2, <2>3, <2>4, <2>5, <2>6, <2>7, <2>8, <2>9,
        <2>10, <2>11, <2>12, <2>13, <2>14, <2>15, <2>16, <2>17, <2>18 DEF Step
<1>3. ASSUME NEW o \in Orders, Spend(o) \/ SettleAtGateway(o)
      PROVE  TakenAtMostOnce'
  <2>1. CASE Spend(o) BY <2>1 DEF Spend
  <2>2. CASE SettleAtGateway(o) BY <2>2 DEF SettleAtGateway, Pay
  <2> QED BY <1>3, <2>1, <2>2
<1> QED BY <1>1, <1>2, <1>3 DEF Next

\* A silent fault is never forgotten.
LEMMA SilentStays == ASSUME TypeOK, Next PROVE silent' = 0 => silent = 0
<1> USE DEF TypeOK, WorkerTypes
<1>1. ASSUME NEW w \in Workers, NEW o \in Orders, Arrive(w, o)
      PROVE  UNCHANGED silent
  BY <1>1 DEF Arrive, RequestRefund, PrepareRefund, QueryAndFinalizeRefund
<1>2. ASSUME NEW w \in Workers, Step(w) \/ Crash(w)
      PROVE  UNCHANGED silent \/ silent' = 1
  <2>1. CASE SaveRequest(w) BY <2>1 DEF SaveRequest
  <2>2. CASE PrepDeduct(w) BY <2>2 DEF PrepDeduct
  <2>3. CASE LockOrder(w) BY <2>3 DEF LockOrder
  <2>4. CASE SkipTakenDeduction(w) BY <2>4 DEF SkipTakenDeduction
  <2>5. CASE Deduct(w) BY <2>5 DEF Deduct
  <2>6. CASE GwRefund(w) BY <2>6 DEF GwRefund
  <2>7. CASE MarkRefundOk(w) BY <2>7 DEF MarkRefundOk
  <2>8. CASE MarkRefundPending(w) BY <2>8 DEF MarkRefundPending
  <2>9. CASE RollbackRefund(w) BY <2>9 DEF RollbackRefund
  <2>10. CASE RestoreStatus(w) BY <2>10 DEF RestoreStatus
  <2>11. CASE AuditRollbackFailed(w) BY <2>11 DEF AuditRollbackFailed
  <2>12. CASE WriteRefundFailed(w) BY <2>12 DEF WriteRefundFailed
  <2>13. CASE AuditRefundFailed(w) BY <2>13 DEF AuditRefundFailed
  <2>14. CASE QueryRefund(w) BY <2>14 DEF QueryRefund
  <2>15. CASE FinalizeSuccess(w) BY <2>15 DEF FinalizeSuccess
  <2>16. CASE FinalizeFailed(w) BY <2>16 DEF FinalizeFailed
  <2>17. CASE FinalizeUnreturned(w) BY <2>17 DEF FinalizeUnreturned
  <2>18. CASE Crash(w) BY <2>18 DEF Crash
  <2> QED BY <1>2, <2>1, <2>2, <2>3, <2>4, <2>5, <2>6, <2>7, <2>8, <2>9,
        <2>10, <2>11, <2>12, <2>13, <2>14, <2>15, <2>16, <2>17, <2>18 DEF Step
<1>3. ASSUME NEW o \in Orders, Spend(o) \/ SettleAtGateway(o)
      PROVE  UNCHANGED silent
  BY <1>3 DEF Spend, SettleAtGateway
<1> QED BY <1>1, <1>2, <1>3 DEF Next

-----------------------------------------------------------------------------
(* Theorems for reliable audits and answers.                               *)

\* The strengthened invariant holds as long as no audit or answer is lost.
THEOREM ReliableInvariance ==
    Spec => []RInv
<1>1. Init => RInv
  BY DEF Init, RInv, TakenAtMostOnce, PaidAtGateway, Accounted, Refundable,
         Refunding, Deducted
<1>2. IInv /\ RInv /\ [Next]_vars => RInv'
  <2> SUFFICES ASSUME IInv, RInv, [Next]_vars PROVE RInv'
    OBVIOUS
  <2>1. CASE Next
    <3>1. CASE silent' # 0 BY <3>1 DEF RInv
    <3>2. CASE silent' = 0
      <4>1. silent = 0 BY <2>1, <3>2, SilentStays DEF IInv
      <4> QED BY <2>1, <3>2, <4>1, TakenStep, PaidAtGatewayStep, AccountedStep
          DEF IInv, RInv
    <3> QED BY <3>1, <3>2
  <2>2. CASE UNCHANGED vars
    BY <2>2 DEF vars, RInv, TakenAtMostOnce, PaidAtGateway, Accounted
  <2> QED BY <2>1, <2>2
<1> QED BY <1>1, <1>2, Invariance, PTL DEF Spec

\* The customer is never deducted more than the order's amount.
THEOREM NoDoubleDeduction ==
    Spec => []TakenAtMostOnce
<1>1. RInv => TakenAtMostOnce BY DEF RInv, TakenAtMostOnce
<1> QED BY <1>1, ReliableInvariance, PTL

\* An order that shows no refund was not paid back, and what is still deducted
\* for it is on record.
THEOREM UnrefundedStaysWhole ==
    Spec => []UnrefundedIsWhole
<1>1. RInv => UnrefundedIsWhole
  BY DEF RInv, PaidAtGateway, Accounted, UnrefundedIsWhole
<1> QED BY <1>1, ReliableInvariance, PTL

\* The audit of a pending refund holds exactly what was taken.
THEOREM PendingDeductionIsRecorded ==
    Spec => []HeldIsRecorded
<1>1. IInv /\ RInv => HeldIsRecorded
  BY DEF IInv, RInv, PlanIsHeld, Accounted, HeldIsRecorded
<1> QED BY <1>1, Invariance, ReliableInvariance, PTL

-----------------------------------------------------------------------------
(* The refinement of the contract with the customer.                       *)

\* A step the customer and the gateway do not see.
Unseen == UNCHANGED <<taken, refunded>>

\* Only the deduction, the two returns and the gateway's payments are seen.
LEMMA UnseenStep ==
    ASSUME NEW w \in Workers, Step(w) \/ Crash(w)
    PROVE  \/ Unseen
           \/ Deduct(w) \/ GwRefund(w) \/ RollbackRefund(w) \/ FinalizeFailed(w)
<1> USE DEF Unseen
<1>1. CASE SaveRequest(w) BY <1>1 DEF SaveRequest
<1>2. CASE PrepDeduct(w) BY <1>2 DEF PrepDeduct
<1>3. CASE LockOrder(w) BY <1>3 DEF LockOrder
<1>4. CASE SkipTakenDeduction(w) BY <1>4 DEF SkipTakenDeduction
<1>5. CASE MarkRefundOk(w) BY <1>5 DEF MarkRefundOk
<1>6. CASE MarkRefundPending(w) BY <1>6 DEF MarkRefundPending
<1>7. CASE RestoreStatus(w) BY <1>7 DEF RestoreStatus
<1>8. CASE AuditRollbackFailed(w) BY <1>8 DEF AuditRollbackFailed
<1>9. CASE WriteRefundFailed(w) BY <1>9 DEF WriteRefundFailed
<1>10. CASE AuditRefundFailed(w) BY <1>10 DEF AuditRefundFailed
<1>11. CASE QueryRefund(w) BY <1>11 DEF QueryRefund
<1>12. CASE FinalizeSuccess(w) BY <1>12 DEF FinalizeSuccess
<1>13. CASE FinalizeUnreturned(w) BY <1>13 DEF FinalizeUnreturned
<1>14. CASE Crash(w) BY <1>14 DEF Crash
<1> QED BY <1>1, <1>2, <1>3, <1>4, <1>5, <1>6, <1>7, <1>8, <1>9, <1>10, <1>11, <1>12, <1>13, <1>14 DEF Step

\* The deduction is made when nothing is held and nothing was paid, or it
\* turns out to be nothing at all.
LEMMA DeductIsTake ==
    ASSUME silent = 0, silent' = 0, IInv, PaidAtGateway, Accounted,
           NEW w \in Workers, Deduct(w)
    PROVE  Unseen \/ \E o \in Orders : Contract!Take(o)
<1>1. /\ ord[w] \in Orders /\ plan[w].take \in 0..Amount /\ pc[w] = "deduct"
      /\ purse[ord[w]] \in Nat /\ UNCHANGED refunded
  BY DEF Deduct, IInv, Serving, TypeOK, GoodsTypes, WorkerTypes, Plans
<1>2. taken[ord[w]] = 0 /\ refunded[ord[w]] = 0
  BY <1>1 DEF Accounted, PaidAtGateway, Refunding
<1>3. CASE UNCHANGED goodsVars BY <1>1, <1>3 DEF Unseen
<1>4. CASE TakeBalance(w) \/ TakeDays(w)
  <2>1. PICK n \in 0..Amount : taken' = [taken EXCEPT ![ord[w]] = taken[ord[w]] + n]
    BY <1>1, <1>4 DEF TakeBalance, TakeDays
  <2>2. CASE n = 0
    BY <1>1, <1>2, <2>1, <2>2 DEF Unseen, IInv, TypeOK, GoodsTypes
  <2>3. CASE n # 0
    <3>1. n \in 1..Amount /\ taken' = [taken EXCEPT ![ord[w]] = n]
      BY <1>2, <2>1, <2>3
    <3>2. Contract!Take(ord[w]) BY <1>1, <1>2, <3>1 DEF Contract!Take
    <3> QED BY <1>1, <3>2
  <2> QED BY <2>2, <2>3
<1> QED BY <1>3, <1>4 DEF Deduct

\* A payment is the first one: the gateway is asked again only after it has
\* refused, and settles only what is pending.
LEMMA PaymentIsPay ==
    ASSUME silent = 0, silent' = 0, IInv, PaidAtGateway, NEW o \in Orders,
           refunded[o] = 0, Pay(o), UNCHANGED taken
    PROVE  Contract!Pay(o)
<1>1. refunded' = [refunded EXCEPT ![o] = 1] BY DEF Pay
<1> QED BY <1>1 DEF Contract!Pay

\* A return gives back all that is held, or nothing was held by this refund.
LEMMA ReturnIsGiveBack ==
    ASSUME silent = 0, silent' = 0, IInv, NEW o \in Orders, NEW p \in Plans,
           p.take = (IF unreturned[o] THEN 0 ELSE taken[o]), GiveBack(o, p),
           refunded[o] = 0, UNCHANGED refunded
    PROVE  Unseen \/ Contract!GiveBack(o)
<1>1. /\ taken \in [Orders -> Int]
      /\ taken' = [taken EXCEPT ![o] = taken[o] - p.take]
  BY DEF IInv, TypeOK, GoodsTypes, GiveBack
<1>2. CASE unreturned[o] BY <1>1, <1>2 DEF Unseen
<1>3. CASE ~unreturned[o]
  <2>1. p.take = taken[o] BY <1>3
  <2>2. taken[o] - p.take = 0 BY <1>1, <2>1
  <2>3. taken' = [taken EXCEPT ![o] = 0] BY <1>1, <2>2
  <2> QED BY <2>3 DEF Contract!GiveBack
<1> QED BY <1>2, <1>3

\* As long as no error is dropped, each step is one of the contract's or unseen.
LEMMA ContractStep ==
    ASSUME silent = 0, silent' = 0, IInv, PaidAtGateway, Accounted, Next
    PROVE  \/ Unseen
           \/ \E o \in Orders :
                Contract!Take(o) \/ Contract!GiveBack(o) \/ Contract!Pay(o)
<1> USE DEF IInv, TypeOK, OrderTypes, WorkerTypes, Serving
<1>1. ASSUME NEW w \in Workers, NEW o \in Orders, Arrive(w, o)
      PROVE  Unseen
  BY <1>1 DEF Arrive, RequestRefund, PrepareRefund, QueryAndFinalizeRefund, Unseen
<1>2. ASSUME NEW w \in Workers, GwRefund(w)
      PROVE  Unseen \/ Contract!Pay(ord[w])
  <2>1. /\ ord[w] \in Orders /\ UNCHANGED taken /\ refunded[ord[w]] = 0
    BY <1>2 DEF GwRefund, PaidAtGateway, Refunding
  <2>2. CASE Pay(ord[w]) BY <2>1, <2>2, PaymentIsPay
  <2>3. CASE UNCHANGED refunded BY <2>1, <2>3 DEF Unseen
  <2> QED BY <1>2, <2>2, <2>3 DEF GwRefund
<1>3. ASSUME NEW w \in Workers, RollbackRefund(w)
      PROVE  Unseen \/ Contract!GiveBack(ord[w])
  <2>1. /\ ord[w] \in Orders /\ plan[w] \in Plans /\ pc[w] = "rollback"
        /\ UNCHANGED refunded
    BY <1>3 DEF RollbackRefund
  <2>2. /\ refunded[ord[w]] = 0
        /\ plan[w].take = IF unreturned[ord[w]] THEN 0 ELSE taken[ord[w]]
    BY <2>1 DEF PaidAtGateway, Accounted, Refunding, Deducted
  <2>3. CASE GiveBack(ord[w], plan[w]) BY <2>1, <2>2, <2>3, ReturnIsGiveBack
  <2>4. CASE UNCHANGED taken BY <2>1, <2>4 DEF Unseen
  <2> QED BY <1>3, <2>3, <2>4 DEF RollbackRefund
<1>4. ASSUME NEW w \in Workers, FinalizeFailed(w)
      PROVE  Unseen \/ Contract!GiveBack(ord[w])
  <2>1. /\ ord[w] \in Orders /\ plan[w] \in Plans /\ pc[w] = "finalFail"
        /\ plan[w] = held[ord[w]] /\ UNCHANGED refunded
    BY <1>4 DEF FinalizeFailed, PlanIsHeld, Finalizing
  <2>2. CASE status[ord[w]] = "REFUND_PENDING" /\ GiveBack(ord[w], plan[w])
    <3>1. /\ refunded[ord[w]] = 0
          /\ plan[w].take = IF unreturned[ord[w]] THEN 0 ELSE taken[ord[w]]
      BY <2>1, <2>2 DEF PaidAtGateway, Accounted
    <3> QED BY <2>1, <2>2, <3>1, ReturnIsGiveBack
  <2>3. CASE UNCHANGED taken BY <2>1, <2>3 DEF Unseen
  <2> QED BY <1>4, <2>2, <2>3 DEF FinalizeFailed
<1>5. ASSUME NEW o \in Orders, Spend(o) \/ SettleAtGateway(o)
      PROVE  Unseen \/ Contract!Pay(o)
  <2>1. CASE Spend(o) BY <2>1 DEF Spend, Unseen
  <2>2. CASE SettleAtGateway(o)
    <3>1. refunded[o] = 0 /\ UNCHANGED taken
      BY <2>2 DEF SettleAtGateway, PaidAtGateway
    <3>2. CASE Pay(o) BY <3>1, <3>2, PaymentIsPay
    <3>3. CASE UNCHANGED refunded BY <3>1, <3>3 DEF Unseen
    <3> QED BY <2>2, <3>2, <3>3 DEF SettleAtGateway
  <2> QED BY <1>5, <2>1, <2>2
<1>6. ASSUME NEW w \in Workers, Step(w) \/ Crash(w)
      PROVE  \/ Unseen
             \/ \E o \in Orders :
                  Contract!Take(o) \/ Contract!GiveBack(o) \/ Contract!Pay(o)
  <2>1. CASE Unseen BY <2>1
  <2>2. CASE Deduct(w) BY <2>2, DeductIsTake
  <2>3. CASE GwRefund(w)
    <3>1. ord[w] \in Orders BY <2>3 DEF GwRefund
    <3> QED BY <1>2, <2>3, <3>1
  <2>4. CASE RollbackRefund(w)
    <3>1. ord[w] \in Orders BY <2>4 DEF RollbackRefund
    <3> QED BY <1>3, <2>4, <3>1
  <2>5. CASE FinalizeFailed(w)
    <3>1. ord[w] \in Orders BY <2>5 DEF FinalizeFailed
    <3> QED BY <1>4, <2>5, <3>1
  <2> QED BY <1>6, <2>1, <2>2, <2>3, <2>4, <2>5, UnseenStep
<1> QED BY <1>1, <1>5, <1>6 DEF Next

\* Refunds implement the contract with the customer: each deduction, return
\* and payment is a step the contract allows, and a dropped error is the only
\* way out of it.
THEOREM ImplementsContract == Spec => KeepsRefundContract
<1>1. Init => Contract!Init BY DEF Init, Contract!Init
<1>2. IInv /\ IInv' /\ RInv /\ [Next]_vars => [Contract!Next]_Contract!cvars
  <2> SUFFICES ASSUME IInv, IInv', RInv, [Next]_vars
               PROVE  Contract!Next \/ UNCHANGED Contract!cvars
    OBVIOUS
  <2>1. CASE UNCHANGED vars BY <2>1 DEF vars, Contract!cvars
  <2>2. CASE Next /\ silent' = 0
    <3>1. silent = 0 BY <2>2, SilentStays DEF IInv
    <3>2. CASE Unseen BY <2>2, <3>1, <3>2 DEF Unseen, Contract!cvars
    <3>3. CASE \E o \in Orders :
                 Contract!Take(o) \/ Contract!GiveBack(o) \/ Contract!Pay(o)
      BY <3>1, <3>3 DEF Contract!Next
    <3> QED BY <2>2, <3>1, <3>2, <3>3, ContractStep DEF RInv
  <2>3. CASE Next /\ silent' # 0
    <3>1. silent' = 1 BY <2>3 DEF IInv, TypeOK, WorkerTypes
    <3>2. taken' \in [Orders -> Nat] /\ refunded' \in [Orders -> Nat]
      BY DEF IInv, TypeOK, OrderTypes, GoodsTypes, NeverOverReturned
    <3> QED BY <3>1, <3>2 DEF Contract!Next, Contract!Careless
  <2> QED BY <2>1, <2>2, <2>3
<1> QED
  BY <1>1, <1>2, Invariance, ReliableInvariance, PTL
  DEF Spec, KeepsRefundContract, Contract!Spec
=============================================================================
