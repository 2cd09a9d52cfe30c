------------------------- MODULE PaymentOrderProofs -------------------------
(***************************************************************************)
(* Proofs that the properties of PaymentOrder hold for every set of orders *)
(* and workers and any number of faults.                                   *)
(***************************************************************************)
EXTENDS PaymentOrder, TLAPS

-----------------------------------------------------------------------------
(* The inductive invariant.                                                *)

\* The steps between createOrderInTx and the end of CreateOrder.
Creating == {"invoke", "save", "failCreate"}

\* The steps that follow a successful confirmPayment or RetryFulfillment.
Confirmed == {"toPaid", "already", "fulfil", "acquire", "conflict", "audit"}
             \cup Leased

\* A worker that runs serves an order whose row exists.
Serving ==
    \A w \in Workers :
        pc[w] # "idle" => ord[w] \in Orders /\ status[ord[w]] # "NONE"

\* An order has one creator.
OneCreator ==
    \A w, v \in Workers :
        pc[w] \in Creating /\ pc[v] \in Creating /\ ord[w] = ord[v] => w = v

\* Before CreateOrder has saved the payment details the customer cannot have
\* paid: so FAILED, which CreateOrder writes without looking, never overwrites
\* a payment.
UnpaidWhileCreating ==
    /\ \A o \in Orders : status[o] = "NONE" => prov[o] = "none"
    /\ \A w \in Workers : pc[w] \in Creating => prov[ord[w]] = "none"

\* Only an order the provider reports as paid gets past confirmPayment.
ConfirmedIsPaid ==
    /\ \A w \in Workers : pc[w] \in Confirmed => prov[ord[w]] = "paid"
    /\ \A o \in Orders : paidAt[o] => prov[o] = "paid"

\* The deliveries are exactly what the redeem code and the assignment audit
\* say, and a worker handles the kind of goods its order is for.
GoodsAreRecorded ==
    /\ \A o \in Orders :
         /\ status[o] = "NONE" => code[o] = "absent" /\ ~assigned[o]
         /\ otype[o] = "balance" =>
              ~assigned[o] /\ granted[o] = IF code[o] = "used" THEN 1 ELSE 0
         /\ otype[o] = "subscription" =>
              code[o] = "absent" /\ granted[o] = IF assigned[o] THEN 1 ELSE 0
    /\ \A w \in Workers :
         /\ pc[w] \in {"lookup", "create", "redeem"} => otype[ord[w]] = "balance"
         /\ pc[w] \in {"assignCheck", "assign"} => otype[ord[w]] = "subscription"

\* A worker completes only what it has seen delivered and its rebate decided.
DeliveredFirst ==
    /\ \A w \in Workers :
         /\ pc[w] \in {"rebate", "complete", "audit"} => granted[ord[w]] = 1
         /\ pc[w] \in {"complete", "audit"} => rebate[ord[w]]
    /\ \A o \in Orders :
         accrued[o] > 0 => rebate[o] /\ granted[o] = 1 /\ accrued[o] = 1

\* What a worker has completed stays settled.
CompletedStays ==
    \A w \in Workers : pc[w] = "audit" => status[ord[w]] \in Settled

\* A confirmed payment stays in the fulfilment path.
PaidStays ==
    \A o \in Orders : paidAt[o] => status[o] \in Fulfillable \cup Settled

\* An order toPaid refused never becomes payable again, save from EXPIRED.
RefusedStays ==
    \A w \in Workers :
        pc[w] = "already" => status[ord[w]] \notin {"NONE", "PENDING", "CANCELLED"}

IInv ==
    /\ TypeOK
    /\ Serving
    /\ OneCreator
    /\ UnpaidWhileCreating
    /\ ConfirmedIsPaid
    /\ GoodsAreRecorded
    /\ DeliveredOnlyIfPaid
    /\ DeliveredFirst
    /\ SettledMeansDelivered
    /\ CompletedStays
    /\ PaidStays
    /\ RefusedStays
-----------------------------------------------------------------------------
(* The steps: each conjunct of the invariant is kept by every action.      *)

USE DEF At, Goto, Begin, Leave, ReturnError, ReturnNil, Fault, NoFault,
        Touch, SetStatus, rowVars, goodsVars, provVars, answerVars, workVars,
        AnswerSuccess, SwallowError,
        MayCancel, Payable, Claimable, OwnsLease

\* The columns of the order row keep their types in every step.
LEMMA RowTypesStep ==
    ASSUME TypeOK, Serving, Next
    PROVE  RowTypes'
<1> USE DEF TypeOK, RefundStatuses, RowTypes, Statuses, Serving
<1>1. ASSUME NEW w \in Workers, NEW o \in Orders, Arrive(w, o)
      PROVE  RowTypes'
  <2>1. CASE CreateOrderInTx(w, o) BY <2>1 DEF CreateOrderInTx
  <2>2. CASE CancelOrder(w, o) BY <2>2 DEF CancelOrder
  <2>3. CASE ExpireTimedOutOrder(w, o) BY <2>3 DEF ExpireTimedOutOrder
  <2>4. CASE VerifyOrder(w, o) BY <2>4 DEF VerifyOrder
  <2>5. CASE ReconcilePendingOrder(w, o) BY <2>5 DEF ReconcilePendingOrder
  <2>6. CASE Webhook(w, o) BY <2>6 DEF Webhook
  <2>7. CASE RetryFulfillment(w, o) BY <2>7 DEF RetryFulfillment, Fulfillable
  <2> QED BY <1>1, <2>1, <2>2, <2>3, <2>4, <2>5, <2>6, <2>7 DEF Arrive
<1>2. ASSUME NEW w \in Workers, Step(w) \/ Crash(w)
      PROVE  RowTypes'
  <2>1. CASE InvokeProvider(w) BY <2>1 DEF InvokeProvider
  <2>2. CASE SavePaymentDetails(w) BY <2>2 DEF SavePaymentDetails
  <2>3. CASE FailCreate(w) BY <2>3 DEF FailCreate
  <2>4. CASE CheckPaid(w) BY <2>4 DEF CheckPaid
  <2>5. CASE CloseAtProvider(w) BY <2>5 DEF CloseAtProvider
  <2>6. CASE CancelRow(w) BY <2>6 DEF CancelRow
  <2>7. CASE PersistTradeNo(w) BY <2>7 DEF PersistTradeNo
  <2>8. CASE ConfirmPayment(w) BY <2>8 DEF ConfirmPayment
  <2>9. CASE ToPaid(w) BY <2>9 DEF ToPaid
  <2>10. CASE AlreadyProcessed(w) BY <2>10 DEF AlreadyProcessed, Fulfillable
  <2>11. CASE ExecuteFulfillment(w) BY <2>11 DEF ExecuteFulfillment,
        Fulfillable
  <2>12. CASE AcquireLease(w) BY <2>12 DEF AcquireLease
  <2>13. CASE AcquireConflict(w) BY <2>13 DEF AcquireConflict
  <2>14. CASE ReloadLease(w) BY <2>14 DEF ReloadLease
  <2>15. CASE ResolveRedeemAction(w) BY <2>15 DEF ResolveRedeemAction
  <2>16. CASE CreateCode(w) BY <2>16 DEF CreateCode
  <2>17. CASE Redeem(w) BY <2>17 DEF Redeem
  <2>18. CASE CheckAssignment(w) BY <2>18 DEF CheckAssignment
  <2>19. CASE AssignSubscription(w) BY <2>19 DEF AssignSubscription
  <2>20. CASE ApplyAffiliateRebate(w) BY <2>20 DEF ApplyAffiliateRebate
  <2>21. CASE MarkCompleted(w)
    <3>1. UNCHANGED <<otype, paidAt>> BY <2>21 DEF MarkCompleted
    <3>2. CASE SetStatus(ord[w], "COMPLETED")
      BY <2>21, <3>1, <3>2 DEF MarkCompleted
    <3>3. CASE UNCHANGED <<status, aged, holders>> BY <3>1, <3>3
    <3> QED BY <2>21, <3>2, <3>3 DEF MarkCompleted
  <2>22. CASE AuditCompletion(w) BY <2>22 DEF AuditCompletion
  <2>23. CASE CompletionLost(w) BY <2>23 DEF CompletionLost
  <2>24. CASE MarkFailed(w) BY <2>24 DEF MarkFailed
  <2>25. CASE Crash(w) BY <2>25 DEF Crash
  <2> QED BY <1>2, <2>1, <2>2, <2>3, <2>4, <2>5, <2>6, <2>7, <2>8, <2>9,
        <2>10, <2>11, <2>12, <2>13, <2>14, <2>15, <2>16, <2>17, <2>18, <2>19,
        <2>20, <2>21, <2>22, <2>23, <2>24, <2>25 DEF Step
<1>3. ASSUME NEW o \in Orders, Environment(o)
      PROVE  RowTypes'
  <2>1. CASE CustomerPays(o) BY <2>1 DEF CustomerPays
  <2>2. CASE Age(o) BY <2>2 DEF Age, Leased
  <2>3. CASE RefundMove(o) BY <2>3 DEF RefundMove, RefundEdges, Refundable
  <2> QED BY <1>3, <2>1, <2>2, <2>3 DEF Environment
<1> QED BY <1>1, <1>2, <1>3 DEF Next

\* So do the redeem code, the audits and the counters of deliveries.
LEMMA GoodsTypesStep ==
    ASSUME TypeOK, Serving, Next
    PROVE  GoodsTypes'
<1> USE DEF TypeOK, GoodsTypes, Serving
<1>1. ASSUME NEW w \in Workers, NEW o \in Orders, Arrive(w, o)
      PROVE  GoodsTypes'
  <2>1. CASE CreateOrderInTx(w, o) BY <2>1 DEF CreateOrderInTx
  <2>2. CASE CancelOrder(w, o) BY <2>2 DEF CancelOrder
  <2>3. CASE ExpireTimedOutOrder(w, o) BY <2>3 DEF ExpireTimedOutOrder
  <2>4. CASE VerifyOrder(w, o) BY <2>4 DEF VerifyOrder
  <2>5. CASE ReconcilePendingOrder(w, o) BY <2>5 DEF ReconcilePendingOrder
  <2>6. CASE Webhook(w, o) BY <2>6 DEF Webhook
  <2>7. CASE RetryFulfillment(w, o) BY <2>7 DEF RetryFulfillment, Fulfillable
  <2> QED BY <1>1, <2>1, <2>2, <2>3, <2>4, <2>5, <2>6, <2>7 DEF Arrive
<1>2. ASSUME NEW w \in Workers, Step(w) \/ Crash(w)
      PROVE  GoodsTypes'
  <2>1. CASE InvokeProvider(w) BY <2>1 DEF InvokeProvider
  <2>2. CASE SavePaymentDetails(w) BY <2>2 DEF SavePaymentDetails
  <2>3. CASE FailCreate(w) BY <2>3 DEF FailCreate
  <2>4. CASE CheckPaid(w) BY <2>4 DEF CheckPaid
  <2>5. CASE CloseAtProvider(w) BY <2>5 DEF CloseAtProvider
  <2>6. CASE CancelRow(w) BY <2>6 DEF CancelRow
  <2>7. CASE PersistTradeNo(w) BY <2>7 DEF PersistTradeNo
  <2>8. CASE ConfirmPayment(w) BY <2>8 DEF ConfirmPayment
  <2>9. CASE ToPaid(w) BY <2>9 DEF ToPaid
  <2>10. CASE AlreadyProcessed(w) BY <2>10 DEF AlreadyProcessed, Fulfillable
  <2>11. CASE ExecuteFulfillment(w) BY <2>11 DEF ExecuteFulfillment,
        Fulfillable
  <2>12. CASE AcquireLease(w) BY <2>12 DEF AcquireLease
  <2>13. CASE AcquireConflict(w) BY <2>13 DEF AcquireConflict
  <2>14. CASE ReloadLease(w) BY <2>14 DEF ReloadLease
  <2>15. CASE ResolveRedeemAction(w) BY <2>15 DEF ResolveRedeemAction
  <2>16. CASE CreateCode(w) BY <2>16 DEF CreateCode
  <2>17. CASE Redeem(w) BY <2>17 DEF Redeem
  <2>18. CASE CheckAssignment(w) BY <2>18 DEF CheckAssignment
  <2>19. CASE AssignSubscription(w)
    <3>1. ord[w] \in Orders BY <2>19 DEF AssignSubscription
    <3>2. assigned' \in [Orders -> BOOLEAN] BY <2>19, <3>1 DEF AssignSubscription
    <3>3. granted' \in [Orders -> Nat] BY <2>19, <3>1 DEF AssignSubscription
    <3>4. UNCHANGED <<code, rebate, accrued>> BY <2>19, <3>1 DEF AssignSubscription
    <3> QED BY <3>2, <3>3, <3>4
  <2>20. CASE ApplyAffiliateRebate(w)
    <3>1. ord[w] \in Orders BY <2>20 DEF ApplyAffiliateRebate
    <3>2. rebate' \in [Orders -> BOOLEAN] BY <2>20, <3>1 DEF ApplyAffiliateRebate
    <3>3. accrued' \in [Orders -> Nat] BY <2>20, <3>1 DEF ApplyAffiliateRebate
    <3>4. UNCHANGED <<code, assigned, granted>> BY <2>20, <3>1 DEF ApplyAffiliateRebate
    <3> QED BY <3>2, <3>3, <3>4
  <2>21. CASE MarkCompleted(w) BY <2>21 DEF MarkCompleted
  <2>22. CASE AuditCompletion(w) BY <2>22 DEF AuditCompletion
  <2>23. CASE CompletionLost(w) BY <2>23 DEF CompletionLost
  <2>24. CASE MarkFailed(w) BY <2>24 DEF MarkFailed
  <2>25. CASE Crash(w) BY <2>25 DEF Crash
  <2> QED BY <1>2, <2>1, <2>2, <2>3, <2>4, <2>5, <2>6, <2>7, <2>8, <2>9,
        <2>10, <2>11, <2>12, <2>13, <2>14, <2>15, <2>16, <2>17, <2>18, <2>19,
        <2>20, <2>21, <2>22, <2>23, <2>24, <2>25 DEF Step
<1>3. ASSUME NEW o \in Orders, Environment(o)
      PROVE  GoodsTypes'
  <2>1. CASE CustomerPays(o) BY <2>1 DEF CustomerPays
  <2>2. CASE Age(o) BY <2>2 DEF Age, Leased
  <2>3. CASE RefundMove(o) BY <2>3 DEF RefundMove, RefundEdges, Refundable,
        RefundStatuses, Statuses
  <2> QED BY <1>3, <2>1, <2>2, <2>3 DEF Environment
<1> QED BY <1>1, <1>2, <1>3 DEF Next

\* So does what the provider knows and was told.
LEMMA ProviderTypesStep ==
    ASSUME TypeOK, Serving, Next
    PROVE  ProviderTypes'
<1> USE DEF TypeOK, ProviderTypes, Serving
<1>1. ASSUME NEW w \in Workers, NEW o \in Orders, Arrive(w, o)
      PROVE  ProviderTypes'
  <2>1. CASE CreateOrderInTx(w, o) BY <2>1 DEF CreateOrderInTx
  <2>2. CASE CancelOrder(w, o) BY <2>2 DEF CancelOrder
  <2>3. CASE ExpireTimedOutOrder(w, o) BY <2>3 DEF ExpireTimedOutOrder
  <2>4. CASE VerifyOrder(w, o) BY <2>4 DEF VerifyOrder
  <2>5. CASE ReconcilePendingOrder(w, o) BY <2>5 DEF ReconcilePendingOrder
  <2>6. CASE Webhook(w, o) BY <2>6 DEF Webhook
  <2>7. CASE RetryFulfillment(w, o) BY <2>7 DEF RetryFulfillment, Fulfillable
  <2> QED BY <1>1, <2>1, <2>2, <2>3, <2>4, <2>5, <2>6, <2>7 DEF Arrive
<1>2. ASSUME NEW w \in Workers, Step(w) \/ Crash(w)
      PROVE  ProviderTypes'
  <2>1. CASE InvokeProvider(w) BY <2>1 DEF InvokeProvider
  <2>2. CASE SavePaymentDetails(w) BY <2>2 DEF SavePaymentDetails
  <2>3. CASE FailCreate(w) BY <2>3 DEF FailCreate
  <2>4. CASE CheckPaid(w) BY <2>4 DEF CheckPaid
  <2>5. CASE CloseAtProvider(w) BY <2>5 DEF CloseAtProvider
  <2>6. CASE CancelRow(w) BY <2>6 DEF CancelRow
  <2>7. CASE PersistTradeNo(w) BY <2>7 DEF PersistTradeNo
  <2>8. CASE ConfirmPayment(w) BY <2>8 DEF ConfirmPayment
  <2>9. CASE ToPaid(w) BY <2>9 DEF ToPaid
  <2>10. CASE AlreadyProcessed(w) BY <2>10 DEF AlreadyProcessed, Fulfillable
  <2>11. CASE ExecuteFulfillment(w) BY <2>11 DEF ExecuteFulfillment,
        Fulfillable
  <2>12. CASE AcquireLease(w) BY <2>12 DEF AcquireLease
  <2>13. CASE AcquireConflict(w) BY <2>13 DEF AcquireConflict
  <2>14. CASE ReloadLease(w) BY <2>14 DEF ReloadLease
  <2>15. CASE ResolveRedeemAction(w) BY <2>15 DEF ResolveRedeemAction
  <2>16. CASE CreateCode(w) BY <2>16 DEF CreateCode
  <2>17. CASE Redeem(w) BY <2>17 DEF Redeem
  <2>18. CASE CheckAssignment(w) BY <2>18 DEF CheckAssignment
  <2>19. CASE AssignSubscription(w) BY <2>19 DEF AssignSubscription
  <2>20. CASE ApplyAffiliateRebate(w) BY <2>20 DEF ApplyAffiliateRebate
  <2>21. CASE MarkCompleted(w) BY <2>21 DEF MarkCompleted
  <2>22. CASE AuditCompletion(w) BY <2>22 DEF AuditCompletion
  <2>23. CASE CompletionLost(w) BY <2>23 DEF CompletionLost
  <2>24. CASE MarkFailed(w) BY <2>24 DEF MarkFailed
  <2>25. CASE Crash(w) BY <2>25 DEF Crash
  <2> QED BY <1>2, <2>1, <2>2, <2>3, <2>4, <2>5, <2>6, <2>7, <2>8, <2>9,
        <2>10, <2>11, <2>12, <2>13, <2>14, <2>15, <2>16, <2>17, <2>18, <2>19,
        <2>20, <2>21, <2>22, <2>23, <2>24, <2>25 DEF Step
<1>3. ASSUME NEW o \in Orders, Environment(o)
      PROVE  ProviderTypes'
  <2>1. CASE CustomerPays(o) BY <2>1 DEF CustomerPays
  <2>2. CASE Age(o) BY <2>2 DEF Age, Leased
  <2>3. CASE RefundMove(o) BY <2>3 DEF RefundMove, RefundEdges, Refundable,
        RefundStatuses, Statuses
  <2> QED BY <1>3, <2>1, <2>2, <2>3 DEF Environment
<1> QED BY <1>1, <1>2, <1>3 DEF Next

\* And so do the workers' local variables.
LEMMA WorkerTypesStep ==
    ASSUME TypeOK, Serving, Next
    PROVE  WorkerTypes'
<1> USE DEF TypeOK, Goals, Steps, WorkerTypes, Serving
<1>1. ASSUME NEW w \in Workers, NEW o \in Orders, Arrive(w, o)
      PROVE  WorkerTypes'
  <2>1. CASE CreateOrderInTx(w, o) BY <2>1 DEF CreateOrderInTx
  <2>2. CASE CancelOrder(w, o) BY <2>2 DEF CancelOrder
  <2>3. CASE ExpireTimedOutOrder(w, o) BY <2>3 DEF ExpireTimedOutOrder
  <2>4. CASE VerifyOrder(w, o) BY <2>4 DEF VerifyOrder
  <2>5. CASE ReconcilePendingOrder(w, o) BY <2>5 DEF ReconcilePendingOrder
  <2>6. CASE Webhook(w, o) BY <2>6 DEF Webhook
  <2>7. CASE RetryFulfillment(w, o) BY <2>7 DEF RetryFulfillment, Fulfillable
  <2> QED BY <1>1, <2>1, <2>2, <2>3, <2>4, <2>5, <2>6, <2>7 DEF Arrive
<1>2. ASSUME NEW w \in Workers, Step(w) \/ Crash(w)
      PROVE  WorkerTypes'
  <2>1. CASE InvokeProvider(w) BY <2>1 DEF InvokeProvider
  <2>2. CASE SavePaymentDetails(w) BY <2>2 DEF SavePaymentDetails
  <2>3. CASE FailCreate(w) BY <2>3 DEF FailCreate
  <2>4. CASE CheckPaid(w) BY <2>4 DEF CheckPaid
  <2>5. CASE CloseAtProvider(w) BY <2>5 DEF CloseAtProvider
  <2>6. CASE CancelRow(w) BY <2>6 DEF CancelRow
  <2>7. CASE PersistTradeNo(w) BY <2>7 DEF PersistTradeNo
  <2>8. CASE ConfirmPayment(w) BY <2>8 DEF ConfirmPayment
  <2>9. CASE ToPaid(w) BY <2>9 DEF ToPaid
  <2>10. CASE AlreadyProcessed(w) BY <2>10 DEF AlreadyProcessed, Fulfillable
  <2>11. CASE ExecuteFulfillment(w) BY <2>11 DEF ExecuteFulfillment,
        Fulfillable
  <2>12. CASE AcquireLease(w) BY <2>12 DEF AcquireLease
  <2>13. CASE AcquireConflict(w) BY <2>13 DEF AcquireConflict
  <2>14. CASE ReloadLease(w) BY <2>14 DEF ReloadLease
  <2>15. CASE ResolveRedeemAction(w) BY <2>15 DEF ResolveRedeemAction,
        GoodsTypes
  <2>16. CASE CreateCode(w) BY <2>16 DEF CreateCode
  <2>17. CASE Redeem(w) BY <2>17 DEF Redeem
  <2>18. CASE CheckAssignment(w) BY <2>18 DEF CheckAssignment
  <2>19. CASE AssignSubscription(w) BY <2>19 DEF AssignSubscription
  <2>20. CASE ApplyAffiliateRebate(w) BY <2>20 DEF ApplyAffiliateRebate
  <2>21. CASE MarkCompleted(w) BY <2>21 DEF MarkCompleted
  <2>22. CASE AuditCompletion(w) BY <2>22 DEF AuditCompletion
  <2>23. CASE CompletionLost(w) BY <2>23 DEF CompletionLost
  <2>24. CASE MarkFailed(w) BY <2>24 DEF MarkFailed
  <2>25. CASE Crash(w) BY <2>25 DEF Crash
  <2> QED BY <1>2, <2>1, <2>2, <2>3, <2>4, <2>5, <2>6, <2>7, <2>8, <2>9,
        <2>10, <2>11, <2>12, <2>13, <2>14, <2>15, <2>16, <2>17, <2>18, <2>19,
        <2>20, <2>21, <2>22, <2>23, <2>24, <2>25 DEF Step
<1>3. ASSUME NEW o \in Orders, Environment(o)
      PROVE  WorkerTypes'
  <2>1. CASE CustomerPays(o) BY <2>1 DEF CustomerPays
  <2>2. CASE Age(o) BY <2>2 DEF Age, Leased
  <2>3. CASE RefundMove(o) BY <2>3 DEF RefundMove, RefundEdges, Refundable,
        RefundStatuses, Statuses
  <2> QED BY <1>3, <2>1, <2>2, <2>3 DEF Environment
<1> QED BY <1>1, <1>2, <1>3 DEF Next

\* A handler is started only for an existing row, and no row is deleted.
LEMMA ServingStep ==
    ASSUME TypeOK, Serving, UnpaidWhileCreating, Next
    PROVE  Serving'
<1> USE DEF TypeOK, Goals, GoodsTypes, ProviderTypes, RefundStatuses,
      RowTypes, Statuses, Steps, WorkerTypes, Serving, UnpaidWhileCreating,
      Creating
<1>1. ASSUME NEW w \in Workers, NEW o \in Orders, Arrive(w, o)
      PROVE  Serving'
  <2>1. CASE CreateOrderInTx(w, o) BY <2>1 DEF CreateOrderInTx
  <2>2. CASE CancelOrder(w, o) BY <2>2 DEF CancelOrder
  <2>3. CASE ExpireTimedOutOrder(w, o) BY <2>3 DEF ExpireTimedOutOrder
  <2>4. CASE VerifyOrder(w, o) BY <2>4 DEF VerifyOrder
  <2>5. CASE ReconcilePendingOrder(w, o) BY <2>5 DEF ReconcilePendingOrder
  <2>6. CASE Webhook(w, o) BY <2>6 DEF Webhook
  <2>7. CASE RetryFulfillment(w, o) BY <2>7 DEF RetryFulfillment, Fulfillable
  <2> QED BY <1>1, <2>1, <2>2, <2>3, <2>4, <2>5, <2>6, <2>7 DEF Arrive
<1>2. ASSUME NEW w \in Workers, Step(w) \/ Crash(w)
      PROVE  Serving'
  <2>1. CASE InvokeProvider(w) BY <2>1 DEF InvokeProvider
  <2>2. CASE SavePaymentDetails(w) BY <2>2 DEF SavePaymentDetails
  <2>3. CASE FailCreate(w) BY <2>3 DEF FailCreate
  <2>4. CASE CheckPaid(w) BY <2>4 DEF CheckPaid
  <2>5. CASE CloseAtProvider(w) BY <2>5 DEF CloseAtProvider
  <2>6. CASE CancelRow(w) BY <2>6 DEF CancelRow
  <2>7. CASE PersistTradeNo(w) BY <2>7 DEF PersistTradeNo
  <2>8. CASE ConfirmPayment(w) BY <2>8 DEF ConfirmPayment
  <2>9. CASE ToPaid(w) BY <2>9 DEF ToPaid
  <2>10. CASE AlreadyProcessed(w) BY <2>10 DEF AlreadyProcessed, Fulfillable
  <2>11. CASE ExecuteFulfillment(w) BY <2>11 DEF ExecuteFulfillment,
        Fulfillable
  <2>12. CASE AcquireLease(w) BY <2>12 DEF AcquireLease
  <2>13. CASE AcquireConflict(w) BY <2>13 DEF AcquireConflict
  <2>14. CASE ReloadLease(w) BY <2>14 DEF ReloadLease
  <2>15. CASE ResolveRedeemAction(w) BY <2>15 DEF ResolveRedeemAction
  <2>16. CASE CreateCode(w) BY <2>16 DEF CreateCode
  <2>17. CASE Redeem(w) BY <2>17 DEF Redeem
  <2>18. CASE CheckAssignment(w) BY <2>18 DEF CheckAssignment
  <2>19. CASE AssignSubscription(w) BY <2>19 DEF AssignSubscription
  <2>20. CASE ApplyAffiliateRebate(w) BY <2>20 DEF ApplyAffiliateRebate
  <2>21. CASE MarkCompleted(w) BY <2>21 DEF MarkCompleted
  <2>22. CASE AuditCompletion(w) BY <2>22 DEF AuditCompletion
  <2>23. CASE CompletionLost(w) BY <2>23 DEF CompletionLost
  <2>24. CASE MarkFailed(w) BY <2>24 DEF MarkFailed
  <2>25. CASE Crash(w) BY <2>25 DEF Crash
  <2> QED BY <1>2, <2>1, <2>2, <2>3, <2>4, <2>5, <2>6, <2>7, <2>8, <2>9,
        <2>10, <2>11, <2>12, <2>13, <2>14, <2>15, <2>16, <2>17, <2>18, <2>19,
        <2>20, <2>21, <2>22, <2>23, <2>24, <2>25 DEF Step
<1>3. ASSUME NEW o \in Orders, Environment(o)
      PROVE  Serving'
  <2>1. CASE CustomerPays(o) BY <2>1 DEF CustomerPays
  <2>2. CASE Age(o) BY <2>2 DEF Age, Leased
  <2>3. CASE RefundMove(o) BY <2>3 DEF RefundMove, RefundEdges, Refundable
  <2> QED BY <1>3, <2>1, <2>2, <2>3 DEF Environment
<1> QED BY <1>1, <1>2, <1>3 DEF Next

\* createOrderInTx inserts a row of its own; nobody else creates that order.
LEMMA OneCreatorStep ==
    ASSUME TypeOK, Serving, OneCreator, Next
    PROVE  OneCreator'
<1> USE DEF TypeOK, Goals, GoodsTypes, ProviderTypes, RefundStatuses,
      RowTypes, Statuses, Steps, WorkerTypes, Serving, OneCreator, Creating
<1>1. ASSUME NEW w \in Workers, NEW o \in Orders, Arrive(w, o)
      PROVE  OneCreator'
  <2>1. CASE CreateOrderInTx(w, o) BY <2>1 DEF CreateOrderInTx
  <2>2. CASE CancelOrder(w, o) BY <2>2 DEF CancelOrder
  <2>3. CASE ExpireTimedOutOrder(w, o) BY <2>3 DEF ExpireTimedOutOrder
  <2>4. CASE VerifyOrder(w, o) BY <2>4 DEF VerifyOrder
  <2>5. CASE ReconcilePendingOrder(w, o) BY <2>5 DEF ReconcilePendingOrder
  <2>6. CASE Webhook(w, o) BY <2>6 DEF Webhook
  <2>7. CASE RetryFulfillment(w, o) BY <2>7 DEF RetryFulfillment, Fulfillable
  <2> QED BY <1>1, <2>1, <2>2, <2>3, <2>4, <2>5, <2>6, <2>7 DEF Arrive
<1>2. ASSUME NEW w \in Workers, Step(w) \/ Crash(w)
      PROVE  OneCreator'
  <2>1. CASE InvokeProvider(w) BY <2>1 DEF InvokeProvider
  <2>2. CASE SavePaymentDetails(w) BY <2>2 DEF SavePaymentDetails
  <2>3. CASE FailCreate(w) BY <2>3 DEF FailCreate
  <2>4. CASE CheckPaid(w) BY <2>4 DEF CheckPaid
  <2>5. CASE CloseAtProvider(w) BY <2>5 DEF CloseAtProvider
  <2>6. CASE CancelRow(w) BY <2>6 DEF CancelRow
  <2>7. CASE PersistTradeNo(w) BY <2>7 DEF PersistTradeNo
  <2>8. CASE ConfirmPayment(w) BY <2>8 DEF ConfirmPayment
  <2>9. CASE ToPaid(w) BY <2>9 DEF ToPaid
  <2>10. CASE AlreadyProcessed(w) BY <2>10 DEF AlreadyProcessed, Fulfillable
  <2>11. CASE ExecuteFulfillment(w) BY <2>11 DEF ExecuteFulfillment,
        Fulfillable
  <2>12. CASE AcquireLease(w) BY <2>12 DEF AcquireLease
  <2>13. CASE AcquireConflict(w) BY <2>13 DEF AcquireConflict
  <2>14. CASE ReloadLease(w) BY <2>14 DEF ReloadLease
  <2>15. CASE ResolveRedeemAction(w) BY <2>15 DEF ResolveRedeemAction
  <2>16. CASE CreateCode(w) BY <2>16 DEF CreateCode
  <2>17. CASE Redeem(w) BY <2>17 DEF Redeem
  <2>18. CASE CheckAssignment(w) BY <2>18 DEF CheckAssignment
  <2>19. CASE AssignSubscription(w) BY <2>19 DEF AssignSubscription
  <2>20. CASE ApplyAffiliateRebate(w) BY <2>20 DEF ApplyAffiliateRebate
  <2>21. CASE MarkCompleted(w) BY <2>21 DEF MarkCompleted
  <2>22. CASE AuditCompletion(w) BY <2>22 DEF AuditCompletion
  <2>23. CASE CompletionLost(w) BY <2>23 DEF CompletionLost
  <2>24. CASE MarkFailed(w) BY <2>24 DEF MarkFailed
  <2>25. CASE Crash(w) BY <2>25 DEF Crash
  <2> QED BY <1>2, <2>1, <2>2, <2>3, <2>4, <2>5, <2>6, <2>7, <2>8, <2>9,
        <2>10, <2>11, <2>12, <2>13, <2>14, <2>15, <2>16, <2>17, <2>18, <2>19,
        <2>20, <2>21, <2>22, <2>23, <2>24, <2>25 DEF Step
<1>3. ASSUME NEW o \in Orders, Environment(o)
      PROVE  OneCreator'
  <2>1. CASE CustomerPays(o) BY <2>1 DEF CustomerPays
  <2>2. CASE Age(o) BY <2>2 DEF Age, Leased
  <2>3. CASE RefundMove(o) BY <2>3 DEF RefundMove, RefundEdges, Refundable
  <2> QED BY <1>3, <2>1, <2>2, <2>3 DEF Environment
<1> QED BY <1>1, <1>2, <1>3 DEF Next

\* The customer can pay only after SavePaymentDetails.
LEMMA UnpaidWhileCreatingStep ==
    ASSUME TypeOK, Serving, OneCreator, UnpaidWhileCreating, Next
    PROVE  UnpaidWhileCreating'
<1> USE DEF TypeOK, Goals, GoodsTypes, ProviderTypes, RefundStatuses,
      RowTypes, Statuses, Steps, WorkerTypes, Serving, OneCreator, Creating,
      UnpaidWhileCreating
<1>1. ASSUME NEW w \in Workers, NEW o \in Orders, Arrive(w, o)
      PROVE  UnpaidWhileCreating'
  <2>1. CASE CreateOrderInTx(w, o) BY <2>1 DEF CreateOrderInTx
  <2>2. CASE CancelOrder(w, o) BY <2>2 DEF CancelOrder
  <2>3. CASE ExpireTimedOutOrder(w, o) BY <2>3 DEF ExpireTimedOutOrder
  <2>4. CASE VerifyOrder(w, o) BY <2>4 DEF VerifyOrder
  <2>5. CASE ReconcilePendingOrder(w, o) BY <2>5 DEF ReconcilePendingOrder
  <2>6. CASE Webhook(w, o) BY <2>6 DEF Webhook
  <2>7. CASE RetryFulfillment(w, o) BY <2>7 DEF RetryFulfillment, Fulfillable
  <2> QED BY <1>1, <2>1, <2>2, <2>3, <2>4, <2>5, <2>6, <2>7 DEF Arrive
<1>2. ASSUME NEW w \in Workers, Step(w) \/ Crash(w)
      PROVE  UnpaidWhileCreating'
  <2>1. CASE InvokeProvider(w) BY <2>1 DEF InvokeProvider
  <2>2. CASE SavePaymentDetails(w) BY <2>2 DEF SavePaymentDetails
  <2>3. CASE FailCreate(w) BY <2>3 DEF FailCreate
  <2>4. CASE CheckPaid(w) BY <2>4 DEF CheckPaid
  <2>5. CASE CloseAtProvider(w) BY <2>5 DEF CloseAtProvider
  <2>6. CASE CancelRow(w) BY <2>6 DEF CancelRow
  <2>7. CASE PersistTradeNo(w) BY <2>7 DEF PersistTradeNo
  <2>8. CASE ConfirmPayment(w) BY <2>8 DEF ConfirmPayment
  <2>9. CASE ToPaid(w) BY <2>9 DEF ToPaid
  <2>10. CASE AlreadyProcessed(w) BY <2>10 DEF AlreadyProcessed, Fulfillable
  <2>11. CASE ExecuteFulfillment(w) BY <2>11 DEF ExecuteFulfillment,
        Fulfillable
  <2>12. CASE AcquireLease(w) BY <2>12 DEF AcquireLease
  <2>13. CASE AcquireConflict(w) BY <2>13 DEF AcquireConflict
  <2>14. CASE ReloadLease(w) BY <2>14 DEF ReloadLease
  <2>15. CASE ResolveRedeemAction(w) BY <2>15 DEF ResolveRedeemAction
  <2>16. CASE CreateCode(w) BY <2>16 DEF CreateCode
  <2>17. CASE Redeem(w) BY <2>17 DEF Redeem
  <2>18. CASE CheckAssignment(w) BY <2>18 DEF CheckAssignment
  <2>19. CASE AssignSubscription(w) BY <2>19 DEF AssignSubscription
  <2>20. CASE ApplyAffiliateRebate(w) BY <2>20 DEF ApplyAffiliateRebate
  <2>21. CASE MarkCompleted(w) BY <2>21 DEF MarkCompleted
  <2>22. CASE AuditCompletion(w) BY <2>22 DEF AuditCompletion
  <2>23. CASE CompletionLost(w) BY <2>23 DEF CompletionLost
  <2>24. CASE MarkFailed(w) BY <2>24 DEF MarkFailed
  <2>25. CASE Crash(w) BY <2>25 DEF Crash
  <2> QED BY <1>2, <2>1, <2>2, <2>3, <2>4, <2>5, <2>6, <2>7, <2>8, <2>9,
        <2>10, <2>11, <2>12, <2>13, <2>14, <2>15, <2>16, <2>17, <2>18, <2>19,
        <2>20, <2>21, <2>22, <2>23, <2>24, <2>25 DEF Step
<1>3. ASSUME NEW o \in Orders, Environment(o)
      PROVE  UnpaidWhileCreating'
  <2>1. CASE CustomerPays(o) BY <2>1 DEF CustomerPays
  <2>2. CASE Age(o) BY <2>2 DEF Age, Leased
  <2>3. CASE RefundMove(o) BY <2>3 DEF RefundMove, RefundEdges, Refundable
  <2> QED BY <1>3, <2>1, <2>2, <2>3 DEF Environment
<1> QED BY <1>1, <1>2, <1>3 DEF Next

\* confirmPayment lets only a payment in full pass, a retry only a row with
\* paid_at, and the provider never takes a payment back.
LEMMA ConfirmedIsPaidStep ==
    ASSUME TypeOK, Serving, UnpaidWhileCreating, ConfirmedIsPaid, Next
    PROVE  ConfirmedIsPaid'
<1> USE DEF TypeOK, Goals, GoodsTypes, ProviderTypes, RefundStatuses,
      RowTypes, Statuses, Steps, WorkerTypes, Serving, UnpaidWhileCreating,
      Creating, ConfirmedIsPaid, Confirmed, Leased
<1>1. ASSUME NEW w \in Workers, NEW o \in Orders, Arrive(w, o)
      PROVE  ConfirmedIsPaid'
  <2>1. CASE CreateOrderInTx(w, o) BY <2>1 DEF CreateOrderInTx
  <2>2. CASE CancelOrder(w, o) BY <2>2 DEF CancelOrder
  <2>3. CASE ExpireTimedOutOrder(w, o) BY <2>3 DEF ExpireTimedOutOrder
  <2>4. CASE VerifyOrder(w, o) BY <2>4 DEF VerifyOrder
  <2>5. CASE ReconcilePendingOrder(w, o) BY <2>5 DEF ReconcilePendingOrder
  <2>6. CASE Webhook(w, o) BY <2>6 DEF Webhook
  <2>7. CASE RetryFulfillment(w, o) BY <2>7 DEF RetryFulfillment, Fulfillable
  <2> QED BY <1>1, <2>1, <2>2, <2>3, <2>4, <2>5, <2>6, <2>7 DEF Arrive
<1>2. ASSUME NEW w \in Workers, Step(w) \/ Crash(w)
      PROVE  ConfirmedIsPaid'
  <2>1. CASE InvokeProvider(w) BY <2>1 DEF InvokeProvider
  <2>2. CASE SavePaymentDetails(w) BY <2>2 DEF SavePaymentDetails
  <2>3. CASE FailCreate(w) BY <2>3 DEF FailCreate
  <2>4. CASE CheckPaid(w) BY <2>4 DEF CheckPaid
  <2>5. CASE CloseAtProvider(w) BY <2>5 DEF CloseAtProvider
  <2>6. CASE CancelRow(w) BY <2>6 DEF CancelRow
  <2>7. CASE PersistTradeNo(w) BY <2>7 DEF PersistTradeNo
  <2>8. CASE ConfirmPayment(w) BY <2>8 DEF ConfirmPayment
  <2>9. CASE ToPaid(w) BY <2>9 DEF ToPaid
  <2>10. CASE AlreadyProcessed(w) BY <2>10 DEF AlreadyProcessed, Fulfillable
  <2>11. CASE ExecuteFulfillment(w) BY <2>11 DEF ExecuteFulfillment,
        Fulfillable
  <2>12. CASE AcquireLease(w) BY <2>12 DEF AcquireLease
  <2>13. CASE AcquireConflict(w) BY <2>13 DEF AcquireConflict
  <2>14. CASE ReloadLease(w) BY <2>14 DEF ReloadLease
  <2>15. CASE ResolveRedeemAction(w) BY <2>15 DEF ResolveRedeemAction
  <2>16. CASE CreateCode(w) BY <2>16 DEF CreateCode
  <2>17. CASE Redeem(w) BY <2>17 DEF Redeem
  <2>18. CASE CheckAssignment(w) BY <2>18 DEF CheckAssignment
  <2>19. CASE AssignSubscription(w) BY <2>19 DEF AssignSubscription
  <2>20. CASE ApplyAffiliateRebate(w) BY <2>20 DEF ApplyAffiliateRebate
  <2>21. CASE MarkCompleted(w) BY <2>21 DEF MarkCompleted
  <2>22. CASE AuditCompletion(w) BY <2>22 DEF AuditCompletion
  <2>23. CASE CompletionLost(w) BY <2>23 DEF CompletionLost
  <2>24. CASE MarkFailed(w) BY <2>24 DEF MarkFailed
  <2>25. CASE Crash(w) BY <2>25 DEF Crash
  <2> QED BY <1>2, <2>1, <2>2, <2>3, <2>4, <2>5, <2>6, <2>7, <2>8, <2>9,
        <2>10, <2>11, <2>12, <2>13, <2>14, <2>15, <2>16, <2>17, <2>18, <2>19,
        <2>20, <2>21, <2>22, <2>23, <2>24, <2>25 DEF Step
<1>3. ASSUME NEW o \in Orders, Environment(o)
      PROVE  ConfirmedIsPaid'
  <2>1. CASE CustomerPays(o) BY <2>1 DEF CustomerPays
  <2>2. CASE Age(o) BY <2>2 DEF Age
  <2>3. CASE RefundMove(o) BY <2>3 DEF RefundMove, RefundEdges, Refundable
  <2> QED BY <1>3, <2>1, <2>2, <2>3 DEF Environment
<1> QED BY <1>1, <1>2, <1>3 DEF Next

\* A credit and the code's change to used are one transaction, an assignment
\* and its audit row another.
LEMMA GoodsAreRecordedStep ==
    ASSUME TypeOK, Serving, GoodsAreRecorded, Next
    PROVE  GoodsAreRecorded'
<1> USE DEF TypeOK, Goals, GoodsTypes, ProviderTypes, RefundStatuses,
      RowTypes, Statuses, Steps, WorkerTypes, Serving, GoodsAreRecorded
<1>1. ASSUME NEW w \in Workers, NEW o \in Orders, Arrive(w, o)
      PROVE  GoodsAreRecorded'
  <2>1. CASE CreateOrderInTx(w, o) BY <2>1 DEF CreateOrderInTx
  <2>2. CASE CancelOrder(w, o) BY <2>2 DEF CancelOrder
  <2>3. CASE ExpireTimedOutOrder(w, o) BY <2>3 DEF ExpireTimedOutOrder
  <2>4. CASE VerifyOrder(w, o) BY <2>4 DEF VerifyOrder
  <2>5. CASE ReconcilePendingOrder(w, o) BY <2>5 DEF ReconcilePendingOrder
  <2>6. CASE Webhook(w, o) BY <2>6 DEF Webhook
  <2>7. CASE RetryFulfillment(w, o) BY <2>7 DEF RetryFulfillment, Fulfillable
  <2> QED BY <1>1, <2>1, <2>2, <2>3, <2>4, <2>5, <2>6, <2>7 DEF Arrive
<1>2. ASSUME NEW w \in Workers, Step(w) \/ Crash(w)
      PROVE  GoodsAreRecorded'
  <2>1. CASE InvokeProvider(w) BY <2>1 DEF InvokeProvider
  <2>2. CASE SavePaymentDetails(w) BY <2>2 DEF SavePaymentDetails
  <2>3. CASE FailCreate(w) BY <2>3 DEF FailCreate
  <2>4. CASE CheckPaid(w) BY <2>4 DEF CheckPaid
  <2>5. CASE CloseAtProvider(w) BY <2>5 DEF CloseAtProvider
  <2>6. CASE CancelRow(w) BY <2>6 DEF CancelRow
  <2>7. CASE PersistTradeNo(w) BY <2>7 DEF PersistTradeNo
  <2>8. CASE ConfirmPayment(w) BY <2>8 DEF ConfirmPayment
  <2>9. CASE ToPaid(w) BY <2>9 DEF ToPaid
  <2>10. CASE AlreadyProcessed(w) BY <2>10 DEF AlreadyProcessed, Fulfillable
  <2>11. CASE ExecuteFulfillment(w) BY <2>11 DEF ExecuteFulfillment,
        Fulfillable
  <2>12. CASE AcquireLease(w) BY <2>12 DEF AcquireLease
  <2>13. CASE AcquireConflict(w) BY <2>13 DEF AcquireConflict
  <2>14. CASE ReloadLease(w) BY <2>14 DEF ReloadLease
  <2>15. CASE ResolveRedeemAction(w) BY <2>15 DEF ResolveRedeemAction
  <2>16. CASE CreateCode(w) BY <2>16 DEF CreateCode
  <2>17. CASE Redeem(w) BY <2>17 DEF Redeem
  <2>18. CASE CheckAssignment(w) BY <2>18 DEF CheckAssignment
  <2>19. CASE AssignSubscription(w) BY <2>19 DEF AssignSubscription
  <2>20. CASE ApplyAffiliateRebate(w) BY <2>20 DEF ApplyAffiliateRebate
  <2>21. CASE MarkCompleted(w) BY <2>21 DEF MarkCompleted
  <2>22. CASE AuditCompletion(w) BY <2>22 DEF AuditCompletion
  <2>23. CASE CompletionLost(w) BY <2>23 DEF CompletionLost
  <2>24. CASE MarkFailed(w) BY <2>24 DEF MarkFailed
  <2>25. CASE Crash(w) BY <2>25 DEF Crash
  <2> QED BY <1>2, <2>1, <2>2, <2>3, <2>4, <2>5, <2>6, <2>7, <2>8, <2>9,
        <2>10, <2>11, <2>12, <2>13, <2>14, <2>15, <2>16, <2>17, <2>18, <2>19,
        <2>20, <2>21, <2>22, <2>23, <2>24, <2>25 DEF Step
<1>3. ASSUME NEW o \in Orders, Environment(o)
      PROVE  GoodsAreRecorded'
  <2>1. CASE CustomerPays(o) BY <2>1 DEF CustomerPays
  <2>2. CASE Age(o) BY <2>2 DEF Age, Leased
  <2>3. CASE RefundMove(o) BY <2>3 DEF RefundMove, RefundEdges, Refundable
  <2> QED BY <1>3, <2>1, <2>2, <2>3 DEF Environment
<1> QED BY <1>1, <1>2, <1>3 DEF Next

\* Goods are handed out by workers past confirmPayment only.
LEMMA DeliveredOnlyIfPaidStep ==
    ASSUME TypeOK, Serving, UnpaidWhileCreating, ConfirmedIsPaid,
           DeliveredOnlyIfPaid, Next
    PROVE  DeliveredOnlyIfPaid'
<1> USE DEF TypeOK, Goals, GoodsTypes, ProviderTypes, RefundStatuses,
      RowTypes, Statuses, Steps, WorkerTypes, Serving, UnpaidWhileCreating,
      Creating, ConfirmedIsPaid, Confirmed, Leased, DeliveredOnlyIfPaid
<1>1. ASSUME NEW w \in Workers, NEW o \in Orders, Arrive(w, o)
      PROVE  DeliveredOnlyIfPaid'
  <2>1. CASE CreateOrderInTx(w, o) BY <2>1 DEF CreateOrderInTx
  <2>2. CASE CancelOrder(w, o) BY <2>2 DEF CancelOrder
  <2>3. CASE ExpireTimedOutOrder(w, o) BY <2>3 DEF ExpireTimedOutOrder
  <2>4. CASE VerifyOrder(w, o) BY <2>4 DEF VerifyOrder
  <2>5. CASE ReconcilePendingOrder(w, o) BY <2>5 DEF ReconcilePendingOrder
  <2>6. CASE Webhook(w, o) BY <2>6 DEF Webhook
  <2>7. CASE RetryFulfillment(w, o) BY <2>7 DEF RetryFulfillment, Fulfillable
  <2> QED BY <1>1, <2>1, <2>2, <2>3, <2>4, <2>5, <2>6, <2>7 DEF Arrive
<1>2. ASSUME NEW w \in Workers, Step(w) \/ Crash(w)
      PROVE  DeliveredOnlyIfPaid'
  <2>1. CASE InvokeProvider(w) BY <2>1 DEF InvokeProvider
  <2>2. CASE SavePaymentDetails(w) BY <2>2 DEF SavePaymentDetails
  <2>3. CASE FailCreate(w) BY <2>3 DEF FailCreate
  <2>4. CASE CheckPaid(w) BY <2>4 DEF CheckPaid
  <2>5. CASE CloseAtProvider(w) BY <2>5 DEF CloseAtProvider
  <2>6. CASE CancelRow(w) BY <2>6 DEF CancelRow
  <2>7. CASE PersistTradeNo(w) BY <2>7 DEF PersistTradeNo
  <2>8. CASE ConfirmPayment(w) BY <2>8 DEF ConfirmPayment
  <2>9. CASE ToPaid(w) BY <2>9 DEF ToPaid
  <2>10. CASE AlreadyProcessed(w) BY <2>10 DEF AlreadyProcessed, Fulfillable
  <2>11. CASE ExecuteFulfillment(w) BY <2>11 DEF ExecuteFulfillment,
        Fulfillable
  <2>12. CASE AcquireLease(w) BY <2>12 DEF AcquireLease
  <2>13. CASE AcquireConflict(w) BY <2>13 DEF AcquireConflict
  <2>14. CASE ReloadLease(w) BY <2>14 DEF ReloadLease
  <2>15. CASE ResolveRedeemAction(w) BY <2>15 DEF ResolveRedeemAction
  <2>16. CASE CreateCode(w) BY <2>16 DEF CreateCode
  <2>17. CASE Redeem(w) BY <2>17 DEF Redeem
  <2>18. CASE CheckAssignment(w) BY <2>18 DEF CheckAssignment
  <2>19. CASE AssignSubscription(w) BY <2>19 DEF AssignSubscription
  <2>20. CASE ApplyAffiliateRebate(w) BY <2>20 DEF ApplyAffiliateRebate
  <2>21. CASE MarkCompleted(w) BY <2>21 DEF MarkCompleted
  <2>22. CASE AuditCompletion(w) BY <2>22 DEF AuditCompletion
  <2>23. CASE CompletionLost(w) BY <2>23 DEF CompletionLost
  <2>24. CASE MarkFailed(w) BY <2>24 DEF MarkFailed
  <2>25. CASE Crash(w) BY <2>25 DEF Crash
  <2> QED BY <1>2, <2>1, <2>2, <2>3, <2>4, <2>5, <2>6, <2>7, <2>8, <2>9,
        <2>10, <2>11, <2>12, <2>13, <2>14, <2>15, <2>16, <2>17, <2>18, <2>19,
        <2>20, <2>21, <2>22, <2>23, <2>24, <2>25 DEF Step
<1>3. ASSUME NEW o \in Orders, Environment(o)
      PROVE  DeliveredOnlyIfPaid'
  <2>1. CASE CustomerPays(o) BY <2>1 DEF CustomerPays
  <2>2. CASE Age(o) BY <2>2 DEF Age
  <2>3. CASE RefundMove(o) BY <2>3 DEF RefundMove, RefundEdges, Refundable
  <2> QED BY <1>3, <2>1, <2>2, <2>3 DEF Environment
<1> QED BY <1>1, <1>2, <1>3 DEF Next

\* A worker reaches the rebate through a delivery, its own or an earlier one.
LEMMA DeliveredFirstStep ==
    ASSUME TypeOK, Serving, GoodsAreRecorded, DeliveredFirst, Next
    PROVE  DeliveredFirst'
<1> USE DEF TypeOK, Goals, GoodsTypes, ProviderTypes, RefundStatuses,
      RowTypes, Statuses, Steps, WorkerTypes, Serving, GoodsAreRecorded,
      DeliveredFirst
<1>1. ASSUME NEW w \in Workers, NEW o \in Orders, Arrive(w, o)
      PROVE  DeliveredFirst'
  <2>1. CASE CreateOrderInTx(w, o) BY <2>1 DEF CreateOrderInTx
  <2>2. CASE CancelOrder(w, o) BY <2>2 DEF CancelOrder
  <2>3. CASE ExpireTimedOutOrder(w, o) BY <2>3 DEF ExpireTimedOutOrder
  <2>4. CASE VerifyOrder(w, o) BY <2>4 DEF VerifyOrder
  <2>5. CASE ReconcilePendingOrder(w, o) BY <2>5 DEF ReconcilePendingOrder
  <2>6. CASE Webhook(w, o) BY <2>6 DEF Webhook
  <2>7. CASE RetryFulfillment(w, o) BY <2>7 DEF RetryFulfillment, Fulfillable
  <2> QED BY <1>1, <2>1, <2>2, <2>3, <2>4, <2>5, <2>6, <2>7 DEF Arrive
<1>2. ASSUME NEW w \in Workers, Step(w) \/ Crash(w)
      PROVE  DeliveredFirst'
  <2>1. CASE InvokeProvider(w) BY <2>1 DEF InvokeProvider
  <2>2. CASE SavePaymentDetails(w) BY <2>2 DEF SavePaymentDetails
  <2>3. CASE FailCreate(w) BY <2>3 DEF FailCreate
  <2>4. CASE CheckPaid(w) BY <2>4 DEF CheckPaid
  <2>5. CASE CloseAtProvider(w) BY <2>5 DEF CloseAtProvider
  <2>6. CASE CancelRow(w) BY <2>6 DEF CancelRow
  <2>7. CASE PersistTradeNo(w) BY <2>7 DEF PersistTradeNo
  <2>8. CASE ConfirmPayment(w) BY <2>8 DEF ConfirmPayment
  <2>9. CASE ToPaid(w) BY <2>9 DEF ToPaid
  <2>10. CASE AlreadyProcessed(w) BY <2>10 DEF AlreadyProcessed, Fulfillable
  <2>11. CASE ExecuteFulfillment(w) BY <2>11 DEF ExecuteFulfillment,
        Fulfillable
  <2>12. CASE AcquireLease(w) BY <2>12 DEF AcquireLease
  <2>13. CASE AcquireConflict(w) BY <2>13 DEF AcquireConflict
  <2>14. CASE ReloadLease(w) BY <2>14 DEF ReloadLease
  <2>15. CASE ResolveRedeemAction(w) BY <2>15 DEF ResolveRedeemAction
  <2>16. CASE CreateCode(w) BY <2>16 DEF CreateCode
  <2>17. CASE Redeem(w) BY <2>17 DEF Redeem
  <2>18. CASE CheckAssignment(w) BY <2>18 DEF CheckAssignment
  <2>19. CASE AssignSubscription(w) BY <2>19 DEF AssignSubscription
  <2>20. CASE ApplyAffiliateRebate(w)
    <3>1. \A o \in Orders :
            accrued'[o] > 0 => rebate'[o] /\ granted'[o] = 1 /\ accrued'[o] = 1
      BY <2>20 DEF ApplyAffiliateRebate
    <3>2. \A v \in Workers :
            /\ pc'[v] \in {"rebate", "complete", "audit"} => granted'[ord'[v]] = 1
            /\ pc'[v] \in {"complete", "audit"} => rebate'[ord'[v]]
      BY <2>20 DEF ApplyAffiliateRebate
    <3> QED BY <3>1, <3>2
  <2>21. CASE MarkCompleted(w) BY <2>21 DEF MarkCompleted
  <2>22. CASE AuditCompletion(w) BY <2>22 DEF AuditCompletion
  <2>23. CASE CompletionLost(w) BY <2>23 DEF CompletionLost
  <2>24. CASE MarkFailed(w) BY <2>24 DEF MarkFailed
  <2>25. CASE Crash(w) BY <2>25 DEF Crash
  <2> QED BY <1>2, <2>1, <2>2, <2>3, <2>4, <2>5, <2>6, <2>7, <2>8, <2>9,
        <2>10, <2>11, <2>12, <2>13, <2>14, <2>15, <2>16, <2>17, <2>18, <2>19,
        <2>20, <2>21, <2>22, <2>23, <2>24, <2>25 DEF Step
<1>3. ASSUME NEW o \in Orders, Environment(o)
      PROVE  DeliveredFirst'
  <2>1. CASE CustomerPays(o) BY <2>1 DEF CustomerPays
  <2>2. CASE Age(o) BY <2>2 DEF Age, Leased
  <2>3. CASE RefundMove(o) BY <2>3 DEF RefundMove, RefundEdges, Refundable
  <2> QED BY <1>3, <2>1, <2>2, <2>3 DEF Environment
<1> QED BY <1>1, <1>2, <1>3 DEF Next

\* markCompleted runs after the delivery and the rebate; refunds start from
\* completed orders.
LEMMA SettledMeansDeliveredStep ==
    ASSUME TypeOK, Serving, GoodsAreRecorded, DeliveredFirst,
           SettledMeansDelivered, Next
    PROVE  SettledMeansDelivered'
<1> USE DEF TypeOK, Goals, GoodsTypes, ProviderTypes, RefundStatuses,
      RowTypes, Statuses, Steps, WorkerTypes, Serving, GoodsAreRecorded,
      DeliveredFirst, SettledMeansDelivered, Settled
<1>1. ASSUME NEW w \in Workers, NEW o \in Orders, Arrive(w, o)
      PROVE  SettledMeansDelivered'
  <2>1. CASE CreateOrderInTx(w, o) BY <2>1 DEF CreateOrderInTx
  <2>2. CASE CancelOrder(w, o) BY <2>2 DEF CancelOrder
  <2>3. CASE ExpireTimedOutOrder(w, o) BY <2>3 DEF ExpireTimedOutOrder
  <2>4. CASE VerifyOrder(w, o) BY <2>4 DEF VerifyOrder
  <2>5. CASE ReconcilePendingOrder(w, o) BY <2>5 DEF ReconcilePendingOrder
  <2>6. CASE Webhook(w, o) BY <2>6 DEF Webhook
  <2>7. CASE RetryFulfillment(w, o) BY <2>7 DEF RetryFulfillment, Fulfillable
  <2> QED BY <1>1, <2>1, <2>2, <2>3, <2>4, <2>5, <2>6, <2>7 DEF Arrive
<1>2. ASSUME NEW w \in Workers, Step(w) \/ Crash(w)
      PROVE  SettledMeansDelivered'
  <2>1. CASE InvokeProvider(w) BY <2>1 DEF InvokeProvider
  <2>2. CASE SavePaymentDetails(w) BY <2>2 DEF SavePaymentDetails
  <2>3. CASE FailCreate(w) BY <2>3 DEF FailCreate
  <2>4. CASE CheckPaid(w) BY <2>4 DEF CheckPaid
  <2>5. CASE CloseAtProvider(w) BY <2>5 DEF CloseAtProvider
  <2>6. CASE CancelRow(w) BY <2>6 DEF CancelRow
  <2>7. CASE PersistTradeNo(w) BY <2>7 DEF PersistTradeNo
  <2>8. CASE ConfirmPayment(w) BY <2>8 DEF ConfirmPayment
  <2>9. CASE ToPaid(w) BY <2>9 DEF ToPaid
  <2>10. CASE AlreadyProcessed(w) BY <2>10 DEF AlreadyProcessed, Fulfillable
  <2>11. CASE ExecuteFulfillment(w) BY <2>11 DEF ExecuteFulfillment,
        Fulfillable
  <2>12. CASE AcquireLease(w) BY <2>12 DEF AcquireLease
  <2>13. CASE AcquireConflict(w) BY <2>13 DEF AcquireConflict
  <2>14. CASE ReloadLease(w) BY <2>14 DEF ReloadLease
  <2>15. CASE ResolveRedeemAction(w) BY <2>15 DEF ResolveRedeemAction
  <2>16. CASE CreateCode(w) BY <2>16 DEF CreateCode
  <2>17. CASE Redeem(w) BY <2>17 DEF Redeem
  <2>18. CASE CheckAssignment(w) BY <2>18 DEF CheckAssignment
  <2>19. CASE AssignSubscription(w) BY <2>19 DEF AssignSubscription
  <2>20. CASE ApplyAffiliateRebate(w) BY <2>20 DEF ApplyAffiliateRebate
  <2>21. CASE MarkCompleted(w) BY <2>21 DEF MarkCompleted
  <2>22. CASE AuditCompletion(w) BY <2>22 DEF AuditCompletion
  <2>23. CASE CompletionLost(w) BY <2>23 DEF CompletionLost
  <2>24. CASE MarkFailed(w) BY <2>24 DEF MarkFailed
  <2>25. CASE Crash(w) BY <2>25 DEF Crash
  <2> QED BY <1>2, <2>1, <2>2, <2>3, <2>4, <2>5, <2>6, <2>7, <2>8, <2>9,
        <2>10, <2>11, <2>12, <2>13, <2>14, <2>15, <2>16, <2>17, <2>18, <2>19,
        <2>20, <2>21, <2>22, <2>23, <2>24, <2>25 DEF Step
<1>3. ASSUME NEW o \in Orders, Environment(o)
      PROVE  SettledMeansDelivered'
  <2>1. CASE CustomerPays(o) BY <2>1 DEF CustomerPays
  <2>2. CASE Age(o) BY <2>2 DEF Age, Leased
  <2>3. CASE RefundMove(o) BY <2>3 DEF RefundMove, RefundEdges, Refundable
  <2> QED BY <1>3, <2>1, <2>2, <2>3 DEF Environment
<1> QED BY <1>1, <1>2, <1>3 DEF Next

\* Nothing but a refund moves a completed order, and a refund keeps it settled.
LEMMA CompletedStaysStep ==
    ASSUME TypeOK, Serving, UnpaidWhileCreating, ConfirmedIsPaid,
           CompletedStays, Next
    PROVE  CompletedStays'
<1> USE DEF TypeOK, Goals, GoodsTypes, ProviderTypes, RefundStatuses,
      RowTypes, Statuses, Steps, WorkerTypes, Serving, UnpaidWhileCreating,
      Creating, ConfirmedIsPaid, Confirmed, Leased, CompletedStays, Settled
<1>1. ASSUME NEW w \in Workers, NEW o \in Orders, Arrive(w, o)
      PROVE  CompletedStays'
  <2>1. CASE CreateOrderInTx(w, o) BY <2>1 DEF CreateOrderInTx
  <2>2. CASE CancelOrder(w, o) BY <2>2 DEF CancelOrder
  <2>3. CASE ExpireTimedOutOrder(w, o) BY <2>3 DEF ExpireTimedOutOrder
  <2>4. CASE VerifyOrder(w, o) BY <2>4 DEF VerifyOrder
  <2>5. CASE ReconcilePendingOrder(w, o) BY <2>5 DEF ReconcilePendingOrder
  <2>6. CASE Webhook(w, o) BY <2>6 DEF Webhook
  <2>7. CASE RetryFulfillment(w, o) BY <2>7 DEF RetryFulfillment, Fulfillable
  <2> QED BY <1>1, <2>1, <2>2, <2>3, <2>4, <2>5, <2>6, <2>7 DEF Arrive
<1>2. ASSUME NEW w \in Workers, Step(w) \/ Crash(w)
      PROVE  CompletedStays'
  <2>1. CASE InvokeProvider(w) BY <2>1 DEF InvokeProvider
  <2>2. CASE SavePaymentDetails(w) BY <2>2 DEF SavePaymentDetails
  <2>3. CASE FailCreate(w) BY <2>3 DEF FailCreate
  <2>4. CASE CheckPaid(w) BY <2>4 DEF CheckPaid
  <2>5. CASE CloseAtProvider(w) BY <2>5 DEF CloseAtProvider
  <2>6. CASE CancelRow(w) BY <2>6 DEF CancelRow
  <2>7. CASE PersistTradeNo(w) BY <2>7 DEF PersistTradeNo
  <2>8. CASE ConfirmPayment(w) BY <2>8 DEF ConfirmPayment
  <2>9. CASE ToPaid(w) BY <2>9 DEF ToPaid
  <2>10. CASE AlreadyProcessed(w) BY <2>10 DEF AlreadyProcessed, Fulfillable
  <2>11. CASE ExecuteFulfillment(w) BY <2>11 DEF ExecuteFulfillment,
        Fulfillable
  <2>12. CASE AcquireLease(w) BY <2>12 DEF AcquireLease
  <2>13. CASE AcquireConflict(w) BY <2>13 DEF AcquireConflict
  <2>14. CASE ReloadLease(w) BY <2>14 DEF ReloadLease
  <2>15. CASE ResolveRedeemAction(w) BY <2>15 DEF ResolveRedeemAction
  <2>16. CASE CreateCode(w) BY <2>16 DEF CreateCode
  <2>17. CASE Redeem(w) BY <2>17 DEF Redeem
  <2>18. CASE CheckAssignment(w) BY <2>18 DEF CheckAssignment
  <2>19. CASE AssignSubscription(w) BY <2>19 DEF AssignSubscription
  <2>20. CASE ApplyAffiliateRebate(w) BY <2>20 DEF ApplyAffiliateRebate
  <2>21. CASE MarkCompleted(w) BY <2>21 DEF MarkCompleted
  <2>22. CASE AuditCompletion(w) BY <2>22 DEF AuditCompletion
  <2>23. CASE CompletionLost(w) BY <2>23 DEF CompletionLost
  <2>24. CASE MarkFailed(w) BY <2>24 DEF MarkFailed
  <2>25. CASE Crash(w) BY <2>25 DEF Crash
  <2> QED BY <1>2, <2>1, <2>2, <2>3, <2>4, <2>5, <2>6, <2>7, <2>8, <2>9,
        <2>10, <2>11, <2>12, <2>13, <2>14, <2>15, <2>16, <2>17, <2>18, <2>19,
        <2>20, <2>21, <2>22, <2>23, <2>24, <2>25 DEF Step
<1>3. ASSUME NEW o \in Orders, Environment(o)
      PROVE  CompletedStays'
  <2>1. CASE CustomerPays(o) BY <2>1 DEF CustomerPays
  <2>2. CASE Age(o) BY <2>2 DEF Age
  <2>3. CASE RefundMove(o) BY <2>3 DEF RefundMove, RefundEdges, Refundable
  <2> QED BY <1>3, <2>1, <2>2, <2>3 DEF Environment
<1> QED BY <1>1, <1>2, <1>3 DEF Next

\* Every write to a paid row is conditional on a status or on the lease.
LEMMA PaidStaysStep ==
    ASSUME TypeOK, Serving, UnpaidWhileCreating, ConfirmedIsPaid, PaidStays,
           Next
    PROVE  PaidStays'
<1> USE DEF TypeOK, Goals, GoodsTypes, ProviderTypes, RefundStatuses,
      RowTypes, Statuses, Steps, WorkerTypes, Serving, UnpaidWhileCreating,
      Creating, ConfirmedIsPaid, Confirmed, Leased, PaidStays, Fulfillable,
      Settled
<1>1. ASSUME NEW w \in Workers, NEW o \in Orders, Arrive(w, o)
      PROVE  PaidStays'
  <2>1. CASE CreateOrderInTx(w, o) BY <2>1 DEF CreateOrderInTx
  <2>2. CASE CancelOrder(w, o) BY <2>2 DEF CancelOrder
  <2>3. CASE ExpireTimedOutOrder(w, o) BY <2>3 DEF ExpireTimedOutOrder
  <2>4. CASE VerifyOrder(w, o) BY <2>4 DEF VerifyOrder
  <2>5. CASE ReconcilePendingOrder(w, o) BY <2>5 DEF ReconcilePendingOrder
  <2>6. CASE Webhook(w, o) BY <2>6 DEF Webhook
  <2>7. CASE RetryFulfillment(w, o) BY <2>7 DEF RetryFulfillment
  <2> QED BY <1>1, <2>1, <2>2, <2>3, <2>4, <2>5, <2>6, <2>7 DEF Arrive
<1>2. ASSUME NEW w \in Workers, Step(w) \/ Crash(w)
      PROVE  PaidStays'
  <2>1. CASE InvokeProvider(w) BY <2>1 DEF InvokeProvider
  <2>2. CASE SavePaymentDetails(w) BY <2>2 DEF SavePaymentDetails
  <2>3. CASE FailCreate(w) BY <2>3 DEF FailCreate
  <2>4. CASE CheckPaid(w) BY <2>4 DEF CheckPaid
  <2>5. CASE CloseAtProvider(w) BY <2>5 DEF CloseAtProvider
  <2>6. CASE CancelRow(w) BY <2>6 DEF CancelRow
  <2>7. CASE PersistTradeNo(w) BY <2>7 DEF PersistTradeNo
  <2>8. CASE ConfirmPayment(w) BY <2>8 DEF ConfirmPayment
  <2>9. CASE ToPaid(w) BY <2>9 DEF ToPaid
  <2>10. CASE AlreadyProcessed(w) BY <2>10 DEF AlreadyProcessed
  <2>11. CASE ExecuteFulfillment(w) BY <2>11 DEF ExecuteFulfillment
  <2>12. CASE AcquireLease(w) BY <2>12 DEF AcquireLease
  <2>13. CASE AcquireConflict(w) BY <2>13 DEF AcquireConflict
  <2>14. CASE ReloadLease(w) BY <2>14 DEF ReloadLease
  <2>15. CASE ResolveRedeemAction(w) BY <2>15 DEF ResolveRedeemAction
  <2>16. CASE CreateCode(w) BY <2>16 DEF CreateCode
  <2>17. CASE Redeem(w) BY <2>17 DEF Redeem
  <2>18. CASE CheckAssignment(w) BY <2>18 DEF CheckAssignment
  <2>19. CASE AssignSubscription(w) BY <2>19 DEF AssignSubscription
  <2>20. CASE ApplyAffiliateRebate(w) BY <2>20 DEF ApplyAffiliateRebate
  <2>21. CASE MarkCompleted(w) BY <2>21 DEF MarkCompleted
  <2>22. CASE AuditCompletion(w) BY <2>22 DEF AuditCompletion
  <2>23. CASE CompletionLost(w) BY <2>23 DEF CompletionLost
  <2>24. CASE MarkFailed(w) BY <2>24 DEF MarkFailed
  <2>25. CASE Crash(w) BY <2>25 DEF Crash
  <2> QED BY <1>2, <2>1, <2>2, <2>3, <2>4, <2>5, <2>6, <2>7, <2>8, <2>9,
        <2>10, <2>11, <2>12, <2>13, <2>14, <2>15, <2>16, <2>17, <2>18, <2>19,
        <2>20, <2>21, <2>22, <2>23, <2>24, <2>25 DEF Step
<1>3. ASSUME NEW o \in Orders, Environment(o)
      PROVE  PaidStays'
  <2>1. CASE CustomerPays(o) BY <2>1 DEF CustomerPays
  <2>2. CASE Age(o) BY <2>2 DEF Age
  <2>3. CASE RefundMove(o) BY <2>3 DEF RefundMove, RefundEdges, Refundable
  <2> QED BY <1>3, <2>1, <2>2, <2>3 DEF Environment
<1> QED BY <1>1, <1>2, <1>3 DEF Next

\* No write leads back to PENDING, and CANCELLED is reached from PENDING only.
LEMMA RefusedStaysStep ==
    ASSUME TypeOK, Serving, UnpaidWhileCreating, ConfirmedIsPaid,
           RefusedStays, Next
    PROVE  RefusedStays'
<1> USE DEF TypeOK, Goals, GoodsTypes, ProviderTypes, RefundStatuses,
      RowTypes, Statuses, Steps, WorkerTypes, Serving, UnpaidWhileCreating,
      Creating, ConfirmedIsPaid, Confirmed, Leased, RefusedStays
<1>1. ASSUME NEW w \in Workers, NEW o \in Orders, Arrive(w, o)
      PROVE  RefusedStays'
  <2>1. CASE CreateOrderInTx(w, o) BY <2>1 DEF CreateOrderInTx
  <2>2. CASE CancelOrder(w, o) BY <2>2 DEF CancelOrder
  <2>3. CASE ExpireTimedOutOrder(w, o) BY <2>3 DEF ExpireTimedOutOrder
  <2>4. CASE VerifyOrder(w, o) BY <2>4 DEF VerifyOrder
  <2>5. CASE ReconcilePendingOrder(w, o) BY <2>5 DEF ReconcilePendingOrder
  <2>6. CASE Webhook(w, o) BY <2>6 DEF Webhook
  <2>7. CASE RetryFulfillment(w, o) BY <2>7 DEF RetryFulfillment, Fulfillable
  <2> QED BY <1>1, <2>1, <2>2, <2>3, <2>4, <2>5, <2>6, <2>7 DEF Arrive
<1>2. ASSUME NEW w \in Workers, Step(w) \/ Crash(w)
      PROVE  RefusedStays'
  <2>1. CASE InvokeProvider(w) BY <2>1 DEF InvokeProvider
  <2>2. CASE SavePaymentDetails(w) BY <2>2 DEF SavePaymentDetails
  <2>3. CASE FailCreate(w) BY <2>3 DEF FailCreate
  <2>4. CASE CheckPaid(w) BY <2>4 DEF CheckPaid
  <2>5. CASE CloseAtProvider(w) BY <2>5 DEF CloseAtProvider
  <2>6. CASE CancelRow(w) BY <2>6 DEF CancelRow
  <2>7. CASE PersistTradeNo(w) BY <2>7 DEF PersistTradeNo
  <2>8. CASE ConfirmPayment(w) BY <2>8 DEF ConfirmPayment
  <2>9. CASE ToPaid(w) BY <2>9 DEF ToPaid
  <2>10. CASE AlreadyProcessed(w) BY <2>10 DEF AlreadyProcessed, Fulfillable
  <2>11. CASE ExecuteFulfillment(w) BY <2>11 DEF ExecuteFulfillment,
        Fulfillable
  <2>12. CASE AcquireLease(w) BY <2>12 DEF AcquireLease
  <2>13. CASE AcquireConflict(w) BY <2>13 DEF AcquireConflict
  <2>14. CASE ReloadLease(w) BY <2>14 DEF ReloadLease
  <2>15. CASE ResolveRedeemAction(w) BY <2>15 DEF ResolveRedeemAction
  <2>16. CASE CreateCode(w) BY <2>16 DEF CreateCode
  <2>17. CASE Redeem(w) BY <2>17 DEF Redeem
  <2>18. CASE CheckAssignment(w) BY <2>18 DEF CheckAssignment
  <2>19. CASE AssignSubscription(w) BY <2>19 DEF AssignSubscription
  <2>20. CASE ApplyAffiliateRebate(w) BY <2>20 DEF ApplyAffiliateRebate
  <2>21. CASE MarkCompleted(w) BY <2>21 DEF MarkCompleted
  <2>22. CASE AuditCompletion(w) BY <2>22 DEF AuditCompletion
  <2>23. CASE CompletionLost(w) BY <2>23 DEF CompletionLost
  <2>24. CASE MarkFailed(w) BY <2>24 DEF MarkFailed
  <2>25. CASE Crash(w) BY <2>25 DEF Crash
  <2> QED BY <1>2, <2>1, <2>2, <2>3, <2>4, <2>5, <2>6, <2>7, <2>8, <2>9,
        <2>10, <2>11, <2>12, <2>13, <2>14, <2>15, <2>16, <2>17, <2>18, <2>19,
        <2>20, <2>21, <2>22, <2>23, <2>24, <2>25 DEF Step
<1>3. ASSUME NEW o \in Orders, Environment(o)
      PROVE  RefusedStays'
  <2>1. CASE CustomerPays(o) BY <2>1 DEF CustomerPays
  <2>2. CASE Age(o) BY <2>2 DEF Age
  <2>3. CASE RefundMove(o) BY <2>3 DEF RefundMove, RefundEdges, Refundable
  <2> QED BY <1>3, <2>1, <2>2, <2>3 DEF Environment
<1> QED BY <1>1, <1>2, <1>3 DEF Next

-----------------------------------------------------------------------------
(* The theorems.                                                           *)

\* Before the first order is created the invariant holds.
LEMMA InitInv == Init => IInv
BY OrderAssumption
   DEF Init, IInv, TypeOK, RowTypes, GoodsTypes, ProviderTypes, WorkerTypes,
       Serving, OneCreator, UnpaidWhileCreating, ConfirmedIsPaid,
       GoodsAreRecorded, DeliveredOnlyIfPaid, DeliveredFirst,
       SettledMeansDelivered, CompletedStays, PaidStays, RefusedStays,
       Statuses, RefundStatuses, Settled, Fulfillable, Steps, Goals, Leased,
       Creating, Confirmed

\* Every step of every handler, of the customer, the provider and the clock
\* keeps it.
LEMMA NextInv == IInv /\ [Next]_vars => IInv'
<1> SUFFICES ASSUME IInv, [Next]_vars PROVE IInv'
  OBVIOUS
<1>1. CASE Next
  <2> USE <1>1 DEF IInv
  <2>1. TypeOK'
    BY RowTypesStep, GoodsTypesStep, ProviderTypesStep, WorkerTypesStep DEF TypeOK
  <2>2. Serving' BY ServingStep
  <2>3. OneCreator' BY OneCreatorStep
  <2>4. UnpaidWhileCreating' BY UnpaidWhileCreatingStep
  <2>5. ConfirmedIsPaid' BY ConfirmedIsPaidStep
  <2>6. GoodsAreRecorded' BY GoodsAreRecordedStep
  <2>7. DeliveredOnlyIfPaid' BY DeliveredOnlyIfPaidStep
  <2>8. DeliveredFirst' BY DeliveredFirstStep
  <2>9. SettledMeansDelivered' BY SettledMeansDeliveredStep
  <2>10. CompletedStays' BY CompletedStaysStep
  <2>11. PaidStays' BY PaidStaysStep
  <2>12. RefusedStays' BY RefusedStaysStep
  <2> QED BY <2>1, <2>2, <2>3, <2>4, <2>5, <2>6, <2>7, <2>8, <2>9, <2>10,
             <2>11, <2>12
<1>2. CASE UNCHANGED vars
  BY <1>2
     DEF vars, IInv, TypeOK, RowTypes, GoodsTypes, ProviderTypes, WorkerTypes,
         Serving, OneCreator, UnpaidWhileCreating, ConfirmedIsPaid,
         GoodsAreRecorded, DeliveredOnlyIfPaid, DeliveredFirst,
         SettledMeansDelivered, CompletedStays, PaidStays, RefusedStays
<1> QED BY <1>1, <1>2

\* The invariant holds in every reachable state.
THEOREM Invariance == Spec => []IInv
BY InitInv, NextInv, PTL DEF Spec

\* Type correctness of the order rows, the goods, the provider and the workers.
THEOREM TypeCorrectness == Spec => []TypeOK
<1>1. IInv => TypeOK BY DEF IInv
<1> QED BY <1>1, Invariance, PTL

\* No number of notifications, polls, retries, crashes and stolen leases makes
\* fulfilment credit, assign or accrue twice for one order.
THEOREM NoDoubleDelivery == Spec => []DeliveredAtMostOnce
<1>1. IInv => DeliveredAtMostOnce
  <2> SUFFICES ASSUME IInv, NEW o \in Orders
               PROVE  granted[o] <= 1 /\ accrued[o] <= granted[o]
    BY DEF DeliveredAtMostOnce
  <2>1. granted[o] \in {0, 1}
    BY DEF IInv, TypeOK, RowTypes, GoodsAreRecorded
  <2>2. accrued[o] = 0 \/ (accrued[o] = 1 /\ granted[o] = 1)
    BY DEF IInv, TypeOK, GoodsTypes, DeliveredFirst
  <2> QED BY <2>1, <2>2
<1> QED BY <1>1, Invariance, PTL

\* Nothing is delivered for money that was not received.
THEOREM NoUnpaidDelivery == Spec => []DeliveredOnlyIfPaid
<1>1. IInv => DeliveredOnlyIfPaid BY DEF IInv
<1> QED BY <1>1, Invariance, PTL

\* A completed order, or one in refund, was delivered.
THEOREM SettledAfterDelivery == Spec => []SettledMeansDelivered
<1>1. IInv => SettledMeansDelivered BY DEF IInv
<1> QED BY <1>1, Invariance, PTL

-----------------------------------------------------------------------------
(* What no step undoes.                                                    *)

\* paid_at is never cleared, the late-payment audit never deleted, and only a
\* refund moves a settled order.
Monotone ==
    \A o \in Orders :
        /\ paidAt[o] => paidAt'[o]
        /\ late[o] => late'[o]
        /\ status[o] \in Settled => status'[o] \in Settled

\* The writes that carry no condition are CreateOrder's FAILED, which comes
\* before any payment, and checkPaid's trade number, which keeps the status.
LEMMA MonotoneStep ==
    ASSUME TypeOK, Serving, UnpaidWhileCreating, DeliveredOnlyIfPaid,
           SettledMeansDelivered, Next
    PROVE  Monotone
<1> USE DEF Monotone, TypeOK, RowTypes, ProviderTypes, Serving,
      UnpaidWhileCreating, DeliveredOnlyIfPaid, SettledMeansDelivered,
      Settled, RefundStatuses, Creating, Fulfillable
<1>1. ASSUME NEW w \in Workers, NEW o \in Orders, Arrive(w, o)
      PROVE  Monotone
  <2>1. CASE CreateOrderInTx(w, o) BY <2>1 DEF CreateOrderInTx
  <2>2. CASE CancelOrder(w, o) BY <2>2 DEF CancelOrder
  <2>3. CASE ExpireTimedOutOrder(w, o) BY <2>3 DEF ExpireTimedOutOrder
  <2>4. CASE VerifyOrder(w, o) BY <2>4 DEF VerifyOrder
  <2>5. CASE ReconcilePendingOrder(w, o) BY <2>5 DEF ReconcilePendingOrder
  <2>6. CASE Webhook(w, o) BY <2>6 DEF Webhook
  <2>7. CASE RetryFulfillment(w, o) BY <2>7 DEF RetryFulfillment
  <2> QED BY <1>1, <2>1, <2>2, <2>3, <2>4, <2>5, <2>6, <2>7 DEF Arrive
<1>2. ASSUME NEW w \in Workers, Step(w) \/ Crash(w)
      PROVE  Monotone
  <2>1. CASE InvokeProvider(w) BY <2>1 DEF InvokeProvider
  <2>2. CASE SavePaymentDetails(w) BY <2>2 DEF SavePaymentDetails
  <2>3. CASE FailCreate(w) BY <2>3 DEF FailCreate
  <2>4. CASE CheckPaid(w) BY <2>4 DEF CheckPaid
  <2>5. CASE CloseAtProvider(w) BY <2>5 DEF CloseAtProvider
  <2>6. CASE CancelRow(w) BY <2>6 DEF CancelRow
  <2>7. CASE PersistTradeNo(w) BY <2>7 DEF PersistTradeNo
  <2>8. CASE ConfirmPayment(w) BY <2>8 DEF ConfirmPayment
  <2>9. CASE ToPaid(w) BY <2>9 DEF ToPaid
  <2>10. CASE AlreadyProcessed(w) BY <2>10 DEF AlreadyProcessed
  <2>11. CASE ExecuteFulfillment(w) BY <2>11 DEF ExecuteFulfillment
  <2>12. CASE AcquireLease(w) BY <2>12 DEF AcquireLease
  <2>13. CASE AcquireConflict(w) BY <2>13 DEF AcquireConflict
  <2>14. CASE ReloadLease(w) BY <2>14 DEF ReloadLease
  <2>15. CASE ResolveRedeemAction(w) BY <2>15 DEF ResolveRedeemAction
  <2>16. CASE CreateCode(w) BY <2>16 DEF CreateCode
  <2>17. CASE Redeem(w) BY <2>17 DEF Redeem
  <2>18. CASE CheckAssignment(w) BY <2>18 DEF CheckAssignment
  <2>19. CASE AssignSubscription(w) BY <2>19 DEF AssignSubscription
  <2>20. CASE ApplyAffiliateRebate(w) BY <2>20 DEF ApplyAffiliateRebate
  <2>21. CASE MarkCompleted(w) BY <2>21 DEF MarkCompleted
  <2>22. CASE AuditCompletion(w) BY <2>22 DEF AuditCompletion
  <2>23. CASE CompletionLost(w) BY <2>23 DEF CompletionLost
  <2>24. CASE MarkFailed(w) BY <2>24 DEF MarkFailed
  <2>25. CASE Crash(w) BY <2>25 DEF Crash
  <2> QED BY <1>2, <2>1, <2>2, <2>3, <2>4, <2>5, <2>6, <2>7, <2>8, <2>9,
        <2>10, <2>11, <2>12, <2>13, <2>14, <2>15, <2>16, <2>17, <2>18, <2>19,
        <2>20, <2>21, <2>22, <2>23, <2>24, <2>25 DEF Step
<1>3. ASSUME NEW o \in Orders, Environment(o)
      PROVE  Monotone
  <2>1. CASE CustomerPays(o) BY <2>1 DEF CustomerPays
  <2>2. CASE Age(o) BY <2>2 DEF Age
  <2>3. CASE RefundMove(o) BY <2>3 DEF RefundMove, RefundEdges, Refundable, Statuses
  <2> QED BY <1>3, <2>1, <2>2, <2>3 DEF Environment
<1> QED BY <1>1, <1>2, <1>3 DEF Next

\* A confirmed payment is never cancelled, expired or overwritten, and a
\* completed order leaves COMPLETED only through a refund.
THEOREM NoUnwinding == Spec => PaidIsNotUnwound
<1>1. IInv /\ IInv' /\ [Next]_vars =>
        [\A o \in Orders :
           /\ paidAt[o] => status'[o] \in Fulfillable \cup Settled
           /\ status[o] \in Settled => status'[o] \in Settled]_vars
  <2> SUFFICES ASSUME IInv, IInv', Next
               PROVE  \A o \in Orders :
                        /\ paidAt[o] => status'[o] \in Fulfillable \cup Settled
                        /\ status[o] \in Settled => status'[o] \in Settled
    OBVIOUS
  <2>1. Monotone BY MonotoneStep DEF IInv
  <2>2. PaidStays' BY DEF IInv
  <2> QED BY <2>1, <2>2 DEF Monotone, PaidStays
<1> QED BY <1>1, Invariance, PTL DEF Spec, PaidIsNotUnwound

\* A handler returns nil only where the order is settled or flagged, or where a
\* call has failed and its error is dropped.
LEMMA AcknowledgedStep ==
    ASSUME TypeOK, Serving, CompletedStays, RefusedStays,
           AcknowledgedMeansSettled, Monotone, Next
    PROVE  AcknowledgedMeansSettled'
<1> USE DEF TypeOK, RowTypes, ProviderTypes, Serving, CompletedStays,
      RefusedStays, AcknowledgedMeansSettled, Monotone, Statuses,
      RefundStatuses, Settled, Fulfillable
<1>1. ASSUME NEW w \in Workers, NEW o \in Orders, Arrive(w, o)
      PROVE  AcknowledgedMeansSettled'
  <2>1. CASE CreateOrderInTx(w, o) BY <2>1 DEF CreateOrderInTx
  <2>2. CASE CancelOrder(w, o) BY <2>2 DEF CancelOrder
  <2>3. CASE ExpireTimedOutOrder(w, o) BY <2>3 DEF ExpireTimedOutOrder
  <2>4. CASE VerifyOrder(w, o) BY <2>4 DEF VerifyOrder
  <2>5. CASE ReconcilePendingOrder(w, o) BY <2>5 DEF ReconcilePendingOrder
  <2>6. CASE Webhook(w, o) BY <2>6 DEF Webhook
  <2>7. CASE RetryFulfillment(w, o) BY <2>7 DEF RetryFulfillment
  <2> QED BY <1>1, <2>1, <2>2, <2>3, <2>4, <2>5, <2>6, <2>7 DEF Arrive
<1>2. ASSUME NEW w \in Workers, Step(w) \/ Crash(w)
      PROVE  AcknowledgedMeansSettled'
  <2>1. CASE InvokeProvider(w) BY <2>1 DEF InvokeProvider
  <2>2. CASE SavePaymentDetails(w) BY <2>2 DEF SavePaymentDetails
  <2>3. CASE FailCreate(w) BY <2>3 DEF FailCreate
  <2>4. CASE CheckPaid(w) BY <2>4 DEF CheckPaid
  <2>5. CASE CloseAtProvider(w) BY <2>5 DEF CloseAtProvider
  <2>6. CASE CancelRow(w) BY <2>6 DEF CancelRow
  <2>7. CASE PersistTradeNo(w) BY <2>7 DEF PersistTradeNo
  <2>8. CASE ConfirmPayment(w) BY <2>8 DEF ConfirmPayment
  <2>9. CASE ToPaid(w) BY <2>9 DEF ToPaid
  <2>10. CASE AlreadyProcessed(w) BY <2>10 DEF AlreadyProcessed
  <2>11. CASE ExecuteFulfillment(w) BY <2>11 DEF ExecuteFulfillment
  <2>12. CASE AcquireLease(w) BY <2>12 DEF AcquireLease
  <2>13. CASE AcquireConflict(w) BY <2>13 DEF AcquireConflict
  <2>14. CASE ReloadLease(w) BY <2>14 DEF ReloadLease
  <2>15. CASE ResolveRedeemAction(w) BY <2>15 DEF ResolveRedeemAction
  <2>16. CASE CreateCode(w) BY <2>16 DEF CreateCode
  <2>17. CASE Redeem(w) BY <2>17 DEF Redeem
  <2>18. CASE CheckAssignment(w) BY <2>18 DEF CheckAssignment
  <2>19. CASE AssignSubscription(w) BY <2>19 DEF AssignSubscription
  <2>20. CASE ApplyAffiliateRebate(w) BY <2>20 DEF ApplyAffiliateRebate
  <2>21. CASE MarkCompleted(w) BY <2>21 DEF MarkCompleted
  <2>22. CASE AuditCompletion(w) BY <2>22 DEF AuditCompletion
  <2>23. CASE CompletionLost(w) BY <2>23 DEF CompletionLost
  <2>24. CASE MarkFailed(w) BY <2>24 DEF MarkFailed
  <2>25. CASE Crash(w) BY <2>25 DEF Crash
  <2> QED BY <1>2, <2>1, <2>2, <2>3, <2>4, <2>5, <2>6, <2>7, <2>8, <2>9,
        <2>10, <2>11, <2>12, <2>13, <2>14, <2>15, <2>16, <2>17, <2>18, <2>19,
        <2>20, <2>21, <2>22, <2>23, <2>24, <2>25 DEF Step
<1>3. ASSUME NEW o \in Orders, Environment(o)
      PROVE  AcknowledgedMeansSettled'
  <2>1. CASE CustomerPays(o) BY <2>1 DEF CustomerPays
  <2>2. CASE Age(o) BY <2>2 DEF Age
  <2>3. CASE RefundMove(o) BY <2>3 DEF RefundMove, RefundEdges, Refundable
  <2> QED BY <1>3, <2>1, <2>2, <2>3 DEF Environment
<1> QED BY <1>1, <1>2, <1>3 DEF Next

\* The provider is told to stop only when the order is settled or flagged, or
\* one of the calls failed whose error the code answers with success: no
\* assumption is made on which calls fail, or how often.
THEOREM AcknowledgedWhenSettled == Spec => []AcknowledgedMeansSettled
<1>1. Init => AcknowledgedMeansSettled BY DEF Init, AcknowledgedMeansSettled
<1>2. IInv /\ AcknowledgedMeansSettled /\ [Next]_vars => AcknowledgedMeansSettled'
  <2> SUFFICES ASSUME IInv, AcknowledgedMeansSettled, [Next]_vars
               PROVE  AcknowledgedMeansSettled'
    OBVIOUS
  <2>1. CASE Next
    <3>1. Monotone BY <2>1, MonotoneStep DEF IInv
    <3> QED BY <2>1, <3>1, AcknowledgedStep DEF IInv
  <2>2. CASE UNCHANGED vars BY <2>2 DEF vars, AcknowledgedMeansSettled
  <2> QED BY <2>1, <2>2
<1> QED BY <1>1, <1>2, Invariance, PTL DEF Spec

-----------------------------------------------------------------------------
(* paid_at and the administrator's retry.                                  *)

\* While CreateOrder runs, only a cancellation or an expiry can have touched
\* the order.
CreatingShows ==
    \A w \in Workers :
        pc[w] \in Creating => status[ord[w]] \in {"PENDING", "CANCELLED", "EXPIRED"}

\* An order in fulfilment without paid_at is one whose creation failed, and
\* nobody can pay it any more.
UnpaidIsClosed ==
    \A o \in Orders :
        status[o] \in Fulfillable \cup Settled => paidAt[o] \/ prov[o] = "none"

\* CreateOrder meets no order that was confirmed.
LEMMA CreatingShowsStep ==
    ASSUME IInv, CreatingShows, Next
    PROVE  CreatingShows'
<1> USE DEF IInv, OneCreator, CreatingShows, TypeOK, RowTypes, ProviderTypes,
      WorkerTypes, Serving, ConfirmedIsPaid, UnpaidWhileCreating, Confirmed,
      Leased, Creating, Settled, RefundStatuses, Fulfillable
<1>1. ASSUME NEW w \in Workers, NEW o \in Orders, Arrive(w, o)
      PROVE  CreatingShows'
  <2>1. CASE CreateOrderInTx(w, o) BY <2>1 DEF CreateOrderInTx
  <2>2. CASE CancelOrder(w, o) BY <2>2 DEF CancelOrder
  <2>3. CASE ExpireTimedOutOrder(w, o) BY <2>3 DEF ExpireTimedOutOrder
  <2>4. CASE VerifyOrder(w, o) BY <2>4 DEF VerifyOrder
  <2>5. CASE ReconcilePendingOrder(w, o) BY <2>5 DEF ReconcilePendingOrder
  <2>6. CASE Webhook(w, o) BY <2>6 DEF Webhook
  <2>7. CASE RetryFulfillment(w, o) BY <2>7 DEF RetryFulfillment
  <2> QED BY <1>1, <2>1, <2>2, <2>3, <2>4, <2>5, <2>6, <2>7 DEF Arrive
<1>2. ASSUME NEW w \in Workers, Step(w) \/ Crash(w)
      PROVE  CreatingShows'
  <2>1. CASE InvokeProvider(w) BY <2>1 DEF InvokeProvider
  <2>2. CASE SavePaymentDetails(w) BY <2>2 DEF SavePaymentDetails
  <2>3. CASE FailCreate(w) BY <2>3 DEF FailCreate
  <2>4. CASE CheckPaid(w) BY <2>4 DEF CheckPaid
  <2>5. CASE CloseAtProvider(w) BY <2>5 DEF CloseAtProvider
  <2>6. CASE CancelRow(w) BY <2>6 DEF CancelRow
  <2>7. CASE PersistTradeNo(w) BY <2>7 DEF PersistTradeNo
  <2>8. CASE ConfirmPayment(w) BY <2>8 DEF ConfirmPayment
  <2>9. CASE ToPaid(w) BY <2>9 DEF ToPaid
  <2>10. CASE AlreadyProcessed(w) BY <2>10 DEF AlreadyProcessed
  <2>11. CASE ExecuteFulfillment(w) BY <2>11 DEF ExecuteFulfillment
  <2>12. CASE AcquireLease(w) BY <2>12 DEF AcquireLease
  <2>13. CASE AcquireConflict(w) BY <2>13 DEF AcquireConflict
  <2>14. CASE ReloadLease(w) BY <2>14 DEF ReloadLease
  <2>15. CASE ResolveRedeemAction(w) BY <2>15 DEF ResolveRedeemAction,
        GoodsTypes
  <2>16. CASE CreateCode(w) BY <2>16 DEF CreateCode
  <2>17. CASE Redeem(w) BY <2>17 DEF Redeem
  <2>18. CASE CheckAssignment(w) BY <2>18 DEF CheckAssignment
  <2>19. CASE AssignSubscription(w) BY <2>19 DEF AssignSubscription
  <2>20. CASE ApplyAffiliateRebate(w) BY <2>20 DEF ApplyAffiliateRebate
  <2>21. CASE MarkCompleted(w) BY <2>21 DEF MarkCompleted
  <2>22. CASE AuditCompletion(w) BY <2>22 DEF AuditCompletion
  <2>23. CASE CompletionLost(w) BY <2>23 DEF CompletionLost
  <2>24. CASE MarkFailed(w) BY <2>24 DEF MarkFailed
  <2>25. CASE Crash(w) BY <2>25 DEF Crash
  <2> QED BY <1>2, <2>1, <2>2, <2>3, <2>4, <2>5, <2>6, <2>7, <2>8, <2>9,
        <2>10, <2>11, <2>12, <2>13, <2>14, <2>15, <2>16, <2>17, <2>18,
        <2>19, <2>20, <2>21, <2>22, <2>23, <2>24, <2>25 DEF Step
<1>3. ASSUME NEW o \in Orders, Environment(o)
      PROVE  CreatingShows'
  <2>1. CASE CustomerPays(o) BY <2>1 DEF CustomerPays
  <2>2. CASE Age(o) BY <2>2 DEF Age
  <2>3. CASE RefundMove(o) BY <2>3 DEF RefundMove, RefundEdges, Refundable
  <2> QED BY <1>3, <2>1, <2>2, <2>3 DEF Environment
<1> QED BY <1>1, <1>2, <1>3 DEF Next

\* Only toPaid brings an order that can be paid into fulfilment.
LEMMA UnpaidIsClosedStep ==
    ASSUME IInv, CreatingShows, UnpaidIsClosed, Next
    PROVE  UnpaidIsClosed'
<1> USE DEF IInv, CreatingShows, UnpaidIsClosed, TypeOK, RowTypes,
      ProviderTypes, WorkerTypes, Serving, ConfirmedIsPaid,
      UnpaidWhileCreating, Confirmed, Leased, Creating, Settled,
      RefundStatuses, Fulfillable
<1>1. ASSUME NEW w \in Workers, NEW o \in Orders, Arrive(w, o)
      PROVE  UnpaidIsClosed'
  <2>1. CASE CreateOrderInTx(w, o) BY <2>1 DEF CreateOrderInTx
  <2>2. CASE CancelOrder(w, o) BY <2>2 DEF CancelOrder
  <2>3. CASE ExpireTimedOutOrder(w, o) BY <2>3 DEF ExpireTimedOutOrder
  <2>4. CASE VerifyOrder(w, o) BY <2>4 DEF VerifyOrder
  <2>5. CASE ReconcilePendingOrder(w, o) BY <2>5 DEF ReconcilePendingOrder
  <2>6. CASE Webhook(w, o) BY <2>6 DEF Webhook
  <2>7. CASE RetryFulfillment(w, o) BY <2>7 DEF RetryFulfillment
  <2> QED BY <1>1, <2>1, <2>2, <2>3, <2>4, <2>5, <2>6, <2>7 DEF Arrive
<1>2. ASSUME NEW w \in Workers, Step(w) \/ Crash(w)
      PROVE  UnpaidIsClosed'
  <2>1. CASE InvokeProvider(w) BY <2>1 DEF InvokeProvider
  <2>2. CASE SavePaymentDetails(w) BY <2>2 DEF SavePaymentDetails
  <2>3. CASE FailCreate(w) BY <2>3 DEF FailCreate
  <2>4. CASE CheckPaid(w) BY <2>4 DEF CheckPaid
  <2>5. CASE CloseAtProvider(w) BY <2>5 DEF CloseAtProvider
  <2>6. CASE CancelRow(w) BY <2>6 DEF CancelRow
  <2>7. CASE PersistTradeNo(w) BY <2>7 DEF PersistTradeNo
  <2>8. CASE ConfirmPayment(w) BY <2>8 DEF ConfirmPayment
  <2>9. CASE ToPaid(w) BY <2>9 DEF ToPaid
  <2>10. CASE AlreadyProcessed(w) BY <2>10 DEF AlreadyProcessed
  <2>11. CASE ExecuteFulfillment(w) BY <2>11 DEF ExecuteFulfillment
  <2>12. CASE AcquireLease(w) BY <2>12 DEF AcquireLease
  <2>13. CASE AcquireConflict(w) BY <2>13 DEF AcquireConflict
  <2>14. CASE ReloadLease(w) BY <2>14 DEF ReloadLease
  <2>15. CASE ResolveRedeemAction(w) BY <2>15 DEF ResolveRedeemAction
  <2>16. CASE CreateCode(w) BY <2>16 DEF CreateCode
  <2>17. CASE Redeem(w) BY <2>17 DEF Redeem
  <2>18. CASE CheckAssignment(w) BY <2>18 DEF CheckAssignment
  <2>19. CASE AssignSubscription(w) BY <2>19 DEF AssignSubscription
  <2>20. CASE ApplyAffiliateRebate(w) BY <2>20 DEF ApplyAffiliateRebate
  <2>21. CASE MarkCompleted(w) BY <2>21 DEF MarkCompleted
  <2>22. CASE AuditCompletion(w) BY <2>22 DEF AuditCompletion
  <2>23. CASE CompletionLost(w) BY <2>23 DEF CompletionLost
  <2>24. CASE MarkFailed(w) BY <2>24 DEF MarkFailed
  <2>25. CASE Crash(w) BY <2>25 DEF Crash
  <2> QED BY <1>2, <2>1, <2>2, <2>3, <2>4, <2>5, <2>6, <2>7, <2>8, <2>9,
        <2>10, <2>11, <2>12, <2>13, <2>14, <2>15, <2>16, <2>17, <2>18,
        <2>19, <2>20, <2>21, <2>22, <2>23, <2>24, <2>25 DEF Step
<1>3. ASSUME NEW o \in Orders, Environment(o)
      PROVE  UnpaidIsClosed'
  <2>1. CASE CustomerPays(o) BY <2>1 DEF CustomerPays
  <2>2. CASE Age(o) BY <2>2 DEF Age
  <2>3. CASE RefundMove(o) BY <2>3 DEF RefundMove, RefundEdges, Refundable
  <2> QED BY <1>3, <2>1, <2>2, <2>3 DEF Environment
<1> QED BY <1>1, <1>2, <1>3 DEF Next

\* Whatever confirmPayment let through has paid_at, so the administrator can
\* retry it, and paid_at is on no other order.
THEOREM PaidAtCanBeTrusted == Spec => []PaidAtIsTrue
<1>1. Init => CreatingShows /\ UnpaidIsClosed
  BY DEF Init, CreatingShows, UnpaidIsClosed, Creating
<1>2. IInv /\ CreatingShows /\ UnpaidIsClosed /\ [Next]_vars
        => CreatingShows' /\ UnpaidIsClosed'
  <2> SUFFICES ASSUME IInv, CreatingShows, UnpaidIsClosed, [Next]_vars
               PROVE  CreatingShows' /\ UnpaidIsClosed'
    OBVIOUS
  <2>1. CASE Next BY <2>1, CreatingShowsStep, UnpaidIsClosedStep
  <2>2. CASE UNCHANGED vars
    BY <2>2 DEF vars, CreatingShows, UnpaidIsClosed
  <2> QED BY <2>1, <2>2
<1>3. IInv /\ UnpaidIsClosed => PaidAtIsTrue
  BY DEF IInv, PaidStays, ConfirmedIsPaid, UnpaidIsClosed, PaidAtIsTrue
<1> QED BY <1>1, <1>2, <1>3, Invariance, PTL DEF Spec

-----------------------------------------------------------------------------
(* The fulfilment lease.                                                   *)

\* A lease is taken over only when no worker is between acquiring it and
\* writing the outcome.
LEMMA OneFulfilmentStep ==
    ASSUME IInv, OneFulfilment, Next
    PROVE  OneFulfilment'
<1> USE DEF IInv, OneFulfilment, TypeOK, RowTypes, ProviderTypes, WorkerTypes,
      Serving, ConfirmedIsPaid, UnpaidWhileCreating, Confirmed, Leased,
      Creating, Settled, RefundStatuses, Fulfillable
<1>1. ASSUME NEW w \in Workers, NEW o \in Orders, Arrive(w, o)
      PROVE  OneFulfilment'
  <2>1. CASE CreateOrderInTx(w, o) BY <2>1 DEF CreateOrderInTx
  <2>2. CASE CancelOrder(w, o) BY <2>2 DEF CancelOrder
  <2>3. CASE ExpireTimedOutOrder(w, o) BY <2>3 DEF ExpireTimedOutOrder
  <2>4. CASE VerifyOrder(w, o) BY <2>4 DEF VerifyOrder
  <2>5. CASE ReconcilePendingOrder(w, o) BY <2>5 DEF ReconcilePendingOrder
  <2>6. CASE Webhook(w, o) BY <2>6 DEF Webhook
  <2>7. CASE RetryFulfillment(w, o) BY <2>7 DEF RetryFulfillment
  <2> QED BY <1>1, <2>1, <2>2, <2>3, <2>4, <2>5, <2>6, <2>7 DEF Arrive
<1>2. ASSUME NEW w \in Workers, Step(w) \/ Crash(w)
      PROVE  OneFulfilment'
  <2>1. CASE InvokeProvider(w) BY <2>1 DEF InvokeProvider
  <2>2. CASE SavePaymentDetails(w) BY <2>2 DEF SavePaymentDetails
  <2>3. CASE FailCreate(w) BY <2>3 DEF FailCreate
  <2>4. CASE CheckPaid(w) BY <2>4 DEF CheckPaid
  <2>5. CASE CloseAtProvider(w) BY <2>5 DEF CloseAtProvider
  <2>6. CASE CancelRow(w) BY <2>6 DEF CancelRow
  <2>7. CASE PersistTradeNo(w) BY <2>7 DEF PersistTradeNo
  <2>8. CASE ConfirmPayment(w) BY <2>8 DEF ConfirmPayment
  <2>9. CASE ToPaid(w) BY <2>9 DEF ToPaid
  <2>10. CASE AlreadyProcessed(w) BY <2>10 DEF AlreadyProcessed
  <2>11. CASE ExecuteFulfillment(w) BY <2>11 DEF ExecuteFulfillment
  <2>12. CASE AcquireLease(w) BY <2>12 DEF AcquireLease
  <2>13. CASE AcquireConflict(w) BY <2>13 DEF AcquireConflict
  <2>14. CASE ReloadLease(w) BY <2>14 DEF ReloadLease
  <2>15. CASE ResolveRedeemAction(w) BY <2>15 DEF ResolveRedeemAction
  <2>16. CASE CreateCode(w) BY <2>16 DEF CreateCode
  <2>17. CASE Redeem(w) BY <2>17 DEF Redeem
  <2>18. CASE CheckAssignment(w) BY <2>18 DEF CheckAssignment
  <2>19. CASE AssignSubscription(w) BY <2>19 DEF AssignSubscription
  <2>20. CASE ApplyAffiliateRebate(w) BY <2>20 DEF ApplyAffiliateRebate
  <2>21. CASE MarkCompleted(w) BY <2>21 DEF MarkCompleted
  <2>22. CASE AuditCompletion(w) BY <2>22 DEF AuditCompletion
  <2>23. CASE CompletionLost(w) BY <2>23 DEF CompletionLost
  <2>24. CASE MarkFailed(w) BY <2>24 DEF MarkFailed
  <2>25. CASE Crash(w) BY <2>25 DEF Crash
  <2> QED BY <1>2, <2>1, <2>2, <2>3, <2>4, <2>5, <2>6, <2>7, <2>8, <2>9,
        <2>10, <2>11, <2>12, <2>13, <2>14, <2>15, <2>16, <2>17, <2>18,
        <2>19, <2>20, <2>21, <2>22, <2>23, <2>24, <2>25 DEF Step
<1>3. ASSUME NEW o \in Orders, Environment(o)
      PROVE  OneFulfilment'
  <2>1. CASE CustomerPays(o) BY <2>1 DEF CustomerPays
  <2>2. CASE Age(o) BY <2>2 DEF Age
  <2>3. CASE RefundMove(o) BY <2>3 DEF RefundMove, RefundEdges, Refundable
  <2> QED BY <1>3, <2>1, <2>2, <2>3 DEF Environment
<1> QED BY <1>1, <1>2, <1>3 DEF Next

\* No two workers deliver the same order at the same time, unless a delivery
\* outlives its lease.
THEOREM LeaseExcludes == Spec => []OneFulfilment
<1>1. Init => OneFulfilment BY DEF Init, OneFulfilment, Leased
<1>2. IInv /\ OneFulfilment /\ [Next]_vars => OneFulfilment'
  <2> SUFFICES ASSUME IInv, OneFulfilment, [Next]_vars PROVE OneFulfilment'
    OBVIOUS
  <2>1. CASE Next BY <2>1, OneFulfilmentStep
  <2>2. CASE UNCHANGED vars BY <2>2 DEF vars, OneFulfilment
  <2> QED BY <2>1, <2>2
<1> QED BY <1>1, <1>2, Invariance, PTL DEF Spec

-----------------------------------------------------------------------------
(* Refinement of PaymentContract.                                          *)

\* A step after which the provider reports the same payments, as much has been
\* delivered and the same orders are settled is invisible to the contract.
Invisible ==
    /\ \A o \in Orders : prov'[o] = "paid" <=> prov[o] = "paid"
    /\ granted' = granted
    /\ \A o \in Orders : status'[o] \in Settled <=> status[o] \in Settled

\* The steps the contract sees: a payment, a delivery, a completion.
Visible ==
    \E o \in Orders :
        \/ /\ prov[o] # "paid" /\ prov' = [prov EXCEPT ![o] = "paid"]
           /\ UNCHANGED <<granted, status>>
        \/ /\ prov[o] = "paid" /\ granted[o] = 0
           /\ granted' = [granted EXCEPT ![o] = 1]
           /\ UNCHANGED <<prov, status>>
        \/ /\ granted[o] = 1 /\ status[o] \notin Settled
           /\ status' = [status EXCEPT ![o] = "COMPLETED"]
           /\ UNCHANGED <<prov, granted>>

\* Such a step leaves the contract's variables as they are.
LEMMA InvisibleStutters == Invisible => UNCHANGED Contract!cvars
<1> SUFFICES ASSUME Invisible PROVE UNCHANGED Contract!cvars
  OBVIOUS
<1>1. [o \in Orders |-> prov[o] = "paid"]' = [o \in Orders |-> prov[o] = "paid"]
  BY DEF Invisible
<1>2. [o \in Orders |-> status[o] \in Settled]'
        = [o \in Orders |-> status[o] \in Settled]
  BY DEF Invisible
<1> QED BY <1>1, <1>2 DEF Invisible, Contract!cvars

\* Only the customer's payment, the two deliveries and markCompleted are visible.
LEMMA VisibleStep ==
    ASSUME IInv, Next
    PROVE  Invisible \/ Visible
<1> USE DEF IInv, TypeOK, RowTypes, GoodsTypes, ProviderTypes, Serving,
      UnpaidWhileCreating, ConfirmedIsPaid, GoodsAreRecorded, DeliveredFirst,
      SettledMeansDelivered, DeliveredOnlyIfPaid, Confirmed, Leased,
      Creating, Invisible, Visible, Settled, RefundStatuses, Fulfillable
<1>1. ASSUME NEW w \in Workers, NEW o \in Orders, Arrive(w, o)
      PROVE  Invisible \/ Visible
  <2>1. CASE CreateOrderInTx(w, o) BY <2>1 DEF CreateOrderInTx
  <2>2. CASE CancelOrder(w, o) BY <2>2 DEF CancelOrder
  <2>3. CASE ExpireTimedOutOrder(w, o) BY <2>3 DEF ExpireTimedOutOrder
  <2>4. CASE VerifyOrder(w, o) BY <2>4 DEF VerifyOrder
  <2>5. CASE ReconcilePendingOrder(w, o) BY <2>5 DEF ReconcilePendingOrder
  <2>6. CASE Webhook(w, o) BY <2>6 DEF Webhook
  <2>7. CASE RetryFulfillment(w, o) BY <2>7 DEF RetryFulfillment
  <2> QED BY <1>1, <2>1, <2>2, <2>3, <2>4, <2>5, <2>6, <2>7 DEF Arrive
<1>2. ASSUME NEW w \in Workers, Step(w) \/ Crash(w)
      PROVE  Invisible \/ Visible
  <2>1. CASE InvokeProvider(w) BY <2>1 DEF InvokeProvider
  <2>2. CASE SavePaymentDetails(w) BY <2>2 DEF SavePaymentDetails
  <2>3. CASE FailCreate(w)
    <3>1. ord[w] \in Orders /\ prov[ord[w]] = "none" BY <2>3 DEF FailCreate
    <3>2. status[ord[w]] \notin Settled BY <3>1
    <3>3. \A x \in Orders : status'[x] \in Settled <=> status[x] \in Settled
      BY <2>3, <3>1, <3>2 DEF FailCreate
    <3>4. UNCHANGED <<prov, granted>> BY <2>3 DEF FailCreate
    <3> QED BY <3>3, <3>4
  <2>4. CASE CheckPaid(w) BY <2>4 DEF CheckPaid
  <2>5. CASE CloseAtProvider(w) BY <2>5 DEF CloseAtProvider
  <2>6. CASE CancelRow(w) BY <2>6 DEF CancelRow
  <2>7. CASE PersistTradeNo(w) BY <2>7 DEF PersistTradeNo
  <2>8. CASE ConfirmPayment(w) BY <2>8 DEF ConfirmPayment
  <2>9. CASE ToPaid(w) BY <2>9 DEF ToPaid
  <2>10. CASE AlreadyProcessed(w) BY <2>10 DEF AlreadyProcessed
  <2>11. CASE ExecuteFulfillment(w) BY <2>11 DEF ExecuteFulfillment
  <2>12. CASE AcquireLease(w) BY <2>12 DEF AcquireLease
  <2>13. CASE AcquireConflict(w) BY <2>13 DEF AcquireConflict
  <2>14. CASE ReloadLease(w) BY <2>14 DEF ReloadLease
  <2>15. CASE ResolveRedeemAction(w) BY <2>15 DEF ResolveRedeemAction
  <2>16. CASE CreateCode(w) BY <2>16 DEF CreateCode
  <2>17. CASE Redeem(w) BY <2>17 DEF Redeem
  <2>18. CASE CheckAssignment(w) BY <2>18 DEF CheckAssignment
  <2>19. CASE AssignSubscription(w) BY <2>19 DEF AssignSubscription
  <2>20. CASE ApplyAffiliateRebate(w) BY <2>20 DEF ApplyAffiliateRebate
  <2>21. CASE MarkCompleted(w) BY <2>21 DEF MarkCompleted
  <2>22. CASE AuditCompletion(w) BY <2>22 DEF AuditCompletion
  <2>23. CASE CompletionLost(w) BY <2>23 DEF CompletionLost
  <2>24. CASE MarkFailed(w) BY <2>24 DEF MarkFailed
  <2>25. CASE Crash(w) BY <2>25 DEF Crash
  <2> QED BY <1>2, <2>1, <2>2, <2>3, <2>4, <2>5, <2>6, <2>7, <2>8, <2>9,
        <2>10, <2>11, <2>12, <2>13, <2>14, <2>15, <2>16, <2>17, <2>18, <2>19,
        <2>20, <2>21, <2>22, <2>23, <2>24, <2>25 DEF Step
<1>3. ASSUME NEW o \in Orders, Environment(o)
      PROVE  Invisible \/ Visible
  <2>1. CASE CustomerPays(o)
    <3>1. CASE prov' = [prov EXCEPT ![o] = "paid"]
      <4>1. prov[o] # "paid" /\ UNCHANGED <<granted, status>>
        BY <2>1 DEF CustomerPays
      <4> QED BY <3>1, <4>1
    <3>2. CASE prov' = [prov EXCEPT ![o] = "mispaid"]
      BY <2>1, <3>2 DEF CustomerPays
    <3> QED BY <2>1, <3>1, <3>2 DEF CustomerPays
  <2>2. CASE Age(o) BY <2>2 DEF Age
  <2>3. CASE RefundMove(o) BY <2>3 DEF RefundMove, RefundEdges, Refundable, Statuses
  <2> QED BY <1>3, <2>1, <2>2, <2>3 DEF Environment
<1> QED BY <1>1, <1>2, <1>3 DEF Next

\* Each visible step is a step of the contract.
LEMMA VisibleIsContract == TypeOK /\ Visible => Contract!Next
<1> SUFFICES ASSUME TypeOK, Visible PROVE Contract!Next
  OBVIOUS
<1> USE DEF TypeOK, RowTypes, GoodsTypes, ProviderTypes, Settled
<1>1. PICK o \in Orders :
        \/ /\ prov[o] # "paid" /\ prov' = [prov EXCEPT ![o] = "paid"]
           /\ UNCHANGED <<granted, status>>
        \/ /\ prov[o] = "paid" /\ granted[o] = 0
           /\ granted' = [granted EXCEPT ![o] = 1]
           /\ UNCHANGED <<prov, status>>
        \/ /\ granted[o] = 1 /\ status[o] \notin Settled
           /\ status' = [status EXCEPT ![o] = "COMPLETED"]
           /\ UNCHANGED <<prov, granted>>
  BY DEF Visible
<1>2. CASE prov[o] # "paid" /\ prov' = [prov EXCEPT ![o] = "paid"]
           /\ UNCHANGED <<granted, status>>
  <2>1. [x \in Orders |-> prov[x] = "paid"]'
          = [[x \in Orders |-> prov[x] = "paid"] EXCEPT ![o] = TRUE]
    BY <1>2
  <2>2. Contract!Capture(o) BY <1>2, <2>1 DEF Contract!Capture
  <2> QED BY <2>2 DEF Contract!Next
<1>3. CASE prov[o] = "paid" /\ granted[o] = 0
           /\ granted' = [granted EXCEPT ![o] = 1] /\ UNCHANGED <<prov, status>>
  <2>1. Contract!Deliver(o) BY <1>3 DEF Contract!Deliver
  <2> QED BY <2>1 DEF Contract!Next
<1>4. CASE granted[o] = 1 /\ status[o] \notin Settled
           /\ status' = [status EXCEPT ![o] = "COMPLETED"]
           /\ UNCHANGED <<prov, granted>>
  <2>1. [x \in Orders |-> status[x] \in Settled]'
          = [[x \in Orders |-> status[x] \in Settled] EXCEPT ![o] = TRUE]
    BY <1>4
  <2>2. Contract!Settle(o) BY <1>4, <2>1 DEF Contract!Settle
  <2> QED BY <2>2 DEF Contract!Next
<1> QED BY <1>1, <1>2, <1>3, <1>4

\* The order life cycle implements the contract with the customer.
THEOREM ImplementsContract == Spec => KeepsContract
<1>1. Init => Contract!Init
  <2> SUFFICES ASSUME Init PROVE Contract!Init
    OBVIOUS
  <2>1. [o \in Orders |-> prov[o] = "paid"] = [o \in Orders |-> FALSE]
    BY DEF Init
  <2>2. "NONE" \notin Settled BY DEF Settled, RefundStatuses
  <2>3. ASSUME NEW o \in Orders PROVE (status[o] \in Settled) = FALSE
    BY <2>2 DEF Init
  <2>4. [o \in Orders |-> status[o] \in Settled] = [o \in Orders |-> FALSE]
    BY <2>3, Zenon
  <2> QED BY <2>1, <2>4 DEF Init, Contract!Init
<1>2. IInv /\ [Next]_vars => [Contract!Next]_Contract!cvars
  <2> SUFFICES ASSUME IInv, [Next]_vars
               PROVE  Contract!Next \/ UNCHANGED Contract!cvars
    OBVIOUS
  <2>1. CASE Next
    BY <2>1, VisibleStep, InvisibleStutters, VisibleIsContract DEF IInv
  <2>2. CASE UNCHANGED vars
    <3>1. Invisible BY <2>2 DEF vars, Invisible
    <3> QED BY <3>1, InvisibleStutters
  <2> QED BY <2>1, <2>2
<1> QED BY <1>1, <1>2, Invariance, PTL DEF Spec, KeepsContract, Contract!Spec
=============================================================================
