---------------------------- MODULE PaymentOrder ----------------------------
(***************************************************************************)
(* The life of a payment order, from CreateOrder to the delivery of what   *)
(* was bought: backend/internal/service/payment_order.go,                  *)
(* payment_order_lifecycle.go, payment_fulfillment.go and the parts of     *)
(* redeem_service.go they call.                                            *)
(*                                                                         *)
(* Every HTTP handler, webhook and sweep runs in a worker.  A worker makes *)
(* one database statement, transaction or provider call per step, so any   *)
(* two handlers interleave between those.  A worker may die at any step.   *)
(*                                                                         *)
(* Time.  Two rules compare the row's updated_at with "five minutes ago":  *)
(* the fulfilment lease (paymentFulfillmentLeaseDuration) and the grace    *)
(* period of an expired order (paymentGraceMinutes).  aged[o] is the       *)
(* outcome of that comparison.  Every UPDATE of the row moves updated_at   *)
(* to now (ent's UpdateDefault), hence Touch.  expires_at only decides     *)
(* which of two sweeps looks at a PENDING order: it may pass at any time,  *)
(* and what the earlier sweep does VerifyOrder may do as well, so that     *)
(* either sweep may start while the order is PENDING.                      *)
(*                                                                         *)
(* The lease token.  A lease is the value of updated_at read back after    *)
(* acquiring it, and a later write is fenced by updated_at = token.        *)
(* holders[o] is the set of workers whose token equals the row's current   *)
(* updated_at: reading it back adds the worker, writing the row empties it.*)
(***************************************************************************)
EXTENDS Naturals, PaymentStatus

CONSTANTS
    Orders,        \* the orders of the instance
    NoOrder,       \* the order of a worker that serves none
    Workers,       \* handlers that can be in flight at once
    MaxFaults,     \* bound on crashes and failed calls
    OutliveLease   \* may a fulfilment take longer than its lease?

ASSUME OrderAssumption == NoOrder \notin Orders
ASSUME FaultAssumption == MaxFaults \in Nat
ASSUME SwitchAssumption == OutliveLease \in BOOLEAN

VARIABLES
    status,    \* payment_orders.status, "NONE" before the row exists
    otype,     \* payment_orders.order_type
    paidAt,    \* payment_orders.paid_at is set
    aged,      \* payment_orders.updated_at is at least five minutes old
    holders,   \* workers whose lease token is the current updated_at
    code,      \* the order's redeem code: absent, unused or used
    assigned,  \* audit row SUBSCRIPTION_ASSIGNED exists
    granted,   \* times the balance was credited or the subscription assigned
    rebate,    \* audit row AFFILIATE_REBATE_APPLIED or _SKIPPED exists
    accrued,   \* times an affiliate rebate was accrued for the order
    late,      \* audit row PAYMENT_AFTER_EXPIRY exists
    prov,      \* the provider's view of the order
    acked,     \* a notification for the order was answered with success
    swallowed, \* history: ... because an error was dropped on the way
    pc, ord, goal,   \* the worker's next step, its order and its handler
    faults     \* faults so far

rowVars == <<status, otype, paidAt, aged, holders>>
goodsVars == <<code, assigned, granted, rebate, accrued>>
answerVars == <<acked, swallowed>>
provVars == <<prov, answerVars>>
workVars == <<pc, ord, goal>>
vars == <<rowVars, goodsVars, late, provVars, workVars, faults>>

\* What a handler is for, as far as its later steps depend on it: "plain" is
\* one that cancels nothing and answers no provider.
Goals == {"none", "create", "cancel", "expire", "plain", "notify"}
Steps == {"idle", "invoke", "save", "failCreate", "query", "closeProvider",
          "cancelRow", "persist", "confirm", "toPaid", "already", "fulfil",
          "acquire", "conflict", "reload", "lookup", "create", "redeem",
          "assignCheck", "assign", "rebate", "complete", "lost", "audit",
          "fail"}

Leased == {"reload", "lookup", "create", "redeem", "assignCheck", "assign",
           "rebate", "complete", "lost", "fail"}

-----------------------------------------------------------------------------
(* Row writes, worker moves and faults.                                    *)

\* An UPDATE of the order's row that leaves its status alone.
Touch(o) ==
    /\ aged' = [aged EXCEPT ![o] = FALSE]
    /\ holders' = [holders EXCEPT ![o] = {}]

SetStatus(o, s) ==
    /\ status' = [status EXCEPT ![o] = s]
    /\ Touch(o)

Goto(w, step) ==
    /\ pc' = [pc EXCEPT ![w] = step]
    /\ UNCHANGED <<ord, goal>>

Begin(w, o, g, step) ==
    /\ pc[w] = "idle"
    /\ pc' = [pc EXCEPT ![w] = step]
    /\ ord' = [ord EXCEPT ![w] = o]
    /\ goal' = [goal EXCEPT ![w] = g]

Leave(w) ==
    /\ pc' = [pc EXCEPT ![w] = "idle"]
    /\ ord' = [ord EXCEPT ![w] = NoOrder]
    /\ goal' = [goal EXCEPT ![w] = "none"]

\* The handler returns an error: a webhook is answered with 5xx.
ReturnError(w) == Leave(w) /\ UNCHANGED answerVars

Fault == faults < MaxFaults /\ faults' = faults + 1
NoFault == UNCHANGED faults

\* The handler returns nil: a webhook is answered with success.
AnswerSuccess(w) ==
    /\ Leave(w)
    /\ acked' = [acked EXCEPT ![ord[w]] = @ \/ goal[w] = "notify"]

ReturnNil(w) == AnswerSuccess(w) /\ UNCHANGED swallowed

\* It returns nil although a call has failed.
SwallowError(w) ==
    /\ AnswerSuccess(w) /\ Fault
    /\ swallowed' = [swallowed EXCEPT ![ord[w]] = @ \/ goal[w] = "notify"]

At(w, step) == pc[w] = step

-----------------------------------------------------------------------------
(* CreateOrder.                                                            *)

\* createOrderInTx: the PENDING row is committed with its recharge code.
CreateOrderInTx(w, o) ==
    /\ status[o] = "NONE"
    /\ Begin(w, o, "create", "invoke")
    /\ \E t \in {"balance", "subscription"} : otype' = [otype EXCEPT ![o] = t]
    /\ SetStatus(o, "PENDING")
    /\ UNCHANGED <<paidAt, goodsVars, late, provVars, faults>>

\* invokeProvider up to the answer of CreatePayment.
InvokeProvider(w) ==
    /\ At(w, "invoke")
    /\ \/ Goto(w, "save") /\ NoFault
       \/ Goto(w, "failCreate") /\ Fault
    /\ UNCHANGED <<rowVars, goodsVars, late, provVars>>

\* A seeded fault: the customer gets the payment details although they could
\* not be saved.
BugPayableThoughFailed(w) ==
    /\ At(w, "save")
    /\ prov' = [prov EXCEPT ![ord[w]] = "open"]
    /\ \/ Touch(ord[w]) /\ Leave(w) /\ NoFault
       \/ Goto(w, "failCreate") /\ Fault /\ UNCHANGED <<aged, holders>>
    /\ UNCHANGED <<status, otype, paidAt, goodsVars, late, answerVars>>

\* The payment details are saved, and only then does the customer get them.
SavePaymentDetails(w) ==
    /\ At(w, "save")
    /\ \/ /\ Touch(ord[w])
          /\ prov' = [prov EXCEPT ![ord[w]] = "open"]
          /\ Leave(w) /\ NoFault
       \/ /\ Goto(w, "failCreate") /\ Fault
          /\ UNCHANGED <<aged, holders, prov>>
    /\ UNCHANGED <<status, otype, paidAt, goodsVars, late, answerVars>>

\* The error path of CreateOrder writes FAILED whatever the status is by now.
FailCreate(w) ==
    /\ At(w, "failCreate")
    /\ SetStatus(ord[w], "FAILED")
    /\ Leave(w)
    /\ UNCHANGED <<otype, paidAt, goodsVars, late, provVars, faults>>

-----------------------------------------------------------------------------
(* Cancel, expire, verify and reconcile.                                   *)

CancelOrder(w, o) ==
    /\ status[o] = "PENDING"
    /\ Begin(w, o, "cancel", "query")
    /\ UNCHANGED <<rowVars, goodsVars, late, provVars, faults>>

\* A sweep, once expires_at has passed.
ExpireTimedOutOrder(w, o) ==
    /\ status[o] = "PENDING"
    /\ Begin(w, o, "expire", "query")
    /\ UNCHANGED <<rowVars, goodsVars, late, provVars, faults>>

VerifyOrder(w, o) ==
    /\ status[o] \in {"PENDING", "EXPIRED"}
    /\ Begin(w, o, "plain", "query")
    /\ UNCHANGED <<rowVars, goodsVars, late, provVars, faults>>

\* A sweep, before expires_at has passed.
ReconcilePendingOrder(w, o) ==
    /\ status[o] = "PENDING"
    /\ Begin(w, o, "plain", "query")
    /\ UNCHANGED <<rowVars, goodsVars, late, provVars, faults>>

MayCancel(w) == goal[w] \in {"cancel", "expire"}

\* checkPaid: ask the provider.  Paid: save the provider's trade number if it
\* is news, then confirm.  Unpaid: close it if the caller cancels.  A failed
\* or unusable answer counts as "not known to be paid".
CheckPaid(w) ==
    /\ At(w, "query")
    /\ \/ /\ prov[ord[w]] \in {"paid", "mispaid"}
          /\ \E step \in {"persist", "confirm"} : pc' = [pc EXCEPT ![w] = step]
          /\ goal' = [goal EXCEPT ![w] = "plain"]
          /\ NoFault /\ UNCHANGED ord
       \/ /\ prov[ord[w]] \notin {"paid", "mispaid"}
          /\ IF MayCancel(w) THEN Goto(w, "closeProvider") ELSE Leave(w)
          /\ NoFault
       \/ /\ IF MayCancel(w) THEN Goto(w, "cancelRow") ELSE Leave(w)
          /\ Fault
    /\ UNCHANGED <<rowVars, goodsVars, late, provVars>>

\* CancelPayment, for the providers that have it; its error is ignored.
CloseAtProvider(w) ==
    /\ At(w, "closeProvider")
    /\ \/ /\ prov[ord[w]] = "open"
          /\ prov' = [prov EXCEPT ![ord[w]] = "closed"]
       \/ UNCHANGED prov
    /\ Goto(w, "cancelRow")
    /\ UNCHANGED <<rowVars, goodsVars, late, answerVars, faults>>

\* A seeded fault: the UPDATE without its status condition.
BugCancelAnyStatus(w) ==
    /\ At(w, "cancelRow")
    /\ SetStatus(ord[w], IF goal[w] = "expire" THEN "EXPIRED" ELSE "CANCELLED")
    /\ Leave(w)
    /\ UNCHANGED <<otype, paidAt, goodsVars, late, provVars, faults>>

\* A seeded fault: the name of the request is stored as the status.
BugCancelStoresGoal(w) ==
    /\ At(w, "cancelRow")
    /\ IF status[ord[w]] = "PENDING" THEN SetStatus(ord[w], goal[w])
                                     ELSE UNCHANGED <<status, aged, holders>>
    /\ Leave(w)
    /\ UNCHANGED <<otype, paidAt, goodsVars, late, provVars, faults>>

\* The tail of cancelCore: PENDING becomes CANCELLED or EXPIRED, or nothing.
CancelRow(w) ==
    /\ At(w, "cancelRow")
    /\ IF status[ord[w]] = "PENDING"
       THEN SetStatus(ord[w], IF goal[w] = "expire" THEN "EXPIRED"
                                                    ELSE "CANCELLED")
       ELSE UNCHANGED <<status, aged, holders>>
    /\ Leave(w)
    /\ UNCHANGED <<otype, paidAt, goodsVars, late, provVars, faults>>

\* checkPaid saves the upstream trade number whatever the status is by now.
PersistTradeNo(w) ==
    /\ At(w, "persist")
    /\ Touch(ord[w])
    /\ Goto(w, "confirm")
    /\ UNCHANGED <<status, otype, paidAt, goodsVars, late, provVars,
                   faults>>

-----------------------------------------------------------------------------
(* Payment notification.                                                   *)

\* The provider delivers a success notification, for the first time or again.
\* If the lookup of who can verify it (GetWebhookProviders) fails, it is
\* answered with success unread; only for wxpay with an error.
Webhook(w, o) ==
    /\ prov[o] \in {"paid", "mispaid"}
    /\ \/ Begin(w, o, "notify", "confirm") /\ NoFault /\ UNCHANGED answerVars
       \/ /\ pc[w] = "idle" /\ UNCHANGED workVars /\ Fault
          /\ acked' = [acked EXCEPT ![o] = TRUE]
          /\ swallowed' = [swallowed EXCEPT ![o] = TRUE]
    /\ UNCHANGED <<rowVars, goodsVars, late, prov>>

\* confirmPayment: a wrong amount is an error, a failed read is nil.
ConfirmPayment(w) ==
    /\ At(w, "confirm")
    /\ \/ /\ prov[ord[w]] = "paid"
          /\ Goto(w, "toPaid") /\ NoFault /\ UNCHANGED answerVars
       \/ /\ prov[ord[w]] # "paid"
          /\ ReturnError(w) /\ NoFault
       \/ SwallowError(w)
    /\ UNCHANGED <<rowVars, goodsVars, late, prov>>

\* A seeded fault: a payment cannot revive a cancelled order.
BugCancelledIsFinal(o) ==
    \/ status[o] = "PENDING"
    \/ status[o] = "EXPIRED" /\ ~aged[o]

\* The statuses toPaid's UPDATE accepts.
Payable(o) ==
    \/ status[o] \in {"PENDING", "CANCELLED"}
    \/ status[o] = "EXPIRED" /\ ~aged[o]

ToPaid(w) ==
    /\ At(w, "toPaid")
    /\ IF Payable(ord[w])
       THEN /\ SetStatus(ord[w], "PAID")
            /\ paidAt' = [paidAt EXCEPT ![ord[w]] = TRUE]
            /\ Goto(w, "fulfil")
       ELSE /\ Goto(w, "already")
            /\ UNCHANGED <<status, aged, holders, paidAt>>
    /\ UNCHANGED <<otype, goodsVars, late, provVars, faults>>

\* alreadyProcessed: retry what is unfinished, flag what came too late.  The
\* error of its read, and that of the flag's write, is answered with nil.
AlreadyProcessed(w) ==
    /\ At(w, "already")
    /\ \/ /\ status[ord[w]] \in Fulfillable
          /\ Goto(w, "fulfil") /\ NoFault /\ UNCHANGED <<answerVars, late>>
       \/ /\ status[ord[w]] = "EXPIRED"
          /\ late' = [late EXCEPT ![ord[w]] = TRUE]
          /\ ReturnNil(w) /\ NoFault
       \/ /\ status[ord[w]] \notin Fulfillable \cup {"EXPIRED"}
          /\ ReturnNil(w) /\ NoFault /\ UNCHANGED late
       \/ SwallowError(w) /\ UNCHANGED late
    /\ UNCHANGED <<rowVars, goodsVars, prov>>

-----------------------------------------------------------------------------
(* Fulfilment.                                                             *)

\* RetryFulfillment, the administrator's retry.
RetryFulfillment(w, o) ==
    /\ paidAt[o] /\ status[o] \in Fulfillable
    /\ Begin(w, o, "plain", "fulfil")
    /\ UNCHANGED <<rowVars, goodsVars, late, provVars, faults>>

\* The checks of ExecuteBalanceFulfillment and ExecuteSubscriptionFulfillment.
ExecuteFulfillment(w) ==
    /\ At(w, "fulfil")
    /\ \/ /\ status[ord[w]] \in Fulfillable
          /\ Goto(w, "acquire") /\ UNCHANGED answerVars
       \/ status[ord[w]] = "COMPLETED" /\ ReturnNil(w)
       \/ status[ord[w]] \notin Fulfillable \cup {"COMPLETED"} /\ ReturnError(w)
    /\ UNCHANGED <<rowVars, goodsVars, late, prov, faults>>


\* A seeded fault: a RECHARGING order is taken over however fresh its lease is.
BugTakeoverAtOnce(o) == status[o] \in Fulfillable

\* What acquirePaymentFulfillmentLease's UPDATE accepts.
Claimable(o) ==
    \/ status[o] \in {"PAID", "FAILED"}
    \/ status[o] = "RECHARGING" /\ aged[o]

AcquireLease(w) ==
    /\ At(w, "acquire")
    /\ IF Claimable(ord[w])
       THEN SetStatus(ord[w], "RECHARGING") /\ Goto(w, "reload")
       ELSE Goto(w, "conflict") /\ UNCHANGED <<status, aged, holders>>
    /\ UNCHANGED <<otype, paidAt, goodsVars, late, provVars, faults>>

\* A seeded fault: an order in progress elsewhere is reported as success.
BugConflictIsSuccess(w) ==
    /\ At(w, "conflict")
    /\ ReturnNil(w)
    /\ UNCHANGED <<rowVars, goodsVars, late, prov, faults>>

\* A refused lease is fine if someone else has completed the order.
AcquireConflict(w) ==
    /\ At(w, "conflict")
    /\ IF status[ord[w]] = "COMPLETED" THEN ReturnNil(w) ELSE ReturnError(w)
    /\ UNCHANGED <<rowVars, goodsVars, late, prov, faults>>

\* The token is read back in a statement of its own: it is whatever
\* updated_at is by then.
ReloadLease(w) ==
    /\ At(w, "reload")
    /\ \/ /\ status[ord[w]] = "RECHARGING"
          /\ holders' = [holders EXCEPT ![ord[w]] = @ \cup {w}]
          /\ Goto(w, IF otype[ord[w]] = "balance" THEN "lookup"
                                                   ELSE "assignCheck")
          /\ NoFault /\ UNCHANGED answerVars
       \/ /\ status[ord[w]] # "RECHARGING"
          /\ ReturnError(w) /\ NoFault /\ UNCHANGED holders
       \/ ReturnError(w) /\ Fault /\ UNCHANGED holders
    /\ UNCHANGED <<status, otype, paidAt, aged, goodsVars, late, prov>>

\* A seeded fault: an existing code is taken for a redeemed one.
BugExistingIsRedeemed(w) ==
    /\ At(w, "lookup")
    /\ Goto(w, IF code[ord[w]] = "absent" THEN "create" ELSE "rebate")
    /\ UNCHANGED <<rowVars, goodsVars, late, provVars, faults>>

\* resolveRedeemAction on the code found by GetByCode.
ResolveRedeemAction(w) ==
    /\ At(w, "lookup")
    /\ \/ /\ Goto(w, CASE code[ord[w]] = "absent" -> "create"
                       [] code[ord[w]] = "unused" -> "redeem"
                       [] code[ord[w]] = "used"   -> "rebate")
          /\ NoFault
       \/ Goto(w, "fail") /\ Fault
    /\ UNCHANGED <<rowVars, goodsVars, late, provVars>>

\* CreateCode: the code column is unique.
CreateCode(w) ==
    /\ At(w, "create")
    /\ \/ /\ code[ord[w]] = "absent"
          /\ code' = [code EXCEPT ![ord[w]] = "unused"]
          /\ Goto(w, "redeem") /\ NoFault
       \/ code[ord[w]] # "absent" /\ Goto(w, "fail") /\ NoFault /\ UNCHANGED code
       \/ Goto(w, "fail") /\ Fault /\ UNCHANGED code
    /\ UNCHANGED <<rowVars, assigned, granted, rebate, accrued, late, provVars>>

\* A seeded fault: the code's status is read before the transaction only.
BugRedeemWithoutCAS(w) ==
    /\ At(w, "redeem")
    /\ code' = [code EXCEPT ![ord[w]] = "used"]
    /\ granted' = [granted EXCEPT ![ord[w]] = @ + 1]
    /\ Goto(w, "rebate")
    /\ UNCHANGED <<rowVars, assigned, rebate, accrued, late, provVars, faults>>

\* redeem: one transaction marks the unused code used and credits the balance.
\* A call that failed after the commit (the answer to it, or the reload of the
\* code, is lost) is an error to the caller although the credit stands.
Redeem(w) ==
    /\ At(w, "redeem")
    /\ \/ /\ code[ord[w]] = "unused"
          /\ code' = [code EXCEPT ![ord[w]] = "used"]
          /\ granted' = [granted EXCEPT ![ord[w]] = @ + 1]
          /\ \/ Goto(w, "rebate") /\ NoFault
             \/ Goto(w, "fail") /\ Fault
       \/ /\ code[ord[w]] # "unused"
          /\ Goto(w, "fail") /\ NoFault /\ UNCHANGED <<code, granted>>
       \/ /\ Goto(w, "fail") /\ Fault /\ UNCHANGED <<code, granted>>
    /\ UNCHANGED <<rowVars, assigned, rebate, accrued, late, provVars>>

\* ensurePaymentSubscriptionAssigned reads the assignment audit in its
\* transaction.  An inactive group or a failed read ends in markFailed.
CheckAssignment(w) ==
    /\ At(w, "assignCheck")
    /\ \/ Goto(w, IF assigned[ord[w]] THEN "rebate" ELSE "assign") /\ NoFault
       \/ Goto(w, "fail") /\ Fault
    /\ UNCHANGED <<rowVars, goodsVars, late, provVars>>

\* A seeded fault: no unique index on the assignment audit.
BugAssignTwice(w) ==
    /\ At(w, "assign")
    /\ assigned' = [assigned EXCEPT ![ord[w]] = TRUE]
    /\ granted' = [granted EXCEPT ![ord[w]] = @ + 1]
    /\ Goto(w, "rebate")
    /\ UNCHANGED <<rowVars, code, rebate, accrued, late, provVars, faults>>

\* The transaction commits the assignment with its audit row, or hits the
\* unique index, rolls back and finds that another worker assigned it.
AssignSubscription(w) ==
    /\ At(w, "assign")
    /\ \/ /\ ~assigned[ord[w]]
          /\ assigned' = [assigned EXCEPT ![ord[w]] = TRUE]
          /\ granted' = [granted EXCEPT ![ord[w]] = @ + 1]
          /\ \/ Goto(w, "rebate") /\ NoFault
             \/ Goto(w, "fail") /\ Fault
       \/ /\ assigned[ord[w]]
          /\ Goto(w, "rebate") /\ NoFault /\ UNCHANGED <<assigned, granted>>
       \/ /\ Goto(w, "fail") /\ Fault /\ UNCHANGED <<assigned, granted>>
    /\ UNCHANGED <<rowVars, code, rebate, accrued, late, provVars>>

\* applyAffiliateRebateForOrder: one transaction claims the rebate audit row
\* and accrues the rebate, or renames the claim to SKIPPED when it is zero.
ApplyAffiliateRebate(w) ==
    /\ At(w, "rebate")
    /\ \/ /\ ~rebate[ord[w]]
          /\ rebate' = [rebate EXCEPT ![ord[w]] = TRUE]
          /\ \/ accrued' = [accrued EXCEPT ![ord[w]] = @ + 1]
             \/ UNCHANGED accrued
          /\ \/ Goto(w, "complete") /\ NoFault
             \/ Goto(w, "fail") /\ Fault
       \/ /\ rebate[ord[w]]
          /\ Goto(w, "complete") /\ NoFault /\ UNCHANGED <<rebate, accrued>>
       \/ /\ Goto(w, "fail") /\ Fault /\ UNCHANGED <<rebate, accrued>>
    /\ UNCHANGED <<rowVars, code, assigned, granted, late, provVars>>

\* The fence of markCompleted and markFailed.
OwnsLease(w) == status[ord[w]] = "RECHARGING" /\ w \in holders[ord[w]]

MarkCompleted(w) ==
    /\ At(w, "complete")
    /\ \/ /\ OwnsLease(w)
          /\ SetStatus(ord[w], "COMPLETED")
          /\ Goto(w, "audit") /\ NoFault
       \/ /\ ~OwnsLease(w)
          /\ Goto(w, "lost") /\ NoFault /\ UNCHANGED <<status, aged, holders>>
       \/ /\ Goto(w, "fail") /\ Fault
          /\ UNCHANGED <<status, aged, holders>>
    /\ UNCHANGED <<otype, paidAt, goodsVars, late, provVars>>

\* The success audit row and the e-mail, which nothing modelled here reads.
AuditCompletion(w) ==
    /\ At(w, "audit")
    /\ ReturnNil(w)
    /\ UNCHANGED <<rowVars, goodsVars, late, prov, faults>>

CompletionLost(w) ==
    /\ At(w, "lost")
    /\ \/ status[ord[w]] = "COMPLETED" /\ ReturnNil(w)
       \/ /\ status[ord[w]] # "COMPLETED"
          /\ Goto(w, "fail") /\ UNCHANGED answerVars
    /\ UNCHANGED <<rowVars, goodsVars, late, prov, faults>>

MarkFailed(w) ==
    /\ At(w, "fail")
    /\ IF OwnsLease(w) THEN SetStatus(ord[w], "FAILED")
                       ELSE UNCHANGED <<status, aged, holders>>
    /\ ReturnError(w)
    /\ UNCHANGED <<otype, paidAt, goodsVars, late, prov, faults>>

-----------------------------------------------------------------------------
(* The environment: customer, provider, clock, crashes, refunds.           *)

CustomerPays(o) ==
    /\ prov[o] = "open"
    /\ \E result \in {"paid", "mispaid"} : prov' = [prov EXCEPT ![o] = result]
    /\ UNCHANGED <<rowVars, goodsVars, late, answerVars, workVars, faults>>

\* Five minutes pass without a write to the row.
Age(o) ==
    /\ status[o] # "NONE" /\ ~aged[o]
    /\ OutliveLease \/ \A w \in Workers : ord[w] = o => pc[w] \notin Leased
    /\ aged' = [aged EXCEPT ![o] = TRUE]
    /\ UNCHANGED <<status, otype, paidAt, holders, goodsVars, late,
                   provVars, workVars, faults>>

Crash(w) ==
    /\ pc[w] # "idle"
    /\ Leave(w) /\ Fault
    /\ UNCHANGED <<rowVars, goodsVars, late, provVars>>

\* payment_refund.go, as far as the status of an order shows it: module
\* PaymentRefund makes only these changes.
RefundMove(o) ==
    /\ \E s \in Statuses : /\ <<status[o], s>> \in RefundEdges
                           /\ SetStatus(o, s)
    /\ UNCHANGED <<otype, paidAt, goodsVars, late, provVars, workVars,
                   faults>>

-----------------------------------------------------------------------------
Init ==
    /\ status = [o \in Orders |-> "NONE"]
    /\ otype = [o \in Orders |-> "balance"]
    /\ paidAt = [o \in Orders |-> FALSE]
    /\ aged = [o \in Orders |-> FALSE]
    /\ holders = [o \in Orders |-> {}]
    /\ code = [o \in Orders |-> "absent"]
    /\ assigned = [o \in Orders |-> FALSE]
    /\ granted = [o \in Orders |-> 0]
    /\ rebate = [o \in Orders |-> FALSE]
    /\ accrued = [o \in Orders |-> 0]
    /\ late = [o \in Orders |-> FALSE]
    /\ prov = [o \in Orders |-> "none"]
    /\ acked = [o \in Orders |-> FALSE]
    /\ swallowed = [o \in Orders |-> FALSE]
    /\ pc = [w \in Workers |-> "idle"]
    /\ ord = [w \in Workers |-> NoOrder]
    /\ goal = [w \in Workers |-> "none"]
    /\ faults = 0

\* What starts a handler in worker w.
Arrive(w, o) ==
    \/ CreateOrderInTx(w, o) \/ CancelOrder(w, o) \/ ExpireTimedOutOrder(w, o)
    \/ VerifyOrder(w, o) \/ ReconcilePendingOrder(w, o) \/ Webhook(w, o)
    \/ RetryFulfillment(w, o)

\* What a handler does next.
Step(w) ==
    \/ InvokeProvider(w) \/ SavePaymentDetails(w) \/ FailCreate(w)
    \/ CheckPaid(w) \/ CloseAtProvider(w) \/ CancelRow(w) \/ PersistTradeNo(w)
    \/ ConfirmPayment(w) \/ ToPaid(w) \/ AlreadyProcessed(w)
    \/ ExecuteFulfillment(w) \/ AcquireLease(w) \/ AcquireConflict(w)
    \/ ReloadLease(w) \/ ResolveRedeemAction(w) \/ CreateCode(w) \/ Redeem(w)
    \/ CheckAssignment(w) \/ AssignSubscription(w) \/ ApplyAffiliateRebate(w)
    \/ MarkCompleted(w) \/ AuditCompletion(w) \/ CompletionLost(w)
    \/ MarkFailed(w)

Environment(o) == CustomerPays(o) \/ Age(o) \/ RefundMove(o)

Next ==
    \/ \E w \in Workers, o \in Orders : Arrive(w, o)
    \/ \E w \in Workers : Step(w) \/ Crash(w)
    \/ \E o \in Orders : Environment(o)

Spec == Init /\ [][Next]_vars

-----------------------------------------------------------------------------
(* Fairness.                                                               *)

\* A handler that is running goes on; the clock runs; the provider repeats a
\* notification until it is acknowledged; an order that stays PENDING times out
\* and is swept.
Notified(o) == \E w \in Workers : ~acked[o] /\ Webhook(w, o)
Swept(o) == \E w \in Workers : ExpireTimedOutOrder(w, o)

Fairness ==
    /\ \A w \in Workers : WF_vars(Step(w))
    /\ \A o \in Orders :
         WF_vars(Age(o)) /\ SF_vars(Notified(o)) /\ SF_vars(Swept(o))

FairSpec == Spec /\ Fairness

-----------------------------------------------------------------------------
(* Properties.                                                             *)

RowTypes ==
    /\ status \in [Orders -> Statuses]
    /\ otype \in [Orders -> {"balance", "subscription"}]
    /\ paidAt \in [Orders -> BOOLEAN]
    /\ aged \in [Orders -> BOOLEAN]
    /\ holders \in [Orders -> SUBSET Workers]

GoodsTypes ==
    /\ code \in [Orders -> {"absent", "unused", "used"}]
    /\ assigned \in [Orders -> BOOLEAN]
    /\ granted \in [Orders -> Nat]
    /\ rebate \in [Orders -> BOOLEAN]
    /\ accrued \in [Orders -> Nat]

ProviderTypes ==
    /\ late \in [Orders -> BOOLEAN]
    /\ prov \in [Orders -> {"none", "open", "closed", "paid", "mispaid"}]
    /\ acked \in [Orders -> BOOLEAN]
    /\ swallowed \in [Orders -> BOOLEAN]

WorkerTypes ==
    /\ pc \in [Workers -> Steps]
    /\ ord \in [Workers -> Orders \cup {NoOrder}]
    /\ goal \in [Workers -> Goals]
    /\ faults \in Nat

\* Every variable keeps its type.
TypeOK == RowTypes /\ GoodsTypes /\ ProviderTypes /\ WorkerTypes

\* However many notifications, polls, retries and crashes an order sees, its
\* balance is credited (or its subscription assigned) and its affiliate
\* rebate accrued at most once: leases may overlap, the redeem code and the
\* audit rows do not.
DeliveredAtMostOnce ==
    \A o \in Orders : granted[o] <= 1 /\ accrued[o] <= granted[o]

\* Nothing is delivered for an order the provider does not report as paid in
\* full, in particular not for an order that failed while being created.
\* (Follows from KeepsContract below.)
DeliveredOnlyIfPaid ==
    \A o \in Orders : granted[o] > 0 => prov[o] = "paid"

\* An order that shows COMPLETED, or has been completed and is now in refund,
\* was delivered and had its rebate decided, so that a refund has something
\* to take back.
SettledMeansDelivered ==
    \A o \in Orders :
        status[o] \in Settled => granted[o] = 1 /\ rebate[o]

\* The provider is told to stop notifying only once the order is settled, or
\* the payment is on record as having come after the grace period, or a failed
\* call was answered with success: GetWebhookProviders, the reads of
\* confirmPayment and alreadyProcessed, the write of the late flag.  A refused
\* lease, a lost one, a failed delivery, a wrong amount never tell it so.
AcknowledgedMeansSettled ==
    \A o \in Orders :
        acked[o] => status[o] \in Settled \/ late[o] \/ swallowed[o]

\* A cancellation, an expiry sweep or a failing CreateOrder never takes a
\* confirmed payment out of the fulfilment path, and a completed order leaves
\* COMPLETED only through a refund.
PaidIsNotUnwound ==
    [][\A o \in Orders :
         /\ paidAt[o] => status'[o] \in Fulfillable \cup Settled
         /\ status[o] \in Settled => status'[o] \in Settled]_vars

\* An order that the provider reports as paid has paid_at exactly while it is
\* in fulfilment or settled: the administrator's retry, which asks for paid_at,
\* accepts whatever confirmPayment has let through, and no payment ends in the
\* FAILED of a CreateOrder that gave up, which the retry would refuse.
PaidAtIsTrue ==
    \A o \in Orders :
        /\ paidAt[o] => prov[o] = "paid"
        /\ prov[o] = "paid" =>
             (paidAt[o] <=> status[o] \in Fulfillable \cup Settled)

\* As long as no fulfilment outlives its lease, one worker at a time delivers
\* an order, and until it writes an outcome the row shows RECHARGING with a
\* lease that cannot be taken over: neither a repeated notification, a poll, a
\* retry, a takeover after a crash nor the blind writes of checkPaid and
\* CreateOrder lets a second one in.
OneFulfilment ==
    ~OutliveLease => \A w \in Workers : pc[w] \in Leased =>
        /\ status[ord[w]] = "RECHARGING" /\ ~aged[ord[w]]
        /\ \A v \in Workers : pc[v] \in Leased /\ ord[v] = ord[w] => v = w

\* The orders keep the promise of PaymentContract: what the provider reports as
\* paid is captured money, a credit or an assignment is a delivery, and a
\* settled status follows the delivery.
Contract == INSTANCE PaymentContract
    WITH captured <- [o \in Orders |-> prov[o] = "paid"],
         delivered <- granted,
         settled <- [o \in Orders |-> status[o] \in Settled]

KeepsContract == Contract!Spec

\* A payment in full is eventually delivered, or flagged as too late, once
\* crashes and failures stop, unless an error was answered with success.
PaidIsDelivered ==
    \A o \in Orders :
        prov[o] = "paid" ~> (granted[o] = 1 \/ late[o] \/ swallowed[o])

=============================================================================
