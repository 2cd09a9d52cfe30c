---------------------------- MODULE PaymentRefund ---------------------------
(***************************************************************************)
(* Refunds of completed orders: backend/internal/service/payment_refund.go.*)
(*                                                                         *)
(* A refund takes back what the order delivered (balance, or subscription  *)
(* days), asks the gateway to pay the customer back, and undoes the        *)
(* deduction if the gateway refuses.  A gateway may also leave the refund  *)
(* pending; the deduction is then held until an administrator's query      *)
(* settles it.  Each worker is one such request; it makes one statement,   *)
(* transaction or gateway call per step and may die at any of them.        *)
(*                                                                         *)
(* purse[o] is what the order's owner still has: the user's balance for a  *)
(* balance order, the remaining days for a subscription order.  taken[o]   *)
(* is a history variable: what refunds of o took and have not returned.    *)
(*                                                                         *)
(* payment_audit_logs has a unique index on (order_id, action), so each of *)
(* the audits REFUND_PENDING (held), REFUND_ROLLBACK_FAILED (unreturned)   *)
(* and REFUND_FAILED (failedAudit) exists at most once per order; a second *)
(* insert fails and takes its transaction with it.                         *)
(***************************************************************************)
EXTENDS Integers, PaymentStatus

CONSTANTS
    Orders,       \* completed orders
    NoOrder,      \* the order of a worker that serves none
    Workers,      \* requests that can be in flight at once
    Amount,       \* what an order delivered: currency units, or days
    MaxFaults     \* bound on crashes and failed calls

ASSUME OrderAssumption == NoOrder \notin Orders
ASSUME AmountAssumption == Amount \in Nat \ {0}
ASSUME FaultAssumption == MaxFaults \in Nat

VARIABLES
    status,       \* payment_orders.status
    kind,         \* payment_orders.order_type
    traded,       \* payment_orders.payment_trade_no is set
    purse,        \* the balance, or the days left, of the order's owner
    revoked,      \* the subscription was revoked
    taken,        \* history: deducted for the order and not returned
    held,         \* audit REFUND_PENDING: its plan, or NoPlan
    unreturned,   \* audit REFUND_ROLLBACK_FAILED exists
    failedAudit,  \* audit REFUND_FAILED exists
    gateway,      \* the gateway's latest refund for the order
    refunded,     \* history: refunds the gateway has paid out
    pc, ord, plan,   \* the worker's next step, its order and RefundPlan
    faults,       \* faults so far
    silent        \* history: 1 once the error of an audit call was dropped, or a
                  \* call was reported as failed that took effect

orderVars == <<kind, traded>>
goodsVars == <<purse, revoked, taken>>
auditVars == <<held, unreturned, failedAudit>>
gatewayVars == <<gateway, refunded>>
workVars == <<pc, ord, plan>>
faultVars == <<faults, silent>>
vars == <<status, orderVars, goodsVars, auditVars, gatewayVars, workVars,
          faultVars>>

\* A RefundPlan: the order's status when it was prepared, as far as
\* restoreStatus looks at it, the amount to refund and what to deduct
\* (BalanceToDeduct, or SubDaysToDeduct of the active subscription).
Plans == [from : {"COMPLETED", "REFUND_REQUESTED"}, amount : 1..Amount, take : 0..Amount]
NoPlan == [from |-> "COMPLETED", amount |-> Amount, take |-> 0]
NotHeld == [from |-> "COMPLETED", amount |-> 0, take |-> 0]

\* The steps of a worker that has moved the order to REFUNDING.
Refunding == {"marker", "deduct", "refund", "markOk", "markPending",
              "rollback", "auditRollback", "writeFailed", "restore"}
Steps == Refunding \cup {"idle", "request", "prepDeduct", "lock", "auditFailed",
                         "query", "finalOk", "finalFail", "finalUnreturned"}

Least(a, b) == IF a <= b THEN a ELSE b

-----------------------------------------------------------------------------
(* Worker moves and faults.                                                *)

At(w, step) == pc[w] = step

Goto(w, step) == pc' = [pc EXCEPT ![w] = step] /\ UNCHANGED <<ord, plan>>

Begin(w, o, step) ==
    /\ pc[w] = "idle"
    /\ pc' = [pc EXCEPT ![w] = step]
    /\ ord' = [ord EXCEPT ![w] = o]

Leave(w) ==
    /\ pc' = [pc EXCEPT ![w] = "idle"]
    /\ ord' = [ord EXCEPT ![w] = NoOrder]
    /\ plan' = [plan EXCEPT ![w] = NoPlan]

\* A crash or a failed call; and one that leaves the caller with a wrong idea.
Fault == faults < MaxFaults /\ faults' = faults + 1 /\ UNCHANGED silent
SilentFault == faults < MaxFaults /\ faults' = faults + 1 /\ silent' = 1
NoFault == UNCHANGED faultVars

SetStatus(o, s) == status' = [status EXCEPT ![o] = s]

-----------------------------------------------------------------------------
(* RequestRefund, by the customer.                                         *)

\* A balance order, completed, with the whole amount still on the balance.
RequestRefund(w, o) ==
    /\ status[o] = "COMPLETED" /\ kind[o] = "balance" /\ purse[o] >= Amount
    /\ Begin(w, o, "request") /\ UNCHANGED plan
    /\ UNCHANGED <<status, orderVars, goodsVars, auditVars, gatewayVars, faultVars>>

SaveRequest(w) ==
    /\ At(w, "request")
    /\ IF status[ord[w]] = "COMPLETED" THEN SetStatus(ord[w], "REFUND_REQUESTED")
                                       ELSE UNCHANGED status
    /\ Leave(w)
    /\ UNCHANGED <<orderVars, goodsVars, auditVars, gatewayVars, faultVars>>

-----------------------------------------------------------------------------
(* PrepareRefund and ExecuteRefund, by an administrator.                   *)

\* The status restoreStatus writes for an order prepared in status s.
RestoredStatus(s) == IF s = "REFUND_REQUESTED" THEN s ELSE "COMPLETED"

PrepareRefund(w, o) ==
    /\ status[o] \in Refundable
    /\ \E a \in 1..Amount, step \in {"prepDeduct", "lock"} :
         /\ Begin(w, o, step)
         /\ plan' = [plan EXCEPT ![w] =
                       [from |-> RestoredStatus(status[o]), amount |-> a, take |-> 0]]
    /\ UNCHANGED <<status, orderVars, goodsVars, auditVars, gatewayVars, faultVars>>

\* What prepDeduct reads.  Less than the refund, or no subscription, needs
\* force; without it the handler asks for it and returns.
Deductible(w) ==
    CASE kind[ord[w]] = "balance" -> Least(plan[w].amount, purse[ord[w]])
      [] kind[ord[w]] = "subscription" ->
           IF purse[ord[w]] > 0 /\ ~revoked[ord[w]] THEN Amount ELSE 0

PrepDeduct(w) ==
    /\ At(w, "prepDeduct")
    /\ \/ /\ plan' = [plan EXCEPT ![w].take = Deductible(w)]
          /\ pc' = [pc EXCEPT ![w] = "lock"]
          /\ UNCHANGED <<ord, faultVars>>
       \/ /\ Deductible(w) < plan[w].amount
          /\ Leave(w) /\ NoFault
       \/ Goto(w, "lock") /\ Fault
    /\ UNCHANGED <<status, orderVars, goodsVars, auditVars, gatewayVars>>

\* A seeded fault: the order is locked without looking at its status.
BugLockAnyStatus(w) ==
    /\ At(w, "lock")
    /\ SetStatus(ord[w], "REFUNDING")
    /\ Goto(w, IF plan[w].take > 0 THEN "marker" ELSE "refund")
    /\ UNCHANGED <<orderVars, goodsVars, auditVars, gatewayVars, faultVars>>

\* The head of ExecuteRefund: whoever moves the order to REFUNDING refunds it.
LockOrder(w) ==
    /\ At(w, "lock")
    /\ \/ /\ status[ord[w]] \in Refundable
          /\ SetStatus(ord[w], "REFUNDING")
          /\ \/ Goto(w, IF plan[w].take > 0 THEN "marker" ELSE "refund") /\ NoFault
             \/ Leave(w) /\ SilentFault
       \/ /\ status[ord[w]] \notin Refundable
          /\ Leave(w) /\ NoFault /\ UNCHANGED status
       \/ Leave(w) /\ Fault /\ UNCHANGED status
    /\ UNCHANGED <<orderVars, goodsVars, auditVars, gatewayVars>>

\* hasAuditLog: what an earlier attempt took and could not return is not taken
\* again.  A failed read counts as "no such audit".
SkipTakenDeduction(w) ==
    /\ At(w, "marker")
    /\ \/ ~unreturned[ord[w]] /\ Goto(w, "deduct") /\ NoFault
       \/ /\ unreturned[ord[w]]
          /\ plan' = [plan EXCEPT ![w].take = 0]
          /\ pc' = [pc EXCEPT ![w] = "refund"]
          /\ UNCHANGED <<ord, faultVars>>
       \/ Goto(w, "deduct") /\ SilentFault
    /\ UNCHANGED <<status, orderVars, goodsVars, auditVars, gatewayVars>>

\* A seeded fault: the balance is not checked again by the deduction.
BugOverdraw(w) ==
    LET o == ord[w]
    IN  /\ kind[o] = "balance"
        /\ purse' = [purse EXCEPT ![o] = @ - plan[w].take]
        /\ taken' = [taken EXCEPT ![o] = @ + plan[w].take]
        /\ UNCHANGED <<plan, revoked>>

\* DeductAvailableBalance takes what there is of the planned amount.
TakeBalance(w) ==
    LET o == ord[w]  d == Least(plan[w].take, purse[o])
    IN  /\ kind[o] = "balance"
        /\ purse' = [purse EXCEPT ![o] = @ - d]
        /\ taken' = [taken EXCEPT ![o] = @ + d]
        /\ plan' = [plan EXCEPT ![w].take = d]
        /\ UNCHANGED revoked

\* ExtendSubscription by minus the days; if that would end the subscription,
\* RevokeSubscription.  An expired or revoked one cannot be shortened.
TakeDays(w) ==
    LET o == ord[w]
    IN  /\ kind[o] = "subscription" /\ purse[o] > 0 /\ ~revoked[o]
        /\ IF purse[o] > plan[w].take
           THEN /\ purse' = [purse EXCEPT ![o] = @ - plan[w].take]
                /\ UNCHANGED revoked
           ELSE /\ purse' = [purse EXCEPT ![o] = 0]
                /\ revoked' = [revoked EXCEPT ![o] = TRUE]
        /\ taken' = [taken EXCEPT ![o] = @ + plan[w].take]
        /\ UNCHANGED plan

\* The deduction of ExecuteRefund; if it fails, the status is restored.
Deduct(w) ==
    /\ At(w, "deduct")
    /\ \/ /\ TakeBalance(w) \/ TakeDays(w)
          /\ \/ pc' = [pc EXCEPT ![w] = "refund"] /\ NoFault
             \/ pc' = [pc EXCEPT ![w] = "restore"] /\ SilentFault
          /\ UNCHANGED ord
       \/ /\ kind[ord[w]] = "subscription"
          /\ purse[ord[w]] = 0 \/ revoked[ord[w]]
          /\ Goto(w, "restore") /\ NoFault /\ UNCHANGED goodsVars
       \/ Goto(w, "restore") /\ Fault /\ UNCHANGED goodsVars
    /\ UNCHANGED <<status, orderVars, auditVars, gatewayVars>>

Pay(o) ==
    /\ gateway' = [gateway EXCEPT ![o] = "done"]
    /\ refunded' = [refunded EXCEPT ![o] = @ + 1]

\* gwRefund.  An order without trade number is refunded by hand.  The gateway
\* pays, takes the refund in hand, or declines it; an error is a refusal, too.
GwRefund(w) ==
    /\ At(w, "refund")
    /\ \/ /\ ~traded[ord[w]]
          /\ Goto(w, "markOk") /\ NoFault /\ UNCHANGED gatewayVars
       \/ /\ traded[ord[w]]
          /\ \/ Pay(ord[w]) /\ Goto(w, "markOk") /\ NoFault
             \/ /\ gateway' = [gateway EXCEPT ![ord[w]] = "pending"]
                /\ Goto(w, "markPending") /\ NoFault /\ UNCHANGED refunded
             \/ Goto(w, "rollback") /\ NoFault /\ UNCHANGED gatewayVars
             \/ Pay(ord[w]) /\ Goto(w, "rollback") /\ SilentFault
    /\ UNCHANGED <<status, orderVars, goodsVars, auditVars>>

\* The status that goes with the refunded amount.
RefundedStatus(p) == IF p.amount < Amount THEN "PARTIALLY_REFUNDED" ELSE "REFUNDED"

\* A seeded fault: if the status cannot be written, the refund is tried again.
BugRefundAgain(w) ==
    /\ At(w, "markOk")
    /\ \/ SetStatus(ord[w], RefundedStatus(plan[w])) /\ NoFault /\ Leave(w)
       \/ UNCHANGED status /\ Fault /\ Goto(w, "refund")
    /\ UNCHANGED <<orderVars, goodsVars, auditVars, gatewayVars>>

MarkRefundOk(w) ==
    /\ At(w, "markOk")
    /\ \/ SetStatus(ord[w], RefundedStatus(plan[w])) /\ NoFault
       \/ UNCHANGED status /\ Fault
    /\ Leave(w)
    /\ UNCHANGED <<orderVars, goodsVars, auditVars, gatewayVars>>

\* A seeded fault: the status is set although the audit cannot be inserted.
BugPendingWithoutAudit(w) ==
    /\ At(w, "markPending")
    /\ SetStatus(ord[w], "REFUND_PENDING")
    /\ Leave(w)
    /\ UNCHANGED <<orderVars, goodsVars, auditVars, gatewayVars, faultVars>>

\* One transaction: REFUND_PENDING, and the audit with the held deduction.
MarkRefundPending(w) ==
    /\ At(w, "markPending")
    /\ \/ /\ held[ord[w]] = NotHeld
          /\ SetStatus(ord[w], "REFUND_PENDING")
          /\ held' = [held EXCEPT ![ord[w]] = plan[w]]
          /\ NoFault
       \/ held[ord[w]] # NotHeld /\ NoFault /\ UNCHANGED <<status, held>>
       \/ Fault /\ UNCHANGED <<status, held>>
    /\ Leave(w)
    /\ UNCHANGED <<orderVars, goodsVars, unreturned, failedAudit, gatewayVars>>

-----------------------------------------------------------------------------
(* The gateway refused: handleGwFail.                                      *)

\* UpdateBalance, or ExtendSubscription, which fails on a revoked subscription.
Returnable(o, p) == p.take = 0 \/ kind[o] = "balance" \/ ~revoked[o]

GiveBack(o, p) ==
    /\ Returnable(o, p)
    /\ purse' = [purse EXCEPT ![o] = @ + p.take]
    /\ taken' = [taken EXCEPT ![o] = @ - p.take]
    /\ UNCHANGED revoked

RollbackRefund(w) ==
    /\ At(w, "rollback")
    /\ \/ /\ GiveBack(ord[w], plan[w])
          /\ \/ Goto(w, "restore") /\ NoFault
             \/ plan[w].take > 0 /\ Goto(w, "auditRollback") /\ SilentFault
       \/ /\ ~Returnable(ord[w], plan[w])
          /\ Goto(w, "auditRollback") /\ NoFault /\ UNCHANGED goodsVars
       \/ /\ plan[w].take > 0
          /\ Goto(w, "auditRollback") /\ Fault /\ UNCHANGED goodsVars
    /\ UNCHANGED <<status, orderVars, auditVars, gatewayVars>>

\* restoreStatus, whatever the status is by now.
RestoreStatus(w) ==
    /\ At(w, "restore")
    /\ \/ SetStatus(ord[w], plan[w].from) /\ NoFault
       \/ UNCHANGED status /\ Fault
    /\ Leave(w)
    /\ UNCHANGED <<orderVars, goodsVars, auditVars, gatewayVars>>

\* A seeded fault: the unreturned deduction is not recorded.
BugNoRollbackAudit(w) ==
    /\ At(w, "auditRollback")
    /\ Goto(w, "writeFailed") /\ NoFault
    /\ UNCHANGED <<status, orderVars, goodsVars, auditVars, gatewayVars>>

\* writeAuditLog drops its error, a duplicate included.
AuditRollbackFailed(w) ==
    /\ At(w, "auditRollback")
    /\ \/ unreturned' = [unreturned EXCEPT ![ord[w]] = TRUE] /\ NoFault
       \/ UNCHANGED unreturned /\ SilentFault
    /\ Goto(w, "writeFailed")
    /\ UNCHANGED <<status, orderVars, goodsVars, held, failedAudit, gatewayVars>>

WriteRefundFailed(w) ==
    /\ At(w, "writeFailed")
    /\ \/ SetStatus(ord[w], "REFUND_FAILED") /\ NoFault
       \/ UNCHANGED status /\ Fault
    /\ Goto(w, "auditFailed")
    /\ UNCHANGED <<orderVars, goodsVars, auditVars, gatewayVars>>

AuditRefundFailed(w) ==
    /\ At(w, "auditFailed")
    /\ \/ failedAudit' = [failedAudit EXCEPT ![ord[w]] = TRUE] /\ NoFault
       \/ UNCHANGED failedAudit /\ SilentFault
    /\ Leave(w)
    /\ UNCHANGED <<status, orderVars, goodsVars, held, unreturned, gatewayVars>>

-----------------------------------------------------------------------------
(* QueryAndFinalizeRefund, by an administrator.                            *)

\* The order is read, then the audit with the held deduction, which never
\* changes once it is there.
QueryAndFinalizeRefund(w, o) ==
    /\ status[o] = "REFUND_PENDING"
    /\ Begin(w, o, "query")
    /\ plan' = [plan EXCEPT ![w] = held[o]]
    /\ UNCHANGED <<status, orderVars, goodsVars, auditVars, gatewayVars, faultVars>>

QueryRefund(w) ==
    /\ At(w, "query")
    /\ \/ gateway[ord[w]] = "done" /\ Goto(w, "finalOk") /\ NoFault
       \/ gateway[ord[w]] = "failed" /\ Goto(w, "finalFail") /\ NoFault
       \/ gateway[ord[w]] = "pending" /\ Leave(w) /\ NoFault
       \/ Leave(w) /\ Fault
    /\ UNCHANGED <<status, orderVars, goodsVars, auditVars, gatewayVars>>

\* finalizePendingRefundSuccess: one transaction, through REFUNDING, to the
\* final status.  The deduction was held, so none is made.
FinalizeSuccess(w) ==
    /\ At(w, "finalOk")
    /\ \/ /\ status[ord[w]] = "REFUND_PENDING"
          /\ SetStatus(ord[w], RefundedStatus(plan[w])) /\ NoFault
       \/ status[ord[w]] # "REFUND_PENDING" /\ UNCHANGED status /\ NoFault
       \/ UNCHANGED status /\ Fault
    /\ Leave(w)
    /\ UNCHANGED <<orderVars, goodsVars, auditVars, gatewayVars>>

\* finalizeRefundFailedTx: claim the order, return the held deduction, write
\* the audit, all or nothing.  If only the return fails, a second transaction
\* gives up on it.
FinalizeFailed(w) ==
    /\ At(w, "finalFail")
    /\ \/ /\ status[ord[w]] = "REFUND_PENDING" /\ ~failedAudit[ord[w]]
          /\ GiveBack(ord[w], plan[w])
          /\ SetStatus(ord[w], "REFUND_FAILED")
          /\ failedAudit' = [failedAudit EXCEPT ![ord[w]] = TRUE]
          /\ Leave(w) /\ NoFault
       \/ /\ status[ord[w]] = "REFUND_PENDING"
          /\ \/ ~Returnable(ord[w], plan[w]) /\ NoFault
             \/ plan[w].take > 0 /\ Fault
          /\ Goto(w, "finalUnreturned")
          /\ UNCHANGED <<status, goodsVars, failedAudit>>
       \/ /\ \/ status[ord[w]] # "REFUND_PENDING" /\ NoFault
             \/ failedAudit[ord[w]] /\ Returnable(ord[w], plan[w]) /\ NoFault
             \/ Fault
          /\ Leave(w)
          /\ UNCHANGED <<status, goodsVars, failedAudit>>
    /\ UNCHANGED <<orderVars, held, unreturned, gatewayVars>>

FinalizeUnreturned(w) ==
    /\ At(w, "finalUnreturned")
    /\ \/ /\ status[ord[w]] = "REFUND_PENDING"
          /\ ~unreturned[ord[w]] /\ ~failedAudit[ord[w]]
          /\ SetStatus(ord[w], "REFUND_FAILED")
          /\ unreturned' = [unreturned EXCEPT ![ord[w]] = TRUE]
          /\ failedAudit' = [failedAudit EXCEPT ![ord[w]] = TRUE]
          /\ NoFault
       \/ /\ \/ status[ord[w]] # "REFUND_PENDING" /\ NoFault
             \/ (unreturned[ord[w]] \/ failedAudit[ord[w]]) /\ NoFault
             \/ Fault
          /\ UNCHANGED <<status, unreturned, failedAudit>>
    /\ Leave(w)
    /\ UNCHANGED <<orderVars, goodsVars, held, gatewayVars>>

-----------------------------------------------------------------------------
(* The environment.                                                        *)

\* The owner spends balance, or a day of the subscription passes.
Spend(o) ==
    /\ purse[o] > 0
    /\ purse' = [purse EXCEPT ![o] = @ - 1]
    /\ UNCHANGED <<status, orderVars, revoked, taken, auditVars, gatewayVars,
                   workVars, faultVars>>

\* The gateway settles a refund it had in hand.
SettleAtGateway(o) ==
    /\ gateway[o] = "pending"
    /\ \/ Pay(o)
       \/ gateway' = [gateway EXCEPT ![o] = "failed"] /\ UNCHANGED refunded
    /\ UNCHANGED <<status, orderVars, goodsVars, auditVars, workVars, faultVars>>

Crash(w) ==
    /\ pc[w] # "idle"
    /\ Leave(w) /\ Fault
    /\ UNCHANGED <<status, orderVars, goodsVars, auditVars, gatewayVars>>

-----------------------------------------------------------------------------
Init ==
    /\ status = [o \in Orders |-> "COMPLETED"]
    /\ kind \in [Orders -> {"balance", "subscription"}]
    /\ traded \in [Orders -> BOOLEAN]
    /\ purse \in [Orders -> 0..(Amount + 1)]
    /\ revoked = [o \in Orders |-> FALSE]
    /\ taken = [o \in Orders |-> 0]
    /\ held = [o \in Orders |-> NotHeld]
    /\ unreturned = [o \in Orders |-> FALSE]
    /\ failedAudit = [o \in Orders |-> FALSE]
    /\ gateway = [o \in Orders |-> "none"]
    /\ refunded = [o \in Orders |-> 0]
    /\ pc = [w \in Workers |-> "idle"]
    /\ ord = [w \in Workers |-> NoOrder]
    /\ plan = [w \in Workers |-> NoPlan]
    /\ faults = 0
    /\ silent = 0

Arrive(w, o) ==
    RequestRefund(w, o) \/ PrepareRefund(w, o) \/ QueryAndFinalizeRefund(w, o)

Step(w) ==
    \/ SaveRequest(w) \/ PrepDeduct(w) \/ LockOrder(w) \/ SkipTakenDeduction(w)
    \/ Deduct(w) \/ GwRefund(w) \/ MarkRefundOk(w) \/ MarkRefundPending(w)
    \/ RollbackRefund(w) \/ RestoreStatus(w) \/ AuditRollbackFailed(w)
    \/ WriteRefundFailed(w) \/ AuditRefundFailed(w) \/ QueryRefund(w)
    \/ FinalizeSuccess(w) \/ FinalizeFailed(w) \/ FinalizeUnreturned(w)

Next ==
    \/ \E w \in Workers, o \in Orders : Arrive(w, o)
    \/ \E w \in Workers : Step(w) \/ Crash(w)
    \/ \E o \in Orders : Spend(o) \/ SettleAtGateway(o)

Spec == Init /\ [][Next]_vars

-----------------------------------------------------------------------------
(* Properties.                                                             *)

OrderTypes ==
    /\ status \in [Orders -> Settled]
    /\ kind \in [Orders -> {"balance", "subscription"}]
    /\ traded \in [Orders -> BOOLEAN]
    /\ gateway \in [Orders -> {"none", "pending", "done", "failed"}]
    /\ refunded \in [Orders -> Nat]

GoodsTypes ==
    /\ purse \in [Orders -> Nat]
    /\ revoked \in [Orders -> BOOLEAN]
    /\ taken \in [Orders -> Int]

AuditTypes ==
    /\ held \in [Orders -> Plans \cup {NotHeld}]
    /\ unreturned \in [Orders -> BOOLEAN]
    /\ failedAudit \in [Orders -> BOOLEAN]

WorkerTypes ==
    /\ pc \in [Workers -> Steps]
    /\ ord \in [Workers -> Orders \cup {NoOrder}]
    /\ plan \in [Workers -> Plans]
    /\ faults \in Nat
    /\ silent \in 0..1

\* Every variable keeps its type; in particular no balance is overdrawn.
TypeOK == OrderTypes /\ GoodsTypes /\ AuditTypes /\ WorkerTypes

\* Retries, two administrators and two finalizations of one pending refund
\* never return more than was taken, whichever call is lost.  (Follows from
\* KeepsRefundContract below, as does TakenAtMostOnce.)
NeverOverReturned == \A o \in Orders : taken[o] >= 0

\* The status of an order changes along the edges the order life cycle
\* (module PaymentOrder) relies on: a refund never re-opens the order for
\* fulfilment, and what is refunded stays so.
OnlyRefundEdges ==
    [][\A o \in Orders :
         status'[o] # status[o] => <<status[o], status'[o]>> \in RefundEdges]_vars

\* As long as no audit is lost and no failed call took effect: however often a
\* refund is retried, the customer is deducted no more than the order's amount.
TakenAtMostOnce == silent = 0 => \A o \in Orders : taken[o] <= Amount

\* Under the same assumption, an order that shows no refund (completed, a
\* refund requested or failed) has had no money paid back, and nothing of it
\* stays deducted without a REFUND_ROLLBACK_FAILED audit to say so.
UnrefundedIsWhole ==
    silent = 0 => \A o \in Orders :
        status[o] \in Refundable =>
            /\ refunded[o] = 0
            /\ taken[o] # 0 => unreturned[o]

\* Under the same assumption, a pending refund has its deduction on record, so
\* that the finalization returns exactly what was taken.
HeldIsRecorded ==
    silent = 0 => \A o \in Orders :
        status[o] = "REFUND_PENDING" =>
            /\ held[o] # NotHeld
            /\ ~unreturned[o] => held[o].take = taken[o]

\* Refunds keep the promise of RefundContract, step by step: through retries,
\* rollbacks, crashes and two administrators, nothing is deducted again while
\* an earlier deduction stands, a return gives all of it back and never after
\* the gateway has paid, and the gateway pays an order once.
Contract == INSTANCE RefundContract
    WITH got <- taken, paid <- refunded, lost <- silent

KeepsRefundContract == Contract!Spec

\* The comment on markRefundPending: while the gateway has given no final
\* answer the order is REFUND_PENDING with its deduction on record, so that
\* finalizeRefundFailed can return it.  (Checked where no call fails.)
PendingIsRecorded ==
    \A o \in Orders :
        gateway[o] = "pending" /\ (\A w \in Workers : ord[w] # o)
            => status[o] = "REFUND_PENDING"
=============================================================================
