---------------------------- MODULE BatchImageJob ----------------------------
(***************************************************************************)
(* Batch image jobs: the job row, the balance hold of its owner, the Redis *)
(* queue and everyone who works on them at the same time: the submitting   *)
(* request, the owner's cancel and retry requests, the workers, the stale  *)
(* submission recovery, and the provider's batch.                          *)
(*                                                                         *)
(* One step is one statement or transaction of PostgreSQL, one Redis       *)
(* script, or one provider call; a process may stop, and a call may fail,  *)
(* between any two of them.                                                *)
(***************************************************************************)
EXTENDS BatchImageStatus, Integers, FiniteSets

CONSTANTS
    Jobs,               \* batch ids of one user
    Workers,            \* worker loops, over all instances
    Free, Orphan,       \* lock values: no lock, the lock of a stopped worker
    Items,              \* item_count
    Discount,           \* price of a successful image (discount multiplier)
    HoldMultiplier,     \* configured price of a held image
    StartBalance,       \* the user's balance
    Pool,               \* frozen balance of the user's other batches
    MaxRetries,         \* batchImageSettlementMaxRetries
    MaxFaults,          \* bound: calls that fail and processes that stop
    MaxReady,           \* bound: copies of one batch id in the ready list
    LostAcks,           \* may a failed call have taken effect all the same?
    Slow                \* may a heartbeat come too late, and a job be queued for
                        \* longer than its inflight key lasts?

ASSUME BatchConstants ==
    /\ IsFiniteSet(Jobs)
    /\ Items \in Nat \ {0} /\ Discount \in Nat \ {0} /\ HoldMultiplier \in Nat
    /\ StartBalance \in Nat /\ Pool \in Nat
    /\ MaxRetries \in Nat \ {0} /\ MaxFaults \in Nat /\ MaxReady \in Nat \ {0}
    /\ LostAcks \in BOOLEAN /\ Slow \in BOOLEAN
    /\ Free \notin Workers /\ Orphan \notin Workers /\ Free # Orphan

VARIABLES
    status, success, retry, actual,     \* batch_image_jobs: status, success_count,
    named, counted, stale, hidden,      \* retry_count, actual_cost; the rows with a
                                        \* provider job name, a SETTLEMENT_ error, an
                                        \* old updated_at, user_deleted_at
    held, captured, released,           \* usage_billing_dedup: the jobs whose hold,
                                        \* capture, release request is claimed
    refunded, charged,                  \* what the claims moved
    balance, frozen,                    \* users.balance and users.frozen_balance
    ready, delayed, active, inflight,   \* the Redis queue
    lock,                               \* per-job lock key
    submit,                             \* the request that submits the job
    owner,                              \* the owner's cancel or repeated submit request
    recovery,                           \* ReleaseStaleUnsubmittedOnce, on the job
    pc, at, seen, due,                  \* worker loops: step, job, provider state and
                                        \* amount last read
    upstream,                           \* the provider's batch
    faults                              \* calls failed and processes stopped so far

rowVars    == <<status, success, retry, actual, named, counted, stale, hidden>>
billVars   == <<held, captured, released, refunded, charged, balance, frozen>>
queueVars  == <<ready, delayed, active, inflight>>
workerVars == <<pc, at, seen, due>>
vars == <<rowVars, billVars, queueVars, lock, submit, owner, recovery, workerVars,
          upstream, faults>>

------------------------------------------------------------------------------
(* Pricing: the hold is never below what the images can cost.              *)

\* Mutant: a hold multiplier below the discount is taken as it is.
BugHoldUnclamped == HoldMultiplier

HoldUnitPrice == IF HoldMultiplier < Discount THEN Discount ELSE HoldMultiplier
HoldAmount    == Items * HoldUnitPrice
ActualCost(n) == n * Discount

------------------------------------------------------------------------------
(* State                                                                   *)

SubmitPC == {"idle", "reserve", "reserve_failed", "items", "upload", "provider",
             "release", "release_keep", "record_failed", "release_failed",
             "retry_enqueue", "persist", "abort", "enqueue", "queue_failed", "done"}
OwnerPC  == {"idle", "cancel_provider", "cancel_enqueue", "cancel_transition",
             "cancel_release", "cancel_retry", "resubmit", "queue_failed"}
WorkerPC == {"idle", "lock", "pipeline", "process", "get", "apply", "index",
             "index_failed", "indexed", "release", "settle", "capture", "mark",
             "settle_failed", "exhaust", "exhaust_failed", "fail_job", "check",
             "ack", "requeue", "unlock"}
UpstreamState == {"none", "queued", "running", "succeeded", "failed", "cancelled"}

TypeOK ==
    /\ status \in [Jobs -> JobStatus \cup {"none"}]
    /\ success \in [Jobs -> 0..Items] /\ retry \in [Jobs -> 0..MaxRetries]
    /\ actual \in [Jobs -> Nat]
    /\ named \subseteq Jobs /\ counted \subseteq Jobs
    /\ stale \subseteq Jobs /\ hidden \subseteq Jobs
    /\ held \subseteq Jobs /\ captured \subseteq Jobs /\ released \subseteq Jobs
    /\ refunded \subseteq Jobs /\ charged \in [Jobs -> Nat]
    /\ balance \in Int /\ frozen \in Int
    /\ ready \in [Jobs -> Nat]
    /\ delayed \subseteq Jobs /\ active \subseteq Jobs /\ inflight \subseteq Jobs
    /\ lock \in [Jobs -> Workers \cup {Free, Orphan}]
    /\ submit \in [Jobs -> SubmitPC]
    /\ owner \in [Jobs -> OwnerPC]
    /\ recovery \in [Jobs -> {"idle", "release", "retry"}]
    /\ pc \in [Workers -> WorkerPC] /\ at \in [Workers -> Jobs]
    /\ seen \in [Workers -> UpstreamState] /\ due \in [Workers -> Nat]
    /\ upstream \in [Jobs -> UpstreamState]
    /\ faults \in 0..MaxFaults

Init ==
    /\ status = [j \in Jobs |-> "none"]
    /\ success = [j \in Jobs |-> 0] /\ retry = [j \in Jobs |-> 0]
    /\ actual = [j \in Jobs |-> 0]
    /\ named = {} /\ counted = {} /\ stale = {} /\ hidden = {}
    /\ held = {} /\ captured = {} /\ released = {} /\ refunded = {}
    /\ charged = [j \in Jobs |-> 0]
    /\ balance = StartBalance /\ frozen = Pool
    /\ ready = [j \in Jobs |-> 0]
    /\ delayed = {} /\ active = {} /\ inflight = {}
    /\ lock = [j \in Jobs |-> Free]
    /\ submit = [j \in Jobs |-> "idle"]
    /\ owner = [j \in Jobs |-> "idle"]
    /\ recovery = [j \in Jobs |-> "idle"]
    /\ pc = [w \in Workers |-> "idle"]
    /\ \E j \in Jobs : at = [w \in Workers |-> j]
    /\ seen = [w \in Workers |-> "none"] /\ due = [w \in Workers |-> 0]
    /\ upstream = [j \in Jobs |-> "none"]
    /\ faults = 0

------------------------------------------------------------------------------
(* Faults                                                                  *)

Fault   == faults < MaxFaults /\ faults' = faults + 1
NoFault == UNCHANGED faults

------------------------------------------------------------------------------
(* usage_billing_repo.go: each operation claims its own request id, in the *)
(* transaction that moves the money.  A claimed request is a success that  *)
(* moves nothing.                                                          *)

CanReserve(j) == j \in held \/ balance >= HoldAmount

ReserveBatchImageBalance(j) ==
    \/ j \in held /\ UNCHANGED billVars
    \/ /\ j \notin held /\ balance >= HoldAmount
       /\ held' = held \cup {j}
       /\ balance' = balance - HoldAmount /\ frozen' = frozen + HoldAmount
       /\ UNCHANGED <<captured, released, refunded, charged>>

CanCapture(j, cost) ==
    j \in captured \/ (cost <= HoldAmount /\ frozen >= HoldAmount)

\* Mutant: the unused part goes back through the release request too.
BugCaptureReleases(j, cost) ==
    \/ j \in captured /\ UNCHANGED billVars
    \/ /\ j \notin captured /\ cost <= HoldAmount /\ frozen >= HoldAmount
       /\ captured' = captured \cup {j}
       /\ released' = released \cup {j} /\ refunded' = refunded \cup {j}
       /\ charged' = [charged EXCEPT ![j] = @ + cost]
       /\ balance' = balance + (HoldAmount - cost) /\ frozen' = frozen - HoldAmount
       /\ UNCHANGED held

\* Mutant: the whole hold goes back to the balance.
BugCaptureReturnsHold(j, cost) ==
    \/ j \in captured /\ UNCHANGED billVars
    \/ /\ j \notin captured /\ cost <= HoldAmount /\ frozen >= HoldAmount
       /\ captured' = captured \cup {j}
       /\ charged' = [charged EXCEPT ![j] = @ + cost]
       /\ balance' = balance + HoldAmount /\ frozen' = frozen - HoldAmount
       /\ UNCHANGED <<held, released, refunded>>

CaptureBatchImageBalance(j, cost) ==
    \/ j \in captured /\ UNCHANGED billVars
    \/ /\ j \notin captured /\ cost <= HoldAmount /\ frozen >= HoldAmount
       /\ captured' = captured \cup {j}
       /\ charged' = [charged EXCEPT ![j] = @ + cost]
       /\ balance' = balance + (HoldAmount - cost) /\ frozen' = frozen - HoldAmount
       /\ UNCHANGED <<held, released, refunded>>

CanRelease(j) == j \in released \/ j \notin held \/ frozen >= HoldAmount

ReleaseBatchImageBalance(j) ==
    \/ j \in released /\ UNCHANGED billVars
    \/ /\ j \notin released /\ j \notin held           \* the claim alone
       /\ released' = released \cup {j}
       /\ UNCHANGED <<held, captured, refunded, charged, balance, frozen>>
    \/ /\ j \notin released /\ j \in held /\ frozen >= HoldAmount
       /\ released' = released \cup {j} /\ refunded' = refunded \cup {j}
       /\ balance' = balance + HoldAmount /\ frozen' = frozen - HoldAmount
       /\ UNCHANGED <<held, captured, charged>>

\* The call returns no error / an error: refused, not executed, or executed
\* with its answer lost.
Reserved(j) == ReserveBatchImageBalance(j) /\ NoFault
ReserveFails(j) ==
    \/ ~CanReserve(j) /\ UNCHANGED billVars /\ NoFault
    \/ Fault /\ UNCHANGED billVars
    \/ LostAcks /\ Fault /\ ReserveBatchImageBalance(j)

Captured(j, cost) == CaptureBatchImageBalance(j, cost) /\ NoFault
CaptureFails(j, cost) ==
    \/ ~CanCapture(j, cost) /\ UNCHANGED billVars /\ NoFault
    \/ Fault /\ UNCHANGED billVars
    \/ LostAcks /\ Fault /\ CaptureBatchImageBalance(j, cost)

Released(j) == ReleaseBatchImageBalance(j) /\ NoFault
ReleaseFails(j) ==
    \/ ~CanRelease(j) /\ UNCHANGED billVars /\ NoFault
    \/ Fault /\ UNCHANGED billVars
    \/ LostAcks /\ Fault /\ ReleaseBatchImageBalance(j)

------------------------------------------------------------------------------
(* batch_image_repo.go: every write of the row refreshes updated_at.       *)

SetStatus(j, to) ==
    /\ status' = [status EXCEPT ![j] = to]
    /\ stale' = stale \ {j}
    /\ UNCHANGED <<success, retry, actual, named, counted, hidden>>

\* Mutant: the status is written without a look at the one before it.
BugTransitionUnchecked(j, to) == SetStatus(j, to)

TransitionBatchImageJobStatus(j, to) ==
    /\ CanTransitionBatchImageJob(status[j], to)
    /\ SetStatus(j, to)

Moved(j, to) == TransitionBatchImageJobStatus(j, to) /\ NoFault
MoveFails(j, to) ==
    \/ ~CanTransitionBatchImageJob(status[j], to) /\ UNCHANGED rowVars /\ NoFault
    \/ Fault /\ UNCHANGED rowVars
    \/ LostAcks /\ Fault /\ TransitionBatchImageJobStatus(j, to)

\* RecordBatchImageJobSubmitFailure with markFailed: whatever the status.
RecordBatchImageJobSubmitFailure(j) ==
    /\ status' = [status EXCEPT ![j] = "failed"]
    /\ stale' = stale \ {j}
    /\ UNCHANGED <<success, retry, actual, named, counted>>

\* Without markFailed: last_error_code alone, which hides a settlement error.
RecordQueueFailure(j) ==
    /\ counted' = counted \ {j} /\ stale' = stale \ {j}
    /\ UNCHANGED <<status, success, retry, actual, named, hidden>>

------------------------------------------------------------------------------
(* batch_image_queue.go                                                    *)

Enqueue(j) ==
    IF j \in inflight
    THEN UNCHANGED queueVars                         \* already queued
    ELSE /\ inflight' = inflight \cup {j}
         /\ ready' = [ready EXCEPT ![j] = @ + 1]
         /\ UNCHANGED <<delayed, active>>

RequeueAfter(j) ==
    /\ active' = active \ {j}
    /\ delayed' = delayed \cup {j}
    /\ UNCHANGED <<ready, inflight>>

\* Mutant: the acknowledged job keeps its inflight key.
BugAckKeepsInflight(j) ==
    /\ active' = active \ {j} /\ delayed' = delayed \ {j}
    /\ UNCHANGED <<ready, inflight>>

Ack(j) ==
    /\ active' = active \ {j}
    /\ delayed' = delayed \ {j}
    /\ inflight' = inflight \ {j}
    /\ UNCHANGED ready

Enqueued(j) == Enqueue(j) /\ NoFault
EnqueueFails(j) ==
    \/ Fault /\ UNCHANGED queueVars
    \/ LostAcks /\ Fault /\ Enqueue(j)

------------------------------------------------------------------------------
(* BatchImagePublicService.Submit                                          *)

At(j, p) == submit[j] = p
Goto(j, p) == submit' = [submit EXCEPT ![j] = p]

CreateBatchImageJob(j) ==
    /\ At(j, "idle") /\ Goto(j, "reserve")
    /\ SetStatus(j, "created")
    /\ UNCHANGED <<billVars, queueVars, lock, owner, recovery, workerVars,
                   upstream, faults>>

SubmitReserve(j) ==
    /\ At(j, "reserve")
    /\ \/ Reserved(j) /\ Goto(j, "items")
       \/ ReserveFails(j) /\ Goto(j, "record_failed")
    /\ UNCHANGED <<rowVars, queueVars, lock, owner, recovery, workerVars,
                   upstream>>

CreatePendingItems(j) ==
    /\ At(j, "items")
    /\ \/ NoFault /\ Goto(j, "upload")
       \/ Fault /\ Goto(j, "release")
    /\ UNCHANGED <<rowVars, billVars, queueVars, lock, owner, recovery,
                   workerVars, upstream>>

\* A refused transition means that the job is terminal: its status is kept.
SubmitUpload(j) ==
    /\ At(j, "upload")
    /\ \/ Moved(j, "uploading") /\ Goto(j, "provider")
       \/ /\ ~CanTransitionBatchImageJob(status[j], "uploading")
          /\ UNCHANGED rowVars /\ NoFault /\ Goto(j, "release_keep")
       \/ Fault /\ UNCHANGED rowVars /\ Goto(j, "release")
       \/ /\ LostAcks /\ Fault /\ TransitionBatchImageJobStatus(j, "uploading")
          /\ Goto(j, "release")
    /\ UNCHANGED <<billVars, queueVars, lock, owner, recovery, workerVars,
                   upstream>>

\* TouchBatchImageJobSubmitting, while the provider call runs.
SubmitHeartbeat(j) ==
    /\ At(j, "provider") /\ status[j] \in {"created", "uploading"}
    /\ stale' = stale \ {j}
    /\ UNCHANGED <<status, success, retry, actual, named, counted, hidden>>
    /\ UNCHANGED <<billVars, queueVars, lock, submit, owner, recovery,
                   workerVars, upstream, faults>>

ProviderSubmit(j) ==
    /\ At(j, "provider")
    /\ \/ upstream' = [upstream EXCEPT ![j] = "queued"] /\ NoFault /\ Goto(j, "persist")
       \/ UNCHANGED upstream /\ Fault /\ Goto(j, "release")
    /\ UNCHANGED <<rowVars, billVars, queueVars, lock, owner, recovery,
                   workerVars>>

\* Mutant: the provider's job is stored whatever happened to the row.
BugProviderSubmitUnchecked(j) ==
    /\ status' = [status EXCEPT ![j] = "submitted"]
    /\ named' = named \cup {j} /\ stale' = stale \ {j}
    /\ UNCHANGED <<success, retry, actual, counted, hidden>>

UpdateBatchImageJobProviderSubmit(j) ==
    /\ CanTransitionBatchImageJob(status[j], "submitted")
    /\ status' = [status EXCEPT ![j] = "submitted"]
    /\ named' = named \cup {j} /\ stale' = stale \ {j}
    /\ UNCHANGED <<success, retry, actual, counted, hidden>>

SubmitPersist(j) ==
    /\ At(j, "persist")
    /\ \/ UpdateBatchImageJobProviderSubmit(j) /\ NoFault /\ Goto(j, "enqueue")
       \/ /\ ~CanTransitionBatchImageJob(status[j], "submitted")
          /\ UNCHANGED rowVars /\ NoFault /\ Goto(j, "abort")
       \/ Fault /\ UNCHANGED rowVars /\ Goto(j, "abort")
       \/ LostAcks /\ Fault /\ UpdateBatchImageJobProviderSubmit(j) /\ Goto(j, "abort")
    /\ UNCHANGED <<billVars, queueVars, lock, owner, recovery, workerVars,
                   upstream>>

\* The provider ends a batch it still has; a finished one is left alone.
ProviderCancel(j) ==
    upstream' = [upstream EXCEPT ![j] = IF @ \in {"queued", "running"}
                                        THEN "cancelled" ELSE @]

AbortOrphanProviderJob(j) ==
    /\ At(j, "abort") /\ Goto(j, "done")
    /\ \/ ProviderCancel(j) /\ NoFault
       \/ UNCHANGED upstream /\ Fault
    /\ UNCHANGED <<rowVars, billVars, queueVars, lock, owner, recovery,
                   workerVars>>

SubmitEnqueue(j) ==
    /\ At(j, "enqueue")
    /\ \/ Enqueued(j) /\ Goto(j, "done")
       \/ EnqueueFails(j) /\ Goto(j, "queue_failed")
    /\ UNCHANGED <<rowVars, billVars, lock, owner, recovery, workerVars,
                   upstream>>

SubmitQueueFailed(j) ==
    /\ At(j, "queue_failed") /\ Goto(j, "done")
    /\ RecordQueueFailure(j)
    /\ UNCHANGED <<billVars, queueVars, lock, owner, recovery, workerVars,
                   upstream, faults>>

\* releaseFailedSubmitHold
SubmitRelease(j) ==
    /\ submit[j] \in {"release", "release_keep"}
    /\ \/ Released(j) /\ Goto(j, IF At(j, "release") THEN "record_failed" ELSE "done")
       \/ ReleaseFails(j) /\ Goto(j, "release_failed")
    /\ UNCHANGED <<rowVars, queueVars, lock, owner, recovery, workerVars,
                   upstream>>

\* hidePreUpstreamSubmitFailure follows and hides an ended row from its owner.
\* The errors of both are dropped.
RecordSubmitFailed(j) ==
    /\ At(j, "record_failed") /\ Goto(j, "done")
    /\ \/ /\ RecordBatchImageJobSubmitFailure(j)
          /\ \/ hidden' = hidden \cup {j} /\ NoFault
             \/ UNCHANGED hidden /\ Fault
       \/ /\ IsTerminalBatchImageJobStatus(status[j])
          /\ hidden' = hidden \cup {j} /\ Fault
          /\ UNCHANGED <<status, success, retry, actual, named, counted, stale>>
    /\ UNCHANGED <<billVars, queueVars, lock, owner, recovery, workerVars,
                   upstream>>

\* The billing retry is enqueued whether the failure is on record or not.
RecordReleaseFailed(j) ==
    /\ At(j, "release_failed") /\ Goto(j, "retry_enqueue")
    /\ \/ RecordBatchImageJobSubmitFailure(j) /\ NoFault /\ UNCHANGED hidden
       \/ Fault /\ UNCHANGED rowVars
    /\ UNCHANGED <<billVars, queueVars, lock, owner, recovery, workerVars,
                   upstream>>

SubmitRetryEnqueue(j) ==
    /\ At(j, "retry_enqueue") /\ Goto(j, "done")
    /\ Enqueued(j) \/ EnqueueFails(j)
    /\ UNCHANGED <<rowVars, billVars, lock, owner, recovery, workerVars,
                   upstream>>

\* The instance stops, or a write whose error is ignored is lost.
SubmitCrash(j) ==
    /\ submit[j] \notin {"idle", "done"} /\ Goto(j, "done") /\ Fault
    /\ UNCHANGED <<rowVars, billVars, queueVars, lock, owner, recovery,
                   workerVars, upstream>>

Submit(j) ==
    \/ CreateBatchImageJob(j) \/ SubmitReserve(j) \/ CreatePendingItems(j)
    \/ SubmitUpload(j) \/ SubmitHeartbeat(j) \/ ProviderSubmit(j) \/ SubmitPersist(j)
    \/ AbortOrphanProviderJob(j) \/ SubmitEnqueue(j) \/ SubmitQueueFailed(j)
    \/ SubmitRelease(j) \/ RecordSubmitFailed(j) \/ RecordReleaseFailed(j) \/ SubmitRetryEnqueue(j)
    \/ SubmitCrash(j)

------------------------------------------------------------------------------
(* The owner: Cancel, and Submit repeated with the same idempotency key.   *)

OwnerAt(j, p)   == owner[j] = p
OwnerGoto(j, p) == owner' = [owner EXCEPT ![j] = p]

\* The row is read once; what follows decides on what was read.
CancelRead(j) ==
    /\ OwnerAt(j, "idle") /\ status[j] # "none" /\ j \notin hidden
    /\ \/ status[j] \in {"failed", "cancelled"} /\ OwnerGoto(j, "cancel_release")
       \/ /\ ~IsProcessorDone(status[j])
          /\ OwnerGoto(j, IF j \in named THEN "cancel_provider"
                                             ELSE "cancel_transition")
    /\ UNCHANGED <<rowVars, billVars, queueVars, lock, submit, recovery,
                   workerVars, upstream, faults>>

CancelProvider(j) ==
    /\ OwnerAt(j, "cancel_provider")
    /\ \/ ProviderCancel(j) /\ NoFault /\ OwnerGoto(j, "cancel_enqueue")
       \/ UNCHANGED upstream /\ Fault /\ OwnerGoto(j, "idle")
    /\ UNCHANGED <<rowVars, billVars, queueVars, lock, submit, recovery,
                   workerVars>>

CancelTransition(j) ==
    /\ OwnerAt(j, "cancel_transition")
    /\ \/ Moved(j, "cancelled") /\ OwnerGoto(j, "cancel_release")
       \/ MoveFails(j, "cancelled") /\ OwnerGoto(j, "idle")
    /\ UNCHANGED <<billVars, queueVars, lock, submit, recovery, workerVars,
                   upstream>>

CancelRelease(j) ==
    /\ OwnerAt(j, "cancel_release")
    /\ \/ Released(j) /\ OwnerGoto(j, "idle")
       \/ ReleaseFails(j) /\ OwnerGoto(j, "cancel_retry")
    /\ UNCHANGED <<rowVars, queueVars, lock, submit, recovery, workerVars,
                   upstream>>

ResubmitRead(j) ==
    /\ OwnerAt(j, "idle") /\ status[j] = "submitted" /\ OwnerGoto(j, "resubmit")
    /\ UNCHANGED <<rowVars, billVars, queueVars, lock, submit, recovery,
                   workerVars, upstream, faults>>

OwnerEnqueue(j) ==
    /\ owner[j] \in {"cancel_enqueue", "cancel_retry", "resubmit"}
    /\ \/ Enqueued(j) /\ OwnerGoto(j, "idle")
       \/ /\ EnqueueFails(j)
          /\ OwnerGoto(j, IF OwnerAt(j, "resubmit") THEN "queue_failed" ELSE "idle")
    /\ UNCHANGED <<rowVars, billVars, lock, submit, recovery, workerVars,
                   upstream>>

ResubmitQueueFailed(j) ==
    /\ OwnerAt(j, "queue_failed") /\ OwnerGoto(j, "idle")
    /\ RecordQueueFailure(j)
    /\ UNCHANGED <<billVars, queueVars, lock, submit, recovery, workerVars,
                   upstream, faults>>

OwnerCrash(j) ==
    /\ ~OwnerAt(j, "idle") /\ OwnerGoto(j, "idle") /\ Fault
    /\ UNCHANGED <<rowVars, billVars, queueVars, lock, submit, recovery,
                   workerVars, upstream>>

Owner(j) ==
    \/ CancelRead(j) \/ CancelProvider(j) \/ CancelTransition(j) \/ CancelRelease(j)
    \/ ResubmitRead(j) \/ OwnerEnqueue(j) \/ ResubmitQueueFailed(j) \/ OwnerCrash(j)

------------------------------------------------------------------------------
(* BatchImageBillingRecoveryService.ReleaseStaleUnsubmittedOnce            *)

RecoveryGoto(j, p) == recovery' = [recovery EXCEPT ![j] = p]

\* updated_at falls behind the recovery's cutoff.
BecomeStale(j) ==
    /\ status[j] \in {"created", "uploading"} /\ j \notin stale
    /\ stale' = stale \cup {j}
    /\ UNCHANGED <<status, success, retry, actual, named, counted, hidden>>
    /\ UNCHANGED <<billVars, queueVars, lock, submit, owner, recovery,
                   workerVars, upstream, faults>>

\* The UPDATE checks again what the list was selected by.
StaleUnsubmitted(j) ==
    /\ status[j] \in {"created", "uploading"}
    /\ j \notin named /\ j \in stale

FailStaleUnsubmitted(j) ==
    /\ recovery[j] = "idle" /\ StaleUnsubmitted(j)
    /\ SetStatus(j, "failed") /\ RecoveryGoto(j, "release")
    /\ UNCHANGED <<billVars, queueVars, lock, submit, owner, workerVars,
                   upstream, faults>>

RecoveryRelease(j) ==
    /\ recovery[j] = "release"
    /\ \/ Released(j) /\ RecoveryGoto(j, "idle")
       \/ ReleaseFails(j) /\ RecoveryGoto(j, "retry")
    /\ UNCHANGED <<rowVars, queueVars, lock, submit, owner, workerVars,
                   upstream>>

RecoveryRetry(j) ==
    /\ recovery[j] = "retry" /\ RecoveryGoto(j, "idle")
    /\ Enqueued(j) \/ EnqueueFails(j)
    /\ UNCHANGED <<rowVars, billVars, lock, submit, owner, workerVars,
                   upstream>>

RecoveryCrash(j) ==
    /\ recovery[j] # "idle" /\ RecoveryGoto(j, "idle") /\ Fault
    /\ UNCHANGED <<rowVars, billVars, queueVars, lock, submit, owner,
                   workerVars, upstream>>

Recovery(j) ==
    \/ BecomeStale(j) \/ FailStaleUnsubmitted(j) \/ RecoveryRelease(j)
    \/ RecoveryRetry(j) \/ RecoveryCrash(j)

------------------------------------------------------------------------------
(* BatchImageWorker.RunOnce                                                *)

WorkerAt(w, p) == pc[w] = p

\* Local variables that are not read again are forgotten.
WorkerGoto(w, p) ==
    /\ pc' = [pc EXCEPT ![w] = p]
    /\ seen' = [seen EXCEPT ![w] = "none"]
    /\ due' = [due EXCEPT ![w] = IF p = "mark" THEN @ ELSE 0]
    /\ UNCHANGED at

\* From Reserve until its queue entry is acknowledged or put back.
Busy(w, j) == pc[w] \notin {"idle", "unlock"} /\ at[w] = j

Reserve(w) ==
    /\ WorkerAt(w, "idle")
    /\ \E j \in Jobs :
          /\ ready[j] > 0
          /\ ready' = [ready EXCEPT ![j] = @ - 1]
          /\ active' = active \cup {j}
          /\ pc' = [pc EXCEPT ![w] = "lock"] /\ at' = [at EXCEPT ![w] = j]
    /\ UNCHANGED <<seen, due, rowVars, billVars, delayed, inflight, lock,
                   submit, owner, recovery, upstream, faults>>

TryAcquireJobLock(w) ==
    /\ WorkerAt(w, "lock")
    /\ LET j == at[w] IN
       \/ /\ lock[j] = Free /\ lock' = [lock EXCEPT ![j] = w]
          /\ NoFault /\ WorkerGoto(w, "pipeline")
       \/ /\ lock[j] # Free /\ UNCHANGED lock
          /\ NoFault /\ WorkerGoto(w, "requeue")
       \/ /\ UNCHANGED lock \/ (LostAcks /\ lock[j] = Free /\ lock' = [lock EXCEPT ![j] = Orphan])
          /\ Fault /\ WorkerGoto(w, "requeue")
    /\ UNCHANGED <<rowVars, billVars, queueVars, submit, owner, recovery,
                   upstream>>

WorkerAck(w) ==
    /\ WorkerAt(w, "ack") /\ WorkerGoto(w, "unlock")
    /\ \/ Ack(at[w]) /\ NoFault
       \/ UNCHANGED queueVars /\ Fault
    /\ UNCHANGED <<rowVars, billVars, lock, submit, owner, recovery, upstream>>

WorkerRequeue(w) ==
    /\ WorkerAt(w, "requeue") /\ WorkerGoto(w, "unlock")
    /\ \/ RequeueAfter(at[w]) /\ NoFault
       \/ UNCHANGED queueVars /\ Fault
    /\ UNCHANGED <<rowVars, billVars, lock, submit, owner, recovery, upstream>>

\* The deferred Release, of a lock that still has this worker's token.
ReleaseJobLock(w) ==
    /\ WorkerAt(w, "unlock") /\ WorkerGoto(w, "idle")
    /\ lock' = [lock EXCEPT ![at[w]] = IF @ = w THEN Free ELSE @]
    /\ UNCHANGED <<rowVars, billVars, queueVars, submit, owner, recovery,
                   upstream, faults>>

\* The instance stops; its lock key stays until it expires.
WorkerCrash(w) ==
    /\ ~WorkerAt(w, "idle") /\ WorkerGoto(w, "idle") /\ Fault
    /\ lock' = [lock EXCEPT ![at[w]] = IF @ = w THEN Orphan ELSE @]
    /\ UNCHANGED <<rowVars, billVars, queueVars, submit, owner, recovery,
                   upstream>>

\* Whichever read or call of the processor fails, the job is queued again.
WorkerError(w) ==
    /\ pc[w] \in {"pipeline", "process", "get", "index", "settle", "check"}
    /\ WorkerGoto(w, "requeue") /\ Fault
    /\ UNCHANGED <<rowVars, billVars, queueVars, lock, submit, owner, recovery,
                   upstream>>

------------------------------------------------------------------------------
(* BatchImagePipelineProcessor and BatchImageProviderProcessor             *)

WorkerKeeps == <<ready, delayed, active, inflight, lock, submit, owner, recovery>>

\* Mutant: a settling job goes to the provider processor too.
BugPipelineSkipsSettle(w) ==
    /\ WorkerAt(w, "pipeline") /\ WorkerGoto(w, "process")
    /\ UNCHANGED <<rowVars, billVars, upstream, faults>> /\ UNCHANGED WorkerKeeps

PipelineRead(w) ==
    /\ WorkerAt(w, "pipeline")
    /\ WorkerGoto(w, IF status[at[w]] = "settling" THEN "settle" ELSE "process")
    /\ UNCHANGED <<rowVars, billVars, upstream, faults>> /\ UNCHANGED WorkerKeeps

ProcessRead(w) ==
    /\ WorkerAt(w, "process")
    /\ LET j == at[w] IN
       WorkerGoto(w, IF status[j] \in {"failed", "cancelled"} THEN "release"
                     ELSE IF IsProcessorDone(status[j]) THEN "ack"
                     ELSE IF j \notin named THEN "requeue"
                     ELSE IF status[j] = "indexing" THEN "index"
                     ELSE "get")
    /\ UNCHANGED <<rowVars, billVars, upstream, faults>> /\ UNCHANGED WorkerKeeps

ProviderGet(w) ==
    /\ WorkerAt(w, "get")
    /\ LET state == upstream[at[w]] IN
       IF state = "queued"
       THEN WorkerGoto(w, "requeue")
       ELSE /\ pc' = [pc EXCEPT ![w] = "apply"]
            /\ seen' = [seen EXCEPT ![w] = state]
            /\ UNCHANGED <<at, due>>
    /\ UNCHANGED <<rowVars, billVars, upstream, faults>> /\ UNCHANGED WorkerKeeps

\* The status a provider state leads to, and what the worker does next.
TargetStatus(state) ==
    CASE state = "running"   -> "running"
      [] state = "succeeded" -> "indexing"
      [] state = "cancelled" -> "cancelled"
      [] OTHER               -> "failed"

AfterTarget(state) ==
    CASE state = "running"   -> "requeue"
      [] state = "succeeded" -> "index"
      [] OTHER               -> "release"

ApplyProviderState(w) ==
    /\ WorkerAt(w, "apply")
    /\ LET j == at[w]  to == TargetStatus(seen[w]) IN
       \/ Moved(j, to) /\ WorkerGoto(w, AfterTarget(seen[w]))
       \/ MoveFails(j, to) /\ WorkerGoto(w, "requeue")
    /\ UNCHANGED <<billVars, upstream>> /\ UNCHANGED WorkerKeeps

\* Mutants: the items are replaced in any status; a repeated result counts twice.
BugReplaceAnyStatus(j) ==
    /\ \E n \in 0..Items : success' = [success EXCEPT ![j] = n]
    /\ UNCHANGED <<status, retry, actual, named, counted, stale, hidden>>
BugReplaceRepeated(j) ==
    /\ status[j] = "indexing"
    /\ \E n \in 0..(2 * Items) : success' = [success EXCEPT ![j] = n]
    /\ UNCHANGED <<status, retry, actual, named, counted, stale, hidden>>

\* ReplaceBatchImageItemsForJob: items and counts, in status indexing only.
\* Every item that has no result counts as failed.
ReplaceBatchImageItemsForJob(j) ==
    /\ status[j] = "indexing"
    /\ \E n \in 0..Items : success' = [success EXCEPT ![j] = n]
    /\ UNCHANGED <<status, retry, actual, named, counted, stale, hidden>>

IndexResults(w) ==
    /\ WorkerAt(w, "index")
    /\ LET j == at[w] IN
       \/ ReplaceBatchImageItemsForJob(j) /\ NoFault /\ WorkerGoto(w, "indexed")
       \/ status[j] # "indexing" /\ UNCHANGED rowVars /\ NoFault /\ WorkerGoto(w, "requeue")
       \/ Fault /\ UNCHANGED rowVars /\ WorkerGoto(w, "index_failed")
       \/ LostAcks /\ Fault /\ ReplaceBatchImageItemsForJob(j) /\ WorkerGoto(w, "index_failed")
    /\ UNCHANGED <<billVars, upstream>> /\ UNCHANGED WorkerKeeps

IndexingFailed(w) ==
    /\ WorkerAt(w, "index_failed")
    /\ \/ Moved(at[w], "failed") /\ WorkerGoto(w, "release")
       \/ MoveFails(at[w], "failed") /\ WorkerGoto(w, "requeue")
    /\ UNCHANGED <<billVars, upstream>> /\ UNCHANGED WorkerKeeps

IndexingCompleted(w) ==
    /\ WorkerAt(w, "indexed") /\ WorkerGoto(w, "requeue")
    /\ Moved(at[w], "settling") \/ MoveFails(at[w], "settling")
    /\ UNCHANGED <<billVars, upstream>> /\ UNCHANGED WorkerKeeps

ReleaseTerminalHold(w) ==
    /\ WorkerAt(w, "release")
    /\ \/ Released(at[w]) /\ WorkerGoto(w, "ack")
       \/ ReleaseFails(at[w]) /\ WorkerGoto(w, "requeue")
    /\ UNCHANGED <<rowVars, upstream>> /\ UNCHANGED WorkerKeeps

------------------------------------------------------------------------------
(* BatchImageSettlementService.Settle                                      *)

\* retry_count is compared with the limit only, so it stops counting there;
\* counted says that last_error_code is a SETTLEMENT_ code.
SettlementRetryExhausted(j) == retry[j] >= MaxRetries /\ j \in counted

SettleRead(w) ==
    /\ WorkerAt(w, "settle")
    /\ LET j == at[w]  cost == ActualCost(success[j]) IN
       IF status[j] = "completed" THEN WorkerGoto(w, "ack")
       ELSE IF status[j] # "settling" THEN WorkerGoto(w, "requeue")
       ELSE IF SettlementRetryExhausted(j) THEN WorkerGoto(w, "exhaust")
       ELSE IF cost > HoldAmount THEN WorkerGoto(w, "settle_failed")
       ELSE /\ pc' = [pc EXCEPT ![w] = "capture"]
            /\ due' = [due EXCEPT ![w] = cost]
            /\ UNCHANGED <<at, seen>>
    /\ UNCHANGED <<rowVars, billVars, upstream, faults>> /\ UNCHANGED WorkerKeeps

SettleCapture(w) ==
    /\ WorkerAt(w, "capture")
    /\ \/ Captured(at[w], due[w]) /\ WorkerGoto(w, "mark")
       \/ CaptureFails(at[w], due[w]) /\ WorkerGoto(w, "settle_failed")
    /\ UNCHANGED <<rowVars, upstream>> /\ UNCHANGED WorkerKeeps

MarkBatchImageJobSettled(j, cost) ==
    /\ status[j] = "settling"
    /\ status' = [status EXCEPT ![j] = "completed"]
    /\ actual' = [actual EXCEPT ![j] = cost]
    /\ UNCHANGED <<success, retry, named, counted, stale, hidden>>

SettleMark(w) ==
    /\ WorkerAt(w, "mark")
    /\ LET j == at[w] IN
       \/ MarkBatchImageJobSettled(j, due[w]) /\ NoFault /\ WorkerGoto(w, "ack")
       \/ status[j] # "settling" /\ UNCHANGED rowVars /\ NoFault /\ WorkerGoto(w, "requeue")
       \/ Fault /\ UNCHANGED rowVars /\ WorkerGoto(w, "requeue")
       \/ LostAcks /\ Fault /\ MarkBatchImageJobSettled(j, due[w])
          /\ WorkerGoto(w, "requeue")
    /\ UNCHANGED <<billVars, upstream>> /\ UNCHANGED WorkerKeeps

\* SetBatchImageJobSettlementFailed counts whatever the status is.
CountSettlementFailure(j) ==
    /\ retry' = [retry EXCEPT ![j] = IF @ < MaxRetries THEN @ + 1 ELSE @]
    /\ counted' = counted \cup {j}
    /\ UNCHANGED <<status, success, actual, named, stale, hidden>>

RecordSettlementFailure(w) ==
    /\ WorkerAt(w, "settle_failed")
    /\ LET j == at[w] IN
       \/ /\ CountSettlementFailure(j) /\ NoFault
          /\ WorkerGoto(w, IF retry[j] + 1 >= MaxRetries THEN "exhaust" ELSE "check")
       \/ /\ UNCHANGED rowVars \/ CountSettlementFailure(j)     \* its event alone fails
          /\ Fault /\ WorkerGoto(w, "check")
    /\ UNCHANGED <<billVars, upstream>> /\ UNCHANGED WorkerKeeps

ReleaseExhausted(w) ==
    /\ WorkerAt(w, "exhaust")
    /\ \/ Released(at[w]) /\ WorkerGoto(w, "fail_job")
       \/ ReleaseFails(at[w]) /\ WorkerGoto(w, "exhaust_failed")
    /\ UNCHANGED <<rowVars, upstream>> /\ UNCHANGED WorkerKeeps

RecordExhaustFailure(w) ==
    /\ WorkerAt(w, "exhaust_failed") /\ WorkerGoto(w, "check")
    /\ \/ CountSettlementFailure(at[w]) /\ NoFault
       \/ UNCHANGED rowVars /\ Fault
    /\ UNCHANGED <<billVars, upstream>> /\ UNCHANGED WorkerKeeps

FailExhausted(w) ==
    /\ WorkerAt(w, "fail_job")
    /\ \/ Moved(at[w], "failed") /\ WorkerGoto(w, "check")
       \/ MoveFails(at[w], "failed") /\ WorkerGoto(w, "requeue")
    /\ UNCHANGED <<billVars, upstream>> /\ UNCHANGED WorkerKeeps

\* After a billing failure the pipeline looks whether the job ended.
CheckTerminal(w) ==
    /\ WorkerAt(w, "check")
    /\ WorkerGoto(w, IF IsTerminalBatchImageJobStatus(status[at[w]])
                     THEN "ack" ELSE "requeue")
    /\ UNCHANGED <<rowVars, billVars, upstream, faults>> /\ UNCHANGED WorkerKeeps

Process(w) ==
    \/ PipelineRead(w) \/ ProcessRead(w) \/ ProviderGet(w) \/ ApplyProviderState(w)
    \/ IndexResults(w) \/ IndexingFailed(w) \/ IndexingCompleted(w) \/ ReleaseTerminalHold(w)
    \/ SettleRead(w) \/ SettleCapture(w) \/ SettleMark(w) \/ RecordSettlementFailure(w)
    \/ ReleaseExhausted(w) \/ RecordExhaustFailure(w) \/ FailExhausted(w) \/ CheckTerminal(w)

Work(w) ==
    \/ Reserve(w) \/ TryAcquireJobLock(w) \/ WorkerAck(w) \/ WorkerRequeue(w)
    \/ ReleaseJobLock(w) \/ Process(w) \/ WorkerError(w) \/ WorkerCrash(w)

------------------------------------------------------------------------------
(* Queue maintenance, expiry, cleanup and the provider                     *)

MoveDueDelayedToReady(j) ==
    /\ j \in delayed /\ ready[j] < MaxReady
    /\ delayed' = delayed \ {j}
    /\ ready' = [ready EXCEPT ![j] = @ + 1]
    /\ UNCHANGED <<rowVars, billVars, active, inflight, lock, submit, owner,
                   recovery, workerVars, upstream, faults>>

\* Mutant: an active job is recovered whether its worker is alive or not.
BugRecoverAlive(j) == TRUE

\* The worker's heartbeat refreshes its active entry and its lock together.
HeartbeatLate(j) == Slow \/ \A w \in Workers : ~Busy(w, j)

RecoverStaleActive(j) ==
    /\ j \in active /\ HeartbeatLate(j) /\ ready[j] < MaxReady
    /\ active' = active \ {j}
    /\ ready' = [ready EXCEPT ![j] = @ + 1]
    /\ UNCHANGED <<rowVars, billVars, delayed, inflight, lock, submit, owner,
                   recovery, workerVars, upstream, faults>>

\* Mutant: the lock key has no TTL.
BugLockWithoutTTL(j) == FALSE /\ UNCHANGED vars

JobLockExpires(j) ==
    /\ lock[j] = Orphan \/ (Slow /\ lock[j] # Free)
    /\ lock' = [lock EXCEPT ![j] = Free]
    /\ UNCHANGED <<rowVars, billVars, queueVars, submit, owner, recovery,
                   workerVars, upstream, faults>>

\* The inflight key is set for inflightTTL, seven days unless configured, and
\* nothing renews it: after that the job can be enqueued once more.
InflightExpires(j) ==
    /\ Slow /\ j \in inflight /\ ready[j] < MaxReady
    /\ inflight' = inflight \ {j}
    /\ UNCHANGED <<rowVars, billVars, ready, delayed, active, lock, submit, owner,
                   recovery, workerVars, upstream, faults>>

MarkBatchImageOutputDeleted(j) ==
    /\ status[j] = "completed" /\ SetStatus(j, "output_deleted")
    /\ UNCHANGED <<billVars, queueVars, lock, submit, owner, recovery,
                   workerVars, upstream, faults>>

ProviderAdvances(j) ==
    /\ \/ upstream[j] = "queued" /\ upstream' = [upstream EXCEPT ![j] = "running"]
       \/ /\ upstream[j] \in {"queued", "running"}
          /\ \E s \in {"succeeded", "failed"} : upstream' = [upstream EXCEPT ![j] = s]
    /\ UNCHANGED <<rowVars, billVars, queueVars, lock, submit, owner, recovery,
                   workerVars, faults>>

Environment(j) ==
    \/ MoveDueDelayedToReady(j) \/ RecoverStaleActive(j) \/ JobLockExpires(j)
    \/ InflightExpires(j) \/ MarkBatchImageOutputDeleted(j) \/ ProviderAdvances(j)

Next ==
    \/ \E j \in Jobs : Submit(j) \/ Owner(j) \/ Recovery(j) \/ Environment(j)
    \/ \E w \in Workers : Work(w)

Spec == Init /\ [][Next]_vars

\* A request in progress and the loops of a running instance go on until
\* they end or the instance stops, which is a fault; updated_at falls behind
\* the cutoff of the recovery loop, a lock key expires and a provider's batch ends.
SubmitRuns(j) ==
    \/ SubmitReserve(j) \/ CreatePendingItems(j) \/ SubmitUpload(j) \/ ProviderSubmit(j)
    \/ SubmitPersist(j) \/ AbortOrphanProviderJob(j) \/ SubmitEnqueue(j)
    \/ SubmitQueueFailed(j) \/ SubmitRelease(j) \/ RecordSubmitFailed(j)
    \/ RecordReleaseFailed(j) \/ SubmitRetryEnqueue(j)
OwnerRuns(j) ==
    \/ CancelProvider(j) \/ CancelTransition(j) \/ CancelRelease(j)
    \/ OwnerEnqueue(j) \/ ResubmitQueueFailed(j)
RecoveryRuns(j) == FailStaleUnsubmitted(j) \/ RecoveryRelease(j) \/ RecoveryRetry(j)
WorkerRuns(w) ==
    \/ Reserve(w) \/ TryAcquireJobLock(w) \/ WorkerAck(w) \/ WorkerRequeue(w)
    \/ ReleaseJobLock(w) \/ Process(w)

Fairness ==
    /\ \A w \in Workers : WF_vars(WorkerRuns(w))
    /\ \A j \in Jobs : /\ WF_vars(SubmitRuns(j))
                       /\ WF_vars(OwnerRuns(j))
                       /\ WF_vars(BecomeStale(j))
                       /\ WF_vars(RecoveryRuns(j))
                       /\ WF_vars(MoveDueDelayedToReady(j))
                       /\ WF_vars(RecoverStaleActive(j))
                       /\ WF_vars(JobLockExpires(j))
                       /\ WF_vars(ProviderAdvances(j))

LiveSpec == Spec /\ Fairness

------------------------------------------------------------------------------
(* Properties.  Those up to TerminalSticks hold whatever fails and however *)
(* late the heartbeats come; InFlight and OneWorker when heartbeats come   *)
(* in time; RetriesAreFaults, PoolIntact and the contract when, besides,   *)
(* fewer calls fail than settlement is retried (FaultsBelowLimit).         *)

\* A job whose owner has the hold back is never worked on towards a result:
\* releaseFailedSubmitHold, Cancel, the recovery and the workers release only
\* what no later statement can move to submitted, running or indexing.
NoFreeRun ==
    \A j \in Jobs : j \in refunded =>
        status[j] \notin {"submitted", "running", "indexing"}

\* A completed job was captured once, for the images its row shows, however
\* often and by however many workers Settle ran, also when a worker stopped
\* between the capture and MarkBatchImageJobSettled.
SettledOnce ==
    \A j \in Jobs : status[j] \in {"completed", "output_deleted"} =>
        /\ j \in captured
        /\ charged[j] = actual[j]
        /\ actual[j] = ActualCost(success[j])

\* The inflight key, which refuses every further Enqueue, is never left
\* behind without the job in the ready list, the delayed or the active set.
QueueCovers ==
    \A j \in inflight : ready[j] > 0 \/ j \in delayed \/ j \in active

\* The frozen balance is what other batches hold plus one hold for each job
\* reserved, less one for each job captured and one for each job refunded,
\* also when a job is both, as late heartbeats or the retry limit allow if
\* Pool is at least a hold: no claim of a request id moves money twice, and
\* none is made without its movement.
FrozenLedger ==
    frozen = Pool + HoldAmount * (Cardinality(held) - Cardinality(captured)
                                                    - Cardinality(refunded))

\* Money leaves the user only when a job is captured for the first time, and
\* then as much as is charged to that job; no hold, release, repeated capture
\* or lost answer changes what balance and frozen balance add up to.
MoneyLeavesByCapture ==
    [][\/ balance' + frozen' = balance + frozen /\ UNCHANGED charged
       \/ \E j \in captured' \ captured :
            charged' = [charged EXCEPT ![j] = balance + frozen - balance' - frozen']]_vars

\* An ended job stays ended, and a settled one never becomes a failed one,
\* though RecordBatchImageJobSubmitFailure writes failed over any status.
TerminalSticks ==
    [][\A j \in Jobs : IsTerminalBatchImageJobStatus(status[j]) =>
          /\ IsTerminalBatchImageJobStatus(status'[j])
          /\ status[j] \in {"completed", "output_deleted"} =>
                status'[j] \in {"completed", "output_deleted"}]_vars

\* A job the workers have begun and not ended is in flight: no Ack of a
\* worker takes a running, indexing or settling job out of the queue, from
\* where nothing would bring it back.
InFlight ==
    \A j \in Jobs : status[j] \in {"running", "indexing", "settling"} => j \in inflight

\* As long as heartbeats come in time, no two workers are at work on the same
\* job, from taking it off the ready list until it is acknowledged or queued
\* again: neither the recovery of active entries, nor a requeue, nor a second
\* Enqueue by a cancelling or repeating owner hands it out twice.
OneWorker ==
    ~Slow => \A w, v \in Workers :
        at[w] = at[v] /\ Busy(w, at[w]) /\ Busy(v, at[v]) => w = v

FaultsBelowLimit ==
    ~Slow /\ MaxFaults + (IF LostAcks THEN 1 ELSE 0) <= MaxRetries

\* What is frozen is what the user's other batches hold plus the open holds
\* of these jobs: no capture or release, done twice or for a hold that has
\* ended, takes money another batch has frozen.  (Follows from FrozenLedger and
\* ContractSpec.)
OpenHolds == {j \in Jobs : j \in held /\ j \notin captured /\ j \notin refunded}
PoolIntact ==
    FaultsBelowLimit => frozen = Pool + HoldAmount * Cardinality(OpenHolds)

\* No settlement attempt fails, and counts against the limit that ends in a
\* refund, by itself: the hold covers the cost and the frozen balance the hold.
RetriesAreFaults ==
    FaultsBelowLimit => \A j \in Jobs : retry[j] <= faults

\* The jobs implement the billing contract: a hold ends in one charge or in
\* one refund, never in both.
Stage == [j \in Jobs |-> IF j \in captured
                         THEN IF j \in refunded THEN "both" ELSE "charged"
                         ELSE IF j \in refunded THEN "refunded"
                         ELSE IF j \in held THEN "held" ELSE "open"]
Contract == INSTANCE BatchImageContract WITH stage <- Stage
ContractSpec == Contract!Spec

\* A job in the queue whose balance is held has the hold captured or released
\* in the end: no retry, lock or requeue loop keeps it there for ever.
QueuedHoldCloses ==
    \A j \in Jobs : (j \in held /\ j \in inflight) ~> (j \in captured \/ j \in released)
=============================================================================
