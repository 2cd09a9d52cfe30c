-------------------------- MODULE BatchImageProofs --------------------------
(***************************************************************************)
(* Proofs about BatchImageJob for every number of jobs and workers, every  *)
(* price and every bound on faults and retries.                            *)
(***************************************************************************)
EXTENDS BatchImageJob, FiniteSetTheorems, TLAPS

------------------------------------------------------------------------------
(* The inductive invariant.                                                *)

Early    == {"none", "created", "uploading", "failed", "cancelled"}
Sent     == {"submitted", "running", "indexing", "settling", "completed", "output_deleted"}
Ended    == {"failed", "cancelled"}
Late     == {"settling", "failed", "completed", "output_deleted"}
Settling == {"capture", "mark", "settle_failed", "exhaust", "exhaust_failed", "fail_job"}
Gone     == {"record_failed", "release_failed", "retry_enqueue", "done"}

\* Until it stores the provider's job, nobody takes the row past its submission.
SubmitFirst == \A j \in Jobs :
    /\ submit[j] = "idle" <=> status[j] = "none"
    /\ submit[j] \notin {"enqueue", "abort", "queue_failed", "done"} => status[j] \in Early

\* Whoever is about to release has seen the job ended, or settling.
ReleaseSeen ==
    /\ \A j \in Jobs : owner[j] = "cancel_release" => status[j] \in Ended
    /\ \A j \in Jobs : recovery[j] = "release" => status[j] \in Ended
    /\ \A w \in Workers : pc[w] = "release" => status[at[w]] \in Ended
    /\ \A w \in Workers : pc[w] \in Settling => status[at[w]] \in Late

\* A hold is refunded only where no later step can send the job upstream.
RefundedEarly == \A j \in refunded :
    /\ status[j] \notin {"submitted", "running", "indexing"}
    /\ status[j] \in {"none", "created", "uploading"} => submit[j] \in Gone

\* The images a job is charged for are those its row shows.
ChargedRight ==
    /\ \A w \in Workers : pc[w] \in {"capture", "mark"} => due[w] = ActualCost(success[at[w]])
    /\ \A w \in Workers : pc[w] = "mark" => at[w] \in captured
    /\ \A j \in captured : status[j] \in Late /\ charged[j] = ActualCost(success[j])
    /\ \A j \in Jobs : j \notin captured => charged[j] = 0
    /\ \A j \in Jobs : status[j] \in {"completed", "output_deleted"} =>
          j \in captured /\ actual[j] = ActualCost(success[j])

\* Every job past the submission has its balance held.
HeldFirst ==
    /\ captured \subseteq held /\ refunded \subseteq held /\ refunded \subseteq released
    /\ \A j \in Jobs : submit[j] \in {"items", "upload", "provider", "persist"} => j \in held
    /\ \A j \in Jobs : status[j] \in Sent => j \in held
    /\ \A w \in Workers : pc[w] \in Settling => at[w] \in held

\* With heartbeats in time a job is in one place of the queue, and in the
\* hands of one worker while it is active.
OnePlace ==
    /\ \A j \in Jobs : ready[j] > 0 => ready[j] = 1 /\ j \in inflight /\ j \notin active
                                       /\ j \notin delayed
    /\ delayed \subseteq inflight /\ active \subseteq inflight
    /\ \A j \in delayed : j \notin active
    /\ \A w \in Workers : Busy(w, at[w]) => at[w] \in active
    /\ \A w, v \in Workers : at[w] = at[v] /\ Busy(w, at[w]) /\ Busy(v, at[v]) => w = v

\* ... so what a worker has seen of the row's status stays true.
StatusSeen ==
    /\ \A w \in Workers :
        /\ pc[w] \in {"process", "get", "apply"} => status[at[w]] # "settling"
        /\ pc[w] \in {"index", "index_failed", "indexed"} => status[at[w]] = "indexing"
        /\ pc[w] \in Settling \cup {"settle"} => status[at[w]] = "settling"
        /\ pc[w] = "ack" => IsTerminalBatchImageJobStatus(status[at[w]])
    /\ \A j \in Jobs : status[j] \in {"running", "indexing", "settling"} => j \in inflight

\* Each counted settlement failure has its fault, and a captured job that is
\* not being marked has one more, unless the capture's answer was lost.
FaultsCover ==
    /\ \A j \in Jobs : retry[j] <= faults
    /\ \A w \in Workers : pc[w] = "settle_failed" =>
          /\ retry[at[w]] < faults
          /\ at[w] \in captured => LostAcks \/ retry[at[w]] + 1 < faults
    /\ \A j \in captured : status[j] = "settling" =>
          \/ LostAcks
          \/ retry[j] < faults
          \/ \E w \in Workers : pc[w] = "mark" /\ at[w] = j

\* The hold of a job that reaches the retry limit is refunded, not charged.
OneEnd ==
    /\ \A w \in Workers : pc[w] \in {"exhaust", "exhaust_failed", "fail_job"} =>
          retry[at[w]] = MaxRetries
    /\ \A j \in refunded : status[j] = "settling" =>
          \E w \in Workers : pc[w] = "fail_job" /\ at[w] = j
    /\ \A j \in captured : status[j] # "failed" /\ j \notin refunded

\* The frozen balance, as a sum.
Frozen == frozen = Pool + HoldAmount * Cardinality(OpenHolds)

Base   == TypeOK /\ SubmitFirst /\ ReleaseSeen /\ RefundedEarly /\ ChargedRight
          /\ HeldFirst /\ QueueCovers
Prompt == OnePlace /\ StatusSeen
Budget == FaultsCover /\ OneEnd /\ Frozen

IInv == Base /\ (~Slow => Prompt) /\ (FaultsBelowLimit => Budget)

------------------------------------------------------------------------------
(* Types                                                                   *)

RowTypes ==
    /\ status \in [Jobs -> JobStatus \cup {"none"}]
    /\ success \in [Jobs -> 0..Items] /\ retry \in [Jobs -> 0..MaxRetries]
    /\ actual \in [Jobs -> Nat]
    /\ named \subseteq Jobs /\ counted \subseteq Jobs
    /\ stale \subseteq Jobs /\ hidden \subseteq Jobs
BillTypes ==
    /\ held \subseteq Jobs /\ captured \subseteq Jobs /\ released \subseteq Jobs
    /\ refunded \subseteq Jobs /\ charged \in [Jobs -> Nat]
    /\ balance \in Int /\ frozen \in Int
QueueTypes ==
    /\ ready \in [Jobs -> Nat]
    /\ delayed \subseteq Jobs /\ active \subseteq Jobs /\ inflight \subseteq Jobs
    /\ lock \in [Jobs -> Workers \cup {Free, Orphan}]
ActorTypes ==
    /\ submit \in [Jobs -> SubmitPC]
    /\ owner \in [Jobs -> OwnerPC]
    /\ recovery \in [Jobs -> {"idle", "release", "retry"}]
    /\ upstream \in [Jobs -> UpstreamState]
    /\ faults \in 0..MaxFaults
WorkerTypes ==
    /\ pc \in [Workers -> WorkerPC] /\ at \in [Workers -> Jobs]
    /\ seen \in [Workers -> UpstreamState] /\ due \in [Workers -> Nat]

USE BatchConstants DEF NoFault, Fault, rowVars, billVars, queueVars, workerVars

\* What a hold and an image cost.
LEMMA PriceTypes ==
    /\ HoldAmount \in Nat /\ HoldAmount > 0
    /\ \A n \in 0..Items : ActualCost(n) \in Nat /\ ActualCost(n) <= HoldAmount
<1>1. HoldUnitPrice \in Nat /\ HoldUnitPrice >= Discount BY DEF HoldUnitPrice
<1>2. ASSUME NEW a \in Nat, NEW b \in Nat, NEW c \in Nat, a <= b PROVE a * c <= b * c
  BY <1>2
<1>3. ASSUME NEW a \in Nat \ {0}, NEW b \in Nat \ {0} PROVE a * b \in Nat /\ a * b > 0
  BY <1>3
<1>4. HoldAmount \in Nat /\ HoldAmount > 0 BY <1>1, <1>3 DEF HoldAmount
<1>5. ASSUME NEW n \in 0..Items PROVE ActualCost(n) \in Nat /\ ActualCost(n) <= HoldAmount
  <2>1. n * Discount <= Items * Discount BY <1>2
  <2>2. Discount * Items <= HoldUnitPrice * Items BY <1>1, <1>2
  <2>3. n * Discount \in Nat /\ Items * Discount = Discount * Items
        /\ HoldUnitPrice * Items = Items * HoldUnitPrice BY <1>1
  <2> QED BY <1>4, <2>1, <2>2, <2>3 DEF ActualCost, HoldAmount
<1> QED BY <1>4, <1>5

\* The rows keep their types.
LEMMA RowTypesStep ==
    ASSUME TypeOK, Next
    PROVE  RowTypes'
<1> USE DEF TypeOK, RowTypes, JobStatus, IsTerminalBatchImageJobStatus
<1>1. ASSUME NEW j \in Jobs, Submit(j) PROVE RowTypes'
  <2>1. CASE SubmitReserve(j) \/ CreatePendingItems(j) \/ ProviderSubmit(j) \/
        AbortOrphanProviderJob(j) \/ SubmitEnqueue(j) \/ SubmitRelease(j) \/
        SubmitRetryEnqueue(j) \/ SubmitCrash(j)
    BY <2>1 DEF SubmitReserve, CreatePendingItems, ProviderSubmit,
      AbortOrphanProviderJob, SubmitEnqueue, SubmitRelease,
      SubmitRetryEnqueue, SubmitCrash
  <2>2. CASE CreateBatchImageJob(j)
    BY <2>2 DEF CreateBatchImageJob, At, Goto, SetStatus
  <2>3. CASE SubmitUpload(j)
    BY <2>3
    DEF SubmitUpload, At, Moved, Goto, CanTransitionBatchImageJob,
        TransitionBatchImageJobStatus, SetStatus
  <2>4. CASE SubmitHeartbeat(j) BY <2>4 DEF SubmitHeartbeat, At
  <2>5. CASE SubmitPersist(j)
    BY <2>5
    DEF SubmitPersist, At, UpdateBatchImageJobProviderSubmit, Goto,
        CanTransitionBatchImageJob
  <2>6. CASE SubmitQueueFailed(j)
    BY <2>6 DEF SubmitQueueFailed, At, Goto, RecordQueueFailure
  <2>7. CASE RecordSubmitFailed(j)
    BY <2>7 DEF RecordSubmitFailed, At, Goto, RecordBatchImageJobSubmitFailure
  <2>8. CASE RecordReleaseFailed(j)
    BY <2>8 DEF RecordReleaseFailed, At, Goto, RecordBatchImageJobSubmitFailure
  <2> QED BY <1>1, <2>1, <2>2, <2>3, <2>4, <2>5, <2>6, <2>7, <2>8 DEF Submit
<1>2. ASSUME NEW j \in Jobs, Owner(j) PROVE RowTypes'
  <2>1. CASE CancelRead(j) \/ CancelProvider(j) \/ CancelRelease(j) \/
        ResubmitRead(j) \/ OwnerEnqueue(j) \/ OwnerCrash(j)
    BY <2>1 DEF CancelRead, CancelProvider, CancelRelease, ResubmitRead,
      OwnerEnqueue, OwnerCrash
  <2>2. CASE CancelTransition(j)
    BY <2>2
    DEF CancelTransition, OwnerAt, Moved, OwnerGoto, MoveFails,
        CanTransitionBatchImageJob, TransitionBatchImageJobStatus, SetStatus
  <2>3. CASE ResubmitQueueFailed(j)
    BY <2>3 DEF ResubmitQueueFailed, OwnerAt, OwnerGoto, RecordQueueFailure
  <2> QED BY <1>2, <2>1, <2>2, <2>3 DEF Owner
<1>3. ASSUME NEW j \in Jobs, Recovery(j) PROVE RowTypes'
  <2>1. CASE RecoveryRelease(j) \/ RecoveryRetry(j) \/ RecoveryCrash(j)
    BY <2>1 DEF RecoveryRelease, RecoveryRetry, RecoveryCrash
  <2>2. CASE BecomeStale(j) BY <2>2 DEF BecomeStale
  <2>3. CASE FailStaleUnsubmitted(j)
    BY <2>3 DEF FailStaleUnsubmitted, StaleUnsubmitted, SetStatus, RecoveryGoto
  <2> QED BY <1>3, <2>1, <2>2, <2>3 DEF Recovery
<1>4. ASSUME NEW j \in Jobs, Environment(j) PROVE RowTypes'
  <2>1. CASE MoveDueDelayedToReady(j) \/ RecoverStaleActive(j) \/
        JobLockExpires(j) \/ InflightExpires(j) \/ ProviderAdvances(j)
    BY <2>1 DEF MoveDueDelayedToReady, RecoverStaleActive, JobLockExpires, InflightExpires,
      ProviderAdvances
  <2>2. CASE MarkBatchImageOutputDeleted(j)
    BY <2>2 DEF MarkBatchImageOutputDeleted, SetStatus
  <2> QED BY <1>4, <2>1, <2>2 DEF Environment
<1>5. ASSUME NEW w \in Workers, Work(w) PROVE RowTypes'
  <2>1. CASE Reserve(w) \/ TryAcquireJobLock(w) \/ WorkerAck(w) \/ WorkerRequeue(w) \/
        ReleaseJobLock(w) \/ WorkerError(w) \/ WorkerCrash(w) \/ PipelineRead(w) \/
        ProcessRead(w) \/ ProviderGet(w) \/ ReleaseTerminalHold(w) \/ SettleRead(w) \/
        SettleCapture(w) \/ ReleaseExhausted(w) \/ CheckTerminal(w)
    BY <2>1 DEF Reserve, TryAcquireJobLock, WorkerAck, WorkerRequeue,
      ReleaseJobLock, WorkerError, WorkerCrash, PipelineRead, ProcessRead,
      ProviderGet, ReleaseTerminalHold, SettleRead, SettleCapture,
      ReleaseExhausted, CheckTerminal, WorkerKeeps, WorkerGoto
  <2>2. CASE ApplyProviderState(w)
    BY <2>2
    DEF ApplyProviderState, WorkerAt, TargetStatus, Moved, WorkerGoto, AfterTarget,
        MoveFails, WorkerKeeps, CanTransitionBatchImageJob,
        TransitionBatchImageJobStatus, SetStatus
  <2>3. CASE IndexResults(w)
    BY <2>3
    DEF IndexResults, WorkerAt, ReplaceBatchImageItemsForJob, WorkerGoto,
        WorkerKeeps
  <2>4. CASE IndexingFailed(w)
    BY <2>4
    DEF IndexingFailed, WorkerAt, Moved, WorkerGoto, MoveFails, WorkerKeeps,
        CanTransitionBatchImageJob, TransitionBatchImageJobStatus, SetStatus
  <2>5. CASE IndexingCompleted(w)
    BY <2>5
    DEF IndexingCompleted, WorkerAt, WorkerGoto, Moved, MoveFails, WorkerKeeps,
        CanTransitionBatchImageJob, TransitionBatchImageJobStatus, SetStatus
  <2>6. CASE SettleMark(w)
    BY <2>6
    DEF SettleMark, WorkerAt, MarkBatchImageJobSettled, WorkerGoto, WorkerKeeps
  <2>7. CASE RecordSettlementFailure(w)
    BY <2>7
    DEF RecordSettlementFailure, WorkerAt, CountSettlementFailure, WorkerGoto,
        WorkerKeeps
  <2>8. CASE RecordExhaustFailure(w)
    BY <2>8
    DEF RecordExhaustFailure, WorkerAt, WorkerGoto, CountSettlementFailure,
        WorkerKeeps
  <2>9. CASE FailExhausted(w)
    BY <2>9
    DEF FailExhausted, WorkerAt, Moved, WorkerGoto, MoveFails, WorkerKeeps,
        CanTransitionBatchImageJob, TransitionBatchImageJobStatus, SetStatus
  <2> QED BY <1>5, <2>1, <2>2, <2>3, <2>4, <2>5, <2>6, <2>7, <2>8, <2>9 DEF Work, Process
<1> QED BY <1>1, <1>2, <1>3, <1>4, <1>5 DEF Next

\* Billing keeps its types.
LEMMA BillTypesStep ==
    ASSUME TypeOK, Next
    PROVE  BillTypes'
<1> USE DEF TypeOK, BillTypes
<1>1. ASSUME NEW j \in Jobs, Submit(j) PROVE BillTypes'
  <2>1. CASE CreateBatchImageJob(j) \/ CreatePendingItems(j) \/ SubmitUpload(j) \/
        SubmitHeartbeat(j) \/ ProviderSubmit(j) \/ SubmitPersist(j) \/
        AbortOrphanProviderJob(j) \/ SubmitEnqueue(j) \/ SubmitQueueFailed(j) \/
        RecordSubmitFailed(j) \/ RecordReleaseFailed(j) \/ SubmitRetryEnqueue(j) \/
        SubmitCrash(j)
    BY <2>1 DEF CreateBatchImageJob, CreatePendingItems, SubmitUpload,
      SubmitHeartbeat, ProviderSubmit, SubmitPersist, AbortOrphanProviderJob,
      SubmitEnqueue, SubmitQueueFailed, RecordSubmitFailed,
      RecordReleaseFailed, SubmitRetryEnqueue, SubmitCrash
  <2>2. CASE SubmitReserve(j)
    BY <2>2, PriceTypes
    DEF SubmitReserve, At, Reserved, Goto, ReserveFails, CanReserve,
        ReserveBatchImageBalance
  <2>3. CASE SubmitRelease(j)
    BY <2>3, PriceTypes
    DEF SubmitRelease, Released, Goto, At, ReleaseFails, CanRelease,
        ReleaseBatchImageBalance
  <2> QED BY <1>1, <2>1, <2>2, <2>3 DEF Submit
<1>2. ASSUME NEW j \in Jobs, Owner(j) PROVE BillTypes'
  <2>1. CASE CancelRead(j) \/ CancelProvider(j) \/ CancelTransition(j) \/
        ResubmitRead(j) \/ OwnerEnqueue(j) \/ ResubmitQueueFailed(j) \/
        OwnerCrash(j)
    BY <2>1 DEF CancelRead, CancelProvider, CancelTransition, ResubmitRead,
      OwnerEnqueue, ResubmitQueueFailed, OwnerCrash
  <2>2. CASE CancelRelease(j)
    BY <2>2, PriceTypes
    DEF CancelRelease, OwnerAt, Released, OwnerGoto, ReleaseFails, CanRelease,
        ReleaseBatchImageBalance
  <2> QED BY <1>2, <2>1, <2>2 DEF Owner
<1>3. ASSUME NEW j \in Jobs, Recovery(j) PROVE BillTypes'
  <2>1. CASE BecomeStale(j) \/ FailStaleUnsubmitted(j) \/ RecoveryRetry(j) \/
        RecoveryCrash(j)
    BY <2>1 DEF BecomeStale, FailStaleUnsubmitted, RecoveryRetry,
      RecoveryCrash
  <2>2. CASE RecoveryRelease(j)
    BY <2>2, PriceTypes
    DEF RecoveryRelease, Released, RecoveryGoto, ReleaseFails, CanRelease,
        ReleaseBatchImageBalance
  <2> QED BY <1>3, <2>1, <2>2 DEF Recovery
<1>4. ASSUME NEW j \in Jobs, Environment(j) PROVE BillTypes'
  <2>1. CASE MoveDueDelayedToReady(j) \/ RecoverStaleActive(j) \/
        JobLockExpires(j) \/ InflightExpires(j) \/ MarkBatchImageOutputDeleted(j) \/ ProviderAdvances(j)
    BY <2>1 DEF MoveDueDelayedToReady, RecoverStaleActive, JobLockExpires, InflightExpires,
      MarkBatchImageOutputDeleted, ProviderAdvances
  <2> QED BY <1>4, <2>1 DEF Environment
<1>5. ASSUME NEW w \in Workers, Work(w) PROVE BillTypes'
  <2>1. CASE Reserve(w) \/ TryAcquireJobLock(w) \/ WorkerAck(w) \/ WorkerRequeue(w) \/
        ReleaseJobLock(w) \/ WorkerError(w) \/ WorkerCrash(w) \/ PipelineRead(w) \/
        ProcessRead(w) \/ ProviderGet(w) \/ ApplyProviderState(w) \/
        IndexResults(w) \/ IndexingFailed(w) \/ IndexingCompleted(w) \/
        SettleRead(w) \/ SettleMark(w) \/ RecordSettlementFailure(w) \/
        RecordExhaustFailure(w) \/ FailExhausted(w) \/ CheckTerminal(w)
    BY <2>1 DEF Reserve, TryAcquireJobLock, WorkerAck, WorkerRequeue,
      ReleaseJobLock, WorkerError, WorkerCrash, PipelineRead, ProcessRead,
      ProviderGet, ApplyProviderState, IndexResults, IndexingFailed,
      IndexingCompleted, SettleRead, SettleMark, RecordSettlementFailure,
      RecordExhaustFailure, FailExhausted, CheckTerminal, WorkerKeeps,
      WorkerGoto
  <2>2. CASE ReleaseTerminalHold(w)
    BY <2>2, PriceTypes
    DEF ReleaseTerminalHold, WorkerAt, Released, WorkerGoto, ReleaseFails,
        WorkerKeeps, CanRelease, ReleaseBatchImageBalance
  <2>3. CASE SettleCapture(w)
    BY <2>3, PriceTypes
    DEF SettleCapture, WorkerAt, Captured, WorkerGoto, CaptureFails, WorkerKeeps,
        CanCapture, CaptureBatchImageBalance
  <2>4. CASE ReleaseExhausted(w)
    BY <2>4, PriceTypes
    DEF ReleaseExhausted, WorkerAt, Released, WorkerGoto, ReleaseFails, WorkerKeeps,
        CanRelease, ReleaseBatchImageBalance
  <2> QED BY <1>5, <2>1, <2>2, <2>3, <2>4 DEF Work, Process
<1> QED BY <1>1, <1>2, <1>3, <1>4, <1>5 DEF Next

\* The queue and the locks keep their types.
LEMMA QueueTypesStep ==
    ASSUME TypeOK, Next
    PROVE  QueueTypes'
<1> USE DEF TypeOK, QueueTypes
<1>1. ASSUME NEW j \in Jobs, Submit(j) PROVE QueueTypes'
  <2>1. CASE CreateBatchImageJob(j) \/ SubmitReserve(j) \/ CreatePendingItems(j) \/
        SubmitUpload(j) \/ SubmitHeartbeat(j) \/ ProviderSubmit(j) \/
        SubmitPersist(j) \/ AbortOrphanProviderJob(j) \/ SubmitQueueFailed(j) \/
        SubmitRelease(j) \/ RecordSubmitFailed(j) \/ RecordReleaseFailed(j) \/
        SubmitCrash(j)
    BY <2>1 DEF CreateBatchImageJob, SubmitReserve, CreatePendingItems,
      SubmitUpload, SubmitHeartbeat, ProviderSubmit, SubmitPersist,
      AbortOrphanProviderJob, SubmitQueueFailed, SubmitRelease,
      RecordSubmitFailed, RecordReleaseFailed, SubmitCrash
  <2>2. CASE SubmitEnqueue(j)
    BY <2>2 DEF SubmitEnqueue, At, Enqueued, Goto, EnqueueFails, Enqueue
  <2>3. CASE SubmitRetryEnqueue(j)
    BY <2>3 DEF SubmitRetryEnqueue, At, Goto, Enqueued, EnqueueFails, Enqueue
  <2> QED BY <1>1, <2>1, <2>2, <2>3 DEF Submit
<1>2. ASSUME NEW j \in Jobs, Owner(j) PROVE QueueTypes'
  <2>1. CASE CancelRead(j) \/ CancelProvider(j) \/ CancelTransition(j) \/
        CancelRelease(j) \/ ResubmitRead(j) \/ ResubmitQueueFailed(j) \/
        OwnerCrash(j)
    BY <2>1 DEF CancelRead, CancelProvider, CancelTransition, CancelRelease,
      ResubmitRead, ResubmitQueueFailed, OwnerCrash
  <2>2. CASE OwnerEnqueue(j)
    BY <2>2 DEF OwnerEnqueue, Enqueued, OwnerGoto, EnqueueFails, OwnerAt, Enqueue
  <2> QED BY <1>2, <2>1, <2>2 DEF Owner
<1>3. ASSUME NEW j \in Jobs, Recovery(j) PROVE QueueTypes'
  <2>1. CASE BecomeStale(j) \/ FailStaleUnsubmitted(j) \/ RecoveryRelease(j) \/
        RecoveryCrash(j)
    BY <2>1 DEF BecomeStale, FailStaleUnsubmitted, RecoveryRelease,
      RecoveryCrash
  <2>2. CASE RecoveryRetry(j)
    BY <2>2 DEF RecoveryRetry, RecoveryGoto, Enqueued, EnqueueFails, Enqueue
  <2> QED BY <1>3, <2>1, <2>2 DEF Recovery
<1>4. ASSUME NEW j \in Jobs, Environment(j) PROVE QueueTypes'
  <2>1. CASE MarkBatchImageOutputDeleted(j) \/ ProviderAdvances(j)
    BY <2>1 DEF MarkBatchImageOutputDeleted, ProviderAdvances
  <2>2. CASE MoveDueDelayedToReady(j) BY <2>2 DEF MoveDueDelayedToReady
  <2>3. CASE RecoverStaleActive(j)
    BY <2>3 DEF RecoverStaleActive, HeartbeatLate, Busy
  <2>4. CASE JobLockExpires(j) \/ InflightExpires(j) BY <2>4 DEF JobLockExpires, InflightExpires
  <2> QED BY <1>4, <2>1, <2>2, <2>3, <2>4 DEF Environment
<1>5. ASSUME NEW w \in Workers, Work(w) PROVE QueueTypes'
  <2>1. CASE WorkerError(w) \/ PipelineRead(w) \/ ProcessRead(w) \/ ProviderGet(w) \/
        ApplyProviderState(w) \/ IndexResults(w) \/ IndexingFailed(w) \/
        IndexingCompleted(w) \/ ReleaseTerminalHold(w) \/ SettleRead(w) \/
        SettleCapture(w) \/ SettleMark(w) \/ RecordSettlementFailure(w) \/
        ReleaseExhausted(w) \/ RecordExhaustFailure(w) \/ FailExhausted(w) \/
        CheckTerminal(w)
    BY <2>1 DEF WorkerError, PipelineRead, ProcessRead, ProviderGet,
      ApplyProviderState, IndexResults, IndexingFailed, IndexingCompleted,
      ReleaseTerminalHold, SettleRead, SettleCapture, SettleMark,
      RecordSettlementFailure, ReleaseExhausted, RecordExhaustFailure,
      FailExhausted, CheckTerminal, WorkerKeeps, WorkerGoto
  <2>2. CASE Reserve(w) BY <2>2 DEF Reserve, WorkerAt
  <2>3. CASE TryAcquireJobLock(w)
    BY <2>3 DEF TryAcquireJobLock, WorkerAt, WorkerGoto
  <2>4. CASE WorkerAck(w) BY <2>4 DEF WorkerAck, WorkerAt, WorkerGoto, Ack
  <2>5. CASE WorkerRequeue(w)
    BY <2>5 DEF WorkerRequeue, WorkerAt, WorkerGoto, RequeueAfter
  <2>6. CASE ReleaseJobLock(w) BY <2>6 DEF ReleaseJobLock, WorkerAt, WorkerGoto
  <2>7. CASE WorkerCrash(w) BY <2>7 DEF WorkerCrash, WorkerAt, WorkerGoto
  <2> QED BY <1>5, <2>1, <2>2, <2>3, <2>4, <2>5, <2>6, <2>7 DEF Work, Process
<1> QED BY <1>1, <1>2, <1>3, <1>4, <1>5 DEF Next

\* The requests keep their types.
LEMMA ActorTypesStep ==
    ASSUME TypeOK, Next
    PROVE  ActorTypes'
<1> USE DEF TypeOK, ActorTypes, SubmitPC, OwnerPC, UpstreamState
<1>1. ASSUME NEW j \in Jobs, Submit(j) PROVE ActorTypes'
  <2>1. CASE SubmitHeartbeat(j)
    BY <2>1 DEF SubmitHeartbeat
  <2>2. CASE CreateBatchImageJob(j)
    BY <2>2 DEF CreateBatchImageJob, At, Goto, SetStatus
  <2>3. CASE SubmitReserve(j)
    BY <2>3
    DEF SubmitReserve, At, Reserved, Goto, ReserveFails, CanReserve,
        ReserveBatchImageBalance
  <2>4. CASE CreatePendingItems(j) BY <2>4 DEF CreatePendingItems, At, Goto
  <2>5. CASE SubmitUpload(j)
    BY <2>5
    DEF SubmitUpload, At, Moved, Goto, CanTransitionBatchImageJob,
        TransitionBatchImageJobStatus, SetStatus, IsTerminalBatchImageJobStatus
  <2>6. CASE ProviderSubmit(j) BY <2>6 DEF ProviderSubmit, At, Goto
  <2>7. CASE SubmitPersist(j)
    BY <2>7
    DEF SubmitPersist, At, UpdateBatchImageJobProviderSubmit, Goto,
        CanTransitionBatchImageJob, IsTerminalBatchImageJobStatus
  <2>8. CASE AbortOrphanProviderJob(j)
    BY <2>8 DEF AbortOrphanProviderJob, At, Goto, ProviderCancel
  <2>9. CASE SubmitEnqueue(j)
    BY <2>9 DEF SubmitEnqueue, At, Enqueued, Goto, EnqueueFails, Enqueue
  <2>10. CASE SubmitQueueFailed(j)
    BY <2>10 DEF SubmitQueueFailed, At, Goto, RecordQueueFailure
  <2>11. CASE SubmitRelease(j)
    BY <2>11
    DEF SubmitRelease, Released, Goto, At, ReleaseFails, CanRelease,
        ReleaseBatchImageBalance
  <2>12. CASE RecordSubmitFailed(j)
    BY <2>12 DEF RecordSubmitFailed, At, Goto, RecordBatchImageJobSubmitFailure
  <2>13. CASE RecordReleaseFailed(j)
    BY <2>13 DEF RecordReleaseFailed, At, Goto, RecordBatchImageJobSubmitFailure
  <2>14. CASE SubmitRetryEnqueue(j)
    BY <2>14 DEF SubmitRetryEnqueue, At, Goto, Enqueued, EnqueueFails, Enqueue
  <2>15. CASE SubmitCrash(j) BY <2>15 DEF SubmitCrash, Goto
  <2> QED BY <1>1, <2>1, <2>2, <2>3, <2>4, <2>5, <2>6, <2>7, <2>8, <2>9,
        <2>10, <2>11, <2>12, <2>13, <2>14, <2>15 DEF Submit
<1>2. ASSUME NEW j \in Jobs, Owner(j) PROVE ActorTypes'
  <2>1. CASE CancelRead(j)
    BY <2>1
    DEF CancelRead, OwnerAt, OwnerGoto, IsProcessorDone,
        IsTerminalBatchImageJobStatus
  <2>2. CASE CancelProvider(j)
    BY <2>2 DEF CancelProvider, OwnerAt, ProviderCancel, OwnerGoto
  <2>3. CASE CancelTransition(j)
    BY <2>3
    DEF CancelTransition, OwnerAt, Moved, OwnerGoto, MoveFails,
        CanTransitionBatchImageJob, TransitionBatchImageJobStatus, SetStatus,
        IsTerminalBatchImageJobStatus
  <2>4. CASE CancelRelease(j)
    BY <2>4
    DEF CancelRelease, OwnerAt, Released, OwnerGoto, ReleaseFails, CanRelease,
        ReleaseBatchImageBalance
  <2>5. CASE ResubmitRead(j) BY <2>5 DEF ResubmitRead, OwnerAt, OwnerGoto
  <2>6. CASE OwnerEnqueue(j)
    BY <2>6 DEF OwnerEnqueue, Enqueued, OwnerGoto, EnqueueFails, OwnerAt, Enqueue
  <2>7. CASE ResubmitQueueFailed(j)
    BY <2>7 DEF ResubmitQueueFailed, OwnerAt, OwnerGoto, RecordQueueFailure
  <2>8. CASE OwnerCrash(j) BY <2>8 DEF OwnerCrash, OwnerAt, OwnerGoto
  <2> QED BY <1>2, <2>1, <2>2, <2>3, <2>4, <2>5, <2>6, <2>7, <2>8 DEF Owner
<1>3. ASSUME NEW j \in Jobs, Recovery(j) PROVE ActorTypes'
  <2>1. CASE BecomeStale(j)
    BY <2>1 DEF BecomeStale
  <2>2. CASE FailStaleUnsubmitted(j)
    BY <2>2 DEF FailStaleUnsubmitted, StaleUnsubmitted, SetStatus, RecoveryGoto
  <2>3. CASE RecoveryRelease(j)
    BY <2>3
    DEF RecoveryRelease, Released, RecoveryGoto, ReleaseFails, CanRelease,
        ReleaseBatchImageBalance
  <2>4. CASE RecoveryRetry(j)
    BY <2>4 DEF RecoveryRetry, RecoveryGoto, Enqueued, EnqueueFails, Enqueue
  <2>5. CASE RecoveryCrash(j) BY <2>5 DEF RecoveryCrash, RecoveryGoto
  <2> QED BY <1>3, <2>1, <2>2, <2>3, <2>4, <2>5 DEF Recovery
<1>4. ASSUME NEW j \in Jobs, Environment(j) PROVE ActorTypes'
  <2>1. CASE MoveDueDelayedToReady(j) \/ RecoverStaleActive(j) \/
        JobLockExpires(j) \/ InflightExpires(j) \/ MarkBatchImageOutputDeleted(j)
    BY <2>1 DEF MoveDueDelayedToReady, RecoverStaleActive, JobLockExpires, InflightExpires,
      MarkBatchImageOutputDeleted
  <2>2. CASE ProviderAdvances(j) BY <2>2 DEF ProviderAdvances
  <2> QED BY <1>4, <2>1, <2>2 DEF Environment
<1>5. ASSUME NEW w \in Workers, Work(w) PROVE ActorTypes'
  <2>1. CASE Reserve(w) \/ ReleaseJobLock(w) \/ PipelineRead(w) \/ ProcessRead(w) \/
        ProviderGet(w) \/ SettleRead(w) \/ CheckTerminal(w)
    BY <2>1 DEF Reserve, ReleaseJobLock, PipelineRead, ProcessRead,
      ProviderGet, SettleRead, CheckTerminal, WorkerKeeps, WorkerGoto
  <2>2. CASE TryAcquireJobLock(w)
    BY <2>2 DEF TryAcquireJobLock, WorkerAt, WorkerGoto
  <2>3. CASE WorkerAck(w) BY <2>3 DEF WorkerAck, WorkerAt, WorkerGoto, Ack
  <2>4. CASE WorkerRequeue(w)
    BY <2>4 DEF WorkerRequeue, WorkerAt, WorkerGoto, RequeueAfter
  <2>5. CASE WorkerError(w) BY <2>5 DEF WorkerError, WorkerGoto
  <2>6. CASE WorkerCrash(w) BY <2>6 DEF WorkerCrash, WorkerAt, WorkerGoto
  <2>7. CASE ApplyProviderState(w)
    BY <2>7
    DEF ApplyProviderState, WorkerAt, TargetStatus, Moved, WorkerGoto, AfterTarget,
        MoveFails, WorkerKeeps, CanTransitionBatchImageJob,
        TransitionBatchImageJobStatus, SetStatus, IsTerminalBatchImageJobStatus
  <2>8. CASE IndexResults(w)
    BY <2>8
    DEF IndexResults, WorkerAt, ReplaceBatchImageItemsForJob, WorkerGoto,
        WorkerKeeps
  <2>9. CASE IndexingFailed(w)
    BY <2>9
    DEF IndexingFailed, WorkerAt, Moved, WorkerGoto, MoveFails, WorkerKeeps,
        CanTransitionBatchImageJob, TransitionBatchImageJobStatus, SetStatus,
        IsTerminalBatchImageJobStatus
  <2>10. CASE IndexingCompleted(w)
    BY <2>10
    DEF IndexingCompleted, WorkerAt, WorkerGoto, Moved, MoveFails, WorkerKeeps,
        CanTransitionBatchImageJob, TransitionBatchImageJobStatus, SetStatus,
        IsTerminalBatchImageJobStatus
  <2>11. CASE ReleaseTerminalHold(w)
    BY <2>11
    DEF ReleaseTerminalHold, WorkerAt, Released, WorkerGoto, ReleaseFails,
        WorkerKeeps, CanRelease, ReleaseBatchImageBalance
  <2>12. CASE SettleCapture(w)
    BY <2>12
    DEF SettleCapture, WorkerAt, Captured, WorkerGoto, CaptureFails, WorkerKeeps,
        CanCapture, CaptureBatchImageBalance
  <2>13. CASE SettleMark(w)
    BY <2>13
    DEF SettleMark, WorkerAt, MarkBatchImageJobSettled, WorkerGoto, WorkerKeeps
  <2>14. CASE RecordSettlementFailure(w)
    BY <2>14
    DEF RecordSettlementFailure, WorkerAt, CountSettlementFailure, WorkerGoto,
        WorkerKeeps
  <2>15. CASE ReleaseExhausted(w)
    BY <2>15
    DEF ReleaseExhausted, WorkerAt, Released, WorkerGoto, ReleaseFails, WorkerKeeps,
        CanRelease, ReleaseBatchImageBalance
  <2>16. CASE RecordExhaustFailure(w)
    BY <2>16
    DEF RecordExhaustFailure, WorkerAt, WorkerGoto, CountSettlementFailure,
        WorkerKeeps
  <2>17. CASE FailExhausted(w)
    BY <2>17
    DEF FailExhausted, WorkerAt, Moved, WorkerGoto, MoveFails, WorkerKeeps,
        CanTransitionBatchImageJob, TransitionBatchImageJobStatus, SetStatus,
        IsTerminalBatchImageJobStatus
  <2> QED BY <1>5, <2>1, <2>2, <2>3, <2>4, <2>5, <2>6, <2>7, <2>8, <2>9,
        <2>10, <2>11, <2>12, <2>13, <2>14, <2>15, <2>16, <2>17 DEF Work, Process
<1> QED BY <1>1, <1>2, <1>3, <1>4, <1>5 DEF Next

\* The workers keep their types.
LEMMA WorkerTypesStep ==
    ASSUME TypeOK, Next
    PROVE  WorkerTypes'
<1> USE DEF TypeOK, WorkerTypes, WorkerPC, UpstreamState
<1>1. ASSUME NEW j \in Jobs, Submit(j) PROVE WorkerTypes'
  <2>1. CASE CreateBatchImageJob(j) \/ SubmitReserve(j) \/ CreatePendingItems(j) \/
        SubmitUpload(j) \/ SubmitHeartbeat(j) \/ ProviderSubmit(j) \/
        SubmitPersist(j) \/ AbortOrphanProviderJob(j) \/ SubmitEnqueue(j) \/
        SubmitQueueFailed(j) \/ SubmitRelease(j) \/ RecordSubmitFailed(j) \/
        RecordReleaseFailed(j) \/ SubmitRetryEnqueue(j) \/ SubmitCrash(j)
    BY <2>1 DEF CreateBatchImageJob, SubmitReserve, CreatePendingItems,
      SubmitUpload, SubmitHeartbeat, ProviderSubmit, SubmitPersist,
      AbortOrphanProviderJob, SubmitEnqueue, SubmitQueueFailed, SubmitRelease,
      RecordSubmitFailed, RecordReleaseFailed, SubmitRetryEnqueue, SubmitCrash
  <2> QED BY <1>1, <2>1 DEF Submit
<1>2. ASSUME NEW j \in Jobs, Owner(j) PROVE WorkerTypes'
  <2>1. CASE CancelRead(j) \/ CancelProvider(j) \/ CancelTransition(j) \/
        CancelRelease(j) \/ ResubmitRead(j) \/ OwnerEnqueue(j) \/
        ResubmitQueueFailed(j) \/ OwnerCrash(j)
    BY <2>1 DEF CancelRead, CancelProvider, CancelTransition, CancelRelease,
      ResubmitRead, OwnerEnqueue, ResubmitQueueFailed, OwnerCrash
  <2> QED BY <1>2, <2>1 DEF Owner
<1>3. ASSUME NEW j \in Jobs, Recovery(j) PROVE WorkerTypes'
  <2>1. CASE BecomeStale(j) \/ FailStaleUnsubmitted(j) \/ RecoveryRelease(j) \/
        RecoveryRetry(j) \/ RecoveryCrash(j)
    BY <2>1 DEF BecomeStale, FailStaleUnsubmitted, RecoveryRelease,
      RecoveryRetry, RecoveryCrash
  <2> QED BY <1>3, <2>1 DEF Recovery
<1>4. ASSUME NEW j \in Jobs, Environment(j) PROVE WorkerTypes'
  <2>1. CASE MoveDueDelayedToReady(j) \/ RecoverStaleActive(j) \/
        JobLockExpires(j) \/ InflightExpires(j) \/ MarkBatchImageOutputDeleted(j) \/ ProviderAdvances(j)
    BY <2>1 DEF MoveDueDelayedToReady, RecoverStaleActive, JobLockExpires, InflightExpires,
      MarkBatchImageOutputDeleted, ProviderAdvances
  <2> QED BY <1>4, <2>1 DEF Environment
<1>5. ASSUME NEW w \in Workers, Work(w) PROVE WorkerTypes'
  <2>0. ASSUME \E p \in WorkerPC : WorkerGoto(w, p) PROVE WorkerTypes'
    BY <2>0 DEF WorkerGoto
  <2>1. CASE Reserve(w) BY <2>1 DEF Reserve, WorkerAt
  <2>2. CASE ProviderGet(w)
    BY <2>2 DEF ProviderGet, WorkerGoto
  <2>3. CASE SettleRead(w)
    BY <2>3, PriceTypes DEF SettleRead, WorkerGoto
  <2>4. CASE TryAcquireJobLock(w) BY <2>0, <2>4 DEF TryAcquireJobLock
  <2>5. CASE WorkerAck(w) BY <2>0, <2>5 DEF WorkerAck
  <2>6. CASE WorkerRequeue(w) BY <2>0, <2>6 DEF WorkerRequeue
  <2>7. CASE ReleaseJobLock(w) BY <2>0, <2>7 DEF ReleaseJobLock
  <2>8. CASE WorkerError(w) BY <2>0, <2>8 DEF WorkerError
  <2>9. CASE WorkerCrash(w) BY <2>0, <2>9 DEF WorkerCrash
  <2>10. CASE PipelineRead(w) BY <2>0, <2>10 DEF PipelineRead
  <2>11. CASE ProcessRead(w) BY <2>0, <2>11 DEF ProcessRead
  <2>12. CASE ApplyProviderState(w) BY <2>0, <2>12 DEF ApplyProviderState, AfterTarget
  <2>13. CASE IndexResults(w) BY <2>0, <2>13 DEF IndexResults
  <2>14. CASE IndexingFailed(w) BY <2>0, <2>14 DEF IndexingFailed
  <2>15. CASE IndexingCompleted(w) BY <2>0, <2>15 DEF IndexingCompleted
  <2>16. CASE ReleaseTerminalHold(w) BY <2>0, <2>16 DEF ReleaseTerminalHold
  <2>17. CASE SettleCapture(w) BY <2>0, <2>17 DEF SettleCapture
  <2>18. CASE SettleMark(w) BY <2>0, <2>18 DEF SettleMark
  <2>19. CASE RecordSettlementFailure(w) BY <2>0, <2>19 DEF RecordSettlementFailure
  <2>20. CASE ReleaseExhausted(w) BY <2>0, <2>20 DEF ReleaseExhausted
  <2>21. CASE RecordExhaustFailure(w) BY <2>0, <2>21 DEF RecordExhaustFailure
  <2>22. CASE FailExhausted(w) BY <2>0, <2>22 DEF FailExhausted
  <2>23. CASE CheckTerminal(w) BY <2>0, <2>23 DEF CheckTerminal
  <2> QED BY <1>5, <2>1, <2>2, <2>3, <2>4, <2>5, <2>6, <2>7, <2>8, <2>9,
        <2>10, <2>11, <2>12, <2>13, <2>14, <2>15, <2>16, <2>17, <2>18, <2>19,
        <2>20, <2>21, <2>22, <2>23 DEF Work, Process
<1> QED BY <1>1, <1>2, <1>3, <1>4, <1>5 DEF Next

\* Nobody else moves a row that is being submitted beyond uploading.
LEMMA SubmitFirstStep ==
    ASSUME TypeOK, SubmitFirst, Next
    PROVE  SubmitFirst'
<1> USE DEF TypeOK, SubmitFirst, Early, SubmitPC, JobStatus,
      IsTerminalBatchImageJobStatus, CanTransitionBatchImageJob
<1>1. ASSUME NEW j \in Jobs, Submit(j) PROVE SubmitFirst'
  <2>1. CASE SubmitHeartbeat(j)
    BY <2>1 DEF SubmitHeartbeat
  <2>2. CASE CreateBatchImageJob(j)
    BY <2>2 DEF CreateBatchImageJob, At, Goto, SetStatus
  <2>3. CASE SubmitReserve(j)
    BY <2>3
    DEF SubmitReserve, At, Reserved, Goto, ReserveFails, CanReserve,
        ReserveBatchImageBalance
  <2>4. CASE CreatePendingItems(j) BY <2>4 DEF CreatePendingItems, At, Goto
  <2>5. CASE SubmitUpload(j)
    BY <2>5
    DEF SubmitUpload, At, Moved, Goto, TransitionBatchImageJobStatus, SetStatus
  <2>6. CASE ProviderSubmit(j) BY <2>6 DEF ProviderSubmit, At, Goto
  <2>7. CASE SubmitPersist(j)
    BY <2>7 DEF SubmitPersist, At, UpdateBatchImageJobProviderSubmit, Goto
  <2>8. CASE AbortOrphanProviderJob(j)
    BY <2>8 DEF AbortOrphanProviderJob, At, Goto, ProviderCancel
  <2>9. CASE SubmitEnqueue(j)
    BY <2>9 DEF SubmitEnqueue, At, Enqueued, Goto, EnqueueFails, Enqueue
  <2>10. CASE SubmitQueueFailed(j)
    BY <2>10 DEF SubmitQueueFailed, At, Goto, RecordQueueFailure
  <2>11. CASE SubmitRelease(j)
    BY <2>11
    DEF SubmitRelease, Released, Goto, At, ReleaseFails, CanRelease,
        ReleaseBatchImageBalance
  <2>12. CASE RecordSubmitFailed(j)
    BY <2>12 DEF RecordSubmitFailed, At, Goto, RecordBatchImageJobSubmitFailure
  <2>13. CASE RecordReleaseFailed(j)
    BY <2>13 DEF RecordReleaseFailed, At, Goto, RecordBatchImageJobSubmitFailure
  <2>14. CASE SubmitRetryEnqueue(j)
    BY <2>14 DEF SubmitRetryEnqueue, At, Goto, Enqueued, EnqueueFails, Enqueue
  <2>15. CASE SubmitCrash(j) BY <2>15 DEF SubmitCrash, Goto
  <2> QED BY <1>1, <2>1, <2>2, <2>3, <2>4, <2>5, <2>6, <2>7, <2>8, <2>9,
        <2>10, <2>11, <2>12, <2>13, <2>14, <2>15 DEF Submit
<1>2. ASSUME NEW j \in Jobs, Owner(j) PROVE SubmitFirst'
  <2>1. CASE CancelRead(j) \/ CancelProvider(j) \/ CancelRelease(j) \/
        ResubmitRead(j) \/ OwnerEnqueue(j) \/ OwnerCrash(j)
    BY <2>1 DEF CancelRead, CancelProvider, CancelRelease, ResubmitRead,
      OwnerEnqueue, OwnerCrash
  <2>2. CASE CancelTransition(j)
    BY <2>2
    DEF CancelTransition, OwnerAt, Moved, OwnerGoto, MoveFails,
        TransitionBatchImageJobStatus, SetStatus
  <2>3. CASE ResubmitQueueFailed(j)
    BY <2>3 DEF ResubmitQueueFailed, OwnerAt, OwnerGoto, RecordQueueFailure
  <2> QED BY <1>2, <2>1, <2>2, <2>3 DEF Owner
<1>3. ASSUME NEW j \in Jobs, Recovery(j) PROVE SubmitFirst'
  <2>1. CASE BecomeStale(j) \/ RecoveryRelease(j) \/ RecoveryRetry(j) \/
        RecoveryCrash(j)
    BY <2>1 DEF BecomeStale, RecoveryRelease, RecoveryRetry, RecoveryCrash
  <2>2. CASE FailStaleUnsubmitted(j)
    BY <2>2 DEF FailStaleUnsubmitted, StaleUnsubmitted, SetStatus, RecoveryGoto
  <2> QED BY <1>3, <2>1, <2>2 DEF Recovery
<1>4. ASSUME NEW j \in Jobs, Environment(j) PROVE SubmitFirst'
  <2>1. CASE MoveDueDelayedToReady(j) \/ RecoverStaleActive(j) \/
        JobLockExpires(j) \/ InflightExpires(j) \/ ProviderAdvances(j)
    BY <2>1 DEF MoveDueDelayedToReady, RecoverStaleActive, JobLockExpires, InflightExpires,
      ProviderAdvances
  <2>2. CASE MarkBatchImageOutputDeleted(j)
    BY <2>2 DEF MarkBatchImageOutputDeleted, SetStatus
  <2> QED BY <1>4, <2>1, <2>2 DEF Environment
<1>5. ASSUME NEW w \in Workers, Work(w) PROVE SubmitFirst'
  <2>1. CASE Reserve(w) \/ TryAcquireJobLock(w) \/ WorkerAck(w) \/ WorkerRequeue(w) \/
        ReleaseJobLock(w) \/ WorkerError(w) \/ WorkerCrash(w) \/ PipelineRead(w) \/
        ProcessRead(w) \/ ProviderGet(w) \/ ReleaseTerminalHold(w) \/ SettleRead(w) \/
        SettleCapture(w) \/ ReleaseExhausted(w) \/ CheckTerminal(w)
    BY <2>1 DEF Reserve, TryAcquireJobLock, WorkerAck, WorkerRequeue,
      ReleaseJobLock, WorkerError, WorkerCrash, PipelineRead, ProcessRead,
      ProviderGet, ReleaseTerminalHold, SettleRead, SettleCapture,
      ReleaseExhausted, CheckTerminal, WorkerKeeps, WorkerGoto
  <2>2. CASE ApplyProviderState(w)
    BY <2>2
    DEF ApplyProviderState, WorkerAt, TargetStatus, Moved, WorkerGoto, AfterTarget,
        MoveFails, WorkerKeeps, TransitionBatchImageJobStatus, SetStatus
  <2>3. CASE IndexResults(w)
    BY <2>3
    DEF IndexResults, WorkerAt, ReplaceBatchImageItemsForJob, WorkerGoto,
        WorkerKeeps
  <2>4. CASE IndexingFailed(w)
    BY <2>4
    DEF IndexingFailed, WorkerAt, Moved, WorkerGoto, MoveFails, WorkerKeeps,
        TransitionBatchImageJobStatus, SetStatus
  <2>5. CASE IndexingCompleted(w)
    BY <2>5
    DEF IndexingCompleted, WorkerAt, WorkerGoto, Moved, MoveFails, WorkerKeeps,
        TransitionBatchImageJobStatus, SetStatus
  <2>6. CASE SettleMark(w)
    BY <2>6
    DEF SettleMark, WorkerAt, MarkBatchImageJobSettled, WorkerGoto, WorkerKeeps
  <2>7. CASE RecordSettlementFailure(w)
    BY <2>7
    DEF RecordSettlementFailure, WorkerAt, CountSettlementFailure, WorkerGoto,
        WorkerKeeps
  <2>8. CASE RecordExhaustFailure(w)
    BY <2>8
    DEF RecordExhaustFailure, WorkerAt, WorkerGoto, CountSettlementFailure,
        WorkerKeeps
  <2>9. CASE FailExhausted(w)
    BY <2>9
    DEF FailExhausted, WorkerAt, Moved, WorkerGoto, MoveFails, WorkerKeeps,
        TransitionBatchImageJobStatus, SetStatus
  <2> QED BY <1>5, <2>1, <2>2, <2>3, <2>4, <2>5, <2>6, <2>7, <2>8, <2>9 DEF Work, Process
<1> QED BY <1>1, <1>2, <1>3, <1>4, <1>5 DEF Next

\* An ended job does not come back.
LEMMA ReleaseSeenStep ==
    ASSUME TypeOK, SubmitFirst, ReleaseSeen, Next
    PROVE  ReleaseSeen'
<1> USE DEF TypeOK, SubmitFirst, ReleaseSeen, Early, Ended, Late, Settling,
      JobStatus, IsTerminalBatchImageJobStatus, CanTransitionBatchImageJob
<1>1. ASSUME NEW j \in Jobs, Submit(j) PROVE ReleaseSeen'
  <2>1. CASE SubmitReserve(j) \/ CreatePendingItems(j) \/ SubmitHeartbeat(j) \/
        ProviderSubmit(j) \/ AbortOrphanProviderJob(j) \/ SubmitEnqueue(j) \/
        SubmitRelease(j) \/ SubmitRetryEnqueue(j) \/ SubmitCrash(j)
    BY <2>1 DEF SubmitReserve, CreatePendingItems, SubmitHeartbeat,
      ProviderSubmit, AbortOrphanProviderJob, SubmitEnqueue, SubmitRelease,
      SubmitRetryEnqueue, SubmitCrash
  <2>2. CASE CreateBatchImageJob(j)
    BY <2>2 DEF CreateBatchImageJob, At, Goto, SetStatus
  <2>3. CASE SubmitUpload(j)
    BY <2>3
    DEF SubmitUpload, At, Moved, Goto, TransitionBatchImageJobStatus, SetStatus
  <2>4. CASE SubmitPersist(j)
    BY <2>4 DEF SubmitPersist, At, UpdateBatchImageJobProviderSubmit, Goto
  <2>5. CASE SubmitQueueFailed(j)
    BY <2>5 DEF SubmitQueueFailed, At, Goto, RecordQueueFailure
  <2>6. CASE RecordSubmitFailed(j)
    BY <2>6 DEF RecordSubmitFailed, At, Goto, RecordBatchImageJobSubmitFailure
  <2>7. CASE RecordReleaseFailed(j)
    BY <2>7 DEF RecordReleaseFailed, At, Goto, RecordBatchImageJobSubmitFailure
  <2> QED BY <1>1, <2>1, <2>2, <2>3, <2>4, <2>5, <2>6, <2>7 DEF Submit
<1>2. ASSUME NEW j \in Jobs, Owner(j) PROVE ReleaseSeen'
  <2>1. CASE CancelRead(j)
    BY <2>1 DEF CancelRead, OwnerAt, OwnerGoto, IsProcessorDone
  <2>2. CASE CancelProvider(j)
    BY <2>2 DEF CancelProvider, OwnerAt, ProviderCancel, OwnerGoto
  <2>3. CASE CancelTransition(j)
    BY <2>3
    DEF CancelTransition, OwnerAt, Moved, OwnerGoto, MoveFails,
        TransitionBatchImageJobStatus, SetStatus
  <2>4. CASE CancelRelease(j)
    BY <2>4
    DEF CancelRelease, OwnerAt, Released, OwnerGoto, ReleaseFails, CanRelease,
        ReleaseBatchImageBalance
  <2>5. CASE ResubmitRead(j) BY <2>5 DEF ResubmitRead, OwnerAt, OwnerGoto
  <2>6. CASE OwnerEnqueue(j)
    BY <2>6 DEF OwnerEnqueue, Enqueued, OwnerGoto, EnqueueFails, OwnerAt, Enqueue
  <2>7. CASE ResubmitQueueFailed(j)
    BY <2>7 DEF ResubmitQueueFailed, OwnerAt, OwnerGoto, RecordQueueFailure
  <2>8. CASE OwnerCrash(j) BY <2>8 DEF OwnerCrash, OwnerAt, OwnerGoto
  <2> QED BY <1>2, <2>1, <2>2, <2>3, <2>4, <2>5, <2>6, <2>7, <2>8 DEF Owner
<1>3. ASSUME NEW j \in Jobs, Recovery(j) PROVE ReleaseSeen'
  <2>1. CASE BecomeStale(j)
    BY <2>1 DEF BecomeStale
  <2>2. CASE FailStaleUnsubmitted(j)
    BY <2>2 DEF FailStaleUnsubmitted, StaleUnsubmitted, SetStatus, RecoveryGoto
  <2>3. CASE RecoveryRelease(j)
    BY <2>3
    DEF RecoveryRelease, Released, RecoveryGoto, ReleaseFails, CanRelease,
        ReleaseBatchImageBalance
  <2>4. CASE RecoveryRetry(j)
    BY <2>4 DEF RecoveryRetry, RecoveryGoto, Enqueued, EnqueueFails, Enqueue
  <2>5. CASE RecoveryCrash(j) BY <2>5 DEF RecoveryCrash, RecoveryGoto
  <2> QED BY <1>3, <2>1, <2>2, <2>3, <2>4, <2>5 DEF Recovery
<1>4. ASSUME NEW j \in Jobs, Environment(j) PROVE ReleaseSeen'
  <2>1. CASE MoveDueDelayedToReady(j) \/ RecoverStaleActive(j) \/
        JobLockExpires(j) \/ InflightExpires(j) \/ ProviderAdvances(j)
    BY <2>1 DEF MoveDueDelayedToReady, RecoverStaleActive, JobLockExpires, InflightExpires,
      ProviderAdvances
  <2>2. CASE MarkBatchImageOutputDeleted(j)
    BY <2>2 DEF MarkBatchImageOutputDeleted, SetStatus
  <2> QED BY <1>4, <2>1, <2>2 DEF Environment
<1>5. ASSUME NEW w \in Workers, Work(w) PROVE ReleaseSeen'
  <2>1. CASE Reserve(w) BY <2>1 DEF Reserve, WorkerAt
  <2>2. CASE TryAcquireJobLock(w)
    BY <2>2 DEF TryAcquireJobLock, WorkerAt, WorkerGoto
  <2>3. CASE WorkerAck(w) BY <2>3 DEF WorkerAck, WorkerAt, WorkerGoto, Ack
  <2>4. CASE WorkerRequeue(w)
    BY <2>4 DEF WorkerRequeue, WorkerAt, WorkerGoto, RequeueAfter
  <2>5. CASE ReleaseJobLock(w) BY <2>5 DEF ReleaseJobLock, WorkerAt, WorkerGoto
  <2>6. CASE WorkerError(w) BY <2>6 DEF WorkerError, WorkerGoto
  <2>7. CASE WorkerCrash(w) BY <2>7 DEF WorkerCrash, WorkerAt, WorkerGoto
  <2>8. CASE PipelineRead(w)
    BY <2>8 DEF PipelineRead, WorkerAt, WorkerGoto, WorkerKeeps
  <2>9. CASE ProcessRead(w)
    BY <2>9 DEF ProcessRead, WorkerAt, WorkerGoto, IsProcessorDone, WorkerKeeps
  <2>10. CASE ProviderGet(w)
    BY <2>10 DEF ProviderGet, WorkerAt, WorkerGoto, WorkerKeeps
  <2>11. CASE ApplyProviderState(w)
    BY <2>11
    DEF ApplyProviderState, WorkerAt, TargetStatus, Moved, WorkerGoto, AfterTarget,
        MoveFails, WorkerKeeps, TransitionBatchImageJobStatus, SetStatus
  <2>12. CASE IndexResults(w)
    BY <2>12
    DEF IndexResults, WorkerAt, ReplaceBatchImageItemsForJob, WorkerGoto,
        WorkerKeeps
  <2>13. CASE IndexingFailed(w)
    BY <2>13
    DEF IndexingFailed, WorkerAt, Moved, WorkerGoto, MoveFails, WorkerKeeps,
        TransitionBatchImageJobStatus, SetStatus
  <2>14. CASE IndexingCompleted(w)
    BY <2>14
    DEF IndexingCompleted, WorkerAt, WorkerGoto, Moved, MoveFails, WorkerKeeps,
        TransitionBatchImageJobStatus, SetStatus
  <2>15. CASE ReleaseTerminalHold(w)
    BY <2>15
    DEF ReleaseTerminalHold, WorkerAt, Released, WorkerGoto, ReleaseFails,
        WorkerKeeps, CanRelease, ReleaseBatchImageBalance
  <2>16. CASE SettleRead(w)
    BY <2>16
    DEF SettleRead, WorkerAt, WorkerGoto, SettlementRetryExhausted, WorkerKeeps
  <2>17. CASE SettleCapture(w)
    BY <2>17
    DEF SettleCapture, WorkerAt, Captured, WorkerGoto, CaptureFails, WorkerKeeps,
        CanCapture, CaptureBatchImageBalance
  <2>18. CASE SettleMark(w)
    BY <2>18
    DEF SettleMark, WorkerAt, MarkBatchImageJobSettled, WorkerGoto, WorkerKeeps
  <2>19. CASE RecordSettlementFailure(w)
    BY <2>19
    DEF RecordSettlementFailure, WorkerAt, CountSettlementFailure, WorkerGoto,
        WorkerKeeps
  <2>20. CASE ReleaseExhausted(w)
    BY <2>20
    DEF ReleaseExhausted, WorkerAt, Released, WorkerGoto, ReleaseFails, WorkerKeeps,
        CanRelease, ReleaseBatchImageBalance
  <2>21. CASE RecordExhaustFailure(w)
    BY <2>21
    DEF RecordExhaustFailure, WorkerAt, WorkerGoto, CountSettlementFailure,
        WorkerKeeps
  <2>22. CASE FailExhausted(w)
    BY <2>22
    DEF FailExhausted, WorkerAt, Moved, WorkerGoto, MoveFails, WorkerKeeps,
        TransitionBatchImageJobStatus, SetStatus
  <2>23. CASE CheckTerminal(w)
    BY <2>23 DEF CheckTerminal, WorkerAt, WorkerGoto, WorkerKeeps
  <2> QED BY <1>5, <2>1, <2>2, <2>3, <2>4, <2>5, <2>6, <2>7, <2>8, <2>9,
        <2>10, <2>11, <2>12, <2>13, <2>14, <2>15, <2>16, <2>17, <2>18, <2>19,
        <2>20, <2>21, <2>22, <2>23 DEF Work, Process
<1> QED BY <1>1, <1>2, <1>3, <1>4, <1>5 DEF Next

\* Only an ended, a settling or a failing job is refunded.
LEMMA RefundedEarlyStep ==
    ASSUME TypeOK, SubmitFirst, ReleaseSeen, RefundedEarly, Next
    PROVE  RefundedEarly'
<1> USE DEF TypeOK, SubmitFirst, ReleaseSeen, RefundedEarly, Early, Ended,
      Late, Settling, Gone, JobStatus, IsTerminalBatchImageJobStatus,
      CanTransitionBatchImageJob
<1>1. ASSUME NEW j \in Jobs, Submit(j) PROVE RefundedEarly'
  <2>1. CASE SubmitHeartbeat(j)
    BY <2>1 DEF SubmitHeartbeat
  <2>2. CASE CreateBatchImageJob(j)
    BY <2>2 DEF CreateBatchImageJob, At, Goto, SetStatus
  <2>3. CASE SubmitReserve(j)
    BY <2>3
    DEF SubmitReserve, At, Reserved, Goto, ReserveFails, CanReserve,
        ReserveBatchImageBalance
  <2>4. CASE CreatePendingItems(j) BY <2>4 DEF CreatePendingItems, At, Goto
  <2>5. CASE SubmitUpload(j)
    BY <2>5
    DEF SubmitUpload, At, Moved, Goto, TransitionBatchImageJobStatus, SetStatus
  <2>6. CASE ProviderSubmit(j) BY <2>6 DEF ProviderSubmit, At, Goto
  <2>7. CASE SubmitPersist(j)
    BY <2>7 DEF SubmitPersist, At, UpdateBatchImageJobProviderSubmit, Goto
  <2>8. CASE AbortOrphanProviderJob(j)
    BY <2>8 DEF AbortOrphanProviderJob, At, Goto, ProviderCancel
  <2>9. CASE SubmitEnqueue(j)
    BY <2>9 DEF SubmitEnqueue, At, Enqueued, Goto, EnqueueFails, Enqueue
  <2>10. CASE SubmitQueueFailed(j)
    BY <2>10 DEF SubmitQueueFailed, At, Goto, RecordQueueFailure
  <2>11. CASE SubmitRelease(j)
    BY <2>11
    DEF SubmitRelease, Released, Goto, At, ReleaseFails, CanRelease,
        ReleaseBatchImageBalance
  <2>12. CASE RecordSubmitFailed(j)
    BY <2>12 DEF RecordSubmitFailed, At, Goto, RecordBatchImageJobSubmitFailure
  <2>13. CASE RecordReleaseFailed(j)
    BY <2>13 DEF RecordReleaseFailed, At, Goto, RecordBatchImageJobSubmitFailure
  <2>14. CASE SubmitRetryEnqueue(j)
    BY <2>14 DEF SubmitRetryEnqueue, At, Goto, Enqueued, EnqueueFails, Enqueue
  <2>15. CASE SubmitCrash(j) BY <2>15 DEF SubmitCrash, Goto
  <2> QED BY <1>1, <2>1, <2>2, <2>3, <2>4, <2>5, <2>6, <2>7, <2>8, <2>9,
        <2>10, <2>11, <2>12, <2>13, <2>14, <2>15 DEF Submit
<1>2. ASSUME NEW j \in Jobs, Owner(j) PROVE RefundedEarly'
  <2>1. CASE CancelRead(j) \/ CancelProvider(j) \/ ResubmitRead(j) \/
        OwnerEnqueue(j) \/ OwnerCrash(j)
    BY <2>1 DEF CancelRead, CancelProvider, ResubmitRead, OwnerEnqueue,
      OwnerCrash
  <2>2. CASE CancelTransition(j)
    BY <2>2
    DEF CancelTransition, OwnerAt, Moved, OwnerGoto, MoveFails,
        TransitionBatchImageJobStatus, SetStatus
  <2>3. CASE CancelRelease(j)
    BY <2>3
    DEF CancelRelease, OwnerAt, Released, OwnerGoto, ReleaseFails, CanRelease,
        ReleaseBatchImageBalance
  <2>4. CASE ResubmitQueueFailed(j)
    BY <2>4 DEF ResubmitQueueFailed, OwnerAt, OwnerGoto, RecordQueueFailure
  <2> QED BY <1>2, <2>1, <2>2, <2>3, <2>4 DEF Owner
<1>3. ASSUME NEW j \in Jobs, Recovery(j) PROVE RefundedEarly'
  <2>1. CASE BecomeStale(j) \/ RecoveryRetry(j) \/ RecoveryCrash(j)
    BY <2>1 DEF BecomeStale, RecoveryRetry, RecoveryCrash
  <2>2. CASE FailStaleUnsubmitted(j)
    BY <2>2 DEF FailStaleUnsubmitted, StaleUnsubmitted, SetStatus, RecoveryGoto
  <2>3. CASE RecoveryRelease(j)
    BY <2>3
    DEF RecoveryRelease, Released, RecoveryGoto, ReleaseFails, CanRelease,
        ReleaseBatchImageBalance
  <2> QED BY <1>3, <2>1, <2>2, <2>3 DEF Recovery
<1>4. ASSUME NEW j \in Jobs, Environment(j) PROVE RefundedEarly'
  <2>1. CASE MoveDueDelayedToReady(j) \/ RecoverStaleActive(j) \/
        JobLockExpires(j) \/ InflightExpires(j) \/ ProviderAdvances(j)
    BY <2>1 DEF MoveDueDelayedToReady, RecoverStaleActive, JobLockExpires, InflightExpires,
      ProviderAdvances
  <2>2. CASE MarkBatchImageOutputDeleted(j)
    BY <2>2 DEF MarkBatchImageOutputDeleted, SetStatus
  <2> QED BY <1>4, <2>1, <2>2 DEF Environment
<1>5. ASSUME NEW w \in Workers, Work(w) PROVE RefundedEarly'
  <2>1. CASE Reserve(w) \/ TryAcquireJobLock(w) \/ WorkerAck(w) \/ WorkerRequeue(w) \/
        ReleaseJobLock(w) \/ WorkerError(w) \/ WorkerCrash(w) \/ PipelineRead(w) \/
        ProcessRead(w) \/ ProviderGet(w) \/ SettleRead(w) \/ CheckTerminal(w)
    BY <2>1 DEF Reserve, TryAcquireJobLock, WorkerAck, WorkerRequeue,
      ReleaseJobLock, WorkerError, WorkerCrash, PipelineRead, ProcessRead,
      ProviderGet, SettleRead, CheckTerminal, WorkerKeeps, WorkerGoto
  <2>2. CASE ApplyProviderState(w)
    BY <2>2
    DEF ApplyProviderState, WorkerAt, TargetStatus, Moved, WorkerGoto, AfterTarget,
        MoveFails, WorkerKeeps, TransitionBatchImageJobStatus, SetStatus
  <2>3. CASE IndexResults(w)
    BY <2>3
    DEF IndexResults, WorkerAt, ReplaceBatchImageItemsForJob, WorkerGoto,
        WorkerKeeps
  <2>4. CASE IndexingFailed(w)
    BY <2>4
    DEF IndexingFailed, WorkerAt, Moved, WorkerGoto, MoveFails, WorkerKeeps,
        TransitionBatchImageJobStatus, SetStatus
  <2>5. CASE IndexingCompleted(w)
    BY <2>5
    DEF IndexingCompleted, WorkerAt, WorkerGoto, Moved, MoveFails, WorkerKeeps,
        TransitionBatchImageJobStatus, SetStatus
  <2>6. CASE ReleaseTerminalHold(w)
    BY <2>6
    DEF ReleaseTerminalHold, WorkerAt, Released, WorkerGoto, ReleaseFails,
        WorkerKeeps, CanRelease, ReleaseBatchImageBalance
  <2>7. CASE SettleCapture(w)
    BY <2>7
    DEF SettleCapture, WorkerAt, Captured, WorkerGoto, CaptureFails, WorkerKeeps,
        CanCapture, CaptureBatchImageBalance
  <2>8. CASE SettleMark(w)
    BY <2>8
    DEF SettleMark, WorkerAt, MarkBatchImageJobSettled, WorkerGoto, WorkerKeeps
  <2>9. CASE RecordSettlementFailure(w)
    BY <2>9
    DEF RecordSettlementFailure, WorkerAt, CountSettlementFailure, WorkerGoto,
        WorkerKeeps
  <2>10. CASE ReleaseExhausted(w)
    BY <2>10
    DEF ReleaseExhausted, WorkerAt, Released, WorkerGoto, ReleaseFails, WorkerKeeps,
        CanRelease, ReleaseBatchImageBalance
  <2>11. CASE RecordExhaustFailure(w)
    BY <2>11
    DEF RecordExhaustFailure, WorkerAt, WorkerGoto, CountSettlementFailure,
        WorkerKeeps
  <2>12. CASE FailExhausted(w)
    BY <2>12
    DEF FailExhausted, WorkerAt, Moved, WorkerGoto, MoveFails, WorkerKeeps,
        TransitionBatchImageJobStatus, SetStatus
  <2> QED BY <1>5, <2>1, <2>2, <2>3, <2>4, <2>5, <2>6, <2>7, <2>8, <2>9,
        <2>10, <2>11, <2>12 DEF Work, Process
<1> QED BY <1>1, <1>2, <1>3, <1>4, <1>5 DEF Next

\* The images are counted before the capture and never after.
LEMMA ChargedRightStep ==
    ASSUME TypeOK, SubmitFirst, ReleaseSeen, ChargedRight, Next
    PROVE  ChargedRight'
<1> USE DEF TypeOK, SubmitFirst, ReleaseSeen, ChargedRight, Early, Late,
      Settling, JobStatus, IsTerminalBatchImageJobStatus,
      CanTransitionBatchImageJob
<1>1. ASSUME NEW j \in Jobs, Submit(j) PROVE ChargedRight'
  <2>1. CASE CreatePendingItems(j) \/ SubmitHeartbeat(j) \/ ProviderSubmit(j) \/
        AbortOrphanProviderJob(j) \/ SubmitEnqueue(j) \/ SubmitRetryEnqueue(j) \/
        SubmitCrash(j)
    BY <2>1 DEF CreatePendingItems, SubmitHeartbeat, ProviderSubmit,
      AbortOrphanProviderJob, SubmitEnqueue, SubmitRetryEnqueue, SubmitCrash
  <2>2. CASE CreateBatchImageJob(j)
    BY <2>2, PriceTypes DEF CreateBatchImageJob, At, Goto, SetStatus
  <2>3. CASE SubmitReserve(j)
    BY <2>3, PriceTypes
    DEF SubmitReserve, At, Reserved, Goto, ReserveFails, CanReserve,
        ReserveBatchImageBalance
  <2>4. CASE SubmitUpload(j)
    BY <2>4, PriceTypes
    DEF SubmitUpload, At, Moved, Goto, TransitionBatchImageJobStatus, SetStatus
  <2>5. CASE SubmitPersist(j)
    BY <2>5, PriceTypes
    DEF SubmitPersist, At, UpdateBatchImageJobProviderSubmit, Goto
  <2>6. CASE SubmitQueueFailed(j)
    BY <2>6, PriceTypes DEF SubmitQueueFailed, At, Goto, RecordQueueFailure
  <2>7. CASE SubmitRelease(j)
    BY <2>7, PriceTypes
    DEF SubmitRelease, Released, Goto, At, ReleaseFails, CanRelease,
        ReleaseBatchImageBalance
  <2>8. CASE RecordSubmitFailed(j)
    BY <2>8, PriceTypes
    DEF RecordSubmitFailed, At, Goto, RecordBatchImageJobSubmitFailure
  <2>9. CASE RecordReleaseFailed(j)
    BY <2>9, PriceTypes
    DEF RecordReleaseFailed, At, Goto, RecordBatchImageJobSubmitFailure
  <2> QED BY <1>1, <2>1, <2>2, <2>3, <2>4, <2>5, <2>6, <2>7, <2>8, <2>9 DEF Submit
<1>2. ASSUME NEW j \in Jobs, Owner(j) PROVE ChargedRight'
  <2>1. CASE CancelRead(j) \/ CancelProvider(j) \/ ResubmitRead(j) \/
        OwnerEnqueue(j) \/ OwnerCrash(j)
    BY <2>1 DEF CancelRead, CancelProvider, ResubmitRead, OwnerEnqueue,
      OwnerCrash
  <2>2. CASE CancelTransition(j)
    BY <2>2, PriceTypes
    DEF CancelTransition, OwnerAt, Moved, OwnerGoto, MoveFails,
        TransitionBatchImageJobStatus, SetStatus
  <2>3. CASE CancelRelease(j)
    BY <2>3, PriceTypes
    DEF CancelRelease, OwnerAt, Released, OwnerGoto, ReleaseFails, CanRelease,
        ReleaseBatchImageBalance
  <2>4. CASE ResubmitQueueFailed(j)
    BY <2>4, PriceTypes
    DEF ResubmitQueueFailed, OwnerAt, OwnerGoto, RecordQueueFailure
  <2> QED BY <1>2, <2>1, <2>2, <2>3, <2>4 DEF Owner
<1>3. ASSUME NEW j \in Jobs, Recovery(j) PROVE ChargedRight'
  <2>1. CASE BecomeStale(j) \/ RecoveryRetry(j) \/ RecoveryCrash(j)
    BY <2>1 DEF BecomeStale, RecoveryRetry, RecoveryCrash
  <2>2. CASE FailStaleUnsubmitted(j)
    BY <2>2, PriceTypes
    DEF FailStaleUnsubmitted, StaleUnsubmitted, SetStatus, RecoveryGoto
  <2>3. CASE RecoveryRelease(j)
    BY <2>3, PriceTypes
    DEF RecoveryRelease, Released, RecoveryGoto, ReleaseFails, CanRelease,
        ReleaseBatchImageBalance
  <2> QED BY <1>3, <2>1, <2>2, <2>3 DEF Recovery
<1>4. ASSUME NEW j \in Jobs, Environment(j) PROVE ChargedRight'
  <2>1. CASE MoveDueDelayedToReady(j) \/ RecoverStaleActive(j) \/
        JobLockExpires(j) \/ InflightExpires(j) \/ ProviderAdvances(j)
    BY <2>1 DEF MoveDueDelayedToReady, RecoverStaleActive, JobLockExpires, InflightExpires,
      ProviderAdvances
  <2>2. CASE MarkBatchImageOutputDeleted(j)
    BY <2>2, PriceTypes DEF MarkBatchImageOutputDeleted, SetStatus
  <2> QED BY <1>4, <2>1, <2>2 DEF Environment
<1>5. ASSUME NEW w \in Workers, Work(w) PROVE ChargedRight'
  <2>1. CASE Reserve(w) BY <2>1, PriceTypes DEF Reserve, WorkerAt
  <2>2. CASE TryAcquireJobLock(w)
    BY SMTT(30), <2>2, PriceTypes DEF TryAcquireJobLock, WorkerAt, WorkerGoto
  <2>3. CASE WorkerAck(w)
    BY <2>3, PriceTypes DEF WorkerAck, WorkerAt, WorkerGoto, Ack
  <2>4. CASE WorkerRequeue(w)
    BY <2>4, PriceTypes DEF WorkerRequeue, WorkerAt, WorkerGoto, RequeueAfter
  <2>5. CASE ReleaseJobLock(w)
    BY <2>5, PriceTypes DEF ReleaseJobLock, WorkerAt, WorkerGoto
  <2>6. CASE WorkerError(w) BY <2>6, PriceTypes DEF WorkerError, WorkerGoto
  <2>7. CASE WorkerCrash(w)
    BY <2>7, PriceTypes DEF WorkerCrash, WorkerAt, WorkerGoto
  <2>8. CASE PipelineRead(w)
    BY <2>8, PriceTypes DEF PipelineRead, WorkerAt, WorkerGoto, WorkerKeeps
  <2>9. CASE ProcessRead(w)
    BY <2>9, PriceTypes
    DEF ProcessRead, WorkerAt, WorkerGoto, IsProcessorDone, WorkerKeeps
  <2>10. CASE ProviderGet(w)
    BY <2>10, PriceTypes DEF ProviderGet, WorkerAt, WorkerGoto, WorkerKeeps
  <2>11. CASE ApplyProviderState(w)
    <3>1. \/ UNCHANGED status
          \/ \E s \in {"running", "indexing", "cancelled", "failed"} : /\ CanTransitionBatchImageJob(status[at[w]], s)
                 /\ status' = [status EXCEPT ![at[w]] = s]
      BY <2>11 DEF ApplyProviderState, TargetStatus, AfterTarget, Moved, MoveFails, TransitionBatchImageJobStatus, SetStatus
    <3>2. UNCHANGED <<success, actual, billVars>>
      BY <2>11 DEF ApplyProviderState, Moved, MoveFails, TransitionBatchImageJobStatus, SetStatus
    <3>3. \E p \in {"requeue", "index", "release"} : WorkerGoto(w, p) BY <2>11 DEF ApplyProviderState, TargetStatus, AfterTarget
    <3> QED BY <3>1, <3>2, <3>3 DEF WorkerGoto
  <2>12. CASE IndexResults(w)
    <3>1. /\ UNCHANGED <<status, actual, billVars>>
          /\ \/ UNCHANGED success
             \/ /\ status[at[w]] = "indexing"
                /\ \E n \in 0..Items : success' = [success EXCEPT ![at[w]] = n]
      BY <2>12 DEF IndexResults, ReplaceBatchImageItemsForJob
    <3>2. \E p \in {"requeue", "indexed", "index_failed"} : WorkerGoto(w, p) BY <2>12 DEF IndexResults
    <3> QED BY <3>1, <3>2 DEF WorkerGoto
  <2>13. CASE IndexingFailed(w)
    BY <2>13, PriceTypes
    DEF IndexingFailed, WorkerAt, Moved, WorkerGoto, MoveFails, WorkerKeeps,
        TransitionBatchImageJobStatus, SetStatus
  <2>14. CASE IndexingCompleted(w)
    BY <2>14, PriceTypes
    DEF IndexingCompleted, WorkerAt, WorkerGoto, Moved, MoveFails, WorkerKeeps,
        TransitionBatchImageJobStatus, SetStatus
  <2>15. CASE ReleaseTerminalHold(w)
    BY <2>15, PriceTypes
    DEF ReleaseTerminalHold, WorkerAt, Released, WorkerGoto, ReleaseFails,
        WorkerKeeps, CanRelease, ReleaseBatchImageBalance
  <2>16. CASE SettleRead(w)
    BY <2>16, PriceTypes
    DEF SettleRead, WorkerAt, WorkerGoto, SettlementRetryExhausted, WorkerKeeps
  <2>17. CASE SettleCapture(w)
    BY <2>17, PriceTypes
    DEF SettleCapture, WorkerAt, Captured, WorkerGoto, CaptureFails, WorkerKeeps,
        CanCapture, CaptureBatchImageBalance
  <2>18. CASE SettleMark(w)
    BY <2>18, PriceTypes
    DEF SettleMark, WorkerAt, MarkBatchImageJobSettled, WorkerGoto, WorkerKeeps
  <2>19. CASE RecordSettlementFailure(w)
    BY <2>19, PriceTypes
    DEF RecordSettlementFailure, WorkerAt, CountSettlementFailure, WorkerGoto,
        WorkerKeeps
  <2>20. CASE ReleaseExhausted(w)
    BY <2>20, PriceTypes
    DEF ReleaseExhausted, WorkerAt, Released, WorkerGoto, ReleaseFails, WorkerKeeps,
        CanRelease, ReleaseBatchImageBalance
  <2>21. CASE RecordExhaustFailure(w)
    BY <2>21, PriceTypes
    DEF RecordExhaustFailure, WorkerAt, WorkerGoto, CountSettlementFailure,
        WorkerKeeps
  <2>22. CASE FailExhausted(w)
    <3>1. \/ UNCHANGED status
          \/ \E s \in {"failed"} : /\ CanTransitionBatchImageJob(status[at[w]], s)
                 /\ status' = [status EXCEPT ![at[w]] = s]
      BY <2>22 DEF FailExhausted, Moved, MoveFails, TransitionBatchImageJobStatus, SetStatus
    <3>2. UNCHANGED <<success, actual, billVars>>
      BY <2>22 DEF FailExhausted, Moved, MoveFails, TransitionBatchImageJobStatus, SetStatus
    <3>3. \E p \in {"requeue", "check"} : WorkerGoto(w, p) BY <2>22 DEF FailExhausted
    <3> QED BY <3>1, <3>2, <3>3 DEF WorkerGoto
  <2>23. CASE CheckTerminal(w)
    BY <2>23, PriceTypes DEF CheckTerminal, WorkerAt, WorkerGoto, WorkerKeeps
  <2> QED BY <1>5, <2>1, <2>2, <2>3, <2>4, <2>5, <2>6, <2>7, <2>8, <2>9,
        <2>10, <2>11, <2>12, <2>13, <2>14, <2>15, <2>16, <2>17, <2>18, <2>19,
        <2>20, <2>21, <2>22, <2>23 DEF Work, Process
<1> QED BY <1>1, <1>2, <1>3, <1>4, <1>5 DEF Next

\* No step but a reserve brings a job to its submission.
LEMMA HeldFirstStep ==
    ASSUME TypeOK, SubmitFirst, ReleaseSeen, ChargedRight, HeldFirst, Next
    PROVE  HeldFirst'
<1> USE DEF TypeOK, SubmitFirst, ReleaseSeen, ChargedRight, HeldFirst, Early,
      Late, Sent, Settling, JobStatus, IsTerminalBatchImageJobStatus,
      CanTransitionBatchImageJob
<1>1. ASSUME NEW j \in Jobs, Submit(j) PROVE HeldFirst'
  <2>1. CASE SubmitHeartbeat(j)
    BY <2>1 DEF SubmitHeartbeat
  <2>2. CASE CreateBatchImageJob(j)
    BY <2>2 DEF CreateBatchImageJob, At, Goto, SetStatus
  <2>3. CASE SubmitReserve(j)
    BY <2>3
    DEF SubmitReserve, At, Reserved, Goto, ReserveFails, CanReserve,
        ReserveBatchImageBalance
  <2>4. CASE CreatePendingItems(j) BY <2>4 DEF CreatePendingItems, At, Goto
  <2>5. CASE SubmitUpload(j)
    BY <2>5
    DEF SubmitUpload, At, Moved, Goto, TransitionBatchImageJobStatus, SetStatus
  <2>6. CASE ProviderSubmit(j) BY <2>6 DEF ProviderSubmit, At, Goto
  <2>7. CASE SubmitPersist(j)
    BY <2>7 DEF SubmitPersist, At, UpdateBatchImageJobProviderSubmit, Goto
  <2>8. CASE AbortOrphanProviderJob(j)
    BY <2>8 DEF AbortOrphanProviderJob, At, Goto, ProviderCancel
  <2>9. CASE SubmitEnqueue(j)
    BY <2>9 DEF SubmitEnqueue, At, Enqueued, Goto, EnqueueFails, Enqueue
  <2>10. CASE SubmitQueueFailed(j)
    BY <2>10 DEF SubmitQueueFailed, At, Goto, RecordQueueFailure
  <2>11. CASE SubmitRelease(j)
    BY <2>11
    DEF SubmitRelease, Released, Goto, At, ReleaseFails, CanRelease,
        ReleaseBatchImageBalance
  <2>12. CASE RecordSubmitFailed(j)
    BY <2>12 DEF RecordSubmitFailed, At, Goto, RecordBatchImageJobSubmitFailure
  <2>13. CASE RecordReleaseFailed(j)
    BY <2>13 DEF RecordReleaseFailed, At, Goto, RecordBatchImageJobSubmitFailure
  <2>14. CASE SubmitRetryEnqueue(j)
    BY <2>14 DEF SubmitRetryEnqueue, At, Goto, Enqueued, EnqueueFails, Enqueue
  <2>15. CASE SubmitCrash(j) BY <2>15 DEF SubmitCrash, Goto
  <2> QED BY <1>1, <2>1, <2>2, <2>3, <2>4, <2>5, <2>6, <2>7, <2>8, <2>9,
        <2>10, <2>11, <2>12, <2>13, <2>14, <2>15 DEF Submit
<1>2. ASSUME NEW j \in Jobs, Owner(j) PROVE HeldFirst'
  <2>1. CASE CancelRead(j) \/ CancelProvider(j) \/ ResubmitRead(j) \/
        OwnerEnqueue(j) \/ OwnerCrash(j)
    BY <2>1 DEF CancelRead, CancelProvider, ResubmitRead, OwnerEnqueue,
      OwnerCrash
  <2>2. CASE CancelTransition(j)
    BY <2>2
    DEF CancelTransition, OwnerAt, Moved, OwnerGoto, MoveFails,
        TransitionBatchImageJobStatus, SetStatus
  <2>3. CASE CancelRelease(j)
    BY <2>3
    DEF CancelRelease, OwnerAt, Released, OwnerGoto, ReleaseFails, CanRelease,
        ReleaseBatchImageBalance
  <2>4. CASE ResubmitQueueFailed(j)
    BY <2>4 DEF ResubmitQueueFailed, OwnerAt, OwnerGoto, RecordQueueFailure
  <2> QED BY <1>2, <2>1, <2>2, <2>3, <2>4 DEF Owner
<1>3. ASSUME NEW j \in Jobs, Recovery(j) PROVE HeldFirst'
  <2>1. CASE BecomeStale(j) \/ RecoveryRetry(j) \/ RecoveryCrash(j)
    BY <2>1 DEF BecomeStale, RecoveryRetry, RecoveryCrash
  <2>2. CASE FailStaleUnsubmitted(j)
    BY <2>2 DEF FailStaleUnsubmitted, StaleUnsubmitted, SetStatus, RecoveryGoto
  <2>3. CASE RecoveryRelease(j)
    BY <2>3
    DEF RecoveryRelease, Released, RecoveryGoto, ReleaseFails, CanRelease,
        ReleaseBatchImageBalance
  <2> QED BY <1>3, <2>1, <2>2, <2>3 DEF Recovery
<1>4. ASSUME NEW j \in Jobs, Environment(j) PROVE HeldFirst'
  <2>1. CASE MoveDueDelayedToReady(j) \/ RecoverStaleActive(j) \/
        JobLockExpires(j) \/ InflightExpires(j) \/ ProviderAdvances(j)
    BY <2>1 DEF MoveDueDelayedToReady, RecoverStaleActive, JobLockExpires, InflightExpires,
      ProviderAdvances
  <2>2. CASE MarkBatchImageOutputDeleted(j)
    BY <2>2 DEF MarkBatchImageOutputDeleted, SetStatus
  <2> QED BY <1>4, <2>1, <2>2 DEF Environment
<1>5. ASSUME NEW w \in Workers, Work(w) PROVE HeldFirst'
  <2>1. CASE Reserve(w) BY <2>1 DEF Reserve, WorkerAt
  <2>2. CASE TryAcquireJobLock(w)
    BY <2>2 DEF TryAcquireJobLock, WorkerAt, WorkerGoto
  <2>3. CASE WorkerAck(w) BY <2>3 DEF WorkerAck, WorkerAt, WorkerGoto, Ack
  <2>4. CASE WorkerRequeue(w)
    BY <2>4 DEF WorkerRequeue, WorkerAt, WorkerGoto, RequeueAfter
  <2>5. CASE ReleaseJobLock(w) BY <2>5 DEF ReleaseJobLock, WorkerAt, WorkerGoto
  <2>6. CASE WorkerError(w) BY <2>6 DEF WorkerError, WorkerGoto
  <2>7. CASE WorkerCrash(w) BY <2>7 DEF WorkerCrash, WorkerAt, WorkerGoto
  <2>8. CASE PipelineRead(w)
    BY <2>8 DEF PipelineRead, WorkerAt, WorkerGoto, WorkerKeeps
  <2>9. CASE ProcessRead(w)
    BY <2>9 DEF ProcessRead, WorkerAt, WorkerGoto, IsProcessorDone, WorkerKeeps
  <2>10. CASE ProviderGet(w)
    BY <2>10 DEF ProviderGet, WorkerAt, WorkerGoto, WorkerKeeps
  <2>11. CASE ApplyProviderState(w)
    BY <2>11
    DEF ApplyProviderState, WorkerAt, TargetStatus, Moved, WorkerGoto, AfterTarget,
        MoveFails, WorkerKeeps, TransitionBatchImageJobStatus, SetStatus
  <2>12. CASE IndexResults(w)
    BY <2>12
    DEF IndexResults, WorkerAt, ReplaceBatchImageItemsForJob, WorkerGoto,
        WorkerKeeps
  <2>13. CASE IndexingFailed(w)
    BY <2>13
    DEF IndexingFailed, WorkerAt, Moved, WorkerGoto, MoveFails, WorkerKeeps,
        TransitionBatchImageJobStatus, SetStatus
  <2>14. CASE IndexingCompleted(w)
    BY <2>14
    DEF IndexingCompleted, WorkerAt, WorkerGoto, Moved, MoveFails, WorkerKeeps,
        TransitionBatchImageJobStatus, SetStatus
  <2>15. CASE ReleaseTerminalHold(w)
    BY <2>15
    DEF ReleaseTerminalHold, WorkerAt, Released, WorkerGoto, ReleaseFails,
        WorkerKeeps, CanRelease, ReleaseBatchImageBalance
  <2>16. CASE SettleRead(w)
    BY <2>16
    DEF SettleRead, WorkerAt, WorkerGoto, SettlementRetryExhausted, WorkerKeeps
  <2>17. CASE SettleCapture(w)
    BY <2>17
    DEF SettleCapture, WorkerAt, Captured, WorkerGoto, CaptureFails, WorkerKeeps,
        CanCapture, CaptureBatchImageBalance
  <2>18. CASE SettleMark(w)
    BY <2>18
    DEF SettleMark, WorkerAt, MarkBatchImageJobSettled, WorkerGoto, WorkerKeeps
  <2>19. CASE RecordSettlementFailure(w)
    BY <2>19
    DEF RecordSettlementFailure, WorkerAt, CountSettlementFailure, WorkerGoto,
        WorkerKeeps
  <2>20. CASE ReleaseExhausted(w)
    BY <2>20
    DEF ReleaseExhausted, WorkerAt, Released, WorkerGoto, ReleaseFails, WorkerKeeps,
        CanRelease, ReleaseBatchImageBalance
  <2>21. CASE RecordExhaustFailure(w)
    BY <2>21
    DEF RecordExhaustFailure, WorkerAt, WorkerGoto, CountSettlementFailure,
        WorkerKeeps
  <2>22. CASE FailExhausted(w)
    BY <2>22
    DEF FailExhausted, WorkerAt, Moved, WorkerGoto, MoveFails, WorkerKeeps,
        TransitionBatchImageJobStatus, SetStatus
  <2>23. CASE CheckTerminal(w)
    BY <2>23 DEF CheckTerminal, WorkerAt, WorkerGoto, WorkerKeeps
  <2> QED BY <1>5, <2>1, <2>2, <2>3, <2>4, <2>5, <2>6, <2>7, <2>8, <2>9,
        <2>10, <2>11, <2>12, <2>13, <2>14, <2>15, <2>16, <2>17, <2>18, <2>19,
        <2>20, <2>21, <2>22, <2>23 DEF Work, Process
<1> QED BY <1>1, <1>2, <1>3, <1>4, <1>5 DEF Next

\* A queued job moves between the three places and leaves with its key.
LEMMA QueueCoversStep ==
    ASSUME TypeOK, QueueCovers, Next
    PROVE  QueueCovers'
<1> USE DEF TypeOK, QueueCovers
<1>1. ASSUME NEW j \in Jobs, Submit(j) PROVE QueueCovers'
  <2>1. CASE CreateBatchImageJob(j) \/ SubmitReserve(j) \/ CreatePendingItems(j) \/
        SubmitUpload(j) \/ SubmitHeartbeat(j) \/ ProviderSubmit(j) \/
        SubmitPersist(j) \/ AbortOrphanProviderJob(j) \/ SubmitQueueFailed(j) \/
        SubmitRelease(j) \/ RecordSubmitFailed(j) \/ RecordReleaseFailed(j) \/
        SubmitCrash(j)
    BY <2>1 DEF CreateBatchImageJob, SubmitReserve, CreatePendingItems,
      SubmitUpload, SubmitHeartbeat, ProviderSubmit, SubmitPersist,
      AbortOrphanProviderJob, SubmitQueueFailed, SubmitRelease,
      RecordSubmitFailed, RecordReleaseFailed, SubmitCrash
  <2>2. CASE SubmitEnqueue(j)
    BY <2>2 DEF SubmitEnqueue, At, Enqueued, Goto, EnqueueFails, Enqueue
  <2>3. CASE SubmitRetryEnqueue(j)
    BY <2>3 DEF SubmitRetryEnqueue, At, Goto, Enqueued, EnqueueFails, Enqueue
  <2> QED BY <1>1, <2>1, <2>2, <2>3 DEF Submit
<1>2. ASSUME NEW j \in Jobs, Owner(j) PROVE QueueCovers'
  <2>1. CASE CancelRead(j) \/ CancelProvider(j) \/ CancelTransition(j) \/
        CancelRelease(j) \/ ResubmitRead(j) \/ ResubmitQueueFailed(j) \/
        OwnerCrash(j)
    BY <2>1 DEF CancelRead, CancelProvider, CancelTransition, CancelRelease,
      ResubmitRead, ResubmitQueueFailed, OwnerCrash
  <2>2. CASE OwnerEnqueue(j)
    BY <2>2 DEF OwnerEnqueue, Enqueued, OwnerGoto, EnqueueFails, OwnerAt, Enqueue
  <2> QED BY <1>2, <2>1, <2>2 DEF Owner
<1>3. ASSUME NEW j \in Jobs, Recovery(j) PROVE QueueCovers'
  <2>1. CASE BecomeStale(j) \/ FailStaleUnsubmitted(j) \/ RecoveryRelease(j) \/
        RecoveryCrash(j)
    BY <2>1 DEF BecomeStale, FailStaleUnsubmitted, RecoveryRelease,
      RecoveryCrash
  <2>2. CASE RecoveryRetry(j)
    BY <2>2 DEF RecoveryRetry, RecoveryGoto, Enqueued, EnqueueFails, Enqueue
  <2> QED BY <1>3, <2>1, <2>2 DEF Recovery
<1>4. ASSUME NEW j \in Jobs, Environment(j) PROVE QueueCovers'
  <2>1. CASE JobLockExpires(j) \/ InflightExpires(j) \/ MarkBatchImageOutputDeleted(j) \/
        ProviderAdvances(j)
    BY <2>1 DEF JobLockExpires, InflightExpires, MarkBatchImageOutputDeleted, ProviderAdvances
  <2>2. CASE MoveDueDelayedToReady(j) BY <2>2 DEF MoveDueDelayedToReady
  <2>3. CASE RecoverStaleActive(j)
    BY <2>3 DEF RecoverStaleActive, HeartbeatLate, Busy
  <2> QED BY <1>4, <2>1, <2>2, <2>3 DEF Environment
<1>5. ASSUME NEW w \in Workers, Work(w) PROVE QueueCovers'
  <2>1. CASE TryAcquireJobLock(w) \/ ReleaseJobLock(w) \/ WorkerError(w) \/
        WorkerCrash(w) \/ PipelineRead(w) \/ ProcessRead(w) \/ ProviderGet(w) \/
        ApplyProviderState(w) \/ IndexResults(w) \/ IndexingFailed(w) \/
        IndexingCompleted(w) \/ ReleaseTerminalHold(w) \/ SettleRead(w) \/
        SettleCapture(w) \/ SettleMark(w) \/ RecordSettlementFailure(w) \/
        ReleaseExhausted(w) \/ RecordExhaustFailure(w) \/ FailExhausted(w) \/
        CheckTerminal(w)
    BY <2>1 DEF TryAcquireJobLock, ReleaseJobLock, WorkerError, WorkerCrash,
      PipelineRead, ProcessRead, ProviderGet, ApplyProviderState,
      IndexResults, IndexingFailed, IndexingCompleted, ReleaseTerminalHold,
      SettleRead, SettleCapture, SettleMark, RecordSettlementFailure,
      ReleaseExhausted, RecordExhaustFailure, FailExhausted, CheckTerminal,
      WorkerKeeps, WorkerGoto
  <2>2. CASE Reserve(w) BY <2>2 DEF Reserve, WorkerAt
  <2>3. CASE WorkerAck(w) BY <2>3 DEF WorkerAck, WorkerAt, WorkerGoto, Ack
  <2>4. CASE WorkerRequeue(w)
    BY <2>4 DEF WorkerRequeue, WorkerAt, WorkerGoto, RequeueAfter
  <2> QED BY <1>5, <2>1, <2>2, <2>3, <2>4 DEF Work, Process
<1> QED BY <1>1, <1>2, <1>3, <1>4, <1>5 DEF Next

------------------------------------------------------------------------------
(* Heartbeats in time                                                      *)

\* A worker that processes a job leaves the queue and other workers alone.
LEMMA ProcessKeepsQueue ==
    ASSUME TypeOK, NEW w \in Workers, Process(w)
    PROVE  /\ pc[w] \notin {"idle", "unlock"} /\ at' = at /\ UNCHANGED queueVars
           /\ \A v \in Workers : v # w => pc'[v] = pc[v]
<1> DEFINE Moves == \E p : pc' = [pc EXCEPT ![w] = p]
<1>1. /\ pc[w] \notin {"idle", "unlock"} /\ at' = at
      /\ Moves /\ UNCHANGED WorkerKeeps
  <2>1. CASE PipelineRead(w) BY <2>1 DEF PipelineRead, WorkerAt, WorkerGoto
  <2>2. CASE ProcessRead(w) BY <2>2 DEF ProcessRead, WorkerAt, WorkerGoto
  <2>3. CASE ProviderGet(w) BY <2>3 DEF ProviderGet, WorkerAt, WorkerGoto
  <2>4. CASE ApplyProviderState(w) BY <2>4 DEF ApplyProviderState, WorkerAt, WorkerGoto
  <2>5. CASE IndexResults(w) BY <2>5 DEF IndexResults, WorkerAt, WorkerGoto
  <2>6. CASE IndexingFailed(w) BY <2>6 DEF IndexingFailed, WorkerAt, WorkerGoto
  <2>7. CASE IndexingCompleted(w) BY <2>7 DEF IndexingCompleted, WorkerAt, WorkerGoto
  <2>8. CASE ReleaseTerminalHold(w) BY <2>8 DEF ReleaseTerminalHold, WorkerAt, WorkerGoto
  <2>9. CASE SettleRead(w) BY <2>9 DEF SettleRead, WorkerAt, WorkerGoto
  <2>10. CASE SettleCapture(w) BY <2>10 DEF SettleCapture, WorkerAt, WorkerGoto
  <2>11. CASE SettleMark(w) BY <2>11 DEF SettleMark, WorkerAt, WorkerGoto
  <2>12. CASE RecordSettlementFailure(w) BY <2>12 DEF RecordSettlementFailure, WorkerAt, WorkerGoto
  <2>13. CASE ReleaseExhausted(w) BY <2>13 DEF ReleaseExhausted, WorkerAt, WorkerGoto
  <2>14. CASE RecordExhaustFailure(w) BY <2>14 DEF RecordExhaustFailure, WorkerAt, WorkerGoto
  <2>15. CASE FailExhausted(w) BY <2>15 DEF FailExhausted, WorkerAt, WorkerGoto
  <2>16. CASE CheckTerminal(w) BY <2>16 DEF CheckTerminal, WorkerAt, WorkerGoto
  <2> QED BY <2>1, <2>2, <2>3, <2>4, <2>5, <2>6, <2>7, <2>8, <2>9,
        <2>10, <2>11, <2>12, <2>13, <2>14, <2>15, <2>16 DEF Process
<1> QED BY <1>1 DEF TypeOK, WorkerKeeps, queueVars

\* Nobody recovers the active entry of a worker at work.
LEMMA OnePlaceStep ==
    ASSUME ~Slow, TypeOK, OnePlace, Next
    PROVE  OnePlace'
<1> USE DEF TypeOK, OnePlace, Busy, WorkerPC
<1>1. ASSUME NEW j \in Jobs, Submit(j) PROVE OnePlace'
  <2>1. CASE CreateBatchImageJob(j) \/ SubmitReserve(j) \/ CreatePendingItems(j) \/
        SubmitUpload(j) \/ SubmitHeartbeat(j) \/ ProviderSubmit(j) \/
        SubmitPersist(j) \/ AbortOrphanProviderJob(j) \/ SubmitQueueFailed(j) \/
        SubmitRelease(j) \/ RecordSubmitFailed(j) \/ RecordReleaseFailed(j) \/
        SubmitCrash(j)
    BY <2>1 DEF CreateBatchImageJob, SubmitReserve, CreatePendingItems,
      SubmitUpload, SubmitHeartbeat, ProviderSubmit, SubmitPersist,
      AbortOrphanProviderJob, SubmitQueueFailed, SubmitRelease,
      RecordSubmitFailed, RecordReleaseFailed, SubmitCrash
  <2>2. CASE SubmitEnqueue(j)
    BY <2>2 DEF SubmitEnqueue, At, Enqueued, Goto, EnqueueFails, Enqueue
  <2>3. CASE SubmitRetryEnqueue(j)
    BY <2>3 DEF SubmitRetryEnqueue, At, Goto, Enqueued, EnqueueFails, Enqueue
  <2> QED BY <1>1, <2>1, <2>2, <2>3 DEF Submit
<1>2. ASSUME NEW j \in Jobs, Owner(j) PROVE OnePlace'
  <2>1. CASE CancelRead(j) \/ CancelProvider(j) \/ CancelTransition(j) \/
        CancelRelease(j) \/ ResubmitRead(j) \/ ResubmitQueueFailed(j) \/
        OwnerCrash(j)
    BY <2>1 DEF CancelRead, CancelProvider, CancelTransition, CancelRelease,
      ResubmitRead, ResubmitQueueFailed, OwnerCrash
  <2>2. CASE OwnerEnqueue(j)
    BY <2>2 DEF OwnerEnqueue, Enqueued, OwnerGoto, EnqueueFails, OwnerAt, Enqueue
  <2> QED BY <1>2, <2>1, <2>2 DEF Owner
<1>3. ASSUME NEW j \in Jobs, Recovery(j) PROVE OnePlace'
  <2>1. CASE BecomeStale(j) \/ FailStaleUnsubmitted(j) \/ RecoveryRelease(j) \/
        RecoveryCrash(j)
    BY <2>1 DEF BecomeStale, FailStaleUnsubmitted, RecoveryRelease,
      RecoveryCrash
  <2>2. CASE RecoveryRetry(j)
    BY <2>2 DEF RecoveryRetry, RecoveryGoto, Enqueued, EnqueueFails, Enqueue
  <2> QED BY <1>3, <2>1, <2>2 DEF Recovery
<1>4. ASSUME NEW j \in Jobs, Environment(j) PROVE OnePlace'
  <2>1. CASE JobLockExpires(j) \/ InflightExpires(j) \/ MarkBatchImageOutputDeleted(j) \/
        ProviderAdvances(j)
    BY <2>1 DEF JobLockExpires, InflightExpires, MarkBatchImageOutputDeleted, ProviderAdvances
  <2>2. CASE MoveDueDelayedToReady(j) BY <2>2 DEF MoveDueDelayedToReady
  <2>3. CASE RecoverStaleActive(j) BY <2>3 DEF RecoverStaleActive, HeartbeatLate
  <2> QED BY <1>4, <2>1, <2>2, <2>3 DEF Environment
<1>5. ASSUME NEW w \in Workers, Work(w) PROVE OnePlace'
  <2>1. CASE Reserve(w) BY <2>1 DEF Reserve, WorkerAt
  <2>2. CASE TryAcquireJobLock(w)
    BY <2>2 DEF TryAcquireJobLock, WorkerAt, WorkerGoto
  <2>3. CASE WorkerAck(w) BY <2>3 DEF WorkerAck, WorkerAt, WorkerGoto, Ack
  <2>4. CASE WorkerRequeue(w)
    BY <2>4 DEF WorkerRequeue, WorkerAt, WorkerGoto, RequeueAfter
  <2>5. CASE ReleaseJobLock(w) BY <2>5 DEF ReleaseJobLock, WorkerAt, WorkerGoto
  <2>6. CASE WorkerError(w) BY <2>6 DEF WorkerError, WorkerGoto
  <2>7. CASE WorkerCrash(w) BY <2>7 DEF WorkerCrash, WorkerAt, WorkerGoto
  <2>8. CASE Process(w)
    <3>1. /\ UNCHANGED <<at, ready, delayed, active, inflight>>
          /\ \A v \in Workers : Busy(v, at[v])' => Busy(v, at[v])
      BY <2>8, ProcessKeepsQueue DEF queueVars
    <3> QED BY <3>1
  <2> QED BY <1>5, <2>1, <2>2, <2>3, <2>4, <2>5, <2>6, <2>7, <2>8 DEF Work
<1> QED BY <1>1, <1>2, <1>3, <1>4, <1>5 DEF Next

\* Nobody else moves the row from where a worker has seen it.
LEMMA StatusSeenStep ==
    ASSUME ~Slow, TypeOK, SubmitFirst, ReleaseSeen, OnePlace, StatusSeen, Next
    PROVE  StatusSeen'
<1> USE DEF TypeOK, SubmitFirst, ReleaseSeen, OnePlace, StatusSeen, Busy,
      Early, Ended, Late, Settling, JobStatus, IsTerminalBatchImageJobStatus,
      CanTransitionBatchImageJob
<1>1. ASSUME NEW j \in Jobs, Submit(j) PROVE StatusSeen'
  <2>1. CASE SubmitReserve(j) \/ CreatePendingItems(j) \/ SubmitHeartbeat(j) \/
        ProviderSubmit(j) \/ AbortOrphanProviderJob(j) \/ SubmitRelease(j) \/
        SubmitCrash(j)
    BY <2>1 DEF SubmitReserve, CreatePendingItems, SubmitHeartbeat,
      ProviderSubmit, AbortOrphanProviderJob, SubmitRelease, SubmitCrash
  <2>2. CASE CreateBatchImageJob(j)
    BY <2>2 DEF CreateBatchImageJob, At, Goto, SetStatus
  <2>3. CASE SubmitUpload(j)
    BY <2>3
    DEF SubmitUpload, At, Moved, Goto, TransitionBatchImageJobStatus, SetStatus
  <2>4. CASE SubmitPersist(j)
    BY <2>4 DEF SubmitPersist, At, UpdateBatchImageJobProviderSubmit, Goto
  <2>5. CASE SubmitEnqueue(j)
    BY <2>5 DEF SubmitEnqueue, At, Enqueued, Goto, EnqueueFails, Enqueue
  <2>6. CASE SubmitQueueFailed(j)
    BY <2>6 DEF SubmitQueueFailed, At, Goto, RecordQueueFailure
  <2>7. CASE RecordSubmitFailed(j)
    BY <2>7 DEF RecordSubmitFailed, At, Goto, RecordBatchImageJobSubmitFailure
  <2>8. CASE RecordReleaseFailed(j)
    BY <2>8 DEF RecordReleaseFailed, At, Goto, RecordBatchImageJobSubmitFailure
  <2>9. CASE SubmitRetryEnqueue(j)
    BY <2>9 DEF SubmitRetryEnqueue, At, Goto, Enqueued, EnqueueFails, Enqueue
  <2> QED BY <1>1, <2>1, <2>2, <2>3, <2>4, <2>5, <2>6, <2>7, <2>8, <2>9 DEF Submit
<1>2. ASSUME NEW j \in Jobs, Owner(j) PROVE StatusSeen'
  <2>1. CASE CancelRead(j) \/ CancelProvider(j) \/ CancelRelease(j) \/
        ResubmitRead(j) \/ OwnerCrash(j)
    BY <2>1 DEF CancelRead, CancelProvider, CancelRelease, ResubmitRead,
      OwnerCrash
  <2>2. CASE CancelTransition(j)
    BY <2>2
    DEF CancelTransition, OwnerAt, Moved, OwnerGoto, MoveFails,
        TransitionBatchImageJobStatus, SetStatus
  <2>3. CASE OwnerEnqueue(j)
    BY <2>3 DEF OwnerEnqueue, Enqueued, OwnerGoto, EnqueueFails, OwnerAt, Enqueue
  <2>4. CASE ResubmitQueueFailed(j)
    BY <2>4 DEF ResubmitQueueFailed, OwnerAt, OwnerGoto, RecordQueueFailure
  <2> QED BY <1>2, <2>1, <2>2, <2>3, <2>4 DEF Owner
<1>3. ASSUME NEW j \in Jobs, Recovery(j) PROVE StatusSeen'
  <2>1. CASE BecomeStale(j) \/ RecoveryRelease(j) \/ RecoveryCrash(j)
    BY <2>1 DEF BecomeStale, RecoveryRelease, RecoveryCrash
  <2>2. CASE FailStaleUnsubmitted(j)
    BY <2>2 DEF FailStaleUnsubmitted, StaleUnsubmitted, SetStatus, RecoveryGoto
  <2>3. CASE RecoveryRetry(j)
    BY <2>3 DEF RecoveryRetry, RecoveryGoto, Enqueued, EnqueueFails, Enqueue
  <2> QED BY <1>3, <2>1, <2>2, <2>3 DEF Recovery
<1>4. ASSUME NEW j \in Jobs, Environment(j) PROVE StatusSeen'
  <2>1. CASE MoveDueDelayedToReady(j) \/ RecoverStaleActive(j) \/
        JobLockExpires(j) \/ InflightExpires(j) \/ ProviderAdvances(j)
    BY <2>1 DEF MoveDueDelayedToReady, RecoverStaleActive, JobLockExpires, InflightExpires,
      ProviderAdvances
  <2>2. CASE MarkBatchImageOutputDeleted(j)
    BY <2>2 DEF MarkBatchImageOutputDeleted, SetStatus
  <2> QED BY <1>4, <2>1, <2>2 DEF Environment
<1>5. ASSUME NEW w \in Workers, Work(w) PROVE StatusSeen'
  <2>1. CASE Reserve(w) BY <2>1 DEF Reserve, WorkerAt
  <2>2. CASE TryAcquireJobLock(w)
    BY <2>2 DEF TryAcquireJobLock, WorkerAt, WorkerGoto
  <2>3. CASE WorkerAck(w) BY <2>3 DEF WorkerAck, WorkerAt, WorkerGoto, Ack
  <2>4. CASE WorkerRequeue(w)
    BY <2>4 DEF WorkerRequeue, WorkerAt, WorkerGoto, RequeueAfter
  <2>5. CASE ReleaseJobLock(w) BY <2>5 DEF ReleaseJobLock, WorkerAt, WorkerGoto
  <2>6. CASE WorkerError(w) BY <2>6 DEF WorkerError, WorkerGoto
  <2>7. CASE WorkerCrash(w) BY <2>7 DEF WorkerCrash, WorkerAt, WorkerGoto
  <2>8. CASE PipelineRead(w)
    BY <2>8 DEF PipelineRead, WorkerAt, WorkerGoto, WorkerKeeps
  <2>9. CASE ProcessRead(w)
    BY <2>9 DEF ProcessRead, WorkerAt, WorkerGoto, IsProcessorDone, WorkerKeeps
  <2>10. CASE ProviderGet(w)
    BY <2>10 DEF ProviderGet, WorkerAt, WorkerGoto, WorkerKeeps
  <2>11. CASE ApplyProviderState(w)
    <3>1. \/ UNCHANGED status /\ WorkerGoto(w, "requeue")
          \/ \E s \in {"running", "indexing", "cancelled", "failed"} :
                /\ CanTransitionBatchImageJob(status[at[w]], s)
                /\ status' = [status EXCEPT ![at[w]] = s]
                /\ \/ WorkerGoto(w, "requeue")
                   \/ s = "indexing" /\ WorkerGoto(w, "index")
                   \/ s \in Ended /\ WorkerGoto(w, "release")
      BY <2>11
      DEF ApplyProviderState, TargetStatus, AfterTarget, Ended, Moved, MoveFails,
          TransitionBatchImageJobStatus, SetStatus
    <3>2. WorkerAt(w, "apply") /\ UNCHANGED inflight
      BY <2>11 DEF ApplyProviderState, WorkerKeeps
    <3> QED BY <3>1, <3>2 DEF WorkerGoto, WorkerAt
  <2>12. CASE IndexResults(w)
    BY <2>12
    DEF IndexResults, WorkerAt, ReplaceBatchImageItemsForJob, WorkerGoto,
        WorkerKeeps
  <2>13. CASE IndexingFailed(w)
    BY <2>13
    DEF IndexingFailed, WorkerAt, Moved, WorkerGoto, MoveFails, WorkerKeeps,
        TransitionBatchImageJobStatus, SetStatus
  <2>14. CASE IndexingCompleted(w)
    BY <2>14
    DEF IndexingCompleted, WorkerAt, WorkerGoto, Moved, MoveFails, WorkerKeeps,
        TransitionBatchImageJobStatus, SetStatus
  <2>15. CASE ReleaseTerminalHold(w)
    BY <2>15
    DEF ReleaseTerminalHold, WorkerAt, Released, WorkerGoto, ReleaseFails,
        WorkerKeeps, CanRelease, ReleaseBatchImageBalance
  <2>16. CASE SettleRead(w)
    BY <2>16
    DEF SettleRead, WorkerAt, WorkerGoto, SettlementRetryExhausted, WorkerKeeps
  <2>17. CASE SettleCapture(w)
    BY <2>17
    DEF SettleCapture, WorkerAt, Captured, WorkerGoto, CaptureFails, WorkerKeeps,
        CanCapture, CaptureBatchImageBalance
  <2>18. CASE SettleMark(w)
    <3>1. \/ UNCHANGED status /\ WorkerGoto(w, "requeue")
          \/ /\ status[at[w]] = "settling"
             /\ status' = [status EXCEPT ![at[w]] = "completed"]
             /\ WorkerGoto(w, "ack") \/ WorkerGoto(w, "requeue")
      BY <2>18 DEF SettleMark, MarkBatchImageJobSettled
    <3>2. WorkerAt(w, "mark") /\ UNCHANGED inflight
      BY <2>18 DEF SettleMark, WorkerKeeps
    <3> QED BY <3>1, <3>2 DEF WorkerGoto, WorkerAt
  <2>19. CASE RecordSettlementFailure(w)
    BY <2>19
    DEF RecordSettlementFailure, WorkerAt, CountSettlementFailure, WorkerGoto,
        WorkerKeeps
  <2>20. CASE ReleaseExhausted(w)
    BY <2>20
    DEF ReleaseExhausted, WorkerAt, Released, WorkerGoto, ReleaseFails, WorkerKeeps,
        CanRelease, ReleaseBatchImageBalance
  <2>21. CASE RecordExhaustFailure(w)
    BY <2>21
    DEF RecordExhaustFailure, WorkerAt, WorkerGoto, CountSettlementFailure,
        WorkerKeeps
  <2>22. CASE FailExhausted(w)
    <3>1. UNCHANGED status \/ status' = [status EXCEPT ![at[w]] = "failed"]
      BY <2>22 DEF FailExhausted, Moved, MoveFails, TransitionBatchImageJobStatus, SetStatus
    <3>2. \E p \in {"check", "requeue"} : WorkerGoto(w, p)
      BY <2>22 DEF FailExhausted
    <3>3. WorkerAt(w, "fail_job") /\ UNCHANGED inflight
      BY <2>22 DEF FailExhausted, WorkerKeeps
    <3>4. CASE UNCHANGED status BY <3>2, <3>3, <3>4 DEF WorkerGoto, WorkerAt
    <3>5. CASE status' = [status EXCEPT ![at[w]] = "failed"]
      BY <3>2, <3>3, <3>5 DEF WorkerGoto, WorkerAt
    <3> QED BY <3>1, <3>4, <3>5
  <2>23. CASE CheckTerminal(w)
    BY <2>23 DEF CheckTerminal, WorkerAt, WorkerGoto, WorkerKeeps
  <2> QED BY <1>5, <2>1, <2>2, <2>3, <2>4, <2>5, <2>6, <2>7, <2>8, <2>9,
        <2>10, <2>11, <2>12, <2>13, <2>14, <2>15, <2>16, <2>17, <2>18, <2>19,
        <2>20, <2>21, <2>22, <2>23 DEF Work, Process
<1> QED BY <1>1, <1>2, <1>3, <1>4, <1>5 DEF Next

------------------------------------------------------------------------------
(* Fewer faults than retries                                               *)

\* retry_count never passes the limit.
LEMMA RetryTypes ==
    ASSUME TypeOK, NEW w \in Workers
    PROVE  /\ retry[at[w]] \in 0..MaxRetries
           /\ retry[at[w]] >= MaxRetries => retry[at[w]] = MaxRetries
<1>1. retry[at[w]] \in 0..MaxRetries BY DEF TypeOK
<1> QED BY <1>1

\* The failure that reaches the limit is counted up to it.
LEMMA CountAtLimit ==
    ASSUME TypeOK, NEW w \in Workers, retry[at[w]] + 1 >= MaxRetries,
           retry' = [retry EXCEPT ![at[w]] =
               IF retry[at[w]] < MaxRetries THEN retry[at[w]] + 1 ELSE retry[at[w]]]
    PROVE  retry'[at[w]] = MaxRetries
<1>1. retry[at[w]] \in 0..MaxRetries /\ at[w] \in Jobs /\ retry \in [Jobs -> 0..MaxRetries]
  BY DEF TypeOK
<1> QED BY <1>1

\* At the retry limit every fault has been counted, so none is left and the
\* job has not been captured.
LEMMA AtLimit ==
    ASSUME FaultsBelowLimit, TypeOK, OnePlace, StatusSeen, FaultsCover, OneEnd,
           NEW w \in Workers, pc[w] \in {"exhaust", "exhaust_failed", "fail_job"}
    PROVE  faults >= MaxFaults /\ at[w] \notin captured
<1>1. retry[at[w]] = MaxRetries /\ retry[at[w]] <= faults /\ faults <= MaxFaults
  BY DEF TypeOK, FaultsCover, OneEnd
<1>2. MaxFaults <= MaxRetries /\ (LostAcks => MaxFaults < MaxRetries)
  BY DEF FaultsBelowLimit
<1>3. ~LostAcks /\ ~(retry[at[w]] < faults) BY <1>1, <1>2 DEF TypeOK
<1>4. status[at[w]] = "settling" BY DEF StatusSeen, Settling
<1>5. ~ \E v \in Workers : pc[v] = "mark" /\ at[v] = at[w]
  BY DEF OnePlace, Busy
<1> QED BY <1>1, <1>2, <1>3, <1>4, <1>5 DEF FaultsCover, TypeOK

\* An open hold is covered by the frozen balance.
LEMMA OpenFrozen ==
    ASSUME TypeOK, Frozen, NEW j \in OpenHolds
    PROVE  frozen >= HoldAmount
<1>1. IsFiniteSet(OpenHolds)
  <2>1. OpenHolds \subseteq Jobs BY DEF OpenHolds
  <2> QED BY <2>1, FS_Subset
<1>2. Cardinality(OpenHolds) \in Nat /\ Cardinality(OpenHolds) # 0
  BY <1>1, FS_CardinalityType, FS_EmptySet
<1>3. ASSUME NEW n \in Nat \ {0}, NEW h \in Nat PROVE h * n >= h BY <1>3
<1>4. HoldAmount * Cardinality(OpenHolds) >= HoldAmount BY <1>2, <1>3, PriceTypes
<1>5. HoldAmount * Cardinality(OpenHolds) \in Int BY <1>2, PriceTypes
<1> QED BY <1>4, <1>5, PriceTypes DEF Frozen, TypeOK

\* Settlement captures a hold that is open, and covers the cost.
LEMMA CaptureOpen ==
    ASSUME TypeOK, ChargedRight, HeldFirst, OnePlace, StatusSeen, OneEnd, Frozen,
           NEW w \in Workers, pc[w] = "capture"
    PROVE  /\ at[w] \in held /\ at[w] \notin refunded
           /\ CanCapture(at[w], due[w])
<1>1. status[at[w]] = "settling" BY DEF StatusSeen, Settling
<1>2. at[w] \in held BY DEF HeldFirst, Settling
<1>3. at[w] \notin refunded BY <1>1 DEF OneEnd, OnePlace, Busy
<1>4. at[w] \in Jobs /\ success[at[w]] \in 0..Items /\ due[w] = ActualCost(success[at[w]])
  BY DEF TypeOK, ChargedRight
<1>5. CASE at[w] \in captured BY <1>2, <1>3, <1>5 DEF CanCapture
<1>6. CASE at[w] \notin captured
  <2>1. at[w] \in OpenHolds BY <1>2, <1>3, <1>4, <1>6 DEF OpenHolds
  <2> QED BY <1>2, <1>3, <1>4, <2>1, OpenFrozen, PriceTypes DEF CanCapture
<1> QED BY <1>5, <1>6

\* Whatever is released and was held is open.
LEMMA ReleaseOpen ==
    ASSUME TypeOK, HeldFirst, OneEnd, Frozen, NEW j \in Jobs, j \notin captured
    PROVE  CanRelease(j)
<1>1. CASE j \in released \/ j \notin held BY <1>1 DEF CanRelease
<1>2. CASE j \in held /\ j \notin released
  <2>1. j \in OpenHolds BY <1>2 DEF OpenHolds, HeldFirst
  <2> QED BY <2>1, OpenFrozen DEF CanRelease
<1> QED BY <1>1, <1>2

\* A settlement fails, and a captured job is left unmarked, only by a fault.
LEMMA FaultsCoverStep ==
    ASSUME ~Slow, FaultsBelowLimit, TypeOK, SubmitFirst, ReleaseSeen,
           RefundedEarly, ChargedRight, HeldFirst, OnePlace, StatusSeen,
           FaultsCover, OneEnd, Frozen, Next
    PROVE  FaultsCover'
<1> USE DEF TypeOK, SubmitFirst, StatusSeen, OnePlace, Busy, FaultsCover,
      Early, Late, Settling, ChargedRight, JobStatus,
      IsTerminalBatchImageJobStatus, CanTransitionBatchImageJob
<1>1. ASSUME NEW j \in Jobs, Submit(j) PROVE FaultsCover'
  <2>1. CASE SubmitHeartbeat(j)
    BY <2>1 DEF SubmitHeartbeat
  <2>2. CASE CreateBatchImageJob(j)
    BY <2>2, AtLimit, CaptureOpen, PriceTypes
    DEF CreateBatchImageJob, At, Goto, SetStatus
  <2>3. CASE SubmitReserve(j)
    BY <2>3, AtLimit, CaptureOpen, PriceTypes
    DEF SubmitReserve, At, Reserved, Goto, ReserveFails, CanReserve,
        ReserveBatchImageBalance
  <2>4. CASE CreatePendingItems(j)
    BY <2>4, AtLimit, CaptureOpen, PriceTypes DEF CreatePendingItems, At, Goto
  <2>5. CASE SubmitUpload(j)
    BY <2>5, AtLimit, CaptureOpen, PriceTypes
    DEF SubmitUpload, At, Moved, Goto, TransitionBatchImageJobStatus, SetStatus
  <2>6. CASE ProviderSubmit(j)
    BY <2>6, AtLimit, CaptureOpen, PriceTypes DEF ProviderSubmit, At, Goto
  <2>7. CASE SubmitPersist(j)
    BY <2>7, AtLimit, CaptureOpen, PriceTypes
    DEF SubmitPersist, At, UpdateBatchImageJobProviderSubmit, Goto
  <2>8. CASE AbortOrphanProviderJob(j)
    BY <2>8, AtLimit, CaptureOpen, PriceTypes
    DEF AbortOrphanProviderJob, At, Goto, ProviderCancel
  <2>9. CASE SubmitEnqueue(j)
    BY <2>9, AtLimit, CaptureOpen, PriceTypes
    DEF SubmitEnqueue, At, Enqueued, Goto, EnqueueFails, Enqueue
  <2>10. CASE SubmitQueueFailed(j)
    BY <2>10, AtLimit, CaptureOpen, PriceTypes
    DEF SubmitQueueFailed, At, Goto, RecordQueueFailure
  <2>11. CASE SubmitRelease(j)
    BY <2>11, AtLimit, CaptureOpen, PriceTypes
    DEF SubmitRelease, Released, Goto, At, ReleaseFails, CanRelease,
        ReleaseBatchImageBalance
  <2>12. CASE RecordSubmitFailed(j)
    BY <2>12, AtLimit, CaptureOpen, PriceTypes
    DEF RecordSubmitFailed, At, Goto, RecordBatchImageJobSubmitFailure
  <2>13. CASE RecordReleaseFailed(j)
    BY <2>13, AtLimit, CaptureOpen, PriceTypes
    DEF RecordReleaseFailed, At, Goto, RecordBatchImageJobSubmitFailure
  <2>14. CASE SubmitRetryEnqueue(j)
    BY <2>14, AtLimit, CaptureOpen, PriceTypes
    DEF SubmitRetryEnqueue, At, Goto, Enqueued, EnqueueFails, Enqueue
  <2>15. CASE SubmitCrash(j)
    BY <2>15, AtLimit, CaptureOpen, PriceTypes DEF SubmitCrash, Goto
  <2> QED BY <1>1, <2>1, <2>2, <2>3, <2>4, <2>5, <2>6, <2>7, <2>8, <2>9,
        <2>10, <2>11, <2>12, <2>13, <2>14, <2>15 DEF Submit
<1>2. ASSUME NEW j \in Jobs, Owner(j) PROVE FaultsCover'
  <2>1. CASE CancelRead(j) \/ ResubmitRead(j)
    BY <2>1 DEF CancelRead, ResubmitRead
  <2>2. CASE CancelProvider(j)
    BY <2>2, AtLimit, CaptureOpen, PriceTypes
    DEF CancelProvider, OwnerAt, ProviderCancel, OwnerGoto
  <2>3. CASE CancelTransition(j)
    BY <2>3, AtLimit, CaptureOpen, PriceTypes
    DEF CancelTransition, OwnerAt, Moved, OwnerGoto, MoveFails,
        TransitionBatchImageJobStatus, SetStatus
  <2>4. CASE CancelRelease(j)
    BY <2>4, AtLimit, CaptureOpen, PriceTypes
    DEF CancelRelease, OwnerAt, Released, OwnerGoto, ReleaseFails, CanRelease,
        ReleaseBatchImageBalance
  <2>5. CASE OwnerEnqueue(j)
    BY <2>5, AtLimit, CaptureOpen, PriceTypes
    DEF OwnerEnqueue, Enqueued, OwnerGoto, EnqueueFails, OwnerAt, Enqueue
  <2>6. CASE ResubmitQueueFailed(j)
    BY <2>6, AtLimit, CaptureOpen, PriceTypes
    DEF ResubmitQueueFailed, OwnerAt, OwnerGoto, RecordQueueFailure
  <2>7. CASE OwnerCrash(j)
    BY <2>7, AtLimit, CaptureOpen, PriceTypes DEF OwnerCrash, OwnerAt, OwnerGoto
  <2> QED BY <1>2, <2>1, <2>2, <2>3, <2>4, <2>5, <2>6, <2>7 DEF Owner
<1>3. ASSUME NEW j \in Jobs, Recovery(j) PROVE FaultsCover'
  <2>1. CASE BecomeStale(j)
    BY <2>1 DEF BecomeStale
  <2>2. CASE FailStaleUnsubmitted(j)
    BY <2>2, AtLimit, CaptureOpen, PriceTypes
    DEF FailStaleUnsubmitted, StaleUnsubmitted, SetStatus, RecoveryGoto
  <2>3. CASE RecoveryRelease(j)
    BY <2>3, AtLimit, CaptureOpen, PriceTypes
    DEF RecoveryRelease, Released, RecoveryGoto, ReleaseFails, CanRelease,
        ReleaseBatchImageBalance
  <2>4. CASE RecoveryRetry(j)
    BY <2>4, AtLimit, CaptureOpen, PriceTypes
    DEF RecoveryRetry, RecoveryGoto, Enqueued, EnqueueFails, Enqueue
  <2>5. CASE RecoveryCrash(j)
    BY <2>5, AtLimit, CaptureOpen, PriceTypes DEF RecoveryCrash, RecoveryGoto
  <2> QED BY <1>3, <2>1, <2>2, <2>3, <2>4, <2>5 DEF Recovery
<1>4. ASSUME NEW j \in Jobs, Environment(j) PROVE FaultsCover'
  <2>1. CASE MoveDueDelayedToReady(j) \/ RecoverStaleActive(j) \/
        JobLockExpires(j) \/ InflightExpires(j) \/ ProviderAdvances(j)
    BY <2>1 DEF MoveDueDelayedToReady, RecoverStaleActive, JobLockExpires, InflightExpires,
      ProviderAdvances
  <2>2. CASE MarkBatchImageOutputDeleted(j)
    BY <2>2, AtLimit, CaptureOpen, PriceTypes
    DEF MarkBatchImageOutputDeleted, SetStatus
  <2> QED BY <1>4, <2>1, <2>2 DEF Environment
<1>5. ASSUME NEW w \in Workers, Work(w) PROVE FaultsCover'
  <2>1. CASE Reserve(w)
    BY <2>1, AtLimit, CaptureOpen, PriceTypes DEF Reserve, WorkerAt
  <2>2. CASE TryAcquireJobLock(w)
    BY <2>2, AtLimit, CaptureOpen, PriceTypes
    DEF TryAcquireJobLock, WorkerAt, WorkerGoto
  <2>3. CASE WorkerAck(w)
    BY <2>3, AtLimit, CaptureOpen, PriceTypes
    DEF WorkerAck, WorkerAt, WorkerGoto, Ack
  <2>4. CASE WorkerRequeue(w)
    BY <2>4, AtLimit, CaptureOpen, PriceTypes
    DEF WorkerRequeue, WorkerAt, WorkerGoto, RequeueAfter
  <2>5. CASE ReleaseJobLock(w)
    BY <2>5, AtLimit, CaptureOpen, PriceTypes
    DEF ReleaseJobLock, WorkerAt, WorkerGoto
  <2>6. CASE WorkerError(w)
    BY <2>6, AtLimit, CaptureOpen, PriceTypes DEF WorkerError, WorkerGoto
  <2>7. CASE WorkerCrash(w)
    BY <2>7, AtLimit, CaptureOpen, PriceTypes DEF WorkerCrash, WorkerAt, WorkerGoto
  <2>8. CASE PipelineRead(w)
    BY <2>8, AtLimit, CaptureOpen, PriceTypes
    DEF PipelineRead, WorkerAt, WorkerGoto, WorkerKeeps
  <2>9. CASE ProcessRead(w)
    BY <2>9, AtLimit, CaptureOpen, PriceTypes
    DEF ProcessRead, WorkerAt, WorkerGoto, IsProcessorDone, WorkerKeeps
  <2>10. CASE ProviderGet(w)
    BY <2>10, AtLimit, CaptureOpen, PriceTypes
    DEF ProviderGet, WorkerAt, WorkerGoto, WorkerKeeps
  <2>11. CASE ApplyProviderState(w)
    BY <2>11, AtLimit, CaptureOpen, PriceTypes
    DEF ApplyProviderState, WorkerAt, TargetStatus, Moved, WorkerGoto, AfterTarget,
        MoveFails, WorkerKeeps, TransitionBatchImageJobStatus, SetStatus
  <2>12. CASE IndexResults(w)
    <3>1. \E p \in {"indexed", "requeue", "index_failed"} : WorkerGoto(w, p)
      BY <2>12 DEF IndexResults
    <3>2. WorkerAt(w, "index") /\ UNCHANGED <<status, retry, captured>>
      BY <2>12 DEF IndexResults, ReplaceBatchImageItemsForJob
    <3>3. faults' \in Nat /\ faults <= faults'
      BY <2>12 DEF IndexResults
    <3> QED BY <3>1, <3>2, <3>3 DEF WorkerGoto, WorkerAt
  <2>13. CASE IndexingFailed(w)
    <3>1. \E p \in {"release", "requeue"} : WorkerGoto(w, p)
      BY <2>13 DEF IndexingFailed
    <3>2. WorkerAt(w, "index_failed") /\ UNCHANGED <<retry, captured>>
      BY <2>13
      DEF IndexingFailed, Moved, MoveFails, TransitionBatchImageJobStatus, SetStatus
    <3>3. \/ UNCHANGED status
          \/ /\ CanTransitionBatchImageJob(status[at[w]], "failed")
             /\ status' = [status EXCEPT ![at[w]] = "failed"]
      BY <2>13
      DEF IndexingFailed, Moved, MoveFails, TransitionBatchImageJobStatus, SetStatus
    <3>4. faults' \in Nat /\ faults <= faults'
      BY <2>13 DEF IndexingFailed, Moved, MoveFails
    <3>5. \A k \in Jobs : status'[k] = "settling" => status[k] = "settling" 
      BY <3>3
    <3>6. \A v \in Workers : \A p \in {"mark", "settle_failed"} : pc'[v] = p <=> pc[v] = p
      BY <3>1, <3>2 DEF WorkerGoto, WorkerAt
    <3>7. at' = at
      BY <3>1 DEF WorkerGoto
    <3> QED BY <3>1, <3>2, <3>3, <3>4, <3>5, <3>6, <3>7
  <2>14. CASE IndexingCompleted(w)
    BY <2>14, AtLimit, CaptureOpen, PriceTypes
    DEF IndexingCompleted, WorkerAt, WorkerGoto, Moved, MoveFails, WorkerKeeps,
        TransitionBatchImageJobStatus, SetStatus
  <2>15. CASE ReleaseTerminalHold(w)
    BY <2>15, AtLimit, CaptureOpen, PriceTypes
    DEF ReleaseTerminalHold, WorkerAt, Released, WorkerGoto, ReleaseFails,
        WorkerKeeps, CanRelease, ReleaseBatchImageBalance
  <2>16. CASE SettleRead(w)
    BY <2>16, AtLimit, CaptureOpen, PriceTypes
    DEF SettleRead, WorkerAt, WorkerGoto, SettlementRetryExhausted, WorkerKeeps
  <2>17. CASE SettleCapture(w)
    <3>1. \/ /\ WorkerGoto(w, "mark") /\ captured' = captured \cup {at[w]}
             /\ UNCHANGED faults
          \/ /\ WorkerGoto(w, "settle_failed") /\ faults' = faults + 1
             /\ captured' = captured \/ (LostAcks /\ captured' = captured \cup {at[w]})
      BY <2>17, CaptureOpen
      DEF SettleCapture, WorkerAt, Captured, CaptureFails, CaptureBatchImageBalance
    <3>2. WorkerAt(w, "capture") /\ UNCHANGED <<status, retry>>
      BY <2>17 DEF SettleCapture
    <3>3. CASE WorkerGoto(w, "mark") /\ captured' = captured \cup {at[w]} /\ UNCHANGED faults
      BY <3>2, <3>3 DEF WorkerGoto, WorkerAt
    <3>4. CASE WorkerGoto(w, "settle_failed") /\ faults' = faults + 1 /\ captured' = captured
      BY <3>2, <3>4 DEF WorkerGoto, WorkerAt
    <3>5. CASE /\ WorkerGoto(w, "settle_failed") /\ faults' = faults + 1
               /\ LostAcks /\ captured' = captured \cup {at[w]}
      BY <3>2, <3>5 DEF WorkerGoto, WorkerAt
    <3> QED BY <3>1, <3>3, <3>4, <3>5
  <2>18. CASE SettleMark(w)
    <3>1. \/ UNCHANGED <<status, retry>> /\ WorkerGoto(w, "requeue") /\ faults' = faults + 1
          \/ /\ UNCHANGED retry /\ faults' \in Nat /\ faults <= faults'
             /\ status' = [status EXCEPT ![at[w]] = "completed"]
             /\ WorkerGoto(w, "ack") \/ WorkerGoto(w, "requeue")
      BY <2>18 DEF SettleMark, WorkerAt, MarkBatchImageJobSettled
    <3>2. WorkerAt(w, "mark") /\ UNCHANGED captured
      BY <2>18 DEF SettleMark
    <3> QED BY <3>1, <3>2 DEF WorkerGoto, WorkerAt
  <2>19. CASE RecordSettlementFailure(w)
    <3>1. UNCHANGED retry \/ retry' = [retry EXCEPT ![at[w]] =
                     IF retry[at[w]] < MaxRetries THEN retry[at[w]] + 1 ELSE retry[at[w]]]
      BY <2>19 DEF RecordSettlementFailure, CountSettlementFailure
    <3>2. \E p \in {"exhaust", "check"} : WorkerGoto(w, p)
      BY <2>19 DEF RecordSettlementFailure
    <3>3. faults' \in Nat /\ faults <= faults'
      BY <2>19 DEF RecordSettlementFailure
    <3>4. WorkerAt(w, "settle_failed") /\ UNCHANGED <<status, captured>>
      BY <2>19 DEF RecordSettlementFailure, CountSettlementFailure
    <3>5. \A k \in Jobs : /\ retry'[k] \in Nat
                          /\ k # at[w] => retry'[k] = retry[k]
                          /\ retry'[k] <= retry[k] + 1
      BY <3>1
    <3>6. /\ at' = at
          /\ \A v \in Workers : pc'[v] \in {"settle_failed", "mark"} => v # w /\ pc'[v] = pc[v]
      BY <3>2, <3>4 DEF WorkerGoto, WorkerAt
    <3>7. \A v \in Workers : pc[v] \in {"settle_failed", "mark"} /\ at[v] = at[w] => v = w
      BY <3>4 DEF WorkerAt
    <3>8. /\ retry[at[w]] + 1 <= faults
          /\ at[w] \in captured => LostAcks \/ retry[at[w]] + 1 < faults
      BY <3>4 DEF WorkerAt
    <3>9. \A k \in Jobs : retry'[k] <= faults'
      BY <3>3, <3>5, <3>8
    <3>10. \A v \in Workers : pc'[v] = "settle_failed" =>
             /\ retry'[at[v]] < faults'
             /\ at[v] \in captured => LostAcks \/ retry'[at[v]] + 1 < faults'
      BY <3>3, <3>5, <3>6, <3>7
    <3>11. \A k \in captured : status[k] = "settling" =>
             \/ LostAcks
             \/ retry'[k] < faults'
             \/ \E v \in Workers : pc'[v] = "mark" /\ at[v] = k
      BY <3>2, <3>3, <3>4, <3>5, <3>7, <3>8 DEF WorkerGoto, WorkerAt
    <3> QED BY <3>1, <3>2, <3>3, <3>4, <3>5, <3>6, <3>7, <3>8, <3>9, <3>10,
         <3>11
  <2>20. CASE ReleaseExhausted(w)
    BY <2>20, AtLimit, CaptureOpen, PriceTypes
    DEF ReleaseExhausted, WorkerAt, Released, WorkerGoto, ReleaseFails, WorkerKeeps,
        CanRelease, ReleaseBatchImageBalance
  <2>21. CASE RecordExhaustFailure(w)
    <3>1. UNCHANGED retry \/ retry' = [retry EXCEPT ![at[w]] =
                     IF retry[at[w]] < MaxRetries THEN retry[at[w]] + 1 ELSE retry[at[w]]]
      BY <2>21 DEF RecordExhaustFailure, CountSettlementFailure
    <3>2. /\ WorkerAt(w, "exhaust_failed") /\ WorkerGoto(w, "check")
          /\ UNCHANGED <<status, captured>> /\ faults' \in Nat /\ faults <= faults' 
      BY <2>21 DEF RecordExhaustFailure, CountSettlementFailure
    <3>3. retry[at[w]] = MaxRetries
      BY <2>21 DEF RecordExhaustFailure, WorkerAt, OneEnd
    <3>4. retry' = retry
      BY <3>1, <3>3
    <3> QED BY <3>1, <3>2, <3>3, <3>4 DEF WorkerGoto, WorkerAt
  <2>22. CASE FailExhausted(w)
    BY <2>22, AtLimit, CaptureOpen, PriceTypes
    DEF FailExhausted, WorkerAt, Moved, WorkerGoto, MoveFails, WorkerKeeps,
        TransitionBatchImageJobStatus, SetStatus
  <2>23. CASE CheckTerminal(w)
    BY <2>23, AtLimit, CaptureOpen, PriceTypes
    DEF CheckTerminal, WorkerAt, WorkerGoto, WorkerKeeps
  <2> QED BY <1>5, <2>1, <2>2, <2>3, <2>4, <2>5, <2>6, <2>7, <2>8, <2>9,
        <2>10, <2>11, <2>12, <2>13, <2>14, <2>15, <2>16, <2>17, <2>18, <2>19,
        <2>20, <2>21, <2>22, <2>23 DEF Work, Process
<1> QED BY <1>1, <1>2, <1>3, <1>4, <1>5 DEF Next

\* Only the job at the limit is refunded while it settles.
LEMMA OneEndStep ==
    ASSUME ~Slow, FaultsBelowLimit, TypeOK, SubmitFirst, ReleaseSeen,
           RefundedEarly, ChargedRight, HeldFirst, OnePlace, StatusSeen,
           FaultsCover, OneEnd, Frozen, Next
    PROVE  OneEnd'
<1> USE DEF TypeOK, SubmitFirst, ReleaseSeen, RefundedEarly, ChargedRight,
      HeldFirst, StatusSeen, OnePlace, Busy, OneEnd, Early, Ended, Late,
      Settling, JobStatus, IsTerminalBatchImageJobStatus,
      CanTransitionBatchImageJob
<1>1. ASSUME NEW j \in Jobs, Submit(j) PROVE OneEnd'
  <2>1. CASE SubmitHeartbeat(j)
    BY <2>1 DEF SubmitHeartbeat
  <2>2. CASE CreateBatchImageJob(j)
    BY <2>2, AtLimit, CaptureOpen DEF CreateBatchImageJob, At, Goto, SetStatus
  <2>3. CASE SubmitReserve(j)
    BY <2>3, AtLimit, CaptureOpen
    DEF SubmitReserve, At, Reserved, Goto, ReserveFails, CanReserve,
        ReserveBatchImageBalance
  <2>4. CASE CreatePendingItems(j)
    BY <2>4, AtLimit, CaptureOpen DEF CreatePendingItems, At, Goto
  <2>5. CASE SubmitUpload(j)
    BY <2>5, AtLimit, CaptureOpen
    DEF SubmitUpload, At, Moved, Goto, TransitionBatchImageJobStatus, SetStatus
  <2>6. CASE ProviderSubmit(j)
    BY <2>6, AtLimit, CaptureOpen DEF ProviderSubmit, At, Goto
  <2>7. CASE SubmitPersist(j)
    <3>1. UNCHANGED <<retry, refunded, captured, pc, at>>
      BY <2>7 DEF SubmitPersist, UpdateBatchImageJobProviderSubmit
    <3>2. \/ UNCHANGED status
          \/ status' = [status EXCEPT ![j] = "submitted"]
      BY <2>7 DEF SubmitPersist, UpdateBatchImageJobProviderSubmit
    <3> QED BY <3>1, <3>2
  <2>8. CASE AbortOrphanProviderJob(j)
    BY <2>8, AtLimit, CaptureOpen
    DEF AbortOrphanProviderJob, At, Goto, ProviderCancel
  <2>9. CASE SubmitEnqueue(j)
    BY <2>9, AtLimit, CaptureOpen
    DEF SubmitEnqueue, At, Enqueued, Goto, EnqueueFails, Enqueue
  <2>10. CASE SubmitQueueFailed(j)
    BY <2>10, AtLimit, CaptureOpen
    DEF SubmitQueueFailed, At, Goto, RecordQueueFailure
  <2>11. CASE SubmitRelease(j)
    BY <2>11, AtLimit, CaptureOpen
    DEF SubmitRelease, Released, Goto, At, ReleaseFails, CanRelease,
        ReleaseBatchImageBalance
  <2>12. CASE RecordSubmitFailed(j)
    BY <2>12, AtLimit, CaptureOpen
    DEF RecordSubmitFailed, At, Goto, RecordBatchImageJobSubmitFailure
  <2>13. CASE RecordReleaseFailed(j)
    <3>1. UNCHANGED <<retry, refunded, captured, pc, at>>
      BY <2>13
      DEF RecordReleaseFailed, RecordBatchImageJobSubmitFailure, rowVars
    <3>2. \/ UNCHANGED status
          \/ status' = [status EXCEPT ![j] = "failed"]
      BY <2>13
      DEF RecordReleaseFailed, RecordBatchImageJobSubmitFailure, rowVars,
          SetStatus
    <3>3. status[j] \in Early
      BY <2>13 DEF RecordReleaseFailed, At
    <3>4. j \notin captured
      BY <3>3
    <3> QED BY <3>1, <3>2, <3>3, <3>4
  <2>14. CASE SubmitRetryEnqueue(j)
    BY <2>14, AtLimit, CaptureOpen
    DEF SubmitRetryEnqueue, At, Goto, Enqueued, EnqueueFails, Enqueue
  <2>15. CASE SubmitCrash(j) BY <2>15, AtLimit, CaptureOpen DEF SubmitCrash, Goto
  <2> QED BY <1>1, <2>1, <2>2, <2>3, <2>4, <2>5, <2>6, <2>7, <2>8, <2>9,
        <2>10, <2>11, <2>12, <2>13, <2>14, <2>15 DEF Submit
<1>2. ASSUME NEW j \in Jobs, Owner(j) PROVE OneEnd'
  <2>1. CASE CancelRead(j) \/ ResubmitRead(j)
    BY <2>1 DEF CancelRead, ResubmitRead
  <2>2. CASE CancelProvider(j)
    BY <2>2, AtLimit, CaptureOpen
    DEF CancelProvider, OwnerAt, ProviderCancel, OwnerGoto
  <2>3. CASE CancelTransition(j)
    BY <2>3, AtLimit, CaptureOpen
    DEF CancelTransition, OwnerAt, Moved, OwnerGoto, MoveFails,
        TransitionBatchImageJobStatus, SetStatus
  <2>4. CASE CancelRelease(j)
    BY <2>4, AtLimit, CaptureOpen
    DEF CancelRelease, OwnerAt, Released, OwnerGoto, ReleaseFails, CanRelease,
        ReleaseBatchImageBalance
  <2>5. CASE OwnerEnqueue(j)
    BY <2>5, AtLimit, CaptureOpen
    DEF OwnerEnqueue, Enqueued, OwnerGoto, EnqueueFails, OwnerAt, Enqueue
  <2>6. CASE ResubmitQueueFailed(j)
    BY <2>6, AtLimit, CaptureOpen
    DEF ResubmitQueueFailed, OwnerAt, OwnerGoto, RecordQueueFailure
  <2>7. CASE OwnerCrash(j)
    BY <2>7, AtLimit, CaptureOpen DEF OwnerCrash, OwnerAt, OwnerGoto
  <2> QED BY <1>2, <2>1, <2>2, <2>3, <2>4, <2>5, <2>6, <2>7 DEF Owner
<1>3. ASSUME NEW j \in Jobs, Recovery(j) PROVE OneEnd'
  <2>1. CASE BecomeStale(j)
    BY <2>1 DEF BecomeStale
  <2>2. CASE FailStaleUnsubmitted(j)
    BY <2>2, AtLimit, CaptureOpen
    DEF FailStaleUnsubmitted, StaleUnsubmitted, SetStatus, RecoveryGoto
  <2>3. CASE RecoveryRelease(j)
    BY <2>3, AtLimit, CaptureOpen
    DEF RecoveryRelease, Released, RecoveryGoto, ReleaseFails, CanRelease,
        ReleaseBatchImageBalance
  <2>4. CASE RecoveryRetry(j)
    BY <2>4, AtLimit, CaptureOpen
    DEF RecoveryRetry, RecoveryGoto, Enqueued, EnqueueFails, Enqueue
  <2>5. CASE RecoveryCrash(j)
    BY <2>5, AtLimit, CaptureOpen DEF RecoveryCrash, RecoveryGoto
  <2> QED BY <1>3, <2>1, <2>2, <2>3, <2>4, <2>5 DEF Recovery
<1>4. ASSUME NEW j \in Jobs, Environment(j) PROVE OneEnd'
  <2>1. CASE MoveDueDelayedToReady(j) \/ RecoverStaleActive(j) \/
        JobLockExpires(j) \/ InflightExpires(j) \/ ProviderAdvances(j)
    BY <2>1 DEF MoveDueDelayedToReady, RecoverStaleActive, JobLockExpires, InflightExpires,
      ProviderAdvances
  <2>2. CASE MarkBatchImageOutputDeleted(j)
    BY <2>2, AtLimit, CaptureOpen DEF MarkBatchImageOutputDeleted, SetStatus
  <2> QED BY <1>4, <2>1, <2>2 DEF Environment
<1>5. ASSUME NEW w \in Workers, Work(w) PROVE OneEnd'
  <2>1. CASE Reserve(w) BY <2>1, AtLimit, CaptureOpen DEF Reserve, WorkerAt
  <2>2. CASE TryAcquireJobLock(w)
    BY <2>2, AtLimit, CaptureOpen DEF TryAcquireJobLock, WorkerAt, WorkerGoto
  <2>3. CASE WorkerAck(w)
    BY <2>3, AtLimit, CaptureOpen DEF WorkerAck, WorkerAt, WorkerGoto, Ack
  <2>4. CASE WorkerRequeue(w)
    BY <2>4, AtLimit, CaptureOpen
    DEF WorkerRequeue, WorkerAt, WorkerGoto, RequeueAfter
  <2>5. CASE ReleaseJobLock(w)
    BY <2>5, AtLimit, CaptureOpen DEF ReleaseJobLock, WorkerAt, WorkerGoto
  <2>6. CASE WorkerError(w)
    BY <2>6, AtLimit, CaptureOpen DEF WorkerError, WorkerGoto
  <2>7. CASE WorkerCrash(w)
    BY <2>7, AtLimit, CaptureOpen DEF WorkerCrash, WorkerAt, WorkerGoto
  <2>8. CASE PipelineRead(w)
    BY <2>8, AtLimit, CaptureOpen
    DEF PipelineRead, WorkerAt, WorkerGoto, WorkerKeeps
  <2>9. CASE ProcessRead(w)
    BY <2>9, AtLimit, CaptureOpen
    DEF ProcessRead, WorkerAt, WorkerGoto, IsProcessorDone, WorkerKeeps
  <2>10. CASE ProviderGet(w)
    BY <2>10, AtLimit, CaptureOpen
    DEF ProviderGet, WorkerAt, WorkerGoto, WorkerKeeps
  <2>11. CASE ApplyProviderState(w)
    <3>1. \/ UNCHANGED status /\ WorkerGoto(w, "requeue")
          \/ \E s \in {"running", "indexing", "cancelled", "failed"} :
                /\ CanTransitionBatchImageJob(status[at[w]], s)
                /\ status' = [status EXCEPT ![at[w]] = s]
                /\ \/ WorkerGoto(w, "requeue")
                   \/ s = "indexing" /\ WorkerGoto(w, "index")
                   \/ s \in Ended /\ WorkerGoto(w, "release")
      BY <2>11
      DEF ApplyProviderState, TargetStatus, AfterTarget, Ended, Moved, MoveFails,
          TransitionBatchImageJobStatus, SetStatus
    <3>2. WorkerAt(w, "apply") /\ UNCHANGED <<retry, refunded, captured>>
      BY <2>11
      DEF ApplyProviderState, Moved, MoveFails, TransitionBatchImageJobStatus,
          SetStatus
    <3>3. at' = at /\ \A v \in Workers : \A p \in {"exhaust", "exhaust_failed", "fail_job"} : pc'[v] = p <=> pc[v] = p
      BY <3>1, <3>2 DEF WorkerGoto, WorkerAt
    <3>4. \A k \in Jobs : status'[k] = "settling" => status[k] = "settling"
      BY <3>1
    <3>5. \A k \in captured : status[k] # "failed" => status'[k] # "failed"
      BY <3>1, <3>2 DEF WorkerAt
    <3> QED BY <3>1, <3>2, <3>3, <3>4, <3>5
  <2>12. CASE IndexResults(w)
    BY <2>12, AtLimit, CaptureOpen
    DEF IndexResults, WorkerAt, ReplaceBatchImageItemsForJob, WorkerGoto,
        WorkerKeeps
  <2>13. CASE IndexingFailed(w)
    <3>1. \E p \in {"release", "requeue"} : WorkerGoto(w, p)
      BY <2>13 DEF IndexingFailed
    <3>2. WorkerAt(w, "index_failed") /\ UNCHANGED <<retry, captured, refunded>>
      BY <2>13
      DEF IndexingFailed, Moved, MoveFails, TransitionBatchImageJobStatus, SetStatus
    <3>3. \/ UNCHANGED status
          \/ /\ CanTransitionBatchImageJob(status[at[w]], "failed")
             /\ status' = [status EXCEPT ![at[w]] = "failed"]
      BY <2>13
      DEF IndexingFailed, Moved, MoveFails, TransitionBatchImageJobStatus, SetStatus
    <3> QED BY <3>1, <3>2, <3>3 DEF WorkerGoto, WorkerAt
  <2>14. CASE IndexingCompleted(w)
    <3>1. WorkerAt(w, "indexed") /\ WorkerGoto(w, "requeue") /\ UNCHANGED <<retry, captured, refunded>>
      BY <2>14
      DEF IndexingCompleted, Moved, MoveFails, TransitionBatchImageJobStatus,
          SetStatus
    <3>2. \/ UNCHANGED status
          \/ /\ CanTransitionBatchImageJob(status[at[w]], "settling")
             /\ status' = [status EXCEPT ![at[w]] = "settling"]
      BY <2>14
      DEF IndexingCompleted, Moved, MoveFails, TransitionBatchImageJobStatus,
          SetStatus
    <3>3. at[w] \notin refunded
      BY <2>14 DEF IndexingCompleted, WorkerAt, StatusSeen, RefundedEarly
    <3> QED BY <3>1, <3>2, <3>3 DEF WorkerGoto, WorkerAt
  <2>15. CASE ReleaseTerminalHold(w)
    BY <2>15, AtLimit, CaptureOpen
    DEF ReleaseTerminalHold, WorkerAt, Released, WorkerGoto, ReleaseFails,
        WorkerKeeps, CanRelease, ReleaseBatchImageBalance
  <2>16. CASE SettleRead(w)
    <3>1. \E p \in {"ack", "requeue", "exhaust", "settle_failed", "capture"} :
             /\ pc' = [pc EXCEPT ![w] = p] /\ UNCHANGED at
             /\ p = "exhaust" => retry[at[w]] >= MaxRetries
      BY <2>16 DEF SettleRead, WorkerGoto, SettlementRetryExhausted
    <3>2. WorkerAt(w, "settle") /\ UNCHANGED <<status, retry, captured, refunded>>
      BY <2>16 DEF SettleRead
    <3>3. retry[at[w]] \in 0..MaxRetries /\ (retry[at[w]] >= MaxRetries => retry[at[w]] = MaxRetries)
      BY RetryTypes
    <3>4. \A v \in Workers : pc'[v] \in {"exhaust", "exhaust_failed", "fail_job"} => retry'[at'[v]] = MaxRetries
      BY <3>1, <3>2, <3>3 DEF WorkerAt
    <3>5. at' = at /\ \A v \in Workers : pc'[v] = "fail_job" <=> pc[v] = "fail_job"
      BY <3>1, <3>2 DEF WorkerAt
    <3> QED BY <3>1, <3>2, <3>3, <3>4, <3>5
  <2>17. CASE SettleCapture(w)
    BY <2>17, AtLimit, CaptureOpen
    DEF SettleCapture, WorkerAt, Captured, WorkerGoto, CaptureFails, WorkerKeeps,
        CanCapture, CaptureBatchImageBalance
  <2>18. CASE SettleMark(w)
    BY SMTT(30), <2>18, AtLimit, CaptureOpen
    DEF SettleMark, WorkerAt, MarkBatchImageJobSettled, WorkerGoto, WorkerKeeps
  <2>19. CASE RecordSettlementFailure(w)
    <3>1. UNCHANGED retry \/ retry' = [retry EXCEPT ![at[w]] =
                     IF retry[at[w]] < MaxRetries THEN retry[at[w]] + 1 ELSE retry[at[w]]]
      BY <2>19 DEF RecordSettlementFailure, CountSettlementFailure
    <3>2. WorkerAt(w, "settle_failed") /\ UNCHANGED <<status, captured, refunded>>
      BY <2>19 DEF RecordSettlementFailure, CountSettlementFailure
    <3>3. \/ WorkerGoto(w, "check")
          \/ WorkerGoto(w, "exhaust") /\ retry[at[w]] + 1 >= MaxRetries /\ retry' = [retry EXCEPT ![at[w]] =
                           IF retry[at[w]] < MaxRetries THEN retry[at[w]] + 1 ELSE retry[at[w]]]
      BY <2>19 DEF RecordSettlementFailure, CountSettlementFailure
    <3>4. \A k \in Jobs : retry[k] = MaxRetries => retry'[k] = MaxRetries
      BY <3>1
    <3>5. WorkerGoto(w, "check") \/ (WorkerGoto(w, "exhaust") /\ retry'[at[w]] = MaxRetries)
      BY <3>3, CountAtLimit
    <3> QED BY <3>1, <3>2, <3>3, <3>4, <3>5 DEF WorkerGoto, WorkerAt
  <2>20. CASE ReleaseExhausted(w)
    BY <2>20, AtLimit, CaptureOpen
    DEF ReleaseExhausted, WorkerAt, Released, WorkerGoto, ReleaseFails, WorkerKeeps,
        CanRelease, ReleaseBatchImageBalance
  <2>21. CASE RecordExhaustFailure(w)
    BY <2>21, AtLimit, CaptureOpen
    DEF RecordExhaustFailure, WorkerAt, WorkerGoto, CountSettlementFailure,
        WorkerKeeps
  <2>22. CASE FailExhausted(w)
    <3>1. WorkerAt(w, "fail_job") /\ UNCHANGED <<retry, captured, refunded>>
      BY <2>22
      DEF FailExhausted, Moved, MoveFails, TransitionBatchImageJobStatus, SetStatus
    <3>2. faults >= MaxFaults /\ at[w] \notin captured
      BY <3>1, AtLimit DEF WorkerAt
    <3>3. status[at[w]] = "settling"
      BY <3>1 DEF WorkerAt
    <3>4. WorkerGoto(w, "check") /\ status' = [status EXCEPT ![at[w]] = "failed"]
      BY <2>22, <3>2, <3>3
      DEF FailExhausted, Moved, MoveFails, TransitionBatchImageJobStatus, SetStatus
    <3> QED BY <3>1, <3>2, <3>3, <3>4 DEF WorkerGoto, WorkerAt
  <2>23. CASE CheckTerminal(w)
    BY <2>23, AtLimit, CaptureOpen
    DEF CheckTerminal, WorkerAt, WorkerGoto, WorkerKeeps
  <2> QED BY <1>5, <2>1, <2>2, <2>3, <2>4, <2>5, <2>6, <2>7, <2>8, <2>9,
        <2>10, <2>11, <2>12, <2>13, <2>14, <2>15, <2>16, <2>17, <2>18, <2>19,
        <2>20, <2>21, <2>22, <2>23 DEF Work, Process
<1> QED BY <1>1, <1>2, <1>3, <1>4, <1>5 DEF Next

------------------------------------------------------------------------------
(* The frozen balance                                                      *)

\* What a step may do to the holds and to the frozen balance.
HoldsStep ==
    \/ UNCHANGED <<held, captured, refunded, frozen>>
    \/ \E j \in Jobs : /\ j \notin held /\ held' = held \cup {j}
                       /\ frozen' = frozen + HoldAmount /\ UNCHANGED <<captured, refunded>>
    \/ \E j \in OpenHolds : /\ captured' = captured \cup {j}
                            /\ frozen' = frozen - HoldAmount /\ UNCHANGED <<held, refunded>>
    \/ \E j \in OpenHolds : /\ refunded' = refunded \cup {j}
                            /\ frozen' = frozen - HoldAmount /\ UNCHANGED <<held, captured>>

\* A hold is opened once, and only an open one is captured or released.
LEMMA MoneyStep ==
    ASSUME ~Slow, FaultsBelowLimit, TypeOK, SubmitFirst, ReleaseSeen,
           RefundedEarly, ChargedRight, HeldFirst, OnePlace, StatusSeen,
           FaultsCover, OneEnd, Frozen, Next
    PROVE  HoldsStep
<1> USE DEF HoldsStep, OpenHolds
<1>1. ASSUME NEW j \in Jobs, Submit(j) PROVE HoldsStep
  <2>1. CASE CreateBatchImageJob(j) \/ CreatePendingItems(j) \/ SubmitUpload(j) \/
        SubmitHeartbeat(j) \/ ProviderSubmit(j) \/ SubmitPersist(j) \/
        AbortOrphanProviderJob(j) \/ SubmitEnqueue(j) \/ SubmitQueueFailed(j) \/
        RecordSubmitFailed(j) \/ RecordReleaseFailed(j) \/ SubmitRetryEnqueue(j) \/
        SubmitCrash(j)
    BY <2>1 DEF CreateBatchImageJob, CreatePendingItems, SubmitUpload,
      SubmitHeartbeat, ProviderSubmit, SubmitPersist, AbortOrphanProviderJob,
      SubmitEnqueue, SubmitQueueFailed, RecordSubmitFailed,
      RecordReleaseFailed, SubmitRetryEnqueue, SubmitCrash
  <2>2. CASE SubmitReserve(j)
    <3>1. ReserveBatchImageBalance(j) \/ UNCHANGED billVars
      BY <2>2 DEF SubmitReserve, Reserved, ReserveFails
    <3> QED BY <3>1 DEF ReserveBatchImageBalance
  <2>3. CASE SubmitRelease(j)
    <3>1. ReleaseBatchImageBalance(j) \/ UNCHANGED billVars
      BY <2>3 DEF SubmitRelease, Released, ReleaseFails
    <3>2. j \in Jobs /\ j \notin captured
      BY <2>3
      DEF SubmitRelease, At, OwnerAt, WorkerAt, TypeOK, SubmitFirst, ChargedRight,
          OneEnd, Early, Late
    <3>3. CASE UNCHANGED billVars
      BY <3>3
    <3>4. CASE j \in released \/ j \notin held
      BY <3>1, <3>4 DEF ReleaseBatchImageBalance
    <3>5. CASE j \notin released /\ j \in held
      BY <3>1, <3>2, <3>5 DEF ReleaseBatchImageBalance, HeldFirst
    <3> QED BY <3>1, <3>2, <3>3, <3>4, <3>5
  <2> QED BY <1>1, <2>1, <2>2, <2>3 DEF Submit
<1>2. ASSUME NEW j \in Jobs, Owner(j) PROVE HoldsStep
  <2>1. CASE CancelRead(j) \/ CancelProvider(j) \/ CancelTransition(j) \/
        ResubmitRead(j) \/ OwnerEnqueue(j) \/ ResubmitQueueFailed(j) \/
        OwnerCrash(j)
    BY <2>1 DEF CancelRead, CancelProvider, CancelTransition, ResubmitRead,
      OwnerEnqueue, ResubmitQueueFailed, OwnerCrash
  <2>2. CASE CancelRelease(j)
    <3>1. ReleaseBatchImageBalance(j) \/ UNCHANGED billVars
      BY <2>2 DEF CancelRelease, Released, ReleaseFails
    <3>2. j \in Jobs /\ j \notin captured
      BY <2>2
      DEF CancelRelease, At, OwnerAt, WorkerAt, TypeOK, ReleaseSeen, ChargedRight,
          OneEnd, Ended, Late
    <3>3. CASE UNCHANGED billVars
      BY <3>3
    <3>4. CASE j \in released \/ j \notin held
      BY <3>1, <3>4 DEF ReleaseBatchImageBalance
    <3>5. CASE j \notin released /\ j \in held
      BY <3>1, <3>2, <3>5 DEF ReleaseBatchImageBalance, HeldFirst
    <3> QED BY <3>1, <3>2, <3>3, <3>4, <3>5
  <2> QED BY <1>2, <2>1, <2>2 DEF Owner
<1>3. ASSUME NEW j \in Jobs, Recovery(j) PROVE HoldsStep
  <2>1. CASE BecomeStale(j) \/ FailStaleUnsubmitted(j) \/ RecoveryRetry(j) \/
        RecoveryCrash(j)
    BY <2>1 DEF BecomeStale, FailStaleUnsubmitted, RecoveryRetry,
      RecoveryCrash
  <2>2. CASE RecoveryRelease(j)
    <3>1. ReleaseBatchImageBalance(j) \/ UNCHANGED billVars
      BY <2>2 DEF RecoveryRelease, Released, ReleaseFails
    <3>2. j \in Jobs /\ j \notin captured
      BY <2>2
      DEF RecoveryRelease, At, OwnerAt, WorkerAt, TypeOK, ReleaseSeen, ChargedRight,
          OneEnd, Ended, Late
    <3>3. CASE UNCHANGED billVars
      BY <3>3
    <3>4. CASE j \in released \/ j \notin held
      BY <3>1, <3>4 DEF ReleaseBatchImageBalance
    <3>5. CASE j \notin released /\ j \in held
      BY <3>1, <3>2, <3>5 DEF ReleaseBatchImageBalance, HeldFirst
    <3> QED BY <3>1, <3>2, <3>3, <3>4, <3>5
  <2> QED BY <1>3, <2>1, <2>2 DEF Recovery
<1>4. ASSUME NEW j \in Jobs, Environment(j) PROVE HoldsStep
  <2>1. CASE MoveDueDelayedToReady(j) \/ RecoverStaleActive(j) \/
        JobLockExpires(j) \/ InflightExpires(j) \/ MarkBatchImageOutputDeleted(j) \/ ProviderAdvances(j)
    BY <2>1 DEF MoveDueDelayedToReady, RecoverStaleActive, JobLockExpires, InflightExpires,
      MarkBatchImageOutputDeleted, ProviderAdvances
  <2> QED BY <1>4, <2>1 DEF Environment
<1>5. ASSUME NEW w \in Workers, Work(w) PROVE HoldsStep
  <2>1. CASE Reserve(w) \/ TryAcquireJobLock(w) \/ WorkerAck(w) \/ WorkerRequeue(w) \/
        ReleaseJobLock(w) \/ WorkerError(w) \/ WorkerCrash(w) \/ PipelineRead(w) \/
        ProcessRead(w) \/ ProviderGet(w) \/ ApplyProviderState(w) \/
        IndexResults(w) \/ IndexingFailed(w) \/ IndexingCompleted(w) \/
        SettleRead(w) \/ SettleMark(w) \/ RecordSettlementFailure(w) \/
        RecordExhaustFailure(w) \/ FailExhausted(w) \/ CheckTerminal(w)
    BY <2>1 DEF Reserve, TryAcquireJobLock, WorkerAck, WorkerRequeue,
      ReleaseJobLock, WorkerError, WorkerCrash, PipelineRead, ProcessRead,
      ProviderGet, ApplyProviderState, IndexResults, IndexingFailed,
      IndexingCompleted, SettleRead, SettleMark, RecordSettlementFailure,
      RecordExhaustFailure, FailExhausted, CheckTerminal, WorkerKeeps,
      WorkerGoto
  <2>2. CASE ReleaseTerminalHold(w)
    <3>1. ReleaseBatchImageBalance(at[w]) \/ UNCHANGED billVars
      BY <2>2 DEF ReleaseTerminalHold, Released, ReleaseFails
    <3>2. at[w] \in Jobs /\ at[w] \notin captured
      BY <2>2
      DEF ReleaseTerminalHold, At, OwnerAt, WorkerAt, TypeOK, ReleaseSeen,
          ChargedRight, OneEnd, Ended, Late
    <3>3. CASE UNCHANGED billVars
      BY <3>3
    <3>4. CASE at[w] \in released \/ at[w] \notin held
      BY <3>1, <3>4 DEF ReleaseBatchImageBalance
    <3>5. CASE at[w] \notin released /\ at[w] \in held
      BY <3>1, <3>2, <3>5 DEF ReleaseBatchImageBalance, HeldFirst
    <3> QED BY <3>1, <3>2, <3>3, <3>4, <3>5
  <2>3. CASE SettleCapture(w)
    <3>1. CaptureBatchImageBalance(at[w], due[w]) \/ UNCHANGED billVars
      BY <2>3 DEF SettleCapture, Captured, CaptureFails
    <3>2. at[w] \in Jobs /\ at[w] \in held /\ at[w] \notin refunded
      BY <2>3, CaptureOpen DEF SettleCapture, WorkerAt, TypeOK
    <3> QED BY <3>1, <3>2 DEF CaptureBatchImageBalance
  <2>4. CASE ReleaseExhausted(w)
    <3>1. ReleaseBatchImageBalance(at[w]) \/ UNCHANGED billVars
      BY <2>4 DEF ReleaseExhausted, Released, ReleaseFails
    <3>2. at[w] \in Jobs /\ at[w] \notin captured
      BY <2>4, AtLimit DEF ReleaseExhausted, At, OwnerAt, WorkerAt, TypeOK
    <3>3. CASE UNCHANGED billVars
      BY <3>3
    <3>4. CASE at[w] \in released \/ at[w] \notin held
      BY <3>1, <3>4 DEF ReleaseBatchImageBalance
    <3>5. CASE at[w] \notin released /\ at[w] \in held
      BY <3>1, <3>2, <3>5 DEF ReleaseBatchImageBalance, HeldFirst
    <3> QED BY <3>1, <3>2, <3>3, <3>4, <3>5
  <2> QED BY <1>5, <2>1, <2>2, <2>3, <2>4 DEF Work, Process
<1> QED BY <1>1, <1>2, <1>3, <1>4, <1>5 DEF Next

\* The frozen balance stays the sum of the open holds.
LEMMA FrozenStep ==
    ASSUME TypeOK, HeldFirst, Frozen, HoldsStep
    PROVE  Frozen'
<1> DEFINE n == Cardinality(OpenHolds)
<1>1. IsFiniteSet(OpenHolds) /\ n \in Nat
  <2>1. OpenHolds \subseteq Jobs BY DEF OpenHolds
  <2> QED BY <2>1, FS_Subset, FS_CardinalityType
<1>2. frozen = Pool + HoldAmount * n BY DEF Frozen
<1>3. ASSUME NEW h \in Nat, NEW k \in Nat
      PROVE  h * (k + 1) = h * k + h /\ h * (k - 1) = h * k - h /\ h * k \in Int
  BY <1>3
<1>4. /\ HoldAmount * (n + 1) = HoldAmount * n + HoldAmount
      /\ HoldAmount * (n - 1) = HoldAmount * n - HoldAmount
      /\ HoldAmount * n \in Int /\ HoldAmount \in Nat
  BY <1>1, <1>3, PriceTypes
<1>5. CASE UNCHANGED <<held, captured, refunded, frozen>>
  BY <1>5 DEF Frozen, OpenHolds
<1>6. ASSUME NEW j \in Jobs, j \notin held, held' = held \cup {j},
             frozen' = frozen + HoldAmount, UNCHANGED <<captured, refunded>>
      PROVE  Frozen'
  <2>1. OpenHolds' = OpenHolds \cup {j} /\ j \notin OpenHolds
    BY <1>6 DEF OpenHolds, HeldFirst
  <2>2. Cardinality(OpenHolds)' = n + 1 BY <1>1, <2>1, FS_AddElement
  <2> HIDE DEF n
  <2> QED BY <1>2, <1>4, <1>6, <2>2 DEF Frozen
<1>7. ASSUME NEW j \in OpenHolds, frozen' = frozen - HoldAmount,
             OpenHolds' = OpenHolds \ {j}
      PROVE  Frozen'
  <2>1. Cardinality(OpenHolds)' = n - 1 BY <1>1, <1>7, FS_RemoveElement
  <2> HIDE DEF n
  <2> QED BY <1>2, <1>4, <1>7, <2>1 DEF Frozen
<1>8. ASSUME NEW j \in OpenHolds, captured' = captured \cup {j},
             frozen' = frozen - HoldAmount, UNCHANGED <<held, refunded>>
      PROVE  Frozen'
  <2>1. OpenHolds' = OpenHolds \ {j} BY <1>8 DEF OpenHolds
  <2> QED BY <1>7, <1>8, <2>1
<1>9. ASSUME NEW j \in OpenHolds, refunded' = refunded \cup {j},
             frozen' = frozen - HoldAmount, UNCHANGED <<held, captured>>
      PROVE  Frozen'
  <2>1. OpenHolds' = OpenHolds \ {j} BY <1>9 DEF OpenHolds
  <2> QED BY <1>7, <1>9, <2>1
<1> QED BY <1>5, <1>6, <1>8, <1>9 DEF HoldsStep

\* A hold that is opened, charged or refunded makes a step of the contract.
LEMMA StageStep ==
    ASSUME TypeOK, HeldFirst, HoldsStep
    PROVE  [Contract!Next]_Stage
<1> USE DEF Stage
<1>1. CASE UNCHANGED <<held, captured, refunded, frozen>> BY <1>1
<1>2. ASSUME NEW j \in Jobs, j \notin held, held' = held \cup {j},
             UNCHANGED <<captured, refunded>>
      PROVE  Contract!Next
  <2>1. Stage[j] = "open" BY <1>2 DEF HeldFirst
  <2>2. Stage' = [Stage EXCEPT ![j] = "held"] BY <1>2, <2>1 DEF HeldFirst
  <2> QED BY <2>1, <2>2 DEF Contract!Next, Contract!Hold
<1>3. ASSUME NEW j \in OpenHolds, captured' = captured \cup {j}, UNCHANGED <<held, refunded>>
      PROVE  Contract!Next
  <2>1. j \in Jobs /\ Stage[j] = "held" BY <1>3 DEF OpenHolds
  <2>2. Stage' = [Stage EXCEPT ![j] = "charged"] BY <1>3, <2>1 DEF OpenHolds
  <2> QED BY <2>1, <2>2 DEF Contract!Next, Contract!Settle
<1>4. ASSUME NEW j \in OpenHolds, refunded' = refunded \cup {j}, UNCHANGED <<held, captured>>
      PROVE  Contract!Next
  <2>1. j \in Jobs /\ Stage[j] = "held" BY <1>4 DEF OpenHolds
  <2>2. Stage' = [Stage EXCEPT ![j] = "refunded"] BY <1>4, <2>1 DEF OpenHolds
  <2> QED BY <2>1, <2>2 DEF Contract!Next, Contract!Settle
<1> QED BY <1>1, <1>2, <1>3, <1>4 DEF HoldsStep

------------------------------------------------------------------------------
(* The invariant is inductive                                              *)

\* The initial state satisfies it.
LEMMA InitInv == Init => IInv
<1> SUFFICES ASSUME Init PROVE IInv OBVIOUS
<1>1. TypeOK BY DEF Init, TypeOK, JobStatus, SubmitPC, OwnerPC, WorkerPC, UpstreamState
<1>2. /\ SubmitFirst /\ ReleaseSeen /\ RefundedEarly /\ HeldFirst /\ QueueCovers
  BY DEF Init, SubmitFirst, ReleaseSeen, RefundedEarly, HeldFirst, QueueCovers, Early,
         Sent, Settling
<1>3. ChargedRight BY DEF Init, ChargedRight
<1>4. OnePlace BY DEF Init, OnePlace, Busy
<1>5. StatusSeen BY DEF Init, StatusSeen, Settling
<1>6. FaultsCover /\ OneEnd BY DEF Init, FaultsCover, OneEnd
<1>7. Frozen
  <2>1. OpenHolds = {} BY DEF Init, OpenHolds
  <2>2. Cardinality(OpenHolds) = 0 BY <2>1, FS_EmptySet
  <2>3. HoldAmount * 0 = 0 BY PriceTypes
  <2> QED BY <2>2, <2>3 DEF Init, Frozen
<1> QED BY <1>1, <1>2, <1>3, <1>4, <1>5, <1>6, <1>7 DEF IInv, Base, Prompt, Budget

\* Every step preserves it.
LEMMA NextInv == ASSUME IInv, Next PROVE IInv'
<1>1. TypeOK'
  <2>1. RowTypes' /\ BillTypes' /\ QueueTypes' /\ ActorTypes' /\ WorkerTypes'
    BY RowTypesStep, BillTypesStep, QueueTypesStep, ActorTypesStep, WorkerTypesStep
       DEF IInv, Base
  <2> QED BY <2>1 DEF TypeOK, RowTypes, BillTypes, QueueTypes, ActorTypes, WorkerTypes
<1>2. /\ SubmitFirst' /\ ReleaseSeen' /\ RefundedEarly' /\ ChargedRight' /\ HeldFirst'
      /\ QueueCovers'
  BY SubmitFirstStep, ReleaseSeenStep, RefundedEarlyStep, ChargedRightStep, HeldFirstStep,
     QueueCoversStep DEF IInv, Base
<1>3. Base' BY <1>1, <1>2 DEF Base
<1>4. ~Slow => Prompt'
  BY OnePlaceStep, StatusSeenStep DEF IInv, Base, Prompt
<1>5. ASSUME FaultsBelowLimit PROVE Budget'
  <2>1. ~Slow BY <1>5 DEF FaultsBelowLimit
  <2>2. FaultsCover' /\ OneEnd' /\ HoldsStep
    BY <1>5, <2>1, FaultsCoverStep, OneEndStep, MoneyStep DEF IInv, Base, Prompt, Budget
  <2>3. Frozen' BY <1>5, <2>2, FrozenStep DEF IInv, Base, Budget
  <2> QED BY <2>2, <2>3 DEF Budget
<1>6. FaultsBelowLimit' <=> FaultsBelowLimit BY DEF FaultsBelowLimit
<1> QED BY <1>3, <1>4, <1>5, <1>6 DEF IInv

\* ... and so does a stutter.
LEMMA StutterInv == ASSUME IInv, UNCHANGED vars PROVE IInv'
<1> USE DEF vars
<1>1. Base'
  BY DEF IInv, Base, TypeOK, SubmitFirst, ReleaseSeen, RefundedEarly, ChargedRight,
         HeldFirst, QueueCovers
<1>2. ~Slow => Prompt' BY DEF IInv, Prompt, OnePlace, StatusSeen, Busy
<1>3. FaultsBelowLimit => Budget'
  BY DEF IInv, Budget, FaultsCover, OneEnd, Frozen, OpenHolds
<1> QED BY <1>1, <1>2, <1>3 DEF IInv, FaultsBelowLimit

\* IInv is an invariant, with any number of jobs, workers, faults and retries.
THEOREM Invariance == Spec => []IInv
<1>1. IInv /\ [Next]_vars => IInv' BY NextInv, StutterInv
<1> QED BY <1>1, InitInv, PTL DEF Spec

------------------------------------------------------------------------------
(* Theorems                                                                *)

\* Every variable keeps its type: success_count stays within the items.
THEOREM TypeCorrectness == Spec => []TypeOK
<1>1. IInv => TypeOK BY DEF IInv, Base
<1> QED BY <1>1, Invariance, PTL

\* A refunded job is never worked on, whatever fails or comes late.
THEOREM NoRefundedJobRuns == Spec => []NoFreeRun
<1>1. IInv => NoFreeRun BY DEF IInv, Base, RefundedEarly, NoFreeRun
<1> QED BY <1>1, Invariance, PTL

\* A completed job was captured once, for the images of its row.
THEOREM CompletedIsSettledOnce == Spec => []SettledOnce
<1>1. IInv => SettledOnce BY DEF IInv, Base, TypeOK, ChargedRight, SettledOnce
<1> QED BY <1>1, Invariance, PTL

\* No inflight key is left behind that would refuse every further Enqueue.
THEOREM NoLostKey == Spec => []QueueCovers
<1>1. IInv => QueueCovers BY DEF IInv, Base
<1> QED BY <1>1, Invariance, PTL

\* With heartbeats in time no Ack takes an unfinished job out of the queue.
THEOREM BegunStaysInFlight == ASSUME ~Slow PROVE Spec => []InFlight
<1>1. IInv => InFlight BY DEF IInv, Prompt, StatusSeen, InFlight
<1> QED BY <1>1, Invariance, PTL

\* With fewer faults than retries what is frozen is what is held.
THEOREM FrozenIsHeld == Spec => []PoolIntact
<1>1. IInv => PoolIntact BY DEF IInv, Budget, Frozen, PoolIntact
<1> QED BY <1>1, Invariance, PTL

\* ... and every settlement failure that is counted was a fault.
THEOREM CountedIsFault == Spec => []RetriesAreFaults
<1>1. IInv => RetriesAreFaults BY DEF IInv, Budget, FaultsCover, RetriesAreFaults
<1> QED BY <1>1, Invariance, PTL

\* What TerminalSticks says of a step.
TerminalStep ==
    \A j \in Jobs : IsTerminalBatchImageJobStatus(status[j]) =>
          /\ IsTerminalBatchImageJobStatus(status'[j])
          /\ status[j] \in {"completed", "output_deleted"} =>
                status'[j] \in {"completed", "output_deleted"}

\* No step takes a job out of an ended status, or a settled one to failed.
LEMMA TerminalStepLemma ==
    ASSUME TypeOK, SubmitFirst, Next
    PROVE  TerminalStep
<1> USE DEF TypeOK, SubmitFirst, TerminalStep, Early, JobStatus,
      IsTerminalBatchImageJobStatus, CanTransitionBatchImageJob
<1>1. ASSUME NEW j \in Jobs, Submit(j) PROVE TerminalStep
  <2>1. CASE SubmitReserve(j) \/ CreatePendingItems(j) \/ SubmitHeartbeat(j) \/
        ProviderSubmit(j) \/ AbortOrphanProviderJob(j) \/ SubmitEnqueue(j) \/
        SubmitRelease(j) \/ SubmitRetryEnqueue(j) \/ SubmitCrash(j)
    BY <2>1 DEF SubmitReserve, CreatePendingItems, SubmitHeartbeat,
      ProviderSubmit, AbortOrphanProviderJob, SubmitEnqueue, SubmitRelease,
      SubmitRetryEnqueue, SubmitCrash
  <2>2. CASE CreateBatchImageJob(j)
    BY <2>2 DEF CreateBatchImageJob, At, Goto, SetStatus
  <2>3. CASE SubmitUpload(j)
    BY <2>3
    DEF SubmitUpload, At, Moved, Goto, TransitionBatchImageJobStatus, SetStatus
  <2>4. CASE SubmitPersist(j)
    BY <2>4 DEF SubmitPersist, At, UpdateBatchImageJobProviderSubmit, Goto
  <2>5. CASE SubmitQueueFailed(j)
    BY <2>5 DEF SubmitQueueFailed, At, Goto, RecordQueueFailure
  <2>6. CASE RecordSubmitFailed(j)
    BY <2>6 DEF RecordSubmitFailed, At, Goto, RecordBatchImageJobSubmitFailure
  <2>7. CASE RecordReleaseFailed(j)
    BY <2>7 DEF RecordReleaseFailed, At, Goto, RecordBatchImageJobSubmitFailure
  <2> QED BY <1>1, <2>1, <2>2, <2>3, <2>4, <2>5, <2>6, <2>7 DEF Submit
<1>2. ASSUME NEW j \in Jobs, Owner(j) PROVE TerminalStep
  <2>1. CASE CancelRead(j) \/ CancelProvider(j) \/ CancelRelease(j) \/
        ResubmitRead(j) \/ OwnerEnqueue(j) \/ OwnerCrash(j)
    BY <2>1 DEF CancelRead, CancelProvider, CancelRelease, ResubmitRead,
      OwnerEnqueue, OwnerCrash
  <2>2. CASE CancelTransition(j)
    BY <2>2
    DEF CancelTransition, OwnerAt, Moved, OwnerGoto, MoveFails,
        TransitionBatchImageJobStatus, SetStatus
  <2>3. CASE ResubmitQueueFailed(j)
    BY <2>3 DEF ResubmitQueueFailed, OwnerAt, OwnerGoto, RecordQueueFailure
  <2> QED BY <1>2, <2>1, <2>2, <2>3 DEF Owner
<1>3. ASSUME NEW j \in Jobs, Recovery(j) PROVE TerminalStep
  <2>1. CASE BecomeStale(j) \/ RecoveryRelease(j) \/ RecoveryRetry(j) \/
        RecoveryCrash(j)
    BY <2>1 DEF BecomeStale, RecoveryRelease, RecoveryRetry, RecoveryCrash
  <2>2. CASE FailStaleUnsubmitted(j)
    BY <2>2 DEF FailStaleUnsubmitted, StaleUnsubmitted, SetStatus, RecoveryGoto
  <2> QED BY <1>3, <2>1, <2>2 DEF Recovery
<1>4. ASSUME NEW j \in Jobs, Environment(j) PROVE TerminalStep
  <2>1. CASE MoveDueDelayedToReady(j) \/ RecoverStaleActive(j) \/
        JobLockExpires(j) \/ InflightExpires(j) \/ ProviderAdvances(j)
    BY <2>1 DEF MoveDueDelayedToReady, RecoverStaleActive, JobLockExpires, InflightExpires,
      ProviderAdvances
  <2>2. CASE MarkBatchImageOutputDeleted(j)
    BY <2>2 DEF MarkBatchImageOutputDeleted, SetStatus
  <2> QED BY <1>4, <2>1, <2>2 DEF Environment
<1>5. ASSUME NEW w \in Workers, Work(w) PROVE TerminalStep
  <2>1. CASE Reserve(w) \/ TryAcquireJobLock(w) \/ WorkerAck(w) \/ WorkerRequeue(w) \/
        ReleaseJobLock(w) \/ WorkerError(w) \/ WorkerCrash(w) \/ PipelineRead(w) \/
        ProcessRead(w) \/ ProviderGet(w) \/ ReleaseTerminalHold(w) \/ SettleRead(w) \/
        SettleCapture(w) \/ ReleaseExhausted(w) \/ CheckTerminal(w)
    BY <2>1 DEF Reserve, TryAcquireJobLock, WorkerAck, WorkerRequeue,
      ReleaseJobLock, WorkerError, WorkerCrash, PipelineRead, ProcessRead,
      ProviderGet, ReleaseTerminalHold, SettleRead, SettleCapture,
      ReleaseExhausted, CheckTerminal, WorkerKeeps, WorkerGoto
  <2>2. CASE ApplyProviderState(w)
    BY <2>2
    DEF ApplyProviderState, WorkerAt, TargetStatus, Moved, WorkerGoto, AfterTarget,
        MoveFails, WorkerKeeps, TransitionBatchImageJobStatus, SetStatus
  <2>3. CASE IndexResults(w)
    BY <2>3
    DEF IndexResults, WorkerAt, ReplaceBatchImageItemsForJob, WorkerGoto,
        WorkerKeeps
  <2>4. CASE IndexingFailed(w)
    BY <2>4
    DEF IndexingFailed, WorkerAt, Moved, WorkerGoto, MoveFails, WorkerKeeps,
        TransitionBatchImageJobStatus, SetStatus
  <2>5. CASE IndexingCompleted(w)
    BY <2>5
    DEF IndexingCompleted, WorkerAt, WorkerGoto, Moved, MoveFails, WorkerKeeps,
        TransitionBatchImageJobStatus, SetStatus
  <2>6. CASE SettleMark(w)
    BY <2>6
    DEF SettleMark, WorkerAt, MarkBatchImageJobSettled, WorkerGoto, WorkerKeeps
  <2>7. CASE RecordSettlementFailure(w)
    BY <2>7
    DEF RecordSettlementFailure, WorkerAt, CountSettlementFailure, WorkerGoto,
        WorkerKeeps
  <2>8. CASE RecordExhaustFailure(w)
    BY <2>8
    DEF RecordExhaustFailure, WorkerAt, WorkerGoto, CountSettlementFailure,
        WorkerKeeps
  <2>9. CASE FailExhausted(w)
    BY <2>9
    DEF FailExhausted, WorkerAt, Moved, WorkerGoto, MoveFails, WorkerKeeps,
        TransitionBatchImageJobStatus, SetStatus
  <2> QED BY <1>5, <2>1, <2>2, <2>3, <2>4, <2>5, <2>6, <2>7, <2>8, <2>9 DEF Work, Process
<1> QED BY <1>1, <1>2, <1>3, <1>4, <1>5 DEF Next

\* An ended job stays ended, and a settled one settled.
THEOREM EndedStaysEnded == Spec => TerminalSticks
<1>1. IInv /\ [Next]_vars => [TerminalStep]_vars
  BY TerminalStepLemma DEF IInv, Base
<1>2. [TerminalStep]_vars <=>
      [\A j \in Jobs : IsTerminalBatchImageJobStatus(status[j]) =>
          /\ IsTerminalBatchImageJobStatus(status'[j])
          /\ status[j] \in {"completed", "output_deleted"} =>
                status'[j] \in {"completed", "output_deleted"}]_vars
  BY DEF TerminalStep
<1> QED BY <1>1, <1>2, Invariance, PTL DEF Spec, TerminalSticks

\* With fewer faults than retries each hold ends once, in a charge or a refund.
THEOREM ImplementsContract == ASSUME FaultsBelowLimit PROVE Spec => ContractSpec
<1>1. Init => Contract!Init BY DEF Init, Contract!Init, Stage
<1>2. IInv /\ [Next]_vars => [Contract!Next]_Stage
  <2> SUFFICES ASSUME IInv, [Next]_vars PROVE [Contract!Next]_Stage OBVIOUS
  <2>1. CASE UNCHANGED vars BY <2>1 DEF vars, Stage
  <2>2. CASE Next
    <3>1. ~Slow BY DEF FaultsBelowLimit
    <3>2. HoldsStep BY <2>2, <3>1, MoneyStep DEF IInv, Base, Prompt, Budget
    <3> QED BY <3>2, StageStep DEF IInv, Base
  <2> QED BY <2>1, <2>2
<1> QED BY <1>1, <1>2, Invariance, PTL DEF Spec, ContractSpec, Contract!Spec

------------------------------------------------------------------------------
(* Late heartbeats and any number of faults: the ledger, and one worker.   *)

\* Whatever a step does besides, it makes at most one billing request.
LEMMA BillingStep ==
    ASSUME TypeOK, Next
    PROVE  \/ UNCHANGED billVars
           \/ \E j \in Jobs : \/ ReserveBatchImageBalance(j)
                             \/ ReleaseBatchImageBalance(j)
                             \/ \E cost \in Nat : CaptureBatchImageBalance(j, cost)
<1> DEFINE Billed ==
             \/ UNCHANGED billVars
             \/ \E j \in Jobs : \/ ReserveBatchImageBalance(j)
                               \/ ReleaseBatchImageBalance(j)
                               \/ \E cost \in Nat : CaptureBatchImageBalance(j, cost)
<1> USE DEF TypeOK
<1>1. ASSUME NEW j \in Jobs, Submit(j) PROVE Billed
  <2>1. CASE CreateBatchImageJob(j) \/ CreatePendingItems(j) \/ SubmitUpload(j) \/
        SubmitHeartbeat(j) \/ ProviderSubmit(j) \/ SubmitPersist(j) \/
        AbortOrphanProviderJob(j) \/ SubmitEnqueue(j) \/ SubmitQueueFailed(j) \/
        RecordSubmitFailed(j) \/ RecordReleaseFailed(j) \/ SubmitRetryEnqueue(j) \/
        SubmitCrash(j)
    BY <2>1 DEF CreateBatchImageJob, CreatePendingItems, SubmitUpload,
      SubmitHeartbeat, ProviderSubmit, SubmitPersist, AbortOrphanProviderJob,
      SubmitEnqueue, SubmitQueueFailed, RecordSubmitFailed,
      RecordReleaseFailed, SubmitRetryEnqueue, SubmitCrash
  <2>2. CASE SubmitReserve(j) BY <2>2 DEF SubmitReserve, Reserved, ReserveFails
  <2>3. CASE SubmitRelease(j) BY <2>3 DEF SubmitRelease, Released, ReleaseFails
  <2> QED BY <1>1, <2>1, <2>2, <2>3 DEF Submit
<1>2. ASSUME NEW j \in Jobs, Owner(j) PROVE Billed
  <2>1. CASE CancelRead(j) \/ CancelProvider(j) \/ CancelTransition(j) \/
        ResubmitRead(j) \/ OwnerEnqueue(j) \/ ResubmitQueueFailed(j) \/
        OwnerCrash(j)
    BY <2>1 DEF CancelRead, CancelProvider, CancelTransition, ResubmitRead,
      OwnerEnqueue, ResubmitQueueFailed, OwnerCrash
  <2>2. CASE CancelRelease(j) BY <2>2 DEF CancelRelease, Released, ReleaseFails
  <2> QED BY <1>2, <2>1, <2>2 DEF Owner
<1>3. ASSUME NEW j \in Jobs, Recovery(j) PROVE Billed
  <2>1. CASE BecomeStale(j) \/ FailStaleUnsubmitted(j) \/ RecoveryRetry(j) \/
        RecoveryCrash(j)
    BY <2>1 DEF BecomeStale, FailStaleUnsubmitted, RecoveryRetry, RecoveryCrash
  <2>2. CASE RecoveryRelease(j) BY <2>2 DEF RecoveryRelease, Released, ReleaseFails
  <2> QED BY <1>3, <2>1, <2>2 DEF Recovery
<1>4. ASSUME NEW j \in Jobs, Environment(j) PROVE Billed
  BY <1>4 DEF Environment, MoveDueDelayedToReady, RecoverStaleActive,
    JobLockExpires, InflightExpires, MarkBatchImageOutputDeleted, ProviderAdvances
<1>5. ASSUME NEW w \in Workers, Work(w) PROVE Billed
  <2> at[w] \in Jobs /\ due[w] \in Nat OBVIOUS
  <2>1. CASE Reserve(w) \/ TryAcquireJobLock(w) \/ WorkerAck(w) \/ WorkerRequeue(w) \/
        ReleaseJobLock(w) \/ WorkerError(w) \/ WorkerCrash(w) \/ PipelineRead(w) \/
        ProcessRead(w) \/ ProviderGet(w) \/ ApplyProviderState(w) \/
        IndexResults(w) \/ IndexingFailed(w) \/ IndexingCompleted(w) \/
        SettleRead(w) \/ SettleMark(w) \/ RecordSettlementFailure(w) \/
        RecordExhaustFailure(w) \/ FailExhausted(w) \/ CheckTerminal(w)
    BY <2>1 DEF Reserve, TryAcquireJobLock, WorkerAck, WorkerRequeue,
      ReleaseJobLock, WorkerError, WorkerCrash, PipelineRead, ProcessRead,
      ProviderGet, ApplyProviderState, IndexResults, IndexingFailed,
      IndexingCompleted, SettleRead, SettleMark, RecordSettlementFailure,
      RecordExhaustFailure, FailExhausted, CheckTerminal, WorkerKeeps,
      WorkerGoto
  <2>2. CASE ReleaseTerminalHold(w)
    BY <2>2 DEF ReleaseTerminalHold, Released, ReleaseFails
  <2>3. CASE SettleCapture(w) BY <2>3 DEF SettleCapture, Captured, CaptureFails
  <2>4. CASE ReleaseExhausted(w) BY <2>4 DEF ReleaseExhausted, Released, ReleaseFails
  <2> QED BY <1>5, <2>1, <2>2, <2>3, <2>4 DEF Work, Process
<1> QED BY <1>1, <1>2, <1>3, <1>4, <1>5 DEF Next

\* A set that takes in a new job has one member more.
LEMMA OneMore ==
    ASSUME NEW S, S \subseteq Jobs, NEW j \in Jobs, j \notin S
    PROVE  Cardinality(S) \in Nat /\ Cardinality(S \cup {j}) = Cardinality(S) + 1
<1>1. IsFiniteSet(S) BY FS_Subset
<1> QED BY <1>1, FS_AddElement, FS_CardinalityType

\* One hold more or less.
LEMMA OneHoldMore ==
    ASSUME NEW k \in Int
    PROVE  /\ HoldAmount * (k + 1) = HoldAmount * k + HoldAmount
           /\ HoldAmount * (k - 1) = HoldAmount * k - HoldAmount
           /\ HoldAmount * k \in Int /\ HoldAmount \in Int
<1>1. ASSUME NEW h \in Nat, NEW i \in Int
      PROVE  h * (i + 1) = h * i + h /\ h * (i - 1) = h * i - h /\ h * i \in Int
  BY <1>1
<1> QED BY <1>1, PriceTypes

\* Holds in the frozen balance, by the claims alone.
OpenCount == Cardinality(held) - Cardinality(captured) - Cardinality(refunded)

LEMMA CountTypes == ASSUME TypeOK PROVE OpenCount \in Int
<1>1. /\ IsFiniteSet(held) /\ IsFiniteSet(captured) /\ IsFiniteSet(refunded)
  BY FS_Subset DEF TypeOK
<1> QED BY <1>1, FS_CardinalityType DEF OpenCount

\* Each request adds its claim and moves one hold, or does neither.
LEMMA LedgerStep ==
    ASSUME TypeOK, HeldFirst, FrozenLedger, Next
    PROVE  FrozenLedger'
<1>1. OpenCount \in Int /\ frozen = Pool + HoldAmount * OpenCount
  BY CountTypes DEF FrozenLedger, OpenCount
<1>2. /\ HoldAmount * (OpenCount + 1) = HoldAmount * OpenCount + HoldAmount
      /\ HoldAmount * (OpenCount - 1) = HoldAmount * OpenCount - HoldAmount
      /\ HoldAmount * OpenCount \in Int /\ HoldAmount \in Int
  BY <1>1, OneHoldMore
<1>3. CASE UNCHANGED <<held, captured, refunded, frozen>>
  BY <1>3 DEF FrozenLedger
<1>4. ASSUME OpenCount' = OpenCount + 1, frozen' = frozen + HoldAmount
      PROVE  FrozenLedger'
  <2>1. frozen' = Pool + HoldAmount * OpenCount' BY <1>1, <1>2, <1>4
  <2> QED BY <2>1 DEF FrozenLedger, OpenCount
<1>5. ASSUME OpenCount' = OpenCount - 1, frozen' = frozen - HoldAmount
      PROVE  FrozenLedger'
  <2>1. frozen' = Pool + HoldAmount * OpenCount' BY <1>1, <1>2, <1>5
  <2> QED BY <2>1 DEF FrozenLedger, OpenCount
<1>6. /\ held \subseteq Jobs /\ captured \subseteq Jobs /\ refunded \subseteq Jobs
      /\ Cardinality(held) \in Nat /\ Cardinality(captured) \in Nat
      /\ Cardinality(refunded) \in Nat
  <2>1. held \subseteq Jobs /\ captured \subseteq Jobs /\ refunded \subseteq Jobs
    BY DEF TypeOK
  <2> QED BY <2>1, FS_Subset, FS_CardinalityType
<1>7. ASSUME NEW j \in Jobs, ReserveBatchImageBalance(j) PROVE FrozenLedger'
  <2>1. CASE UNCHANGED billVars BY <1>3, <2>1
  <2>2. CASE ~UNCHANGED billVars
    <3>1. /\ j \notin held /\ held' = held \cup {j} /\ UNCHANGED <<captured, refunded>>
          /\ frozen' = frozen + HoldAmount
      BY <1>7, <2>2 DEF ReserveBatchImageBalance
    <3>2. Cardinality(held') = Cardinality(held) + 1 BY <1>6, <3>1, OneMore
    <3>3. OpenCount' = OpenCount + 1 BY <1>6, <3>1, <3>2 DEF OpenCount
    <3> QED BY <1>4, <3>1, <3>3
  <2> QED BY <2>1, <2>2
<1>8. ASSUME NEW j \in Jobs, ReleaseBatchImageBalance(j) PROVE FrozenLedger'
  <2>1. CASE UNCHANGED <<held, captured, refunded, frozen>> BY <1>3, <2>1
  <2>2. CASE ~UNCHANGED <<held, captured, refunded, frozen>>
    <3>1. /\ j \notin released /\ refunded' = refunded \cup {j}
          /\ UNCHANGED <<held, captured>> /\ frozen' = frozen - HoldAmount
      BY <1>8, <2>2 DEF ReleaseBatchImageBalance
    <3>2. j \notin refunded BY <3>1 DEF HeldFirst
    <3>3. Cardinality(refunded') = Cardinality(refunded) + 1
      BY <1>6, <3>1, <3>2, OneMore
    <3>4. OpenCount' = OpenCount - 1 BY <1>6, <3>1, <3>3 DEF OpenCount
    <3> QED BY <1>5, <3>1, <3>4
  <2> QED BY <2>1, <2>2
<1>9. ASSUME NEW j \in Jobs, NEW cost \in Nat, CaptureBatchImageBalance(j, cost)
      PROVE  FrozenLedger'
  <2>1. CASE UNCHANGED billVars BY <1>3, <2>1
  <2>2. CASE ~UNCHANGED billVars
    <3>1. /\ j \notin captured /\ captured' = captured \cup {j}
          /\ UNCHANGED <<held, refunded>> /\ frozen' = frozen - HoldAmount
      BY <1>9, <2>2 DEF CaptureBatchImageBalance
    <3>2. Cardinality(captured') = Cardinality(captured) + 1
      BY <1>6, <3>1, OneMore
    <3>3. OpenCount' = OpenCount - 1 BY <1>6, <3>1, <3>2 DEF OpenCount
    <3> QED BY <1>5, <3>1, <3>3
  <2> QED BY <2>1, <2>2
<1> QED BY <1>3, <1>7, <1>8, <1>9, BillingStep

\* Whatever fails, however often and however late: the frozen balance is the
\* sum the claims make it.
THEOREM FrozenFollowsClaims == Spec => []FrozenLedger
<1>1. Init => FrozenLedger
  <2>1. Cardinality({}) = 0 BY FS_EmptySet
  <2>2. HoldAmount * (0 - 0 - 0) = 0 BY PriceTypes
  <2> QED BY <2>1, <2>2 DEF Init, FrozenLedger
<1>2. IInv /\ FrozenLedger /\ [Next]_vars => FrozenLedger'
  BY LedgerStep DEF IInv, Base, vars, FrozenLedger
<1> QED BY <1>1, <1>2, Invariance, PTL DEF Spec

\* What one step does to the money.
MoneyGoal ==
    \/ balance' + frozen' = balance + frozen /\ UNCHANGED charged
    \/ \E j \in captured' \ captured :
         charged' = [charged EXCEPT ![j] = balance + frozen - balance' - frozen']

\* The capture pays the unused part of the hold back; a hold and a release
\* move the whole of it.
LEMMA MoneyGoalStep ==
    ASSUME TypeOK, ChargedRight, Next
    PROVE  MoneyGoal
<1> USE DEF MoneyGoal
<1>1. /\ balance \in Int /\ frozen \in Int /\ HoldAmount \in Int
      /\ charged \in [Jobs -> Nat]
  BY PriceTypes DEF TypeOK
<1>2. CASE UNCHANGED billVars BY <1>2
<1>3. ASSUME NEW j \in Jobs, ReserveBatchImageBalance(j) PROVE MoneyGoal
  BY <1>1, <1>3 DEF ReserveBatchImageBalance
<1>4. ASSUME NEW j \in Jobs, ReleaseBatchImageBalance(j) PROVE MoneyGoal
  BY <1>1, <1>4 DEF ReleaseBatchImageBalance
<1>5. ASSUME NEW j \in Jobs, NEW cost \in Nat, CaptureBatchImageBalance(j, cost)
      PROVE  MoneyGoal
  <2>1. CASE ~UNCHANGED billVars
    <3>1. /\ j \notin captured /\ captured' = captured \cup {j}
          /\ charged' = [charged EXCEPT ![j] = charged[j] + cost]
          /\ balance' = balance + (HoldAmount - cost) /\ frozen' = frozen - HoldAmount
      BY <1>5, <2>1 DEF CaptureBatchImageBalance
    <3>2. charged[j] + cost = balance + frozen - balance' - frozen'
      BY <1>1, <3>1 DEF ChargedRight
    <3>3. j \in captured' \ captured BY <3>1
    <3> QED BY <3>1, <3>2, <3>3
  <2> QED BY <1>2, <2>1
<1> QED BY <1>2, <1>3, <1>4, <1>5, BillingStep

\* Money leaves the user only by the first capture of a job, which charges it
\* to that job.
THEOREM OnlyCapturesCharge == Spec => MoneyLeavesByCapture
<1>1. IInv /\ [Next]_vars =>
        [\/ balance' + frozen' = balance + frozen /\ UNCHANGED charged
         \/ \E j \in captured' \ captured :
              charged' = [charged EXCEPT ![j] = balance + frozen - balance' - frozen']]_vars
  BY MoneyGoalStep DEF IInv, Base, MoneyGoal
<1> QED BY <1>1, Invariance, PTL DEF Spec, MoneyLeavesByCapture

\* With heartbeats in time a job is in the hands of one worker.
THEOREM OneWorkerPerJob == Spec => []OneWorker
<1>1. IInv => OneWorker BY DEF IInv, Prompt, OnePlace, OneWorker
<1> QED BY <1>1, Invariance, PTL
=============================================================================
