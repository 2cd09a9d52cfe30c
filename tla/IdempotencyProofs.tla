-------------------------- MODULE IdempotencyProofs -------------------------
(***************************************************************************)
(* Proofs about Idempotency for every set of requests and fingerprints and *)
(* all durations.                                                          *)
(***************************************************************************)
EXTENDS Idempotency, IdempotencyStoreLemmas

-----------------------------------------------------------------------------
(* The inductive invariant, however long requests take.                    *)

Reclaiming == {"reclaimExpired", "reclaimFailed"}

\* A worker has read the time before now.
Times == \A w \in Workers : pc[w] # "idle" => now[w] >= 1 /\ now[w] <= clock

\* Only detached executions renew their claim.
Renewers == \A w \in Workers : renewer[w] => Renewing

\* Ids are handed out once.
Ids ==
    /\ row.id < nextId
    /\ row # NoRow => row.id >= 1 /\ row.status # "none"
    /\ \A w \in Workers :
         /\ pc[w] \in Running => id[w] >= 1 /\ id[w] < nextId
         /\ pc[w] \in Reclaiming => seen[w].id >= 1 /\ seen[w].id < nextId

\* The record that a worker reclaims or has claimed is one of its request.
OwnRecord ==
    \A w \in Workers :
        /\ pc[w] \in Running /\ row.id = id[w] => row.fp = req[w]
        /\ pc[w] \in Reclaiming /\ row.id = seen[w].id => row.fp = req[w]

\* A stored response answers the request of its record.
StoredIsOwn == row.status = "succeeded" => row.body = row.fp

\* No two requests execute at the same time.
Exclusive == \A w, v \in Workers : pc[w] \in Running /\ pc[v] \in Running => w = v

\* Until the first record may expire there is one claim at a time, and a claim
\* that can be made again had no effect.
FirstLife ==
    clock <= TTL =>
        /\ row # NoRow => row.expires > TTL
        /\ row = NoRow \/ row.status = "failed_retryable" => effects = 0
        /\ effects <= 1
        /\ \A w \in Workers :
             /\ pc[w] \notin {"reclaimExpired", "reread"}
             /\ pc[w] \in Running =>
                  row.id = id[w] /\ row.status = "processing"
             /\ pc[w] \in {"execute", "markFailed"} => effects = 0
        /\ Exclusive

IInv ==
    /\ TypeOK
    /\ Times
    /\ Renewers
    /\ Ids
    /\ OwnRecord
    /\ StoredIsOwn
    /\ FirstLife

-----------------------------------------------------------------------------
(* The steps: each conjunct of the invariant is kept by every action.      *)

USE DEF Goto, storeVars, claimVars, workVars
USE PrintAssumption, TimeAssumption, BackoffAssumption, SwitchAssumption

\* An answer leaves a worker at rest.
LEMMA AnswerTypes ==
    ASSUME TypeOK, NEW w \in Workers, NEW k \in Replies, Answer(w, k),
           UNCHANGED effects
    PROVE  WorkerTypes'
<1>1. "idle" \in Claiming \cup Running \cup {"idle"} OBVIOUS
<1>2. Unseen \in Sights BY DEF Unseen, Sights
<1> QED BY <1>1, <1>2 DEF Answer, TypeOK, WorkerTypes

\* Reading a record.
LEMMA AimTypes ==
    ASSUME TypeOK, NEW w \in Workers, NEW s \in Reclaiming, Aim(w, s),
           UNCHANGED effects
    PROVE  WorkerTypes'
<1>1. s \in Claiming \cup Running \cup {"idle"} BY DEF Claiming, Reclaiming
<1>2. [id |-> row.id, status |-> row.status] \in Sights
  BY DEF TypeOK, StoreTypes, Records, Sights
<1> QED BY <1>1, <1>2 DEF Aim, TypeOK, WorkerTypes

\* The record keeps its type.
LEMMA StoreTypesStep ==
    ASSUME TypeOK, Next
    PROVE  StoreTypes'
<1> USE DEF TypeOK, StoreTypes, WorkerTypes
<1>1. ASSUME NEW w \in Workers, Step(w) PROVE StoreTypes'
  <2>1. CASE Create(w)
    <3>1. CASE CreateProcessing(req[w], now[w]) /\ Own(w, nextId)
      <4>1. Created(req[w], now[w]) BY <3>1, CreateFields
      <4> QED BY <2>1, <3>1, <4>1 DEF Create, Own, Created
    <3>2. CASE Goto(w, "read") /\ UNCHANGED <<row, nextId, req, now, claimVars, reply>>
      BY <2>1, <3>2 DEF Create
    <3> QED BY <2>1, <3>1, <3>2 DEF Create
  <2>2. CASE GetByScopeAndKeyHash(w) BY <2>2 DEF GetByScopeAndKeyHash, Refuse,
        Decide, Aim, Answer
  <2>3. CASE ReclaimExpired(w)
    <3>1. CASE TryReclaim(seen[w].id, seen[w].status, now[w]) /\ Own(w, seen[w].id)
      <4>1. Reclaimed(seen[w].id, seen[w].status, now[w]) BY <3>1, ReclaimFields
      <4> QED BY <2>3, <3>1, <4>1 DEF ReclaimExpired, Own, Reclaimed, SameRecord
    <3>2. CASE /\ ~Reclaimable(seen[w].id, seen[w].status, now[w])
               /\ Goto(w, "reread")
               /\ seen' = [seen EXCEPT ![w] = Unseen]
               /\ UNCHANGED <<row, nextId, req, now, id, until, renewer, reply>>
      BY <2>3, <3>2 DEF ReclaimExpired
    <3> QED BY <2>3, <3>1, <3>2 DEF ReclaimExpired
  <2>4. CASE RereadAfterRace(w) BY <2>4 DEF RereadAfterRace, Refuse, Decide,
        Aim, Answer
  <2>5. CASE ReclaimFailed(w)
    <3>1. CASE TryReclaim(seen[w].id, "failed_retryable", now[w]) /\ Own(w, seen[w].id)
      <4>1. Reclaimed(seen[w].id, "failed_retryable", now[w]) BY <3>1, ReclaimFields
      <4> QED BY <2>5, <3>1, <4>1 DEF ReclaimFailed, Own, Reclaimed, SameRecord
    <3>2. CASE Answer(w, "inProgress") /\ UNCHANGED <<row, nextId>>
      BY <2>5, <3>2 DEF ReclaimFailed, Answer
    <3> QED BY <2>5, <3>1, <3>2 DEF ReclaimFailed
  <2>6. CASE Execute(w) BY <2>6 DEF Execute
  <2>7. CASE Renew(w)
    <3>1. CASE ExtendProcessingLock(id[w], req[w])
      <4>1. Extended(id[w], req[w]) BY <3>1, ExtendFields
      <4> QED BY <2>7, <3>1, <4>1 DEF Renew, Extended, SameRecord
    <3>2. CASE ~Extendable(id[w], req[w])
      BY <2>7, <3>2 DEF Renew, Extendable, ExtendProcessingLock
    <3> QED BY <2>7, <3>1, <3>2 DEF Renew
  <2>8. CASE MarkOk(w)
    <3>1. Expiry(w) \in Nat BY DEF Expiry
    <3>2. Succeeded(id[w], req[w], Expiry(w))
      BY <2>8, <3>1, MarkSucceededFields DEF MarkOk
    <3> QED BY <2>8, <3>1, <3>2 DEF MarkOk, Answer, Expiry, Succeeded, SameRecord
  <2>9. CASE MarkFailed(w)
    <3>1. Expiry(w) \in Nat /\ clock + Backoff \in Nat BY DEF Expiry
    <3>2. Failed(id[w], clock + Backoff, Expiry(w))
      BY <2>9, <3>1, MarkFailedFields DEF MarkFailed
    <3> QED BY <2>9, <3>1, <3>2 DEF MarkFailed, Answer, Expiry, Failed, SameRecord
  <2>10. CASE Crash(w) BY <2>10 DEF Crash, Answer
  <2> QED BY <1>1, <2>1, <2>2, <2>3, <2>4, <2>5, <2>6, <2>7, <2>8, <2>9, <2>10 DEF Step
<1>2. ASSUME NEW w \in Workers, NEW p \in Prints, Begin(w, p) PROVE StoreTypes'
  BY <1>2 DEF Begin
<1>3. CASE Cleanup
  <2>1. Deleted BY <1>3, DeleteFields DEF Cleanup
  <2> QED BY <1>3, <2>1 DEF Cleanup, Deleted
<1>4. CASE Tick BY <1>4 DEF Tick, Prompt
<1> QED BY <1>1, <1>2, <1>3, <1>4 DEF Next

\* The workers keep their types.
LEMMA WorkerTypesStep ==
    ASSUME TypeOK, Next
    PROVE  WorkerTypes'
<1> USE DEF TypeOK, StoreTypes, WorkerTypes, Records, Claiming, Running,
      Sights, Unseen, Replies, Live, Many
<1>1. ASSUME NEW w \in Workers, Step(w) PROVE WorkerTypes'
  <2>1. CASE Create(w)
    <3>1. CASE CreateProcessing(req[w], now[w]) /\ Own(w, nextId)
      <4>1. Created(req[w], now[w]) BY <3>1, CreateFields
      <4> QED BY <2>1, <3>1, <4>1 DEF Create, Own, Created
    <3>2. CASE Goto(w, "read") /\ UNCHANGED <<row, nextId, req, now, claimVars, reply>>
      BY <2>1, <3>2 DEF Create
    <3> QED BY <2>1, <3>1, <3>2 DEF Create
  <2>2. CASE GetByScopeAndKeyHash(w)
    <3>1. CASE \E k \in Replies : Answer(w, k) BY <2>2, <3>1, AnswerTypes DEF GetByScopeAndKeyHash
    <3>2. CASE \E s \in Reclaiming : Aim(w, s) BY <2>2, <3>2, AimTypes DEF GetByScopeAndKeyHash
    <3> QED BY <2>2, <3>1, <3>2 DEF GetByScopeAndKeyHash, Refuse, Decide, Reclaiming
  <2>3. CASE ReclaimExpired(w)
    <3>1. CASE TryReclaim(seen[w].id, seen[w].status, now[w]) /\ Own(w, seen[w].id)
      <4>1. Reclaimed(seen[w].id, seen[w].status, now[w]) BY <3>1, ReclaimFields
      <4> QED BY <2>3, <3>1, <4>1 DEF ReclaimExpired, Own, Reclaimed, SameRecord
    <3>2. CASE /\ ~Reclaimable(seen[w].id, seen[w].status, now[w])
               /\ Goto(w, "reread")
               /\ seen' = [seen EXCEPT ![w] = Unseen]
               /\ UNCHANGED <<row, nextId, req, now, id, until, renewer, reply>>
      <4>1. "reread" \in Claiming \cup Running \cup {"idle"} /\ Unseen \in Sights
        OBVIOUS
      <4> HIDE DEF Claiming, Running, Sights, Unseen, Records, Replies
      <4> QED BY <2>3, <3>2, <4>1 DEF ReclaimExpired
    <3> QED BY <2>3, <3>1, <3>2 DEF ReclaimExpired
  <2>4. CASE RereadAfterRace(w)
    <3>1. CASE \E k \in Replies : Answer(w, k) BY <2>4, <3>1, AnswerTypes DEF RereadAfterRace
    <3>2. CASE \E s \in Reclaiming : Aim(w, s) BY <2>4, <3>2, AimTypes DEF RereadAfterRace
    <3> QED BY <2>4, <3>1, <3>2 DEF RereadAfterRace, Refuse, Decide, Reclaiming
  <2>5. CASE ReclaimFailed(w)
    <3>1. CASE TryReclaim(seen[w].id, "failed_retryable", now[w]) /\ Own(w, seen[w].id)
      <4>1. Reclaimed(seen[w].id, "failed_retryable", now[w]) BY <3>1, ReclaimFields
      <4> QED BY <2>5, <3>1, <4>1 DEF ReclaimFailed, Own, Reclaimed, SameRecord
    <3>2. CASE Answer(w, "inProgress") /\ UNCHANGED <<row, nextId>>
      BY <2>5, <3>2, AnswerTypes DEF ReclaimFailed
    <3> QED BY <2>5, <3>1, <3>2 DEF ReclaimFailed
  <2>6. CASE Execute(w) BY <2>6 DEF Execute
  <2>7. CASE Renew(w)
    <3>1. clock + TTL \in Nat OBVIOUS
    <3>2. until' \in [Workers -> Nat] BY <2>7, <3>1 DEF Renew
    <3>3. renewer' \in [Workers -> BOOLEAN] BY <2>7, Zenon DEF Renew
    <3>4. UNCHANGED <<pc, req, now, seen, id, reply, effects>> BY <2>7 DEF Renew
    <3> QED BY <3>2, <3>3, <3>4
  <2>8. CASE MarkOk(w)
    <3>1. Expiry(w) \in Nat BY DEF Expiry
    <3>2. Succeeded(id[w], req[w], Expiry(w))
      BY <2>8, <3>1, MarkSucceededFields DEF MarkOk
    <3> QED BY <2>8, <3>1, <3>2 DEF MarkOk, Answer, Expiry, Succeeded, SameRecord
  <2>9. CASE MarkFailed(w)
    <3>1. Expiry(w) \in Nat /\ clock + Backoff \in Nat BY DEF Expiry
    <3>2. Failed(id[w], clock + Backoff, Expiry(w))
      BY <2>9, <3>1, MarkFailedFields DEF MarkFailed
    <3> QED BY <2>9, <3>1, <3>2 DEF MarkFailed, Answer, Expiry, Failed, SameRecord
  <2>10. CASE Crash(w) BY <2>10 DEF Crash, Answer
  <2> QED BY <1>1, <2>1, <2>2, <2>3, <2>4, <2>5, <2>6, <2>7, <2>8, <2>9, <2>10 DEF Step
<1>2. ASSUME NEW w \in Workers, NEW p \in Prints, Begin(w, p) PROVE WorkerTypes'
  BY <1>2 DEF Begin
<1>3. CASE Cleanup
  <2>1. Deleted BY <1>3, DeleteFields DEF Cleanup
  <2> QED BY <1>3, <2>1 DEF Cleanup, Deleted
<1>4. CASE Tick BY <1>4 DEF Tick, Prompt
<1> QED BY <1>1, <1>2, <1>3, <1>4 DEF Next

\* The time goes forward.
LEMMA TimesStep ==
    ASSUME TypeOK, Times, Next
    PROVE  Times'
<1> USE DEF TypeOK, StoreTypes, WorkerTypes, Times, Claiming, Running
<1>1. ASSUME NEW w \in Workers, Step(w) PROVE Times'
  <2>1. CASE Create(w)
    <3>1. CASE CreateProcessing(req[w], now[w]) /\ Own(w, nextId)
      <4>1. Created(req[w], now[w]) BY <3>1, CreateFields
      <4> QED BY <2>1, <3>1, <4>1 DEF Create, Own, Created
    <3>2. CASE Goto(w, "read") /\ UNCHANGED <<row, nextId, req, now, claimVars, reply>>
      BY <2>1, <3>2 DEF Create
    <3> QED BY <2>1, <3>1, <3>2 DEF Create
  <2>2. CASE GetByScopeAndKeyHash(w) BY <2>2 DEF GetByScopeAndKeyHash, Refuse,
        Decide, Aim, Answer
  <2>3. CASE ReclaimExpired(w)
    <3>1. CASE TryReclaim(seen[w].id, seen[w].status, now[w]) /\ Own(w, seen[w].id)
      <4>1. Reclaimed(seen[w].id, seen[w].status, now[w]) BY <3>1, ReclaimFields
      <4> QED BY <2>3, <3>1, <4>1 DEF ReclaimExpired, Own, Reclaimed, SameRecord
    <3>2. CASE /\ ~Reclaimable(seen[w].id, seen[w].status, now[w])
               /\ Goto(w, "reread")
               /\ seen' = [seen EXCEPT ![w] = Unseen]
               /\ UNCHANGED <<row, nextId, req, now, id, until, renewer, reply>>
      BY <2>3, <3>2 DEF ReclaimExpired
    <3> QED BY <2>3, <3>1, <3>2 DEF ReclaimExpired
  <2>4. CASE RereadAfterRace(w) BY <2>4 DEF RereadAfterRace, Refuse, Decide,
        Aim, Answer
  <2>5. CASE ReclaimFailed(w)
    <3>1. CASE TryReclaim(seen[w].id, "failed_retryable", now[w]) /\ Own(w, seen[w].id)
      <4>1. Reclaimed(seen[w].id, "failed_retryable", now[w]) BY <3>1, ReclaimFields
      <4> QED BY <2>5, <3>1, <4>1 DEF ReclaimFailed, Own, Reclaimed, SameRecord
    <3>2. CASE Answer(w, "inProgress") /\ UNCHANGED <<row, nextId>>
      BY <2>5, <3>2 DEF ReclaimFailed, Answer
    <3> QED BY <2>5, <3>1, <3>2 DEF ReclaimFailed
  <2>6. CASE Execute(w) BY <2>6 DEF Execute
  <2>7. CASE Renew(w)
    <3>1. CASE ExtendProcessingLock(id[w], req[w])
      <4>1. Extended(id[w], req[w]) BY <3>1, ExtendFields
      <4> QED BY <2>7, <3>1, <4>1 DEF Renew, Extended, SameRecord
    <3>2. CASE ~Extendable(id[w], req[w])
      BY <2>7, <3>2 DEF Renew, Extendable, ExtendProcessingLock
    <3> QED BY <2>7, <3>1, <3>2 DEF Renew
  <2>8. CASE MarkOk(w)
    <3>1. Expiry(w) \in Nat BY DEF Expiry
    <3>2. Succeeded(id[w], req[w], Expiry(w))
      BY <2>8, <3>1, MarkSucceededFields DEF MarkOk
    <3> QED BY <2>8, <3>1, <3>2 DEF MarkOk, Answer, Expiry, Succeeded, SameRecord
  <2>9. CASE MarkFailed(w)
    <3>1. Expiry(w) \in Nat /\ clock + Backoff \in Nat BY DEF Expiry
    <3>2. Failed(id[w], clock + Backoff, Expiry(w))
      BY <2>9, <3>1, MarkFailedFields DEF MarkFailed
    <3> QED BY <2>9, <3>1, <3>2 DEF MarkFailed, Answer, Expiry, Failed, SameRecord
  <2>10. CASE Crash(w) BY <2>10 DEF Crash, Answer
  <2> QED BY <1>1, <2>1, <2>2, <2>3, <2>4, <2>5, <2>6, <2>7, <2>8, <2>9, <2>10 DEF Step
<1>2. ASSUME NEW w \in Workers, NEW p \in Prints, Begin(w, p) PROVE Times'
  BY <1>2 DEF Begin
<1>3. CASE Cleanup
  <2>1. Deleted BY <1>3, DeleteFields DEF Cleanup
  <2> QED BY <1>3, <2>1 DEF Cleanup, Deleted
<1>4. CASE Tick BY <1>4 DEF Tick, Prompt
<1> QED BY <1>1, <1>2, <1>3, <1>4 DEF Next

\* No other worker starts the goroutine.
LEMMA RenewersStep ==
    ASSUME TypeOK, Renewers, Next
    PROVE  Renewers'
<1> USE DEF TypeOK, WorkerTypes, Renewers
<1>1. ASSUME NEW w \in Workers, Step(w) PROVE Renewers'
  <2>1. CASE Create(w) BY <2>1 DEF Create, CreateProcessing, Own
  <2>2. CASE GetByScopeAndKeyHash(w) BY <2>2 DEF GetByScopeAndKeyHash, Refuse,
        Decide, Aim, Answer
  <2>3. CASE ReclaimExpired(w) BY <2>3 DEF ReclaimExpired, TryReclaim,
        Reclaimable, Own
  <2>4. CASE RereadAfterRace(w) BY <2>4 DEF RereadAfterRace, Refuse, Decide,
        Aim, Answer
  <2>5. CASE ReclaimFailed(w) BY <2>5 DEF ReclaimFailed, TryReclaim,
        Reclaimable, Own, Answer
  <2>6. CASE Execute(w) BY <2>6 DEF Execute
  <2>7. CASE Renew(w) BY <2>7 DEF Renew, ExtendProcessingLock, Extendable
  <2>8. CASE MarkOk(w) BY <2>8 DEF MarkOk, MarkSucceeded, Expiry, Answer
  <2>9. CASE MarkFailed(w) BY <2>9 DEF MarkFailed, MarkFailedRetryable,
        Expiry, Answer
  <2>10. CASE Crash(w) BY <2>10 DEF Crash, Answer
  <2> QED BY <1>1, <2>1, <2>2, <2>3, <2>4, <2>5, <2>6, <2>7, <2>8, <2>9, <2>10 DEF Step
<1>2. ASSUME NEW w \in Workers, NEW p \in Prints, Begin(w, p) PROVE Renewers'
  BY <1>2 DEF Begin
<1>3. CASE Cleanup BY <1>3 DEF Cleanup, DeleteExpired
<1>4. CASE Tick BY <1>4 DEF Tick, Prompt
<1> QED BY <1>1, <1>2, <1>3, <1>4 DEF Next

\* A new record has a new id.
LEMMA IdsStep ==
    ASSUME TypeOK, Ids, Next
    PROVE  Ids'
<1> USE DEF TypeOK, StoreTypes, WorkerTypes, Records, NoRow, Sights, Ids,
      Live, Unseen, Claiming, Running, Reclaiming
<1>1. ASSUME NEW w \in Workers, Step(w) PROVE Ids'
  <2>1. CASE Create(w)
    <3>1. CASE CreateProcessing(req[w], now[w]) /\ Own(w, nextId)
      <4>1. Created(req[w], now[w]) BY <3>1, CreateFields
      <4> QED BY <2>1, <3>1, <4>1 DEF Create, Own, Created
    <3>2. CASE Goto(w, "read") /\ UNCHANGED <<row, nextId, req, now, claimVars, reply>>
      BY <2>1, <3>2 DEF Create
    <3> QED BY <2>1, <3>1, <3>2 DEF Create
  <2>2. CASE GetByScopeAndKeyHash(w) BY <2>2 DEF GetByScopeAndKeyHash, Refuse,
        Decide, Aim, Answer
  <2>3. CASE ReclaimExpired(w)
    <3>1. CASE TryReclaim(seen[w].id, seen[w].status, now[w]) /\ Own(w, seen[w].id)
      <4>1. Reclaimed(seen[w].id, seen[w].status, now[w]) BY <3>1, ReclaimFields
      <4> QED BY <2>3, <3>1, <4>1 DEF ReclaimExpired, Own, Reclaimed, SameRecord
    <3>2. CASE /\ ~Reclaimable(seen[w].id, seen[w].status, now[w])
               /\ Goto(w, "reread")
               /\ seen' = [seen EXCEPT ![w] = Unseen]
               /\ UNCHANGED <<row, nextId, req, now, id, until, renewer, reply>>
      BY <2>3, <3>2 DEF ReclaimExpired
    <3> QED BY <2>3, <3>1, <3>2 DEF ReclaimExpired
  <2>4. CASE RereadAfterRace(w) BY <2>4 DEF RereadAfterRace, Refuse, Decide,
        Aim, Answer
  <2>5. CASE ReclaimFailed(w)
    <3>1. CASE TryReclaim(seen[w].id, "failed_retryable", now[w]) /\ Own(w, seen[w].id)
      <4>1. Reclaimed(seen[w].id, "failed_retryable", now[w]) BY <3>1, ReclaimFields
      <4> QED BY <2>5, <3>1, <4>1 DEF ReclaimFailed, Own, Reclaimed, SameRecord
    <3>2. CASE Answer(w, "inProgress") /\ UNCHANGED <<row, nextId>>
      BY <2>5, <3>2 DEF ReclaimFailed, Answer
    <3> QED BY <2>5, <3>1, <3>2 DEF ReclaimFailed
  <2>6. CASE Execute(w) BY <2>6 DEF Execute
  <2>7. CASE Renew(w)
    <3>1. CASE ExtendProcessingLock(id[w], req[w])
      <4>1. Extended(id[w], req[w]) BY <3>1, ExtendFields
      <4> QED BY <2>7, <3>1, <4>1 DEF Renew, Extended, SameRecord
    <3>2. CASE ~Extendable(id[w], req[w])
      BY <2>7, <3>2 DEF Renew, Extendable, ExtendProcessingLock
    <3> QED BY <2>7, <3>1, <3>2 DEF Renew
  <2>8. CASE MarkOk(w)
    <3>1. Expiry(w) \in Nat BY DEF Expiry
    <3>2. Succeeded(id[w], req[w], Expiry(w))
      BY <2>8, <3>1, MarkSucceededFields DEF MarkOk
    <3> QED BY <2>8, <3>1, <3>2 DEF MarkOk, Answer, Expiry, Succeeded, SameRecord
  <2>9. CASE MarkFailed(w)
    <3>1. Expiry(w) \in Nat /\ clock + Backoff \in Nat BY DEF Expiry
    <3>2. Failed(id[w], clock + Backoff, Expiry(w))
      BY <2>9, <3>1, MarkFailedFields DEF MarkFailed
    <3> QED BY <2>9, <3>1, <3>2 DEF MarkFailed, Answer, Expiry, Failed, SameRecord
  <2>10. CASE Crash(w) BY <2>10 DEF Crash, Answer
  <2> QED BY <1>1, <2>1, <2>2, <2>3, <2>4, <2>5, <2>6, <2>7, <2>8, <2>9, <2>10 DEF Step
<1>2. ASSUME NEW w \in Workers, NEW p \in Prints, Begin(w, p) PROVE Ids'
  BY <1>2 DEF Begin
<1>3. CASE Cleanup
  <2>1. Deleted BY <1>3, DeleteFields DEF Cleanup
  <2> QED BY <1>3, <2>1 DEF Cleanup, Deleted
<1>4. CASE Tick BY <1>4 DEF Tick, Prompt
<1> QED BY <1>1, <1>2, <1>3, <1>4 DEF Next

\* The fingerprint of a record does not change.
LEMMA OwnRecordStep ==
    ASSUME TypeOK, Ids, OwnRecord, Next
    PROVE  OwnRecord'
<1> USE DEF TypeOK, StoreTypes, WorkerTypes, Records, NoRow, Sights, Ids,
      OwnRecord, Claiming, Running, Reclaiming
<1>1. ASSUME NEW w \in Workers, Step(w) PROVE OwnRecord'
  <2>1. CASE Create(w)
    <3>1. CASE CreateProcessing(req[w], now[w]) /\ Own(w, nextId)
      <4>1. Created(req[w], now[w]) BY <3>1, CreateFields
      <4> QED BY <2>1, <3>1, <4>1 DEF Create, Own, Created
    <3>2. CASE Goto(w, "read") /\ UNCHANGED <<row, nextId, req, now, claimVars, reply>>
      BY <2>1, <3>2 DEF Create
    <3> QED BY <2>1, <3>1, <3>2 DEF Create
  <2>2. CASE GetByScopeAndKeyHash(w) BY <2>2 DEF GetByScopeAndKeyHash, Refuse,
        Decide, Aim, Answer
  <2>3. CASE ReclaimExpired(w)
    <3>1. CASE TryReclaim(seen[w].id, seen[w].status, now[w]) /\ Own(w, seen[w].id)
      <4>1. Reclaimed(seen[w].id, seen[w].status, now[w]) BY <3>1, ReclaimFields
      <4> QED BY <2>3, <3>1, <4>1 DEF ReclaimExpired, Own, Reclaimed, SameRecord
    <3>2. CASE /\ ~Reclaimable(seen[w].id, seen[w].status, now[w])
               /\ Goto(w, "reread")
               /\ seen' = [seen EXCEPT ![w] = Unseen]
               /\ UNCHANGED <<row, nextId, req, now, id, until, renewer, reply>>
      BY <2>3, <3>2 DEF ReclaimExpired
    <3> QED BY <2>3, <3>1, <3>2 DEF ReclaimExpired
  <2>4. CASE RereadAfterRace(w) BY <2>4 DEF RereadAfterRace, Refuse, Decide,
        Aim, Answer
  <2>5. CASE ReclaimFailed(w)
    <3>1. CASE TryReclaim(seen[w].id, "failed_retryable", now[w]) /\ Own(w, seen[w].id)
      <4>1. Reclaimed(seen[w].id, "failed_retryable", now[w]) BY <3>1, ReclaimFields
      <4> QED BY <2>5, <3>1, <4>1 DEF ReclaimFailed, Own, Reclaimed, SameRecord
    <3>2. CASE Answer(w, "inProgress") /\ UNCHANGED <<row, nextId>>
      BY <2>5, <3>2 DEF ReclaimFailed, Answer
    <3> QED BY <2>5, <3>1, <3>2 DEF ReclaimFailed
  <2>6. CASE Execute(w) BY <2>6 DEF Execute
  <2>7. CASE Renew(w)
    <3>1. CASE ExtendProcessingLock(id[w], req[w])
      <4>1. Extended(id[w], req[w]) BY <3>1, ExtendFields
      <4> QED BY <2>7, <3>1, <4>1 DEF Renew, Extended, SameRecord
    <3>2. CASE ~Extendable(id[w], req[w])
      BY <2>7, <3>2 DEF Renew, Extendable, ExtendProcessingLock
    <3> QED BY <2>7, <3>1, <3>2 DEF Renew
  <2>8. CASE MarkOk(w)
    <3>1. Expiry(w) \in Nat BY DEF Expiry
    <3>2. Succeeded(id[w], req[w], Expiry(w))
      BY <2>8, <3>1, MarkSucceededFields DEF MarkOk
    <3> QED BY <2>8, <3>1, <3>2 DEF MarkOk, Answer, Expiry, Succeeded, SameRecord
  <2>9. CASE MarkFailed(w)
    <3>1. Expiry(w) \in Nat /\ clock + Backoff \in Nat BY DEF Expiry
    <3>2. Failed(id[w], clock + Backoff, Expiry(w))
      BY <2>9, <3>1, MarkFailedFields DEF MarkFailed
    <3> QED BY <2>9, <3>1, <3>2 DEF MarkFailed, Answer, Expiry, Failed, SameRecord
  <2>10. CASE Crash(w) BY <2>10 DEF Crash, Answer
  <2> QED BY <1>1, <2>1, <2>2, <2>3, <2>4, <2>5, <2>6, <2>7, <2>8, <2>9, <2>10 DEF Step
<1>2. ASSUME NEW w \in Workers, NEW p \in Prints, Begin(w, p) PROVE OwnRecord'
  BY <1>2 DEF Begin
<1>3. CASE Cleanup
  <2>1. Deleted BY <1>3, DeleteFields DEF Cleanup
  <2> QED BY <1>3, <2>1 DEF Cleanup, Deleted
<1>4. CASE Tick BY <1>4 DEF Tick, Prompt
<1> QED BY <1>1, <1>2, <1>3, <1>4 DEF Next

\* Only who has the record's request stores a response.
LEMMA StoredIsOwnStep ==
    ASSUME TypeOK, Ids, OwnRecord, StoredIsOwn, Next
    PROVE  StoredIsOwn'
<1> USE DEF TypeOK, StoreTypes, WorkerTypes, Records, NoRow, Ids, OwnRecord,
      StoredIsOwn, Claiming, Running, Reclaiming
<1>1. ASSUME NEW w \in Workers, Step(w) PROVE StoredIsOwn'
  <2>1. CASE Create(w)
    <3>1. CASE CreateProcessing(req[w], now[w]) /\ Own(w, nextId)
      <4>1. Created(req[w], now[w]) BY <3>1, CreateFields
      <4> QED BY <2>1, <3>1, <4>1 DEF Create, Own, Created
    <3>2. CASE Goto(w, "read") /\ UNCHANGED <<row, nextId, req, now, claimVars, reply>>
      BY <2>1, <3>2 DEF Create
    <3> QED BY <2>1, <3>1, <3>2 DEF Create
  <2>2. CASE GetByScopeAndKeyHash(w) BY <2>2 DEF GetByScopeAndKeyHash, Refuse,
        Decide, Aim, Answer
  <2>3. CASE ReclaimExpired(w)
    <3>1. CASE TryReclaim(seen[w].id, seen[w].status, now[w]) /\ Own(w, seen[w].id)
      <4>1. Reclaimed(seen[w].id, seen[w].status, now[w]) BY <3>1, ReclaimFields
      <4> QED BY <2>3, <3>1, <4>1 DEF ReclaimExpired, Own, Reclaimed, SameRecord
    <3>2. CASE /\ ~Reclaimable(seen[w].id, seen[w].status, now[w])
               /\ Goto(w, "reread")
               /\ seen' = [seen EXCEPT ![w] = Unseen]
               /\ UNCHANGED <<row, nextId, req, now, id, until, renewer, reply>>
      BY <2>3, <3>2 DEF ReclaimExpired
    <3> QED BY <2>3, <3>1, <3>2 DEF ReclaimExpired
  <2>4. CASE RereadAfterRace(w) BY <2>4 DEF RereadAfterRace, Refuse, Decide,
        Aim, Answer
  <2>5. CASE ReclaimFailed(w)
    <3>1. CASE TryReclaim(seen[w].id, "failed_retryable", now[w]) /\ Own(w, seen[w].id)
      <4>1. Reclaimed(seen[w].id, "failed_retryable", now[w]) BY <3>1, ReclaimFields
      <4> QED BY <2>5, <3>1, <4>1 DEF ReclaimFailed, Own, Reclaimed, SameRecord
    <3>2. CASE Answer(w, "inProgress") /\ UNCHANGED <<row, nextId>>
      BY <2>5, <3>2 DEF ReclaimFailed, Answer
    <3> QED BY <2>5, <3>1, <3>2 DEF ReclaimFailed
  <2>6. CASE Execute(w) BY <2>6 DEF Execute
  <2>7. CASE Renew(w)
    <3>1. CASE ExtendProcessingLock(id[w], req[w])
      <4>1. Extended(id[w], req[w]) BY <3>1, ExtendFields
      <4> QED BY <2>7, <3>1, <4>1 DEF Renew, Extended, SameRecord
    <3>2. CASE ~Extendable(id[w], req[w])
      BY <2>7, <3>2 DEF Renew, Extendable, ExtendProcessingLock
    <3> QED BY <2>7, <3>1, <3>2 DEF Renew
  <2>8. CASE MarkOk(w)
    <3>1. Expiry(w) \in Nat BY DEF Expiry
    <3>2. Succeeded(id[w], req[w], Expiry(w))
      BY <2>8, <3>1, MarkSucceededFields DEF MarkOk
    <3> QED BY <2>8, <3>1, <3>2 DEF MarkOk, Answer, Expiry, Succeeded, SameRecord
  <2>9. CASE MarkFailed(w)
    <3>1. Expiry(w) \in Nat /\ clock + Backoff \in Nat BY DEF Expiry
    <3>2. Failed(id[w], clock + Backoff, Expiry(w))
      BY <2>9, <3>1, MarkFailedFields DEF MarkFailed
    <3> QED BY <2>9, <3>1, <3>2 DEF MarkFailed, Answer, Expiry, Failed, SameRecord
  <2>10. CASE Crash(w) BY <2>10 DEF Crash, Answer
  <2> QED BY <1>1, <2>1, <2>2, <2>3, <2>4, <2>5, <2>6, <2>7, <2>8, <2>9, <2>10 DEF Step
<1>2. ASSUME NEW w \in Workers, NEW p \in Prints, Begin(w, p) PROVE StoredIsOwn'
  BY <1>2 DEF Begin
<1>3. CASE Cleanup
  <2>1. Deleted BY <1>3, DeleteFields DEF Cleanup
  <2> QED BY <1>3, <2>1 DEF Cleanup, Deleted
<1>4. CASE Tick BY <1>4 DEF Tick, Prompt
<1> QED BY <1>1, <1>2, <1>3, <1>4 DEF Next

\* Nothing expires, so nothing is claimed twice.
LEMMA FirstLifeStep ==
    ASSUME TypeOK, Times, Ids, FirstLife, Next
    PROVE  FirstLife'
<1> USE DEF TypeOK, StoreTypes, WorkerTypes, Records, NoRow, Null, Sights,
      Times, Ids, FirstLife, Exclusive, Many, Claiming, Running, Reclaiming
<1>1. ASSUME NEW w \in Workers, Step(w) PROVE FirstLife'
  <2>1. CASE Create(w)
    <3>1. CASE CreateProcessing(req[w], now[w]) /\ Own(w, nextId)
      <4>1. Created(req[w], now[w]) BY <3>1, CreateFields
      <4> QED BY <2>1, <3>1, <4>1 DEF Create, Own, Created
    <3>2. CASE Goto(w, "read") /\ UNCHANGED <<row, nextId, req, now, claimVars, reply>>
      BY <2>1, <3>2 DEF Create
    <3> QED BY <2>1, <3>1, <3>2 DEF Create
  <2>2. CASE GetByScopeAndKeyHash(w)
    <3>1. CASE \E k \in Replies : Answer(w, k) BY <2>2, <3>1 DEF GetByScopeAndKeyHash, Answer
    <3>2. CASE row.expires > now[w] /\ Aim(w, "reclaimFailed")
      BY <2>2, <3>2 DEF GetByScopeAndKeyHash, Aim
    <3>3. CASE row.expires <= now[w] /\ row # NoRow /\ Aim(w, "reclaimExpired")
      BY <2>2, <3>3 DEF GetByScopeAndKeyHash, Aim
    <3> QED BY <2>2, <3>1, <3>2, <3>3 DEF GetByScopeAndKeyHash, Refuse, Decide, Replies
  <2>3. CASE ReclaimExpired(w)
    <3>1. CASE TryReclaim(seen[w].id, seen[w].status, now[w]) /\ Own(w, seen[w].id)
      <4>1. Reclaimed(seen[w].id, seen[w].status, now[w]) BY <3>1, ReclaimFields
      <4> QED BY <2>3, <3>1, <4>1 DEF ReclaimExpired, Own, Reclaimed, SameRecord
    <3>2. CASE /\ ~Reclaimable(seen[w].id, seen[w].status, now[w])
               /\ Goto(w, "reread")
               /\ seen' = [seen EXCEPT ![w] = Unseen]
               /\ UNCHANGED <<row, nextId, req, now, id, until, renewer, reply>>
      BY <2>3, <3>2 DEF ReclaimExpired
    <3> QED BY <2>3, <3>1, <3>2 DEF ReclaimExpired
  <2>4. CASE RereadAfterRace(w) BY <2>4 DEF RereadAfterRace, Refuse, Decide,
        Aim, Answer
  <2>5. CASE ReclaimFailed(w)
    <3>1. CASE TryReclaim(seen[w].id, "failed_retryable", now[w]) /\ Own(w, seen[w].id)
      <4>1. Reclaimed(seen[w].id, "failed_retryable", now[w]) BY <3>1, ReclaimFields
      <4> QED BY <2>5, <3>1, <4>1 DEF ReclaimFailed, Own, Reclaimed, SameRecord
    <3>2. CASE Answer(w, "inProgress") /\ UNCHANGED <<row, nextId>>
      BY <2>5, <3>2 DEF ReclaimFailed, Answer
    <3> QED BY <2>5, <3>1, <3>2 DEF ReclaimFailed
  <2>6. CASE Execute(w)
    <3>1. UNCHANGED <<row, clock, id>> /\ pc[w] = "execute" BY <2>6 DEF Execute
    <3>2. CASE Goto(w, "markFailed") /\ UNCHANGED effects BY <3>1, <3>2
    <3>3. CASE /\ Goto(w, "markOk")
               /\ effects' = IF effects < Many THEN effects + 1 ELSE Many
      BY <3>1, <3>3
    <3> QED BY <2>6, <3>2, <3>3 DEF Execute
  <2>7. CASE Renew(w)
    <3>1. CASE ExtendProcessingLock(id[w], req[w])
      <4>1. Extended(id[w], req[w]) BY <3>1, ExtendFields
      <4> QED BY <2>7, <3>1, <4>1 DEF Renew, Extended, SameRecord
    <3>2. CASE ~Extendable(id[w], req[w])
      BY <2>7, <3>2 DEF Renew, Extendable, ExtendProcessingLock
    <3> QED BY <2>7, <3>1, <3>2 DEF Renew
  <2>8. CASE MarkOk(w)
    <3>1. Expiry(w) \in Nat BY DEF Expiry
    <3>2. Succeeded(id[w], req[w], Expiry(w))
      BY <2>8, <3>1, MarkSucceededFields DEF MarkOk
    <3> QED BY <2>8, <3>1, <3>2 DEF MarkOk, Answer, Expiry, Succeeded, SameRecord
  <2>9. CASE MarkFailed(w)
    <3>1. Expiry(w) \in Nat /\ clock + Backoff \in Nat BY DEF Expiry
    <3>2. Failed(id[w], clock + Backoff, Expiry(w))
      BY <2>9, <3>1, MarkFailedFields DEF MarkFailed
    <3> QED BY <2>9, <3>1, <3>2 DEF MarkFailed, Answer, Expiry, Failed, SameRecord
  <2>10. CASE Crash(w) BY <2>10 DEF Crash, Answer
  <2> QED BY <1>1, <2>1, <2>2, <2>3, <2>4, <2>5, <2>6, <2>7, <2>8, <2>9, <2>10 DEF Step
<1>2. ASSUME NEW w \in Workers, NEW p \in Prints, Begin(w, p) PROVE FirstLife'
  BY <1>2 DEF Begin
<1>3. CASE Cleanup
  <2>1. Deleted BY <1>3, DeleteFields DEF Cleanup
  <2> QED BY <1>3, <2>1 DEF Cleanup, Deleted
<1>4. CASE Tick BY <1>4 DEF Tick, Prompt
<1> QED BY <1>1, <1>2, <1>3, <1>4 DEF Next

-----------------------------------------------------------------------------
(* Theorems that hold however long requests take.                          *)

\* The invariant holds in every reachable state.
THEOREM Invariance == Spec => []IInv
<1>1. Init => IInv
  <2> SUFFICES ASSUME Init PROVE IInv
    OBVIOUS
  <2> USE DEF Init, StoreInit, NoRow, Null
  <2>1. StoreTypes BY DEF StoreTypes, Records, Live, Forms
  <2>2. WorkerTypes BY DEF WorkerTypes, Sights, Unseen, Replies
  <2>3. Times /\ Renewers /\ Ids /\ OwnRecord /\ StoredIsOwn
    BY DEF Times, Renewers, Ids, OwnRecord, StoredIsOwn, Running, Reclaiming
  <2>4. FirstLife BY DEF FirstLife, Exclusive, Running
  <2> QED BY <2>1, <2>2, <2>3, <2>4 DEF IInv, TypeOK
<1>2. IInv /\ [Next]_vars => IInv'
  <2> SUFFICES ASSUME IInv, [Next]_vars PROVE IInv'
    OBVIOUS
  <2>1. CASE Next
    <3>1. TypeOK'
      <4>1. stalled' \in 0..1 BY <2>1 DEF IInv, TypeOK, Next, Tick
      <4> QED BY <2>1, <4>1, StoreTypesStep, WorkerTypesStep DEF IInv, TypeOK
    <3>2. Times' /\ Renewers' /\ Ids'
      BY <2>1, TimesStep, RenewersStep, IdsStep DEF IInv
    <3>3. OwnRecord' /\ StoredIsOwn' /\ FirstLife'
      BY <2>1, OwnRecordStep, StoredIsOwnStep, FirstLifeStep DEF IInv
    <3> QED BY <3>1, <3>2, <3>3 DEF IInv
  <2>2. CASE UNCHANGED vars
    BY <2>2 DEF vars, IInv, TypeOK, StoreTypes, WorkerTypes, Times, Renewers,
       Ids, OwnRecord, StoredIsOwn, FirstLife, Exclusive
  <2> QED BY <2>1, <2>2
<1> QED BY <1>1, <1>2, PTL DEF Spec

\* Type correctness.
THEOREM TypeCorrectness == Spec => []TypeOK
<1>1. IInv => TypeOK BY DEF IInv
<1> QED BY <1>1, Invariance, PTL

\* The side effect happens at most once within the TTL of the key's first use,
\* whatever overlaps, crashes or stalls.
THEOREM AtMostOnceWithinTTL == Spec => []OnceWithinTTL
<1>1. IInv => OnceWithinTTL
  BY DEF IInv, FirstLife, OnceWithinTTL, TypeOK, StoreTypes
<1> QED BY <1>1, Invariance, PTL

\* What a step may replay.
ReplayGoal ==
    \A w \in Workers :
        reply'[w] = "replayed" /\ reply[w] # "replayed" =>
            row.fp = req[w] /\ row.body = req[w]

\* Only a record of the request, with its response, is replayed.
LEMMA ReplayStep ==
    ASSUME TypeOK, Ids, OwnRecord, StoredIsOwn, Next
    PROVE  ReplayGoal
<1> USE DEF TypeOK, StoreTypes, WorkerTypes, StoredIsOwn, ReplayGoal, Replies
<1>1. ASSUME NEW w \in Workers, Step(w) PROVE ReplayGoal
  <2>1. CASE Create(w) BY <2>1 DEF Create, CreateProcessing, Own
  <2>2. CASE GetByScopeAndKeyHash(w) BY <2>2 DEF GetByScopeAndKeyHash, Refuse,
        Decide, Aim, Answer
  <2>3. CASE ReclaimExpired(w) BY <2>3 DEF ReclaimExpired, TryReclaim,
        Reclaimable, Own
  <2>4. CASE RereadAfterRace(w) BY <2>4 DEF RereadAfterRace, Refuse, Decide,
        Aim, Answer
  <2>5. CASE ReclaimFailed(w) BY <2>5 DEF ReclaimFailed, TryReclaim,
        Reclaimable, Own, Answer
  <2>6. CASE Execute(w) BY <2>6 DEF Execute
  <2>7. CASE Renew(w) BY <2>7 DEF Renew, ExtendProcessingLock, Extendable
  <2>8. CASE MarkOk(w) BY <2>8 DEF MarkOk, MarkSucceeded, Expiry, Answer
  <2>9. CASE MarkFailed(w) BY <2>9 DEF MarkFailed, MarkFailedRetryable,
        Expiry, Answer
  <2>10. CASE Crash(w) BY <2>10 DEF Crash, Answer
  <2> QED BY <1>1, <2>1, <2>2, <2>3, <2>4, <2>5, <2>6, <2>7, <2>8, <2>9, <2>10 DEF Step
<1>2. ASSUME NEW w \in Workers, NEW p \in Prints, Begin(w, p) PROVE ReplayGoal
  BY <1>2 DEF Begin
<1>3. CASE Cleanup BY <1>3 DEF Cleanup, DeleteExpired
<1>4. CASE Tick BY <1>4 DEF Tick, Prompt
<1> QED BY <1>1, <1>2, <1>3, <1>4 DEF Next

\* A replayed response answers the request that gets it.
THEOREM ReplaysAreOwn == Spec => ReplayIsOwn
<1>1. IInv /\ [Next]_vars =>
        [\A w \in Workers :
           reply'[w] = "replayed" /\ reply[w] # "replayed" =>
               row.fp = req[w] /\ row.body = req[w]]_vars
  BY ReplayStep DEF IInv, ReplayGoal
<1> QED BY <1>1, Invariance, PTL DEF Spec, ReplayIsOwn

-----------------------------------------------------------------------------
(* The strengthening for requests that do not stall.                       *)

\* Who executes owns the record, and the record is live.
OwnerHolds ==
    /\ \A w \in Workers :
         pc[w] \in Running =>
             /\ row.id = id[w] /\ row.status = "processing"
             /\ row.expires = until[w]
             /\ ~Renewing => until[w] = now[w] + TTL
    /\ row.status = "processing" => row.locked <= row.expires

\* Who saw an expired claim before it was claimed again comes too late.
TooLate ==
    \A w, v \in Workers :
        /\ pc[w] \in Running /\ pc[v] = "reclaimExpired"
        /\ seen[v].status = "processing"
        => row.locked > now[v]

\* A record that has changed since a worker read it is live.
NewIsLive ==
    \A w \in Workers :
        row # NoRow /\ row.expires <= now[w] =>
            /\ pc[w] = "reclaimExpired" =>
                 row.id = seen[w].id /\ row.status = seen[w].status
            /\ pc[w] = "reread" => row.locked > now[w]
            /\ pc[w] # "reclaimFailed"

PPart == Prompt(clock) /\ OwnerHolds /\ Exclusive /\ TooLate /\ NewIsLive

PInv == stalled = 0 => PPart

\* A stall is never forgotten.
LEMMA StallStays == ASSUME TypeOK, Next PROVE stalled' = 0 => stalled = 0
BY DEF TypeOK, Next, Tick

\* Time waits for claims and executions.
LEMMA PromptStep ==
    ASSUME stalled' = 0, TypeOK, Times, Prompt(clock), Next
    PROVE  Prompt(clock)'
<1> USE DEF TypeOK, StoreTypes, WorkerTypes, Records, NoRow, Null, Sights,
      Times, Ids, Claiming, Running, Reclaiming, Prompt
<1>1. ASSUME NEW w \in Workers, Step(w) PROVE Prompt(clock)'
  <2>1. CASE Create(w)
    <3>1. CASE CreateProcessing(req[w], now[w]) /\ Own(w, nextId)
      <4>1. Created(req[w], now[w]) BY <3>1, CreateFields
      <4> QED BY <2>1, <3>1, <4>1 DEF Create, Own, Created
    <3>2. CASE Goto(w, "read") /\ UNCHANGED <<row, nextId, req, now, claimVars, reply>>
      BY <2>1, <3>2 DEF Create
    <3> QED BY <2>1, <3>1, <3>2 DEF Create
  <2>2. CASE GetByScopeAndKeyHash(w) BY <2>2 DEF GetByScopeAndKeyHash, Refuse,
        Decide, Aim, Answer
  <2>3. CASE ReclaimExpired(w)
    <3>1. CASE TryReclaim(seen[w].id, seen[w].status, now[w]) /\ Own(w, seen[w].id)
      <4>1. Reclaimed(seen[w].id, seen[w].status, now[w]) BY <3>1, ReclaimFields
      <4> QED BY <2>3, <3>1, <4>1 DEF ReclaimExpired, Own, Reclaimed, SameRecord
    <3>2. CASE /\ ~Reclaimable(seen[w].id, seen[w].status, now[w])
               /\ Goto(w, "reread")
               /\ seen' = [seen EXCEPT ![w] = Unseen]
               /\ UNCHANGED <<row, nextId, req, now, id, until, renewer, reply>>
      BY <2>3, <3>2 DEF ReclaimExpired
    <3> QED BY <2>3, <3>1, <3>2 DEF ReclaimExpired
  <2>4. CASE RereadAfterRace(w) BY <2>4 DEF RereadAfterRace, Refuse, Decide,
        Aim, Answer
  <2>5. CASE ReclaimFailed(w)
    <3>1. CASE TryReclaim(seen[w].id, "failed_retryable", now[w]) /\ Own(w, seen[w].id)
      <4>1. Reclaimed(seen[w].id, "failed_retryable", now[w]) BY <3>1, ReclaimFields
      <4> QED BY <2>5, <3>1, <4>1 DEF ReclaimFailed, Own, Reclaimed, SameRecord
    <3>2. CASE Answer(w, "inProgress") /\ UNCHANGED <<row, nextId>>
      BY <2>5, <3>2 DEF ReclaimFailed, Answer
    <3> QED BY <2>5, <3>1, <3>2 DEF ReclaimFailed
  <2>6. CASE Execute(w) BY <2>6 DEF Execute
  <2>7. CASE Renew(w)
    <3>1. CASE ExtendProcessingLock(id[w], req[w])
      <4>1. Extended(id[w], req[w]) BY <3>1, ExtendFields
      <4> QED BY <2>7, <3>1, <4>1 DEF Renew, Extended, SameRecord
    <3>2. CASE ~Extendable(id[w], req[w])
      BY <2>7, <3>2 DEF Renew, Extendable, ExtendProcessingLock
    <3> QED BY <2>7, <3>1, <3>2 DEF Renew
  <2>8. CASE MarkOk(w)
    <3>1. Expiry(w) \in Nat BY DEF Expiry
    <3>2. Succeeded(id[w], req[w], Expiry(w))
      BY <2>8, <3>1, MarkSucceededFields DEF MarkOk
    <3> QED BY <2>8, <3>1, <3>2 DEF MarkOk, Answer, Expiry, Succeeded, SameRecord
  <2>9. CASE MarkFailed(w)
    <3>1. Expiry(w) \in Nat /\ clock + Backoff \in Nat BY DEF Expiry
    <3>2. Failed(id[w], clock + Backoff, Expiry(w))
      BY <2>9, <3>1, MarkFailedFields DEF MarkFailed
    <3> QED BY <2>9, <3>1, <3>2 DEF MarkFailed, Answer, Expiry, Failed, SameRecord
  <2>10. CASE Crash(w) BY <2>10 DEF Crash, Answer
  <2> QED BY <1>1, <2>1, <2>2, <2>3, <2>4, <2>5, <2>6, <2>7, <2>8, <2>9, <2>10 DEF Step
<1>2. ASSUME NEW w \in Workers, NEW p \in Prints, Begin(w, p) PROVE Prompt(clock)'
  BY <1>2 DEF Begin
<1>3. CASE Cleanup
  <2>1. Deleted BY <1>3, DeleteFields DEF Cleanup
  <2> QED BY <1>3, <2>1 DEF Cleanup, Deleted
<1>4. CASE Tick BY <1>4 DEF Tick
<1> QED BY <1>1, <1>2, <1>3, <1>4 DEF Next

\* Nobody else ends a claim.
LEMMA OwnerHoldsStep ==
    ASSUME stalled' = 0, TypeOK, Times, Renewers, Ids, OwnRecord, PPart, Next
    PROVE  OwnerHolds'
<1> USE DEF TypeOK, StoreTypes, WorkerTypes, Records, NoRow, Null, Sights,
      Times, Ids, Claiming, Running, Reclaiming, OwnRecord, PPart, Prompt,
      OwnerHolds, Exclusive, TooLate
<1>1. ASSUME NEW w \in Workers, Step(w) PROVE OwnerHolds'
  <2>1. CASE Create(w)
    <3>1. CASE CreateProcessing(req[w], now[w]) /\ Own(w, nextId)
      <4>1. Created(req[w], now[w]) BY <3>1, CreateFields
      <4> QED BY <2>1, <3>1, <4>1 DEF Create, Own, Created
    <3>2. CASE Goto(w, "read") /\ UNCHANGED <<row, nextId, req, now, claimVars, reply>>
      BY <2>1, <3>2 DEF Create
    <3> QED BY <2>1, <3>1, <3>2 DEF Create
  <2>2. CASE GetByScopeAndKeyHash(w) BY <2>2 DEF GetByScopeAndKeyHash, Refuse,
        Decide, Aim, Answer
  <2>3. CASE ReclaimExpired(w)
    <3>1. CASE TryReclaim(seen[w].id, seen[w].status, now[w]) /\ Own(w, seen[w].id)
      <4>1. Reclaimed(seen[w].id, seen[w].status, now[w]) BY <3>1, ReclaimFields
      <4> QED BY <2>3, <3>1, <4>1 DEF ReclaimExpired, Own, Reclaimed, SameRecord
    <3>2. CASE /\ ~Reclaimable(seen[w].id, seen[w].status, now[w])
               /\ Goto(w, "reread")
               /\ seen' = [seen EXCEPT ![w] = Unseen]
               /\ UNCHANGED <<row, nextId, req, now, id, until, renewer, reply>>
      BY <2>3, <3>2 DEF ReclaimExpired
    <3> QED BY <2>3, <3>1, <3>2 DEF ReclaimExpired
  <2>4. CASE RereadAfterRace(w) BY <2>4 DEF RereadAfterRace, Refuse, Decide,
        Aim, Answer
  <2>5. CASE ReclaimFailed(w)
    <3>1. CASE TryReclaim(seen[w].id, "failed_retryable", now[w]) /\ Own(w, seen[w].id)
      <4>1. Reclaimed(seen[w].id, "failed_retryable", now[w]) BY <3>1, ReclaimFields
      <4> QED BY <2>5, <3>1, <4>1 DEF ReclaimFailed, Own, Reclaimed, SameRecord
    <3>2. CASE Answer(w, "inProgress") /\ UNCHANGED <<row, nextId>>
      BY <2>5, <3>2 DEF ReclaimFailed, Answer
    <3> QED BY <2>5, <3>1, <3>2 DEF ReclaimFailed
  <2>6. CASE Execute(w) BY <2>6 DEF Execute
  <2>7. CASE Renew(w)
    <3>1. CASE ExtendProcessingLock(id[w], req[w])
      <4>1. Extended(id[w], req[w]) BY <3>1, ExtendFields
      <4>2. /\ until' = [until EXCEPT ![w] = clock + TTL]
            /\ UNCHANGED <<pc, now, id>>
        BY <2>7, <3>1 DEF Renew, Extendable, ExtendProcessingLock
      <4>3. Renewing BY <2>7 DEF Renew, Renewers
      <4>4. pc[w] \in Running BY <2>7 DEF Renew
      <4>5. \A v \in Workers : pc'[v] \in Running => v = w BY <4>2, <4>4
      <4>6. /\ row'.id = id'[w] /\ row'.status = "processing"
            /\ row'.expires = until'[w] /\ row'.locked <= row'.expires
        BY <4>1, <4>2 DEF Extended, SameRecord
      <4> QED BY <4>3, <4>5, <4>6
    <3>2. CASE ~Extendable(id[w], req[w])
      BY <2>7, <3>2 DEF Renew, Extendable, ExtendProcessingLock
    <3> QED BY <2>7, <3>1, <3>2 DEF Renew
  <2>8. CASE MarkOk(w)
    <3>1. Expiry(w) \in Nat BY DEF Expiry
    <3>2. Succeeded(id[w], req[w], Expiry(w))
      BY <2>8, <3>1, MarkSucceededFields DEF MarkOk
    <3> QED BY <2>8, <3>1, <3>2 DEF MarkOk, Answer, Expiry, Succeeded, SameRecord
  <2>9. CASE MarkFailed(w)
    <3>1. Expiry(w) \in Nat /\ clock + Backoff \in Nat BY DEF Expiry
    <3>2. Failed(id[w], clock + Backoff, Expiry(w))
      BY <2>9, <3>1, MarkFailedFields DEF MarkFailed
    <3> QED BY <2>9, <3>1, <3>2 DEF MarkFailed, Answer, Expiry, Failed, SameRecord
  <2>10. CASE Crash(w) BY <2>10 DEF Crash, Answer
  <2> QED BY <1>1, <2>1, <2>2, <2>3, <2>4, <2>5, <2>6, <2>7, <2>8, <2>9, <2>10 DEF Step
<1>2. ASSUME NEW w \in Workers, NEW p \in Prints, Begin(w, p) PROVE OwnerHolds'
  BY <1>2 DEF Begin
<1>3. CASE Cleanup
  <2>1. Deleted BY <1>3, DeleteFields DEF Cleanup
  <2> QED BY <1>3, <2>1 DEF Cleanup, Deleted
<1>4. CASE Tick BY <1>4 DEF Tick
<1> QED BY <1>1, <1>2, <1>3, <1>4 DEF Next

\* Nobody claims a record whose owner runs.
LEMMA ExclusiveStep ==
    ASSUME stalled' = 0, TypeOK, Times, Ids, PPart, Next
    PROVE  Exclusive'
<1> USE DEF TypeOK, StoreTypes, WorkerTypes, Records, NoRow, Null, Sights,
      Times, Ids, Claiming, Running, Reclaiming, PPart, Prompt, OwnerHolds,
      Exclusive, TooLate
<1>1. ASSUME NEW w \in Workers, Step(w) PROVE Exclusive'
  <2>1. CASE Create(w)
    <3>1. CASE CreateProcessing(req[w], now[w]) /\ Own(w, nextId)
      <4>1. Created(req[w], now[w]) BY <3>1, CreateFields
      <4> QED BY <2>1, <3>1, <4>1 DEF Create, Own, Created
    <3>2. CASE Goto(w, "read") /\ UNCHANGED <<row, nextId, req, now, claimVars, reply>>
      BY <2>1, <3>2 DEF Create
    <3> QED BY <2>1, <3>1, <3>2 DEF Create
  <2>2. CASE GetByScopeAndKeyHash(w) BY <2>2 DEF GetByScopeAndKeyHash, Refuse,
        Decide, Aim, Answer
  <2>3. CASE ReclaimExpired(w)
    <3>1. CASE TryReclaim(seen[w].id, seen[w].status, now[w]) /\ Own(w, seen[w].id)
      <4>1. Reclaimed(seen[w].id, seen[w].status, now[w]) BY <3>1, ReclaimFields
      <4> QED BY <2>3, <3>1, <4>1 DEF ReclaimExpired, Own, Reclaimed, SameRecord
    <3>2. CASE /\ ~Reclaimable(seen[w].id, seen[w].status, now[w])
               /\ Goto(w, "reread")
               /\ seen' = [seen EXCEPT ![w] = Unseen]
               /\ UNCHANGED <<row, nextId, req, now, id, until, renewer, reply>>
      BY <2>3, <3>2 DEF ReclaimExpired
    <3> QED BY <2>3, <3>1, <3>2 DEF ReclaimExpired
  <2>4. CASE RereadAfterRace(w) BY <2>4 DEF RereadAfterRace, Refuse, Decide,
        Aim, Answer
  <2>5. CASE ReclaimFailed(w)
    <3>1. CASE TryReclaim(seen[w].id, "failed_retryable", now[w]) /\ Own(w, seen[w].id)
      <4>1. Reclaimed(seen[w].id, "failed_retryable", now[w]) BY <3>1, ReclaimFields
      <4> QED BY <2>5, <3>1, <4>1 DEF ReclaimFailed, Own, Reclaimed, SameRecord
    <3>2. CASE Answer(w, "inProgress") /\ UNCHANGED <<row, nextId>>
      BY <2>5, <3>2 DEF ReclaimFailed, Answer
    <3> QED BY <2>5, <3>1, <3>2 DEF ReclaimFailed
  <2>6. CASE Execute(w) BY <2>6 DEF Execute
  <2>7. CASE Renew(w)
    <3>1. CASE ExtendProcessingLock(id[w], req[w])
      <4>1. Extended(id[w], req[w]) BY <3>1, ExtendFields
      <4> QED BY <2>7, <3>1, <4>1 DEF Renew, Extended, SameRecord
    <3>2. CASE ~Extendable(id[w], req[w])
      BY <2>7, <3>2 DEF Renew, Extendable, ExtendProcessingLock
    <3> QED BY <2>7, <3>1, <3>2 DEF Renew
  <2>8. CASE MarkOk(w)
    <3>1. Expiry(w) \in Nat BY DEF Expiry
    <3>2. Succeeded(id[w], req[w], Expiry(w))
      BY <2>8, <3>1, MarkSucceededFields DEF MarkOk
    <3> QED BY <2>8, <3>1, <3>2 DEF MarkOk, Answer, Expiry, Succeeded, SameRecord
  <2>9. CASE MarkFailed(w)
    <3>1. Expiry(w) \in Nat /\ clock + Backoff \in Nat BY DEF Expiry
    <3>2. Failed(id[w], clock + Backoff, Expiry(w))
      BY <2>9, <3>1, MarkFailedFields DEF MarkFailed
    <3> QED BY <2>9, <3>1, <3>2 DEF MarkFailed, Answer, Expiry, Failed, SameRecord
  <2>10. CASE Crash(w) BY <2>10 DEF Crash, Answer
  <2> QED BY <1>1, <2>1, <2>2, <2>3, <2>4, <2>5, <2>6, <2>7, <2>8, <2>9, <2>10 DEF Step
<1>2. ASSUME NEW w \in Workers, NEW p \in Prints, Begin(w, p) PROVE Exclusive'
  BY <1>2 DEF Begin
<1>3. CASE Cleanup
  <2>1. Deleted BY <1>3, DeleteFields DEF Cleanup
  <2> QED BY <1>3, <2>1 DEF Cleanup, Deleted
<1>4. CASE Tick BY <1>4 DEF Tick
<1> QED BY <1>1, <1>2, <1>3, <1>4 DEF Next

\* A claim is locked beyond the time of all who saw the record before.
LEMMA TooLateStep ==
    ASSUME stalled' = 0, TypeOK, Times, Ids, OwnRecord, PPart, Next
    PROVE  TooLate'
<1> USE DEF TypeOK, StoreTypes, WorkerTypes, Records, NoRow, Null, Sights,
      Times, Ids, Claiming, Running, Reclaiming, OwnRecord, PPart, Prompt,
      OwnerHolds, Exclusive, TooLate
<1>1. ASSUME NEW w \in Workers, Step(w) PROVE TooLate'
  <2>1. CASE Create(w)
    <3>1. CASE CreateProcessing(req[w], now[w]) /\ Own(w, nextId)
      <4>1. Created(req[w], now[w]) BY <3>1, CreateFields
      <4> QED BY <2>1, <3>1, <4>1 DEF Create, Own, Created
    <3>2. CASE Goto(w, "read") /\ UNCHANGED <<row, nextId, req, now, claimVars, reply>>
      BY <2>1, <3>2 DEF Create
    <3> QED BY <2>1, <3>1, <3>2 DEF Create
  <2>2. CASE GetByScopeAndKeyHash(w)
    <3>1. CASE \E k \in Replies : Answer(w, k) BY <2>2, <3>1 DEF GetByScopeAndKeyHash, Answer
    <3>2. CASE row.expires > now[w] /\ Aim(w, "reclaimFailed")
      BY <2>2, <3>2 DEF GetByScopeAndKeyHash, Aim
    <3>3. CASE row.expires <= now[w] /\ row # NoRow /\ Aim(w, "reclaimExpired")
      BY <2>2, <3>3 DEF GetByScopeAndKeyHash, Aim
    <3> QED BY <2>2, <3>1, <3>2, <3>3 DEF GetByScopeAndKeyHash, Refuse, Decide, Replies
  <2>3. CASE ReclaimExpired(w)
    <3>1. CASE TryReclaim(seen[w].id, seen[w].status, now[w]) /\ Own(w, seen[w].id)
      <4>1. Reclaimed(seen[w].id, seen[w].status, now[w]) BY <3>1, ReclaimFields
      <4> QED BY <2>3, <3>1, <4>1 DEF ReclaimExpired, Own, Reclaimed, SameRecord
    <3>2. CASE /\ ~Reclaimable(seen[w].id, seen[w].status, now[w])
               /\ Goto(w, "reread")
               /\ seen' = [seen EXCEPT ![w] = Unseen]
               /\ UNCHANGED <<row, nextId, req, now, id, until, renewer, reply>>
      BY <2>3, <3>2 DEF ReclaimExpired
    <3> QED BY <2>3, <3>1, <3>2 DEF ReclaimExpired
  <2>4. CASE RereadAfterRace(w) BY <2>4 DEF RereadAfterRace, Refuse, Decide,
        Aim, Answer
  <2>5. CASE ReclaimFailed(w)
    <3>1. CASE TryReclaim(seen[w].id, "failed_retryable", now[w]) /\ Own(w, seen[w].id)
      <4>1. Reclaimed(seen[w].id, "failed_retryable", now[w]) BY <3>1, ReclaimFields
      <4> QED BY <2>5, <3>1, <4>1 DEF ReclaimFailed, Own, Reclaimed, SameRecord
    <3>2. CASE Answer(w, "inProgress") /\ UNCHANGED <<row, nextId>>
      BY <2>5, <3>2 DEF ReclaimFailed, Answer
    <3> QED BY <2>5, <3>1, <3>2 DEF ReclaimFailed
  <2>6. CASE Execute(w) BY <2>6 DEF Execute
  <2>7. CASE Renew(w)
    <3>1. CASE ExtendProcessingLock(id[w], req[w])
      <4>1. Extended(id[w], req[w]) BY <3>1, ExtendFields
      <4>2. row'.locked = clock + Lease /\ UNCHANGED <<pc, seen, now>>
        BY <2>7, <4>1 DEF Renew, Extended
      <4>3. \A v \in Workers : pc[v] = "reclaimExpired" => clock + Lease > now[v]
        OBVIOUS
      <4> QED BY <4>2, <4>3
    <3>2. CASE ~Extendable(id[w], req[w])
      BY <2>7, <3>2 DEF Renew, Extendable, ExtendProcessingLock
    <3> QED BY <2>7, <3>1, <3>2 DEF Renew
  <2>8. CASE MarkOk(w)
    <3>1. Expiry(w) \in Nat BY DEF Expiry
    <3>2. Succeeded(id[w], req[w], Expiry(w))
      BY <2>8, <3>1, MarkSucceededFields DEF MarkOk
    <3> QED BY <2>8, <3>1, <3>2 DEF MarkOk, Answer, Expiry, Succeeded, SameRecord
  <2>9. CASE MarkFailed(w)
    <3>1. Expiry(w) \in Nat /\ clock + Backoff \in Nat BY DEF Expiry
    <3>2. Failed(id[w], clock + Backoff, Expiry(w))
      BY <2>9, <3>1, MarkFailedFields DEF MarkFailed
    <3> QED BY <2>9, <3>1, <3>2 DEF MarkFailed, Answer, Expiry, Failed, SameRecord
  <2>10. CASE Crash(w) BY <2>10 DEF Crash, Answer
  <2> QED BY <1>1, <2>1, <2>2, <2>3, <2>4, <2>5, <2>6, <2>7, <2>8, <2>9, <2>10 DEF Step
<1>2. ASSUME NEW w \in Workers, NEW p \in Prints, Begin(w, p) PROVE TooLate'
  BY <1>2 DEF Begin
<1>3. CASE Cleanup
  <2>1. Deleted BY <1>3, DeleteFields DEF Cleanup
  <2> QED BY <1>3, <2>1 DEF Cleanup, Deleted
<1>4. CASE Tick BY <1>4 DEF Tick
<1> QED BY <1>1, <1>2, <1>3, <1>4 DEF Next

\* Every write leaves a live record.
LEMMA NewIsLiveStep ==
    ASSUME stalled' = 0, TypeOK, Times, Ids, PPart, Next
    PROVE  NewIsLive'
<1> USE DEF TypeOK, StoreTypes, WorkerTypes, Records, NoRow, Null, Sights,
      Times, Ids, Claiming, Running, Reclaiming, PPart, Prompt, OwnerHolds,
      NewIsLive
<1>1. ASSUME NEW w \in Workers, Step(w) PROVE NewIsLive'
  <2>1. CASE Create(w)
    <3>1. CASE CreateProcessing(req[w], now[w]) /\ Own(w, nextId)
      <4>1. Created(req[w], now[w]) BY <3>1, CreateFields
      <4> QED BY <2>1, <3>1, <4>1 DEF Create, Own, Created
    <3>2. CASE Goto(w, "read") /\ UNCHANGED <<row, nextId, req, now, claimVars, reply>>
      BY <2>1, <3>2 DEF Create
    <3> QED BY <2>1, <3>1, <3>2 DEF Create
  <2>2. CASE GetByScopeAndKeyHash(w) BY <2>2 DEF GetByScopeAndKeyHash, Refuse,
        Decide, Aim, Answer
  <2>3. CASE ReclaimExpired(w)
    <3>1. CASE TryReclaim(seen[w].id, seen[w].status, now[w]) /\ Own(w, seen[w].id)
      <4>1. Reclaimed(seen[w].id, seen[w].status, now[w]) BY <3>1, ReclaimFields
      <4> QED BY <2>3, <3>1, <4>1 DEF ReclaimExpired, Own, Reclaimed, SameRecord
    <3>2. CASE /\ ~Reclaimable(seen[w].id, seen[w].status, now[w])
               /\ Goto(w, "reread")
               /\ seen' = [seen EXCEPT ![w] = Unseen]
               /\ UNCHANGED <<row, nextId, req, now, id, until, renewer, reply>>
      BY <2>3, <3>2 DEF ReclaimExpired, Reclaimable
    <3> QED BY <2>3, <3>1, <3>2 DEF ReclaimExpired
  <2>4. CASE RereadAfterRace(w) BY <2>4 DEF RereadAfterRace, Refuse, Decide,
        Aim, Answer
  <2>5. CASE ReclaimFailed(w)
    <3>1. CASE TryReclaim(seen[w].id, "failed_retryable", now[w]) /\ Own(w, seen[w].id)
      <4>1. Reclaimed(seen[w].id, "failed_retryable", now[w]) BY <3>1, ReclaimFields
      <4> QED BY <2>5, <3>1, <4>1 DEF ReclaimFailed, Own, Reclaimed, SameRecord
    <3>2. CASE Answer(w, "inProgress") /\ UNCHANGED <<row, nextId>>
      BY <2>5, <3>2 DEF ReclaimFailed, Answer
    <3> QED BY <2>5, <3>1, <3>2 DEF ReclaimFailed
  <2>6. CASE Execute(w) BY <2>6 DEF Execute
  <2>7. CASE Renew(w)
    <3>1. CASE ExtendProcessingLock(id[w], req[w])
      <4>1. Extended(id[w], req[w]) BY <3>1, ExtendFields
      <4> QED BY <2>7, <3>1, <4>1 DEF Renew, Extended, SameRecord
    <3>2. CASE ~Extendable(id[w], req[w])
      BY <2>7, <3>2 DEF Renew, Extendable, ExtendProcessingLock
    <3> QED BY <2>7, <3>1, <3>2 DEF Renew
  <2>8. CASE MarkOk(w)
    <3>1. Expiry(w) \in Nat BY DEF Expiry
    <3>2. Succeeded(id[w], req[w], Expiry(w))
      BY <2>8, <3>1, MarkSucceededFields DEF MarkOk
    <3> QED BY <2>8, <3>1, <3>2 DEF MarkOk, Answer, Expiry, Succeeded, SameRecord
  <2>9. CASE MarkFailed(w)
    <3>1. Expiry(w) \in Nat /\ clock + Backoff \in Nat BY DEF Expiry
    <3>2. Failed(id[w], clock + Backoff, Expiry(w))
      BY <2>9, <3>1, MarkFailedFields DEF MarkFailed
    <3> QED BY <2>9, <3>1, <3>2 DEF MarkFailed, Answer, Expiry, Failed, SameRecord
  <2>10. CASE Crash(w) BY <2>10 DEF Crash, Answer
  <2> QED BY <1>1, <2>1, <2>2, <2>3, <2>4, <2>5, <2>6, <2>7, <2>8, <2>9, <2>10 DEF Step
<1>2. ASSUME NEW w \in Workers, NEW p \in Prints, Begin(w, p) PROVE NewIsLive'
  BY <1>2 DEF Begin
<1>3. CASE Cleanup
  <2>1. Deleted BY <1>3, DeleteFields DEF Cleanup
  <2> QED BY <1>3, <2>1 DEF Cleanup, Deleted
<1>4. CASE Tick BY <1>4 DEF Tick
<1> QED BY <1>1, <1>2, <1>3, <1>4 DEF Next

\* What a step may refuse.
RefusalGoal ==
    \A w \in Workers :
        reply'[w] = "inProgress" /\ reply[w] # "inProgress" /\ row # NoRow =>
            row.expires > now[w]

\* A request is refused only on account of a live record.
LEMMA RefusalStep ==
    ASSUME TypeOK, OwnerHolds, NewIsLive, Next
    PROVE  RefusalGoal
<1> USE DEF TypeOK, StoreTypes, WorkerTypes, Records, OwnerHolds, NewIsLive,
      RefusalGoal, Replies
<1>1. ASSUME NEW w \in Workers, Step(w) PROVE RefusalGoal
  <2>1. CASE Create(w) BY <2>1 DEF Create, CreateProcessing, Own
  <2>2. CASE GetByScopeAndKeyHash(w) BY <2>2 DEF GetByScopeAndKeyHash, Refuse,
        Decide, Aim, Answer
  <2>3. CASE ReclaimExpired(w) BY <2>3 DEF ReclaimExpired, TryReclaim,
        Reclaimable, Own
  <2>4. CASE RereadAfterRace(w) BY <2>4 DEF RereadAfterRace, Refuse, Decide,
        Aim, Answer
  <2>5. CASE ReclaimFailed(w) BY <2>5 DEF ReclaimFailed, TryReclaim,
        Reclaimable, Own, Answer
  <2>6. CASE Execute(w) BY <2>6 DEF Execute
  <2>7. CASE Renew(w) BY <2>7 DEF Renew, ExtendProcessingLock, Extendable
  <2>8. CASE MarkOk(w) BY <2>8 DEF MarkOk, MarkSucceeded, Expiry, Answer
  <2>9. CASE MarkFailed(w) BY <2>9 DEF MarkFailed, MarkFailedRetryable,
        Expiry, Answer
  <2>10. CASE Crash(w) BY <2>10 DEF Crash, Answer
  <2> QED BY <1>1, <2>1, <2>2, <2>3, <2>4, <2>5, <2>6, <2>7, <2>8, <2>9, <2>10 DEF Step
<1>2. ASSUME NEW w \in Workers, NEW p \in Prints, Begin(w, p) PROVE RefusalGoal
  BY <1>2 DEF Begin
<1>3. CASE Cleanup BY <1>3 DEF Cleanup, DeleteExpired
<1>4. CASE Tick BY <1>4 DEF Tick, Prompt
<1> QED BY <1>1, <1>2, <1>3, <1>4 DEF Next

-----------------------------------------------------------------------------
(* Theorems for requests that do not stall.                                *)

\* The strengthened invariant holds until something stalls.
THEOREM PromptInvariance == Spec => []PInv
<1>1. Init => PInv
  BY DEF Init, StoreInit, NoRow, PInv, PPart, Prompt, OwnerHolds, Exclusive,
         TooLate, NewIsLive, Claiming, Running
<1>2. IInv /\ PInv /\ [Next]_vars => PInv'
  <2> SUFFICES ASSUME IInv, PInv, [Next]_vars PROVE PInv'
    OBVIOUS
  <2>1. CASE Next
    <3> SUFFICES ASSUME stalled' = 0 PROVE PPart'
      BY DEF PInv
    <3>1. TypeOK /\ PPart BY <2>1, StallStays DEF IInv, PInv
    <3>2. Prompt(clock)' BY <2>1, <3>1, PromptStep DEF IInv, PPart
    <3>3. OwnerHolds' /\ Exclusive'
      BY <2>1, <3>1, OwnerHoldsStep, ExclusiveStep DEF IInv
    <3>4. TooLate' /\ NewIsLive'
      BY <2>1, <3>1, TooLateStep, NewIsLiveStep DEF IInv
    <3> QED BY <3>2, <3>3, <3>4 DEF PPart
  <2>2. CASE UNCHANGED vars
    BY <2>2 DEF vars, PInv, PPart, Prompt, OwnerHolds, Exclusive, TooLate,
       NewIsLive
  <2> QED BY <2>1, <2>2
<1> QED BY <1>1, <1>2, Invariance, PTL DEF Spec

\* Two requests with one key never execute at the same time.
THEOREM MutualExclusion == Spec => []OneExecution
<1>1. PInv => OneExecution BY DEF PInv, PPart, Exclusive, OneExecution
<1> QED BY <1>1, PromptInvariance, PTL

\* Only a live record keeps a request from executing.
THEOREM RefusalsAreJustified == Spec => RefusedByLiveClaim
<1>1. IInv /\ PInv /\ [Next]_vars =>
        [stalled = 0 => \A w \in Workers :
           reply'[w] = "inProgress" /\ reply[w] # "inProgress" /\ row # NoRow =>
               row.expires > now[w]]_vars
  BY RefusalStep DEF IInv, PInv, PPart, RefusalGoal
<1> QED BY <1>1, Invariance, PromptInvariance, PTL DEF Spec, RefusedByLiveClaim
=============================================================================
