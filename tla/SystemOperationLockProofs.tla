---------------------- MODULE SystemOperationLockProofs ---------------------
(***************************************************************************)
(* Proofs about SystemOperationLock for any number of operations and all   *)
(* durations.                                                              *)
(***************************************************************************)
EXTENDS SystemOperationLock, IdempotencyStoreLemmas

-----------------------------------------------------------------------------
(* The inductive invariant, for operations that end within their lease.    *)

\* Nobody has read a time that is still to come.
Times == \A w \in Workers : now[w] <= clock

\* Who holds the lock owns the record, and the lease has not run out.
HeldIsLocked ==
    /\ \A w \in Workers :
         pc[w] \in Holding =>
             /\ row.id = id[w] /\ row.status = "processing"
             /\ row.locked = until[w]
    /\ row.status = "processing" => row.locked <= row.expires

PInv == Times /\ Prompt(clock) /\ HeldIsLocked /\ OneOperation

-----------------------------------------------------------------------------
(* The steps.                                                              *)

USE DEF Goto, storeVars, workVars
USE PrintAssumption, TimeAssumption, SlowAssumption

\* The record keeps its type.
LEMMA StoreTypesStep ==
    ASSUME TypeOK, Next
    PROVE  StoreTypes'
<1> USE DEF TypeOK, StoreTypes, WorkerTypes
<1>1. ASSUME NEW w \in Workers, Step(w) PROVE StoreTypes'
  <2>1. CASE Create(w)
    <3>1. CASE CreateProcessing(op[w], now[w]) /\ Hold(w, nextId)
      <4>1. Created(op[w], now[w]) BY <3>1, CreateFields
      <4> QED BY <2>1, <3>1, <4>1 DEF Create, Hold, Created
    <3>2. CASE /\ Goto(w, "read")
               /\ UNCHANGED <<row, nextId, op, now, seen, id, until, renewer>>
      BY <2>1, <3>2 DEF Create
    <3> QED BY <2>1, <3>1, <3>2 DEF Create
  <2>2. CASE Read(w)
    <3>1. CASE Leave(w) BY <2>2, <3>1 DEF Read, Leave
    <3>2. CASE ~Leave(w) BY <2>2, <3>2 DEF Read
    <3> QED BY <3>1, <3>2
  <2>3. CASE Reclaim(w)
    <3>1. CASE /\ TryReclaim(seen[w].id, seen[w].status, now[w])
               /\ Hold(w, seen[w].id)
      <4>1. Reclaimed(seen[w].id, seen[w].status, now[w])
        BY <3>1, ReclaimFields
      <4> QED BY <2>3, <3>1, <4>1 DEF Reclaim, Hold, Reclaimed, SameRecord
    <3>2. CASE Leave(w) /\ UNCHANGED <<row, nextId>>
      BY <2>3, <3>2 DEF Reclaim, Leave
    <3> QED BY <2>3, <3>1, <3>2 DEF Reclaim
  <2>4. CASE Renew(w)
    <3>1. CASE ExtendProcessingLock(id[w], op[w])
      <4>1. Extended(id[w], op[w]) BY <3>1, ExtendFields
      <4> QED BY <2>4, <3>1, <4>1 DEF Renew, Extendable, Extended, SameRecord
    <3>2. CASE ~Extendable(id[w], op[w])
      BY <2>4, <3>2 DEF Renew, Extendable, ExtendProcessingLock
    <3> QED BY <2>4, <3>1, <3>2 DEF Renew
  <2>5. CASE Operate(w) BY <2>5 DEF Operate
  <2>6. CASE Release(w)
    <3>1. clock + TTL \in Nat /\ clock \in Nat OBVIOUS
    <3>2. CASE MarkSucceeded(id[w], op[w], "whole", clock + TTL)
      <4>1. Succeeded(id[w], op[w], clock + TTL)
        BY <3>1, <3>2, MarkSucceededFields DEF Forms
      <4> QED BY <2>6, <4>1 DEF Release, Leave, Succeeded, SameRecord
    <3>3. CASE MarkFailedRetryable(id[w], clock, clock + TTL)
      <4>1. Failed(id[w], clock, clock + TTL)
        BY <3>1, <3>3, MarkFailedFields
      <4> QED BY <2>6, <4>1 DEF Release, Leave, Failed, SameRecord
    <3> QED BY <2>6, <3>2, <3>3 DEF Release
  <2>7. CASE Crash(w) BY <2>7 DEF Crash, Leave
  <2> QED BY <1>1, <2>1, <2>2, <2>3, <2>4, <2>5, <2>6, <2>7 DEF Step
<1>2. ASSUME NEW w \in Workers, NEW p \in Prints, Begin(w, p) PROVE StoreTypes'
  BY <1>2 DEF Begin
<1>3. CASE Cleanup
  <2>1. Deleted BY <1>3, DeleteFields DEF Cleanup
  <2> QED BY <1>3, <2>1 DEF Cleanup, Deleted
<1>4. CASE Tick BY <1>4 DEF Tick, Prompt
<1> QED BY <1>1, <1>2, <1>3, <1>4 DEF Next

\* The workers keep their types.
LEMMA WorkerTypesStep ==
    ASSUME TypeOK, Next
    PROVE  WorkerTypes'
<1> USE DEF TypeOK, StoreTypes, WorkerTypes, Records, Acquiring, Holding,
      Sights, Unseen
<1>1. ASSUME NEW w \in Workers, Step(w) PROVE WorkerTypes'
  <2>1. CASE Create(w)
    <3>1. CASE CreateProcessing(op[w], now[w]) /\ Hold(w, nextId)
      <4>1. Created(op[w], now[w]) BY <3>1, CreateFields
      <4> QED BY <2>1, <3>1, <4>1 DEF Create, Hold, Created
    <3>2. CASE /\ Goto(w, "read")
               /\ UNCHANGED <<row, nextId, op, now, seen, id, until, renewer>>
      BY <2>1, <3>2 DEF Create
    <3> QED BY <2>1, <3>1, <3>2 DEF Create
  <2>2. CASE Read(w)
    <3>1. CASE Leave(w) BY <2>2, <3>1 DEF Read, Leave
    <3>2. CASE ~Leave(w)
      <4>1. "reclaim" \in Acquiring \cup Holding \cup {"idle"} OBVIOUS
      <4>2. [id |-> row.id, status |-> row.status] \in Sights OBVIOUS
      <4> HIDE DEF Acquiring, Holding, Sights, Unseen, Records
      <4> QED BY <2>2, <3>2, <4>1, <4>2 DEF Read
    <3> QED BY <3>1, <3>2
  <2>3. CASE Reclaim(w)
    <3>1. CASE /\ TryReclaim(seen[w].id, seen[w].status, now[w])
               /\ Hold(w, seen[w].id)
      <4>1. Reclaimed(seen[w].id, seen[w].status, now[w])
        BY <3>1, ReclaimFields
      <4> QED BY <2>3, <3>1, <4>1 DEF Reclaim, Hold, Reclaimed, SameRecord
    <3>2. CASE Leave(w) /\ UNCHANGED <<row, nextId>>
      BY <2>3, <3>2 DEF Reclaim, Leave
    <3> QED BY <2>3, <3>1, <3>2 DEF Reclaim
  <2>4. CASE Renew(w)
    <3>1. CASE ExtendProcessingLock(id[w], op[w])
      <4>1. Extended(id[w], op[w]) BY <3>1, ExtendFields
      <4> QED BY <2>4, <3>1, <4>1 DEF Renew, Extendable, Extended, SameRecord
    <3>2. CASE ~Extendable(id[w], op[w])
      BY <2>4, <3>2 DEF Renew, Extendable, ExtendProcessingLock
    <3> QED BY <2>4, <3>1, <3>2 DEF Renew
  <2>5. CASE Operate(w) BY <2>5 DEF Operate
  <2>6. CASE Release(w)
    <3>1. clock + TTL \in Nat /\ clock \in Nat OBVIOUS
    <3>2. CASE MarkSucceeded(id[w], op[w], "whole", clock + TTL)
      <4>1. Succeeded(id[w], op[w], clock + TTL)
        BY <3>1, <3>2, MarkSucceededFields DEF Forms
      <4> QED BY <2>6, <4>1 DEF Release, Leave, Succeeded, SameRecord
    <3>3. CASE MarkFailedRetryable(id[w], clock, clock + TTL)
      <4>1. Failed(id[w], clock, clock + TTL)
        BY <3>1, <3>3, MarkFailedFields
      <4> QED BY <2>6, <4>1 DEF Release, Leave, Failed, SameRecord
    <3> QED BY <2>6, <3>2, <3>3 DEF Release
  <2>7. CASE Crash(w) BY <2>7 DEF Crash, Leave
  <2> QED BY <1>1, <2>1, <2>2, <2>3, <2>4, <2>5, <2>6, <2>7 DEF Step
<1>2. ASSUME NEW w \in Workers, NEW p \in Prints, Begin(w, p) PROVE WorkerTypes'
  BY <1>2 DEF Begin
<1>3. CASE Cleanup
  <2>1. Deleted BY <1>3, DeleteFields DEF Cleanup
  <2> QED BY <1>3, <2>1 DEF Cleanup, Deleted
<1>4. CASE Tick BY <1>4 DEF Tick, Prompt
<1> QED BY <1>1, <1>2, <1>3, <1>4 DEF Next

\* The time goes forward.
LEMMA TimesStep ==
    ASSUME TypeOK, Times, Next
    PROVE  Times'
<1> USE DEF TypeOK, StoreTypes, WorkerTypes, Times
<1>1. ASSUME NEW w \in Workers, Step(w) PROVE Times'
  <2>1. CASE Create(w)
    <3>1. CASE CreateProcessing(op[w], now[w]) /\ Hold(w, nextId)
      <4>1. Created(op[w], now[w]) BY <3>1, CreateFields
      <4> QED BY <2>1, <3>1, <4>1 DEF Create, Hold, Created
    <3>2. CASE /\ Goto(w, "read")
               /\ UNCHANGED <<row, nextId, op, now, seen, id, until, renewer>>
      BY <2>1, <3>2 DEF Create
    <3> QED BY <2>1, <3>1, <3>2 DEF Create
  <2>2. CASE Read(w)
    <3>1. CASE Leave(w) BY <2>2, <3>1 DEF Read, Leave
    <3>2. CASE ~Leave(w) BY <2>2, <3>2 DEF Read
    <3> QED BY <3>1, <3>2
  <2>3. CASE Reclaim(w)
    <3>1. CASE /\ TryReclaim(seen[w].id, seen[w].status, now[w])
               /\ Hold(w, seen[w].id)
      <4>1. Reclaimed(seen[w].id, seen[w].status, now[w])
        BY <3>1, ReclaimFields
      <4> QED BY <2>3, <3>1, <4>1 DEF Reclaim, Hold, Reclaimed, SameRecord
    <3>2. CASE Leave(w) /\ UNCHANGED <<row, nextId>>
      BY <2>3, <3>2 DEF Reclaim, Leave
    <3> QED BY <2>3, <3>1, <3>2 DEF Reclaim
  <2>4. CASE Renew(w)
    <3>1. CASE ExtendProcessingLock(id[w], op[w])
      <4>1. Extended(id[w], op[w]) BY <3>1, ExtendFields
      <4> QED BY <2>4, <3>1, <4>1 DEF Renew, Extendable, Extended, SameRecord
    <3>2. CASE ~Extendable(id[w], op[w])
      BY <2>4, <3>2 DEF Renew, Extendable, ExtendProcessingLock
    <3> QED BY <2>4, <3>1, <3>2 DEF Renew
  <2>5. CASE Operate(w) BY <2>5 DEF Operate
  <2>6. CASE Release(w)
    <3>1. clock + TTL \in Nat /\ clock \in Nat OBVIOUS
    <3>2. CASE MarkSucceeded(id[w], op[w], "whole", clock + TTL)
      <4>1. Succeeded(id[w], op[w], clock + TTL)
        BY <3>1, <3>2, MarkSucceededFields DEF Forms
      <4> QED BY <2>6, <4>1 DEF Release, Leave, Succeeded, SameRecord
    <3>3. CASE MarkFailedRetryable(id[w], clock, clock + TTL)
      <4>1. Failed(id[w], clock, clock + TTL)
        BY <3>1, <3>3, MarkFailedFields
      <4> QED BY <2>6, <4>1 DEF Release, Leave, Failed, SameRecord
    <3> QED BY <2>6, <3>2, <3>3 DEF Release
  <2>7. CASE Crash(w) BY <2>7 DEF Crash, Leave
  <2> QED BY <1>1, <2>1, <2>2, <2>3, <2>4, <2>5, <2>6, <2>7 DEF Step
<1>2. ASSUME NEW w \in Workers, NEW p \in Prints, Begin(w, p) PROVE Times'
  BY <1>2 DEF Begin
<1>3. CASE Cleanup
  <2>1. Deleted BY <1>3, DeleteFields DEF Cleanup
  <2> QED BY <1>3, <2>1 DEF Cleanup, Deleted
<1>4. CASE Tick BY <1>4 DEF Tick, Prompt
<1> QED BY <1>1, <1>2, <1>3, <1>4 DEF Next

\* Time waits for acquisitions and operations.
LEMMA PromptStep ==
    ASSUME ~Slow, TypeOK, PInv, Next
    PROVE  Prompt(clock)'
<1> USE DEF TypeOK, StoreTypes, WorkerTypes, Records, NoRow, Null, Sights,
      Acquiring, Holding, PInv, Times, Prompt, HeldIsLocked, OneOperation
<1>1. ASSUME NEW w \in Workers, Step(w) PROVE Prompt(clock)'
  <2>1. CASE Create(w)
    <3>1. CASE CreateProcessing(op[w], now[w]) /\ Hold(w, nextId)
      <4>1. Created(op[w], now[w]) BY <3>1, CreateFields
      <4> QED BY <2>1, <3>1, <4>1 DEF Create, Hold, Created
    <3>2. CASE /\ Goto(w, "read")
               /\ UNCHANGED <<row, nextId, op, now, seen, id, until, renewer>>
      BY <2>1, <3>2 DEF Create
    <3> QED BY <2>1, <3>1, <3>2 DEF Create
  <2>2. CASE Read(w)
    <3>1. CASE Leave(w) BY <2>2, <3>1 DEF Read, Leave
    <3>2. CASE ~Leave(w) BY <2>2, <3>2 DEF Read
    <3> QED BY <3>1, <3>2
  <2>3. CASE Reclaim(w)
    <3>1. CASE /\ TryReclaim(seen[w].id, seen[w].status, now[w])
               /\ Hold(w, seen[w].id)
      <4>1. Reclaimed(seen[w].id, seen[w].status, now[w])
        BY <3>1, ReclaimFields
      <4> QED BY <2>3, <3>1, <4>1 DEF Reclaim, Hold, Reclaimed, SameRecord
    <3>2. CASE Leave(w) /\ UNCHANGED <<row, nextId>>
      BY <2>3, <3>2 DEF Reclaim, Leave
    <3> QED BY <2>3, <3>1, <3>2 DEF Reclaim
  <2>4. CASE Renew(w)
    <3>1. CASE ExtendProcessingLock(id[w], op[w])
      <4>1. Extended(id[w], op[w]) BY <3>1, ExtendFields
      <4> QED BY <2>4, <3>1, <4>1 DEF Renew, Extendable, Extended, SameRecord
    <3>2. CASE ~Extendable(id[w], op[w])
      BY <2>4, <3>2 DEF Renew, Extendable, ExtendProcessingLock
    <3> QED BY <2>4, <3>1, <3>2 DEF Renew
  <2>5. CASE Operate(w) BY <2>5 DEF Operate
  <2>6. CASE Release(w)
    <3>1. clock + TTL \in Nat /\ clock \in Nat OBVIOUS
    <3>2. CASE MarkSucceeded(id[w], op[w], "whole", clock + TTL)
      <4>1. Succeeded(id[w], op[w], clock + TTL)
        BY <3>1, <3>2, MarkSucceededFields DEF Forms
      <4> QED BY <2>6, <4>1 DEF Release, Leave, Succeeded, SameRecord
    <3>3. CASE MarkFailedRetryable(id[w], clock, clock + TTL)
      <4>1. Failed(id[w], clock, clock + TTL)
        BY <3>1, <3>3, MarkFailedFields
      <4> QED BY <2>6, <4>1 DEF Release, Leave, Failed, SameRecord
    <3> QED BY <2>6, <3>2, <3>3 DEF Release
  <2>7. CASE Crash(w) BY <2>7 DEF Crash, Leave
  <2> QED BY <1>1, <2>1, <2>2, <2>3, <2>4, <2>5, <2>6, <2>7 DEF Step
<1>2. ASSUME NEW w \in Workers, NEW p \in Prints, Begin(w, p) PROVE Prompt(clock)'
  BY <1>2 DEF Begin
<1>3. CASE Cleanup
  <2>1. Deleted BY <1>3, DeleteFields DEF Cleanup
  <2> QED BY <1>3, <2>1 DEF Cleanup, Deleted
<1>4. CASE Tick BY <1>4 DEF Tick, Prompt
<1> QED BY <1>1, <1>2, <1>3, <1>4 DEF Next

\* Nobody else writes the record of a lock that is held.
LEMMA HeldIsLockedStep ==
    ASSUME ~Slow, TypeOK, PInv, Next
    PROVE  HeldIsLocked'
<1> USE DEF TypeOK, StoreTypes, WorkerTypes, Records, NoRow, Null, Sights,
      Acquiring, Holding, PInv, Times, Prompt, HeldIsLocked, OneOperation
<1>1. ASSUME NEW w \in Workers, Step(w) PROVE HeldIsLocked'
  <2>1. CASE Create(w)
    <3>1. CASE CreateProcessing(op[w], now[w]) /\ Hold(w, nextId)
      <4>1. Created(op[w], now[w]) BY <3>1, CreateFields
      <4> QED BY <2>1, <3>1, <4>1 DEF Create, Hold, Created
    <3>2. CASE /\ Goto(w, "read")
               /\ UNCHANGED <<row, nextId, op, now, seen, id, until, renewer>>
      BY <2>1, <3>2 DEF Create
    <3> QED BY <2>1, <3>1, <3>2 DEF Create
  <2>2. CASE Read(w)
    <3>1. CASE Leave(w) BY <2>2, <3>1 DEF Read, Leave
    <3>2. CASE ~Leave(w) BY <2>2, <3>2 DEF Read
    <3> QED BY <3>1, <3>2
  <2>3. CASE Reclaim(w)
    <3>1. CASE /\ TryReclaim(seen[w].id, seen[w].status, now[w])
               /\ Hold(w, seen[w].id)
      <4>1. Reclaimed(seen[w].id, seen[w].status, now[w])
        BY <3>1, ReclaimFields
      <4> QED BY <2>3, <3>1, <4>1 DEF Reclaim, Hold, Reclaimed, SameRecord
    <3>2. CASE Leave(w) /\ UNCHANGED <<row, nextId>>
      BY <2>3, <3>2 DEF Reclaim, Leave
    <3> QED BY <2>3, <3>1, <3>2 DEF Reclaim
  <2>4. CASE Renew(w)
    <3>1. CASE ExtendProcessingLock(id[w], op[w])
      <4>1. Extended(id[w], op[w]) BY <3>1, ExtendFields
      <4> QED BY <2>4, <3>1, <4>1 DEF Renew, Extendable, Extended, SameRecord
    <3>2. CASE ~Extendable(id[w], op[w])
      BY <2>4, <3>2 DEF Renew, Extendable, ExtendProcessingLock
    <3> QED BY <2>4, <3>1, <3>2 DEF Renew
  <2>5. CASE Operate(w) BY <2>5 DEF Operate
  <2>6. CASE Release(w)
    <3>1. clock + TTL \in Nat /\ clock \in Nat OBVIOUS
    <3>2. CASE MarkSucceeded(id[w], op[w], "whole", clock + TTL)
      <4>1. Succeeded(id[w], op[w], clock + TTL)
        BY <3>1, <3>2, MarkSucceededFields DEF Forms
      <4> QED BY <2>6, <4>1 DEF Release, Leave, Succeeded, SameRecord
    <3>3. CASE MarkFailedRetryable(id[w], clock, clock + TTL)
      <4>1. Failed(id[w], clock, clock + TTL)
        BY <3>1, <3>3, MarkFailedFields
      <4> QED BY <2>6, <4>1 DEF Release, Leave, Failed, SameRecord
    <3> QED BY <2>6, <3>2, <3>3 DEF Release
  <2>7. CASE Crash(w) BY <2>7 DEF Crash, Leave
  <2> QED BY <1>1, <2>1, <2>2, <2>3, <2>4, <2>5, <2>6, <2>7 DEF Step
<1>2. ASSUME NEW w \in Workers, NEW p \in Prints, Begin(w, p) PROVE HeldIsLocked'
  BY <1>2 DEF Begin
<1>3. CASE Cleanup
  <2>1. Deleted BY <1>3, DeleteFields DEF Cleanup
  <2> QED BY <1>3, <2>1 DEF Cleanup, Deleted
<1>4. CASE Tick BY <1>4 DEF Tick, Prompt
<1> QED BY <1>1, <1>2, <1>3, <1>4 DEF Next

\* A lock that is held is not reclaimed.
LEMMA OneOperationStep ==
    ASSUME ~Slow, TypeOK, PInv, Next
    PROVE  OneOperation'
<1> USE DEF TypeOK, StoreTypes, WorkerTypes, Records, NoRow, Null, Sights,
      Acquiring, Holding, PInv, Times, Prompt, HeldIsLocked, OneOperation
<1>1. ASSUME NEW w \in Workers, Step(w) PROVE OneOperation'
  <2>1. CASE Create(w)
    <3>1. CASE CreateProcessing(op[w], now[w]) /\ Hold(w, nextId)
      <4>1. Created(op[w], now[w]) BY <3>1, CreateFields
      <4> QED BY <2>1, <3>1, <4>1 DEF Create, Hold, Created
    <3>2. CASE /\ Goto(w, "read")
               /\ UNCHANGED <<row, nextId, op, now, seen, id, until, renewer>>
      BY <2>1, <3>2 DEF Create
    <3> QED BY <2>1, <3>1, <3>2 DEF Create
  <2>2. CASE Read(w)
    <3>1. CASE Leave(w) BY <2>2, <3>1 DEF Read, Leave
    <3>2. CASE ~Leave(w) BY <2>2, <3>2 DEF Read
    <3> QED BY <3>1, <3>2
  <2>3. CASE Reclaim(w)
    <3>1. CASE /\ TryReclaim(seen[w].id, seen[w].status, now[w])
               /\ Hold(w, seen[w].id)
      <4>1. Reclaimed(seen[w].id, seen[w].status, now[w])
        BY <3>1, ReclaimFields
      <4> QED BY <2>3, <3>1, <4>1 DEF Reclaim, Hold, Reclaimed, SameRecord
    <3>2. CASE Leave(w) /\ UNCHANGED <<row, nextId>>
      BY <2>3, <3>2 DEF Reclaim, Leave
    <3> QED BY <2>3, <3>1, <3>2 DEF Reclaim
  <2>4. CASE Renew(w)
    <3>1. CASE ExtendProcessingLock(id[w], op[w])
      <4>1. Extended(id[w], op[w]) BY <3>1, ExtendFields
      <4> QED BY <2>4, <3>1, <4>1 DEF Renew, Extendable, Extended, SameRecord
    <3>2. CASE ~Extendable(id[w], op[w])
      BY <2>4, <3>2 DEF Renew, Extendable, ExtendProcessingLock
    <3> QED BY <2>4, <3>1, <3>2 DEF Renew
  <2>5. CASE Operate(w) BY <2>5 DEF Operate
  <2>6. CASE Release(w)
    <3>1. clock + TTL \in Nat /\ clock \in Nat OBVIOUS
    <3>2. CASE MarkSucceeded(id[w], op[w], "whole", clock + TTL)
      <4>1. Succeeded(id[w], op[w], clock + TTL)
        BY <3>1, <3>2, MarkSucceededFields DEF Forms
      <4> QED BY <2>6, <4>1 DEF Release, Leave, Succeeded, SameRecord
    <3>3. CASE MarkFailedRetryable(id[w], clock, clock + TTL)
      <4>1. Failed(id[w], clock, clock + TTL)
        BY <3>1, <3>3, MarkFailedFields
      <4> QED BY <2>6, <4>1 DEF Release, Leave, Failed, SameRecord
    <3> QED BY <2>6, <3>2, <3>3 DEF Release
  <2>7. CASE Crash(w) BY <2>7 DEF Crash, Leave
  <2> QED BY <1>1, <2>1, <2>2, <2>3, <2>4, <2>5, <2>6, <2>7 DEF Step
<1>2. ASSUME NEW w \in Workers, NEW p \in Prints, Begin(w, p) PROVE OneOperation'
  BY <1>2 DEF Begin
<1>3. CASE Cleanup
  <2>1. Deleted BY <1>3, DeleteFields DEF Cleanup
  <2> QED BY <1>3, <2>1 DEF Cleanup, Deleted
<1>4. CASE Tick BY <1>4 DEF Tick, Prompt
<1> QED BY <1>1, <1>2, <1>3, <1>4 DEF Next

-----------------------------------------------------------------------------
(* Theorems.                                                               *)

\* Type correctness, however long operations take.
THEOREM TypeCorrectness == Spec => []TypeOK
<1>1. Init => TypeOK
  <2> SUFFICES ASSUME Init PROVE TypeOK
    OBVIOUS
  <2> USE DEF Init, StoreInit, NoRow, Null
  <2>1. StoreTypes BY DEF StoreTypes, Records, Live, Forms
  <2>2. WorkerTypes BY DEF WorkerTypes, Sights, Unseen
  <2> QED BY <2>1, <2>2 DEF TypeOK
<1>2. TypeOK /\ [Next]_vars => TypeOK'
  <2> SUFFICES ASSUME TypeOK, [Next]_vars PROVE TypeOK'
    OBVIOUS
  <2>1. CASE Next BY <2>1, StoreTypesStep, WorkerTypesStep DEF TypeOK
  <2>2. CASE UNCHANGED vars
    BY <2>2 DEF vars, TypeOK, StoreTypes, WorkerTypes
  <2> QED BY <2>1, <2>2
<1> QED BY <1>1, <1>2, PTL DEF Spec

\* The invariant holds if every operation ends within its lease.
THEOREM PromptInvariance == ASSUME ~Slow PROVE Spec => []PInv
<1>1. Init => PInv
  BY DEF Init, StoreInit, NoRow, PInv, Times, Prompt, HeldIsLocked,
         OneOperation, Acquiring, Holding
<1>2. TypeOK /\ PInv /\ [Next]_vars => PInv'
  <2> SUFFICES ASSUME TypeOK, PInv, [Next]_vars PROVE PInv'
    OBVIOUS
  <2>1. CASE Next
    BY <2>1, TimesStep, PromptStep, HeldIsLockedStep, OneOperationStep DEF PInv
  <2>2. CASE UNCHANGED vars
    BY <2>2 DEF vars, PInv, Times, Prompt, HeldIsLocked, OneOperation
  <2> QED BY <2>1, <2>2
<1> QED BY <1>1, <1>2, TypeCorrectness, PTL DEF Spec

\* Two system operations never run at the same time, if each of them ends
\* within the lease that it or its renewals have written.
THEOREM MutualExclusion == ASSUME ~Slow PROVE Spec => []OneOperation
<1>1. PInv => OneOperation BY DEF PInv
<1> QED BY <1>1, PromptInvariance, PTL
=============================================================================
