----------------------- MODULE IdempotencyStoreLemmas -----------------------
(***************************************************************************)
(* What each statement of IdempotencyStore does to the fields of a record. *)
(***************************************************************************)
EXTENDS IdempotencyStore, TLAPS

USE PrintAssumption, TimeAssumption
USE DEF StoreTypes, Records

\* The fields that an update of the claim leaves alone.
SameRecord == row'.id = row.id /\ row'.fp = row.fp

\* A new record.
Created(fp, t) ==
    /\ row = NoRow /\ row' \in Records
    /\ row'.id = nextId /\ row'.fp = fp /\ row'.status = "processing"
    /\ row'.locked = t + Lease /\ row'.expires = t + TTL
    /\ nextId' = nextId + 1 /\ row' # NoRow

\* The record, claimed again.
Reclaimed(i, from, t) ==
    /\ row.id = i /\ row.status = from /\ row.locked <= t
    /\ row' \in Records /\ SameRecord /\ row'.status = "processing"
    /\ row'.locked = t + Lease /\ row'.expires = t + TTL
    /\ nextId' = nextId /\ row' # NoRow

\* The record, locked for longer.
Extended(i, fp) ==
    /\ row.id = i /\ row.status = "processing" /\ row.fp = fp
    /\ row' \in Records /\ SameRecord /\ row'.status = "processing"
    /\ row'.locked = clock + Lease /\ row'.expires = clock + TTL
    /\ nextId' = nextId /\ row' # NoRow

\* The record, if it is still there, with a response.
Succeeded(i, p, t) ==
    /\ row' \in Records /\ SameRecord /\ nextId' = nextId
    /\ row.id # i => row' = row
    /\ row.id = i =>
         /\ row'.status = "succeeded" /\ row'.body = p /\ row' # NoRow
         /\ row'.locked = Null /\ row'.expires = t

\* The record, if it is still there, open to another claim.
Failed(i, u, t) ==
    /\ row' \in Records /\ SameRecord /\ nextId' = nextId
    /\ row.id # i => row' = row
    /\ row.id = i =>
         /\ row'.status = "failed_retryable" /\ row' # NoRow
         /\ row'.locked = u /\ row'.expires = t

\* No record, and the one there was had expired.
Deleted ==
    /\ row # NoRow /\ row.expires <= clock
    /\ row' = NoRow /\ row' \in Records /\ nextId' = nextId

-----------------------------------------------------------------------------
\* CreateProcessing: a new record, with a new id.
LEMMA CreateFields ==
    ASSUME StoreTypes, NEW fp \in Prints \cup {NoPrint}, NEW t \in Nat,
           CreateProcessing(fp, t)
    PROVE  Created(fp, t)
<1> USE DEF Created
<1>1. row = NoRow /\ nextId' = nextId + 1 BY DEF CreateProcessing
<1>2. row' = [id |-> nextId, fp |-> fp, status |-> "processing",
              body |-> NoPrint, form |-> "whole", locked |-> t + Lease,
              expires |-> t + TTL]
  BY DEF CreateProcessing, NoRow
<1>3. t + Lease \in Nat /\ t + TTL \in Nat /\ nextId \in Nat OBVIOUS
<1>4. "processing" \in Live \cup {"none"} /\ "whole" \in Forms
  BY DEF Live, Forms
<1>5. row' \in Records BY <1>2, <1>3, <1>4
<1>6. row' # NoRow BY <1>2 DEF NoRow
<1> QED BY <1>1, <1>2, <1>5, <1>6

\* TryReclaim: the same record, claimed again.
LEMMA ReclaimFields ==
    ASSUME StoreTypes, NEW i, NEW from, NEW t \in Nat, TryReclaim(i, from, t)
    PROVE  Reclaimed(i, from, t)
<1> USE DEF Reclaimed
<1>1. /\ row.id = i /\ row.status = from /\ row.locked <= t
      /\ nextId' = nextId
  BY DEF TryReclaim, Reclaimable
<1>2. row' = [row EXCEPT !.status = "processing", !.locked = t + Lease,
                         !.expires = t + TTL]
  BY DEF TryReclaim
<1>3. t + Lease \in Nat /\ t + TTL \in Nat OBVIOUS
<1>4. "processing" \in Live \cup {"none"} BY DEF Live
<1>5. row' \in Records BY <1>2, <1>3, <1>4
<1>6. /\ SameRecord /\ row'.status = "processing"
      /\ row'.locked = t + Lease /\ row'.expires = t + TTL
  BY <1>2 DEF SameRecord
<1>7. row' # NoRow BY <1>6 DEF NoRow
<1> QED BY <1>1, <1>5, <1>6, <1>7

\* ExtendProcessingLock: the same record, locked for longer.
LEMMA ExtendFields ==
    ASSUME StoreTypes, NEW i, NEW fp, ExtendProcessingLock(i, fp)
    PROVE  Extended(i, fp)
<1> USE DEF Extended
<1>1. /\ row.id = i /\ row.status = "processing" /\ row.fp = fp
      /\ nextId' = nextId
  BY DEF ExtendProcessingLock, Extendable
<1>2. row' = [row EXCEPT !.locked = clock + Lease, !.expires = clock + TTL]
  BY DEF ExtendProcessingLock
<1>3. clock + Lease \in Nat /\ clock + TTL \in Nat OBVIOUS
<1>4. row' \in Records BY <1>2, <1>3
<1>5. /\ SameRecord /\ row'.status = "processing"
      /\ row'.locked = clock + Lease /\ row'.expires = clock + TTL
  BY <1>1, <1>2 DEF SameRecord
<1>6. row' # NoRow BY <1>5 DEF NoRow
<1> QED BY <1>1, <1>4, <1>5, <1>6

\* MarkSucceeded: the record, if it is still there, holds the response.
LEMMA MarkSucceededFields ==
    ASSUME StoreTypes, NEW i, NEW p \in Prints \cup {NoPrint},
           NEW f \in Forms, NEW t \in Nat, MarkSucceeded(i, p, f, t)
    PROVE  Succeeded(i, p, t)
<1> USE DEF Succeeded
<1>1. nextId' = nextId BY DEF MarkSucceeded
<1>2. CASE row.id # i
  <2>1. row' = row BY <1>2 DEF MarkSucceeded
  <2> QED BY <1>1, <1>2, <2>1 DEF SameRecord
<1>3. CASE row.id = i
  <2>1. row' = [row EXCEPT !.status = "succeeded", !.body = p, !.form = f,
                           !.locked = Null, !.expires = t]
    BY <1>3 DEF MarkSucceeded
  <2>2. "succeeded" \in Live \cup {"none"} /\ Null \in Nat BY DEF Live, Null
  <2>3. row' \in Records BY <2>1, <2>2
  <2>4. /\ SameRecord /\ row'.status = "succeeded" /\ row'.body = p
        /\ row'.locked = Null /\ row'.expires = t
    BY <2>1 DEF SameRecord
  <2>5. row' # NoRow BY <2>4 DEF NoRow
  <2> QED BY <1>1, <1>3, <2>3, <2>4, <2>5
<1> QED BY <1>2, <1>3

\* MarkFailedRetryable: the record, if it is still there, can be reclaimed.
LEMMA MarkFailedFields ==
    ASSUME StoreTypes, NEW i, NEW u \in Nat, NEW t \in Nat,
           MarkFailedRetryable(i, u, t)
    PROVE  Failed(i, u, t)
<1> USE DEF Failed
<1>1. nextId' = nextId BY DEF MarkFailedRetryable
<1>2. CASE row.id # i
  <2>1. row' = row BY <1>2 DEF MarkFailedRetryable
  <2> QED BY <1>1, <1>2, <2>1 DEF SameRecord
<1>3. CASE row.id = i
  <2>1. row' = [row EXCEPT !.status = "failed_retryable", !.locked = u,
                           !.expires = t]
    BY <1>3 DEF MarkFailedRetryable
  <2>2. "failed_retryable" \in Live \cup {"none"} BY DEF Live
  <2>3. row' \in Records BY <2>1, <2>2
  <2>4. /\ SameRecord /\ row'.status = "failed_retryable"
        /\ row'.locked = u /\ row'.expires = t
    BY <2>1 DEF SameRecord
  <2>5. row' # NoRow BY <2>4 DEF NoRow
  <2> QED BY <1>1, <1>3, <2>3, <2>4, <2>5
<1> QED BY <1>2, <1>3

\* DeleteExpired: the record was not live.
LEMMA DeleteFields ==
    ASSUME StoreTypes, DeleteExpired
    PROVE  Deleted
<1> USE DEF Deleted
<1>1. NoRow \in Records
  BY DEF NoRow, Null, Live, Forms
<1> QED BY <1>1 DEF DeleteExpired
=============================================================================
