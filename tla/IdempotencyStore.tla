-------------------------- MODULE IdempotencyStore --------------------------
(***************************************************************************)
(* The table idempotency_records, for one (scope, idempotency_key_hash):   *)
(* backend/internal/repository/idempotency_repo.go.                        *)
(*                                                                         *)
(* A unique index keeps at most one record per key, and no statement of    *)
(* the repository relates two keys, so one record is the whole state.  The *)
(* id of a record tells it from the one that was deleted before it: the    *)
(* statements that end or renew a claim find their record by id.           *)
(*                                                                         *)
(* Two clients share this module: Idempotency (requests with a key) and    *)
(* SystemOperationLock (a global lock, which is one such record).          *)
(***************************************************************************)
EXTENDS Integers

CONSTANTS
    Prints,     \* request fingerprints
    NoPrint,    \* the fingerprint or the response of no request
    Lease,      \* ProcessingTimeout: how long a claim is locked
    TTL,        \* how long a record lives
    MaxClock    \* bound on the clock

ASSUME PrintAssumption == NoPrint \notin Prints
ASSUME TimeAssumption == Lease \in Nat \ {0} /\ TTL \in Nat /\ Lease <= TTL
ASSUME ClockAssumption == MaxClock \in Nat

VARIABLES
    row,        \* the record, or NoRow
    nextId,     \* the id sequence
    clock       \* the time; it starts at 1

\* locked_until is NULL: every time is later.
Null == 0

Live == {"processing", "succeeded", "failed_retryable"}

\* A stored response is truncated if it is longer than MaxStoredResponseLen.
Forms == {"whole", "truncated"}

\* body is the request whose response is stored.
Records == [id : Nat, fp : Prints \cup {NoPrint}, status : Live \cup {"none"},
            body : Prints \cup {NoPrint}, form : Forms, locked : Nat,
            expires : Nat]
NoRow == [id |-> 0, fp |-> NoPrint, status |-> "none", body |-> NoPrint,
          form |-> "whole", locked |-> Null, expires |-> 0]

-----------------------------------------------------------------------------
(* The repository's statements.  now is the time the caller read.          *)

\* INSERT ... ON CONFLICT DO NOTHING, where there is no conflict.
CreateProcessing(fp, now) ==
    /\ row = NoRow
    /\ row' = [NoRow EXCEPT !.id = nextId, !.fp = fp, !.status = "processing",
                            !.locked = now + Lease, !.expires = now + TTL]
    /\ nextId' = nextId + 1

\* A seeded fault: a reclaim does not respect the lock of the current claim.
BugReclaimLocked(id, from, now) == row.id = id /\ row.status = from

\* The WHERE clause of TryReclaim.
Reclaimable(id, from, now) ==
    row.id = id /\ row.status = from /\ row.locked <= now

\* The fingerprint and the response stay those of the earlier claim.
TryReclaim(id, from, now) ==
    /\ Reclaimable(id, from, now)
    /\ row' = [row EXCEPT !.status = "processing", !.locked = now + Lease,
                          !.expires = now + TTL]
    /\ UNCHANGED nextId

\* The WHERE clause of ExtendProcessingLock.
Extendable(id, fp) == row.id = id /\ row.status = "processing" /\ row.fp = fp

ExtendProcessingLock(id, fp) ==
    /\ Extendable(id, fp)
    /\ row' = [row EXCEPT !.locked = clock + Lease, !.expires = clock + TTL]
    /\ UNCHANGED nextId

\* By id, whatever the status: nothing happens if the record is gone.
MarkSucceeded(id, body, form, expires) ==
    /\ row' = IF row.id = id
              THEN [row EXCEPT !.status = "succeeded", !.body = body,
                      !.form = form, !.locked = Null, !.expires = expires]
              ELSE row
    /\ UNCHANGED nextId

\* A seeded fault: the end of the back-off is a lease too early.
BugLockInPast(id, locked, expires) ==
    /\ row' = IF row.id = id
              THEN [row EXCEPT !.status = "failed_retryable",
                      !.locked = locked - Lease, !.expires = expires]
              ELSE row
    /\ UNCHANGED nextId

MarkFailedRetryable(id, locked, expires) ==
    /\ row' = IF row.id = id
              THEN [row EXCEPT !.status = "failed_retryable",
                      !.locked = locked, !.expires = expires]
              ELSE row
    /\ UNCHANGED nextId

\* The cleanup service's DELETE.
DeleteExpired ==
    /\ row # NoRow /\ row.expires <= clock
    /\ row' = NoRow
    /\ UNCHANGED nextId

StoreInit == row = NoRow /\ nextId = 1 /\ clock = 1

StoreTypes == row \in Records /\ nextId \in Nat \ {0} /\ clock \in Nat \ {0}
=============================================================================
