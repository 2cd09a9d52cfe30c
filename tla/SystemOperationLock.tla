------------------------ MODULE SystemOperationLock -------------------------
(***************************************************************************)
(* The global lock of system operations (update, rollback, restart):       *)
(* backend/internal/service/system_operation_lock_service.go, used by      *)
(* handler/admin/system_handler.go.                                        *)
(*                                                                         *)
(* The lock is a record of IdempotencyStore under a fixed key, claimed for *)
(* Lease and renewed by a goroutine of the operation that holds it.  The   *)
(* record's fingerprint is the id of the operation that created it.  Each  *)
(* worker is one operation and makes one statement per step.  A statement  *)
(* that fails ends the operation, which is a Crash here; a renewal that    *)
(* fails is tried again.                                                   *)
(***************************************************************************)
EXTENDS IdempotencyStore

CONSTANTS
    Workers,   \* system operations that can be in flight at once
    Slow       \* may an operation take longer than its lease?

ASSUME SlowAssumption == Slow \in BOOLEAN

VARIABLES
    pc, op, now,  \* the worker's next step, its operation id, the time it read
    seen,         \* id and status of the record it read
    id,           \* recordID of the lock it holds
    until,        \* the end of the lease it last wrote
    renewer       \* its renewLoop runs

storeVars == <<row, nextId, clock>>
workVars == <<pc, op, now, seen, id, until, renewer>>
vars == <<storeVars, workVars>>

Acquiring == {"create", "read", "reclaim"}
Holding == {"operate", "release"}
Sights == [id : Nat, status : Live \cup {"none"}]
Unseen == [id |-> 0, status |-> "none"]

-----------------------------------------------------------------------------
Goto(w, step) == pc' = [pc EXCEPT ![w] = step]

Leave(w) ==
    /\ Goto(w, "idle")
    /\ op' = [op EXCEPT ![w] = NoPrint]
    /\ now' = [now EXCEPT ![w] = 0]
    /\ seen' = [seen EXCEPT ![w] = Unseen]
    /\ id' = [id EXCEPT ![w] = 0]
    /\ until' = [until EXCEPT ![w] = 0]
    /\ renewer' = [renewer EXCEPT ![w] = FALSE]

\* The tail of Acquire.
Hold(w, i) ==
    /\ Goto(w, "operate")
    /\ id' = [id EXCEPT ![w] = i]
    /\ until' = [until EXCEPT ![w] = now[w] + Lease]
    /\ renewer' = [renewer EXCEPT ![w] = TRUE]
    /\ seen' = [seen EXCEPT ![w] = Unseen]
    /\ UNCHANGED <<op, now>>

-----------------------------------------------------------------------------
(* Acquire.                                                                *)

Begin(w, p) ==
    /\ pc[w] = "idle"
    /\ Goto(w, "create")
    /\ op' = [op EXCEPT ![w] = p]
    /\ now' = [now EXCEPT ![w] = clock]
    /\ UNCHANGED <<storeVars, seen, id, until, renewer>>

Create(w) ==
    /\ pc[w] = "create"
    /\ \/ CreateProcessing(op[w], now[w]) /\ Hold(w, nextId)
       \/ /\ row # NoRow
          /\ Goto(w, "read")
          /\ UNCHANGED <<row, nextId, op, now, seen, id, until, renewer>>
    /\ UNCHANGED clock

\* A held lock is busy; a released one, or one whose lease has run out, can be
\* reclaimed.
Read(w) ==
    /\ pc[w] = "read"
    /\ IF row = NoRow \/ (row.status = "processing" /\ row.locked > now[w])
       THEN Leave(w)
       ELSE /\ Goto(w, "reclaim")
            /\ seen' = [seen EXCEPT ![w] = [id |-> row.id, status |-> row.status]]
            /\ UNCHANGED <<op, now, id, until, renewer>>
    /\ UNCHANGED storeVars

\* The record is read again only to say who holds the lock.
Reclaim(w) ==
    /\ pc[w] = "reclaim"
    /\ \/ /\ TryReclaim(seen[w].id, seen[w].status, now[w])
          /\ Hold(w, seen[w].id)
       \/ /\ ~Reclaimable(seen[w].id, seen[w].status, now[w])
          /\ Leave(w)
          /\ UNCHANGED <<row, nextId>>
    /\ UNCHANGED clock

-----------------------------------------------------------------------------
(* Holding the lock.                                                       *)

\* One tick of renewLoop; it gives up when it finds that the lock is lost.
Renew(w) ==
    /\ pc[w] \in Holding /\ renewer[w]
    /\ \/ /\ ExtendProcessingLock(id[w], op[w])
          /\ until' = [until EXCEPT ![w] = clock + Lease]
          /\ UNCHANGED renewer
       \/ /\ ~Extendable(id[w], op[w])
          /\ renewer' = [renewer EXCEPT ![w] = FALSE]
          /\ UNCHANGED <<row, nextId, until>>
    /\ UNCHANGED <<clock, pc, op, now, seen, id>>

\* The operation is done, or has failed; Release stops the renewals first.  A
\* renewal that is under way may still arrive before the record is released.
Operate(w) ==
    /\ pc[w] = "operate"
    /\ Goto(w, "release")
    /\ UNCHANGED <<storeVars, op, now, seen, id, until, renewer>>

Release(w) ==
    /\ pc[w] = "release"
    /\ \/ MarkSucceeded(id[w], op[w], "whole", clock + TTL)
       \/ MarkFailedRetryable(id[w], clock, clock + TTL)
    /\ Leave(w)
    /\ UNCHANGED clock

-----------------------------------------------------------------------------
(* The environment.                                                        *)

Crash(w) ==
    /\ pc[w] # "idle"
    /\ Leave(w)
    /\ UNCHANGED storeVars

Cleanup == DeleteExpired /\ UNCHANGED <<clock, workVars>>

\* Time does not overtake an acquisition, nor a lease that is being renewed;
\* unless Slow, it overtakes no operation at all.
Prompt(t) ==
    \A w \in Workers :
        /\ pc[w] \in Acquiring => t < now[w] + Lease
        /\ pc[w] \in Holding /\ (renewer[w] \/ ~Slow) => t < until[w]

Tick ==
    /\ clock < MaxClock
    /\ Prompt(clock + 1)
    /\ clock' = clock + 1
    /\ UNCHANGED <<row, nextId, workVars>>

-----------------------------------------------------------------------------
Init ==
    /\ StoreInit
    /\ pc = [w \in Workers |-> "idle"]
    /\ op = [w \in Workers |-> NoPrint]
    /\ now = [w \in Workers |-> 0]
    /\ seen = [w \in Workers |-> Unseen]
    /\ id = [w \in Workers |-> 0]
    /\ until = [w \in Workers |-> 0]
    /\ renewer = [w \in Workers |-> FALSE]

Step(w) ==
    \/ Create(w) \/ Read(w) \/ Reclaim(w) \/ Renew(w) \/ Operate(w)
    \/ Release(w) \/ Crash(w)

Next ==
    \/ \E w \in Workers : Step(w) \/ \E p \in Prints : Begin(w, p)
    \/ Cleanup \/ Tick

Spec == Init /\ [][Next]_vars

-----------------------------------------------------------------------------
(* Properties.                                                             *)

WorkerTypes ==
    /\ pc \in [Workers -> Acquiring \cup Holding \cup {"idle"}]
    /\ op \in [Workers -> Prints \cup {NoPrint}]
    /\ now \in [Workers -> Nat]
    /\ seen \in [Workers -> Sights]
    /\ id \in [Workers -> Nat]
    /\ until \in [Workers -> Nat]
    /\ renewer \in [Workers -> BOOLEAN]

\* Every variable keeps its type; no time of the record lies before the clock's
\* start.
TypeOK == StoreTypes /\ WorkerTypes

\* While one system operation holds the lock, another one is refused.
OneOperation ==
    \A w, v \in Workers : pc[w] \in Holding /\ pc[v] \in Holding => w = v
=============================================================================
