---------------------------- MODULE Idempotency -----------------------------
(***************************************************************************)
(* Requests with an Idempotency-Key: IdempotencyCoordinator.Execute,       *)
(* backend/internal/service/idempotency.go, and the cleanup service.       *)
(*                                                                         *)
(* The first request of a key claims it and executes; the ones after it    *)
(* get the stored response, or are told to come back.  Each worker is one  *)
(* call of Execute and makes one statement per step.  It reads the time    *)
(* once, when it starts, and uses that time throughout.  A call of the     *)
(* store that fails makes Execute return an error, which is a Crash here:  *)
(* what the worker has written stays, and nothing more follows.            *)
(*                                                                         *)
(* An execution that returns an error is taken to have had no effect.      *)
(***************************************************************************)
EXTENDS IdempotencyStore

CONSTANTS
    Workers,    \* requests that can be in flight at once
    Backoff,    \* FailedRetryBackoff
    Renewing    \* ExecutionTimeout > 0: executions renew their claim

ASSUME BackoffAssumption == Backoff \in Nat
ASSUME SwitchAssumption == Renewing \in BOOLEAN

VARIABLES
    pc, req, now,  \* the worker's next step, its request, the time it read
    seen,          \* id and status of the record it read (existing)
    id,            \* the id of the record it has claimed
    until,         \* the expiry it last wrote
    renewer,       \* its renewal goroutine runs
    reply,         \* what it answered
    effects,       \* history: how often the side effect happened, up to Many
    stalled        \* history: 1 once a claim took as long as its lease, or an
                   \* execution outlived its record

\* Once too often; effects is not counted further.
Many == 2

storeVars == <<row, nextId, clock>>
claimVars == <<seen, id, until, renewer>>
workVars == <<pc, req, now, claimVars, reply>>
vars == <<storeVars, workVars, effects, stalled>>

Claiming == {"create", "read", "reclaimExpired", "reread", "reclaimFailed"}
Running == {"execute", "markOk", "markFailed"}
Sights == [id : Nat, status : Live \cup {"none"}]
Unseen == [id |-> 0, status |-> "none"]
Replies == {"none", "done", "failed", "replayed", "conflict", "inProgress",
            "backoff", "unavailable"}

-----------------------------------------------------------------------------
(* Worker moves.                                                           *)

Goto(w, step) == pc' = [pc EXCEPT ![w] = step]

Answer(w, kind) ==
    /\ Goto(w, "idle")
    /\ req' = [req EXCEPT ![w] = NoPrint]
    /\ now' = [now EXCEPT ![w] = 0]
    /\ seen' = [seen EXCEPT ![w] = Unseen]
    /\ id' = [id EXCEPT ![w] = 0]
    /\ until' = [until EXCEPT ![w] = 0]
    /\ renewer' = [renewer EXCEPT ![w] = FALSE]
    /\ reply' = [reply EXCEPT ![w] = kind]

\* The worker owns record i and goes on to execute.
Own(w, i) ==
    /\ Goto(w, "execute")
    /\ id' = [id EXCEPT ![w] = i]
    /\ until' = [until EXCEPT ![w] = now[w] + TTL]
    /\ renewer' = [renewer EXCEPT ![w] = Renewing]
    /\ seen' = [seen EXCEPT ![w] = Unseen]
    /\ UNCHANGED <<req, now, reply>>

\* The worker goes on to reclaim the record it reads now.
Aim(w, step) ==
    /\ Goto(w, step)
    /\ seen' = [seen EXCEPT ![w] = [id |-> row.id, status |-> row.status]]
    /\ UNCHANGED <<req, now, id, until, renewer, reply>>

-----------------------------------------------------------------------------
(* Claiming the key.                                                       *)

Begin(w, p) ==
    /\ pc[w] = "idle"
    /\ Goto(w, "create")
    /\ req' = [req EXCEPT ![w] = p]
    /\ now' = [now EXCEPT ![w] = clock]
    /\ reply' = [reply EXCEPT ![w] = "none"]
    /\ UNCHANGED <<storeVars, claimVars, effects>>

Create(w) ==
    /\ pc[w] = "create"
    /\ \/ CreateProcessing(req[w], now[w]) /\ Own(w, nextId)
       \/ /\ row # NoRow
          /\ Goto(w, "read")
          /\ UNCHANGED <<row, nextId, req, now, claimVars, reply>>
    /\ UNCHANGED <<clock, effects>>

\* The switch on existing.Status.  A truncated response cannot be decoded.
Decide(w) ==
    \/ /\ row.status = "succeeded"
       /\ Answer(w, IF row.form = "truncated" THEN "unavailable" ELSE "replayed")
    \/ /\ row.status = "processing"
       /\ Answer(w, "inProgress")
    \/ /\ row.status = "failed_retryable"
       /\ IF row.locked > now[w]
          THEN Answer(w, "backoff")
          ELSE Aim(w, "reclaimFailed")

\* The record is gone, or belongs to a request with another payload.
Refuse(w) ==
    \/ row = NoRow /\ Answer(w, "unavailable")
    \/ row # NoRow /\ row.fp # req[w] /\ Answer(w, "conflict")

\* A seeded fault: an expired record is treated like a live one.
BugNeverExpired(w) ==
    /\ pc[w] = "read"
    /\ Refuse(w) \/ (row # NoRow /\ row.fp = req[w] /\ Decide(w))
    /\ UNCHANGED <<storeVars, effects>>

GetByScopeAndKeyHash(w) ==
    /\ pc[w] = "read"
    /\ \/ Refuse(w)
       \/ /\ row # NoRow /\ row.fp = req[w]
          /\ IF row.expires <= now[w]
             THEN Aim(w, "reclaimExpired")
             ELSE Decide(w)
    /\ UNCHANGED <<storeVars, effects>>

ReclaimExpired(w) ==
    /\ pc[w] = "reclaimExpired"
    /\ \/ /\ TryReclaim(seen[w].id, seen[w].status, now[w])
          /\ Own(w, seen[w].id)
       \/ /\ ~Reclaimable(seen[w].id, seen[w].status, now[w])
          /\ Goto(w, "reread")
          /\ seen' = [seen EXCEPT ![w] = Unseen]
          /\ UNCHANGED <<row, nextId, req, now, id, until, renewer, reply>>
    /\ UNCHANGED <<clock, effects>>

\* Somebody else was faster.  The expiry is not looked at again.
RereadAfterRace(w) ==
    /\ pc[w] = "reread"
    /\ Refuse(w) \/ (row # NoRow /\ row.fp = req[w] /\ Decide(w))
    /\ UNCHANGED <<storeVars, effects>>

\* A seeded fault: the reclaim of a failed record looks at the record only by id.
BugReclaimBlindly(w) ==
    /\ pc[w] = "reclaimFailed"
    /\ row.id = seen[w].id
    /\ row' = [row EXCEPT !.status = "processing", !.locked = now[w] + Lease,
                          !.expires = now[w] + TTL]
    /\ Own(w, seen[w].id)
    /\ UNCHANGED <<nextId, clock, effects>>

ReclaimFailed(w) ==
    /\ pc[w] = "reclaimFailed"
    /\ \/ /\ TryReclaim(seen[w].id, "failed_retryable", now[w])
          /\ Own(w, seen[w].id)
       \/ /\ ~Reclaimable(seen[w].id, "failed_retryable", now[w])
          /\ Answer(w, "inProgress")
          /\ UNCHANGED <<row, nextId>>
    /\ UNCHANGED <<clock, effects>>

-----------------------------------------------------------------------------
(* Executing, and recording the outcome.                                   *)

Execute(w) ==
    /\ pc[w] = "execute"
    /\ \/ Goto(w, "markOk") /\ effects' = IF effects < Many THEN effects + 1 ELSE Many
       \/ Goto(w, "markFailed") /\ UNCHANGED effects
    /\ UNCHANGED <<storeVars, req, now, claimVars, reply>>

\* One tick of renewProcessingLease; the goroutine ends when it finds no claim.
Renew(w) ==
    /\ pc[w] \in Running /\ renewer[w]
    /\ \/ /\ ExtendProcessingLock(id[w], req[w])
          /\ until' = [until EXCEPT ![w] = clock + TTL]
          /\ UNCHANGED renewer
       \/ /\ ~Extendable(id[w], req[w])
          /\ renewer' = [renewer EXCEPT ![w] = FALSE]
          /\ UNCHANGED <<row, nextId, until>>
    /\ UNCHANGED <<clock, pc, req, now, seen, id, reply, effects>>

\* A seeded fault: the TTL is counted backwards.
BugExpiryInPast(w) == now[w] - TTL

\* The expiry of the outcome: fresh if the execution was detached.
Expiry(w) == IF Renewing THEN clock + TTL ELSE now[w] + TTL

\* A seeded fault: the outcome is stored under the key, not under the id.
BugMarkByKey(w) ==
    /\ pc[w] = "markOk"
    /\ MarkSucceeded(row.id, req[w], "whole", Expiry(w))
    /\ Answer(w, "done")
    /\ UNCHANGED <<clock, effects>>

MarkOk(w) ==
    /\ pc[w] = "markOk"
    /\ \E form \in Forms : MarkSucceeded(id[w], req[w], form, Expiry(w))
    /\ Answer(w, "done")
    /\ UNCHANGED <<clock, effects>>

MarkFailed(w) ==
    /\ pc[w] = "markFailed"
    /\ MarkFailedRetryable(id[w], clock + Backoff, Expiry(w))
    /\ Answer(w, "failed")
    /\ UNCHANGED <<clock, effects>>

-----------------------------------------------------------------------------
(* The environment.                                                        *)

Crash(w) ==
    /\ pc[w] # "idle"
    /\ Answer(w, "unavailable")
    /\ UNCHANGED <<storeVars, effects>>

Cleanup == DeleteExpired /\ UNCHANGED <<clock, workVars, effects>>

\* Time t does not overtake a claim or an execution.
Prompt(t) ==
    \A w \in Workers :
        /\ pc[w] \in Claiming => t < now[w] + Lease
        /\ pc[w] \in Running => t < until[w]

Tick ==
    /\ clock < MaxClock
    /\ clock' = clock + 1
    /\ stalled' = IF Prompt(clock + 1) THEN stalled ELSE 1
    /\ UNCHANGED <<row, nextId, workVars, effects>>

-----------------------------------------------------------------------------
Init ==
    /\ StoreInit
    /\ pc = [w \in Workers |-> "idle"]
    /\ req = [w \in Workers |-> NoPrint]
    /\ now = [w \in Workers |-> 0]
    /\ seen = [w \in Workers |-> Unseen]
    /\ id = [w \in Workers |-> 0]
    /\ until = [w \in Workers |-> 0]
    /\ renewer = [w \in Workers |-> FALSE]
    /\ reply = [w \in Workers |-> "none"]
    /\ effects = 0
    /\ stalled = 0

Step(w) ==
    \/ Create(w) \/ GetByScopeAndKeyHash(w) \/ ReclaimExpired(w)
    \/ RereadAfterRace(w) \/ ReclaimFailed(w) \/ Execute(w) \/ Renew(w)
    \/ MarkOk(w) \/ MarkFailed(w) \/ Crash(w)

Next ==
    \/ \E w \in Workers :
         (Step(w) \/ \E p \in Prints : Begin(w, p)) /\ UNCHANGED stalled
    \/ Cleanup /\ UNCHANGED stalled
    \/ Tick

Spec == Init /\ [][Next]_vars

-----------------------------------------------------------------------------
(* Properties.                                                             *)

WorkerTypes ==
    /\ pc \in [Workers -> Claiming \cup Running \cup {"idle"}]
    /\ req \in [Workers -> Prints \cup {NoPrint}]
    /\ now \in [Workers -> Nat]
    /\ seen \in [Workers -> Sights]
    /\ id \in [Workers -> Nat]
    /\ until \in [Workers -> Nat]
    /\ renewer \in [Workers -> BOOLEAN]
    /\ reply \in [Workers -> Replies]
    /\ effects \in Nat

\* Every variable keeps its type; no time of a record lies before the clock's
\* start.
TypeOK == StoreTypes /\ WorkerTypes /\ stalled \in 0..1

\* However requests with one key overlap, crash, stall and are retried, the
\* side effect happens at most once within the TTL of the client's first use
\* of the key (the clock starts with it).
OnceWithinTTL == clock < 1 + TTL => effects <= 1

\* As long as claims take less than their lease and executions end before their
\* record expires, two requests with one key never execute at the same time.
OneExecution ==
    stalled = 0 =>
        \A w, v \in Workers : pc[w] \in Running /\ pc[v] \in Running => w = v

\* A replayed response is the response to that very request, also if the key
\* was reused after its record expired and late executions still report.
ReplayIsOwn ==
    [][\A w \in Workers :
         reply'[w] = "replayed" /\ reply[w] # "replayed" =>
             row.fp = req[w] /\ row.body = req[w]]_vars

\* Under the assumption of OneExecution, a request is told that another one is
\* in progress only on account of a record that was live when it came: a claim
\* whose owner died blocks its key no longer than the TTL.
RefusedByLiveClaim ==
    [][stalled = 0 => \A w \in Workers :
         reply'[w] = "inProgress" /\ reply[w] # "inProgress" /\ row # NoRow =>
             row.expires > now[w]]_vars

\* The test of concurrent requests says that they execute the side effect
\* once: a success on record is not executed again while it is live.  (Nobody
\* needs to stall for the counterexample.)
SuccessStays ==
    [][stalled = 0 /\ row.status = "succeeded" /\ row.expires > clock
         => row' = row]_vars
=============================================================================
