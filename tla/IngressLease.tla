---------------------------- MODULE IngressLease -----------------------------
(***************************************************************************)
(* The leases that bound the WebSocket connections of one API key: a Redis *)
(* sorted set shared by all instances, and on the side of each connection  *)
(* the handler that acquires and releases its lease and the goroutine that *)
(* renews it.                                                              *)
(*                                                                         *)
(* A Redis command and its answer are separate steps.  A call may end in   *)
(* an error while its command is still under way, and the client resends   *)
(* commands by itself, so that Redis may execute a command late or twice.  *)
(* All times are ages, which advance together in Tick.                     *)
(***************************************************************************)
EXTENDS Integers, FiniteSets

CONSTANTS
    Leases,             \* lease ids: generateRequestID never repeats one
    MaxConnections,     \* gateway.openai_ws.max_ingress_connections_per_api_key
    TTL,                \* openAIWSIngressLeaseTTL
    Interval,           \* openAIWSIngressLeaseRefreshInterval
    CallTime,           \* how long a Redis call takes at most
    MaxLate             \* bound: commands under way that nobody waits for

ASSUME LeaseConstants ==
    /\ IsFiniteSet(Leases)
    /\ MaxConnections \in Nat \ {0}
    /\ TTL \in Nat \ {0} /\ Interval \in Nat \ {0} /\ CallTime \in Nat \ {0}
    /\ MaxLate \in Nat

VARIABLES
    members, age, keyAge,       \* the sorted set; time since a lease was last
                                \* added to it, and since the key's last EXPIRE
    handler, loop, cancelled,   \* the connection's handler, its refresh loop, and
                                \* whether the lease's context is cancelled
    next, due,                  \* the ticker: time to the next tick, a tick waits
    since,                      \* time since lastConfirmedAt
    sent, reply, waited,        \* the connection's present call: command not yet
                                \* executed, answer not yet read, its duration
    late,                       \* commands under way that nobody waits for
    stalled                     \* a loop or a call was ever overdue

redisVars == <<members, age, keyAge>>
tickVars  == <<next, due, since>>
callVars  == <<sent, reply, waited, late>>
vars == <<redisVars, handler, loop, cancelled, tickVars, callVars, stalled>>

Commands == {"acquire", "refresh", "remove"}

\* Ages count up to this, and other times to the number they are compared with.
AgeCap == TTL + Interval + 2 * CallTime

TypeOK ==
    /\ members \subseteq Leases
    /\ age \in [Leases -> 0..AgeCap] /\ keyAge \in 0..TTL
    /\ handler \in [Leases -> {"new", "acquiring", "open", "stopping", "removing", "ended"}]
    /\ loop \in [Leases -> {"off", "idle", "refreshing", "ended"}]
    /\ cancelled \in [Leases -> BOOLEAN]
    /\ next \in [Leases -> 1..Interval] /\ due \in [Leases -> BOOLEAN]
    /\ since \in [Leases -> 0..TTL]
    /\ sent \in [Leases -> Commands \cup {"none"}]
    /\ reply \in [Leases -> {"none", "yes", "no"}]
    /\ waited \in [Leases -> 0..CallTime]
    /\ late \subseteq Leases \X Commands
    /\ stalled \in BOOLEAN

Init ==
    /\ members = {} /\ age = [l \in Leases |-> AgeCap] /\ keyAge = 0
    /\ handler = [l \in Leases |-> "new"] /\ loop = [l \in Leases |-> "off"]
    /\ cancelled = [l \in Leases |-> FALSE]
    /\ next = [l \in Leases |-> Interval] /\ due = [l \in Leases |-> FALSE]
    /\ since = [l \in Leases |-> 0]
    /\ sent = [l \in Leases |-> "none"] /\ reply = [l \in Leases |-> "none"]
    /\ waited = [l \in Leases |-> 0]
    /\ late = {} /\ stalled = FALSE

------------------------------------------------------------------------------
(* The scripts of concurrency_cache.go                                     *)

\* Mutant: members whose TTL has run out are counted on.
BugReapNothing == members

\* ZREMRANGEBYSCORE at the head of both scripts.
Reaped == {l \in members : age[l] < TTL}

\* Mutant: a refresh does not extend the key.
BugGrantWithoutExpire(l) ==
    /\ members' = Reaped \cup {l}
    /\ age' = [age EXCEPT ![l] = 0]
    /\ keyAge' = IF Reaped = {} THEN 0 ELSE keyAge

\* ZADD and EXPIRE.
Grant(l) ==
    /\ members' = Reaped \cup {l}
    /\ age' = [age EXCEPT ![l] = 0] /\ keyAge' = 0

Refuse == members' = Reaped /\ UNCHANGED <<age, keyAge>>

\* Mutant: a missing member is added again.
BugRefreshRecreates(l) == l \in Reaped \/ Cardinality(Reaped) < MaxConnections

Acquirable(l)  == l \in Reaped \/ Cardinality(Reaped) < MaxConnections
Refreshable(l) == l \in Reaped

Succeeds(l, command) ==
    \/ command = "acquire" /\ Acquirable(l)
    \/ command = "refresh" /\ Refreshable(l)
    \/ command = "remove"

Run(l, command) ==
    IF command = "remove"
    THEN members' = members \ {l} /\ UNCHANGED <<age, keyAge>>
    ELSE IF Succeeds(l, command) THEN Grant(l) ELSE Refuse

------------------------------------------------------------------------------
(* Calls.  A connection makes one at a time: the acquisition before the    *)
(* loop runs, the removal after it has ended.                              *)

\* The locals of a loop that ends.
Forget(l) ==
    /\ next' = [next EXCEPT ![l] = Interval] /\ due' = [due EXCEPT ![l] = FALSE]
    /\ since' = [since EXCEPT ![l] = 0]

InCall(l) == handler[l] \in {"acquiring", "removing"} \/ loop[l] = "refreshing"

Command(l) ==
    CASE handler[l] = "acquiring" -> "acquire"
      [] handler[l] = "removing"  -> "remove"
      [] OTHER                    -> "refresh"

Send(l, command) ==
    /\ sent' = [sent EXCEPT ![l] = command] /\ reply' = [reply EXCEPT ![l] = "none"]
    /\ waited' = [waited EXCEPT ![l] = 0]
    /\ UNCHANGED late

\* The answer is read.
Answered(l, answer) ==
    /\ reply[l] = answer
    /\ reply' = [reply EXCEPT ![l] = "none"] /\ waited' = [waited EXCEPT ![l] = 0]
    /\ UNCHANGED <<sent, late>>

\* A command that nobody waits for any more may still be executed, or is lost.
LeaveBehind(l) ==
    \/ UNCHANGED late
    \/ /\ sent[l] # "none" /\ Cardinality(late) < MaxLate
       /\ late' = late \cup {<<l, sent[l]>>}

\* The call ends in an error.
Abandon(l) ==
    /\ sent' = [sent EXCEPT ![l] = "none"] /\ reply' = [reply EXCEPT ![l] = "none"]
    /\ waited' = [waited EXCEPT ![l] = 0]
    /\ LeaveBehind(l)

Execute(l) ==
    /\ sent[l] # "none"
    /\ Run(l, sent[l])
    /\ sent' = [sent EXCEPT ![l] = "none"]
    /\ reply' = [reply EXCEPT ![l] = IF Succeeds(l, sent[l]) THEN "yes" ELSE "no"]
    /\ UNCHANGED <<handler, loop, cancelled, tickVars, waited, late, stalled>>

ExecuteLate(l, command) ==
    /\ <<l, command>> \in late
    /\ Run(l, command)
    /\ late' = late \ {<<l, command>>}
    /\ UNCHANGED <<handler, loop, cancelled, tickVars, sent, reply, waited, stalled>>

\* The Redis client sends the command a second time, whether or not the first
\* one has been executed.
Resend(l) ==
    /\ InCall(l) /\ LeaveBehind(l)
    /\ sent' = [sent EXCEPT ![l] = Command(l)] /\ reply' = [reply EXCEPT ![l] = "none"]
    /\ UNCHANGED <<redisVars, handler, loop, cancelled, tickVars, waited, stalled>>

\* Redis drops the key EXPIRE has run out for.
KeyExpires ==
    /\ keyAge >= TTL /\ members # {}
    /\ members' = {}
    /\ UNCHANGED <<age, keyAge, handler, loop, cancelled, tickVars, callVars, stalled>>

Redis == \/ KeyExpires
         \/ \E l \in Leases : Execute(l) \/ Resend(l)
         \/ \E l \in Leases, command \in Commands : ExecuteLate(l, command)

------------------------------------------------------------------------------
(* The handler of a connection                                             *)

Acquire(l) ==
    /\ handler[l] = "new"
    /\ handler' = [handler EXCEPT ![l] = "acquiring"]
    /\ Send(l, "acquire")
    /\ UNCHANGED <<redisVars, loop, cancelled, tickVars, stalled>>

\* The connection is accepted and the refresh loop started.
Open(l) ==
    /\ handler[l] = "acquiring" /\ Answered(l, "yes")
    /\ handler' = [handler EXCEPT ![l] = "open"]
    /\ loop' = [loop EXCEPT ![l] = "idle"]
    /\ next' = [next EXCEPT ![l] = Interval] /\ since' = [since EXCEPT ![l] = 0]
    /\ UNCHANGED <<redisVars, cancelled, due, stalled>>

\* 429 for a refused lease, 503 for an error; nothing is released.
TurnAway(l) ==
    /\ handler[l] = "acquiring" /\ (Answered(l, "no") \/ Abandon(l))
    /\ handler' = [handler EXCEPT ![l] = "ended"]
    /\ UNCHANGED <<redisVars, loop, cancelled, tickVars, stalled>>

\* The request's own context ends.
ClientGone(l) ==
    /\ handler[l] = "open" /\ ~cancelled[l]
    /\ cancelled' = [cancelled EXCEPT ![l] = TRUE]
    /\ UNCHANGED <<redisVars, handler, loop, tickVars, callVars, stalled>>

\* Mutant: the connection is closed and removed, the loop goes on.
BugReleaseKeepsLoop(l) ==
    /\ handler[l] = "open" /\ loop[l] # "refreshing"
    /\ handler' = [handler EXCEPT ![l] = "removing"]
    /\ Send(l, "remove")
    /\ UNCHANGED <<redisVars, loop, cancelled, tickVars, stalled>>

\* The handler returns: it closes the connection, then Release stops the loop.
Release(l) ==
    /\ handler[l] = "open"
    /\ handler' = [handler EXCEPT ![l] = "stopping"]
    /\ cancelled' = [cancelled EXCEPT ![l] = TRUE]
    /\ UNCHANGED <<redisVars, loop, tickVars, callVars, stalled>>

\* Release has waited for refreshDone.
Remove(l) ==
    /\ handler[l] = "stopping" /\ loop[l] = "ended"
    /\ handler' = [handler EXCEPT ![l] = "removing"]
    /\ Send(l, "remove")
    /\ UNCHANGED <<redisVars, loop, cancelled, tickVars, stalled>>

\* An error of the removal is only logged.
End(l) ==
    /\ handler[l] = "removing" /\ (Answered(l, "yes") \/ Abandon(l))
    /\ handler' = [handler EXCEPT ![l] = "ended"]
    /\ UNCHANGED <<redisVars, loop, cancelled, tickVars, stalled>>

\* The instance stops.
Crash(l) ==
    /\ handler[l] \in {"acquiring", "open", "stopping", "removing"}
    /\ handler' = [handler EXCEPT ![l] = "ended"]
    /\ loop' = [loop EXCEPT ![l] = "ended"]
    /\ Abandon(l) /\ Forget(l)
    /\ UNCHANGED <<redisVars, cancelled, stalled>>

------------------------------------------------------------------------------
(* The refresh loop                                                        *)

LoopStops(l) ==
    /\ loop[l] = "idle" /\ cancelled[l]
    /\ loop' = [loop EXCEPT ![l] = "ended"] /\ Forget(l)
    /\ UNCHANGED <<redisVars, handler, cancelled, callVars, stalled>>

\* A tick may be taken although the context has ended: select picks any.
Refresh(l) ==
    /\ loop[l] = "idle" /\ due[l]
    /\ loop' = [loop EXCEPT ![l] = "refreshing"]
    /\ due' = [due EXCEPT ![l] = FALSE]
    /\ Send(l, "refresh")
    /\ UNCHANGED <<redisVars, handler, cancelled, next, since, stalled>>

\* Mutant: the deadline of the call is taken for the time of confirmation.
BugConfirmedAtDeadline(l) ==
    /\ loop[l] = "refreshing" /\ Answered(l, "yes")
    /\ loop' = [loop EXCEPT ![l] = "idle"]
    /\ since' = [since EXCEPT ![l] = waited[l] - CallTime]
    /\ UNCHANGED <<redisVars, handler, cancelled, next, due, stalled>>

Confirmed(l) ==
    /\ loop[l] = "refreshing" /\ Answered(l, "yes")
    /\ loop' = [loop EXCEPT ![l] = "idle"]
    /\ since' = [since EXCEPT ![l] = 0]
    /\ UNCHANGED <<redisVars, handler, cancelled, next, due, stalled>>

\* Mutant: the error of a refresh is tolerated for ever.
BugErrorTolerated(l) ==
    /\ loop[l] = "refreshing" /\ Abandon(l)
    /\ loop' = [loop EXCEPT ![l] = "idle"]
    /\ UNCHANGED <<redisVars, handler, cancelled, tickVars, stalled>>

\* Redis does not answer: tolerated for one TTL since the last confirmation.
Unconfirmed(l) ==
    /\ loop[l] = "refreshing" /\ Abandon(l)
    /\ since[l] < TTL
    /\ loop' = [loop EXCEPT ![l] = "idle"]
    /\ UNCHANGED <<redisVars, handler, cancelled, tickVars, stalled>>

\* The member is missing, or the tolerance is used up.
LeaseLost(l) ==
    /\ loop[l] = "refreshing"
    /\ Answered(l, "no") \/ (since[l] >= TTL /\ Abandon(l))
    /\ loop' = [loop EXCEPT ![l] = "ended"]
    /\ cancelled' = [cancelled EXCEPT ![l] = TRUE] /\ Forget(l)
    /\ UNCHANGED <<redisVars, handler, stalled>>

Connection(l) ==
    \/ Acquire(l) \/ Open(l) \/ TurnAway(l) \/ ClientGone(l) \/ Release(l)
    \/ Remove(l) \/ End(l) \/ Crash(l)
    \/ LoopStops(l) \/ Refresh(l) \/ Confirmed(l) \/ Unconfirmed(l) \/ LeaseLost(l)

------------------------------------------------------------------------------
(* Time                                                                    *)

Older(n, cap) == IF n < cap THEN n + 1 ELSE n

Running(l) == loop[l] \in {"idle", "refreshing"}
Overdue(l) == (loop[l] = "idle" /\ due[l]) \/ (InCall(l) /\ waited[l] >= CallTime)

\* The ticker drops a tick when one is waiting already.
Tick ==
    /\ age' = [l \in Leases |-> Older(age[l], AgeCap)] /\ keyAge' = Older(keyAge, TTL)
    /\ since' = [l \in Leases |-> IF Running(l) THEN Older(since[l], TTL) ELSE since[l]]
    /\ next' = [l \in Leases |-> IF ~Running(l) THEN next[l]
                                 ELSE IF next[l] = 1 THEN Interval ELSE next[l] - 1]
    /\ due' = [l \in Leases |-> due[l] \/ (Running(l) /\ next[l] = 1)]
    /\ waited' = [l \in Leases |-> IF InCall(l) THEN Older(waited[l], CallTime) ELSE waited[l]]
    /\ stalled' = (stalled \/ \E l \in Leases : Overdue(l))
    /\ UNCHANGED <<members, handler, loop, cancelled, sent, reply, late>>

Next == Redis \/ (\E l \in Leases : Connection(l)) \/ Tick

\* Only the passing of time is taken to be fair.
Spec == Init /\ [][Next]_vars /\ WF_vars(Tick)

------------------------------------------------------------------------------
(* Properties                                                              *)

Serving(l) == handler[l] = "open" /\ ~cancelled[l]

\* Of the connections being served, no more than the limit have had their
\* lease granted or renewed within its TTL, however late the scripts run,
\* though a resent acquisition counts a lease twice and the key itself expires:
\* the limit is exceeded only by connections Redis has not heard of for a TTL.
WithinCap ==
    Cardinality({l \in Leases : Serving(l) /\ age[l] < TTL}) <= MaxConnections

\* When loops and calls run on time, no connection is served on for longer
\* after its last renewal than the lease, one interval and two calls: a
\* missing member is noticed at the next tick, and refresh tolerates errors
\* for one TTL since lastConfirmedAt, which is later than the renewal itself.
LostInTime ==
    ~stalled => \A l \in Leases : Serving(l) => age[l] < TTL + Interval + 2 * CallTime

\* A lease that has left the set comes back only through an acquisition, be it
\* a late copy of one: no refresh, late ones after Release included, adds it.
NoRevival ==
    [][\A l \in Leases : l \in members' \ members =>
          sent[l] = "acquire" \/ <<l, "acquire">> \in late]_vars

\* The step by step reason why capacity returns: once its handler is gone,
\* nothing is sent for a lease any more, so that it is renewed or added again
\* only by a command that was under way, and each such command is used up by
\* it.  The loop Release has waited for sends no refresh after the removal.
LateOf(l) == {command \in Commands : <<l, command>> \in late}
EndedOnlyAges ==
    [][\A l \in Leases : handler[l] = "ended" =>
          /\ handler'[l] = "ended"
          /\ LateOf(l)' \subseteq LateOf(l)
          /\ age'[l] < age[l] \/ l \in members' \ members => LateOf(l)' # LateOf(l)]_vars

\* A lease whose handler is gone, because it was released, was given up after
\* an error or died with its instance, stops counting for good: neither a
\* failed removal nor a late command holds capacity for ever.
CapacityReturns ==
    <>[](\A l \in Leases : handler[l] = "ended" => l \notin Reaped)
=============================================================================
