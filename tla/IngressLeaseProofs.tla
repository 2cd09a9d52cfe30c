-------------------------- MODULE IngressLeaseProofs --------------------------
(***************************************************************************)
(* Proofs about the WebSocket ingress leases, for every set of leases,     *)
(* limit and duration.                                                     *)
(***************************************************************************)
EXTENDS IngressLease, FiniteSetTheorems, TLAPS

------------------------------------------------------------------------------
(* The inductive invariant                                                 *)

\* The loop runs between the opening of the connection and the removal.
LoopShape(l) ==
    /\ handler[l] \in {"new", "acquiring"} => loop[l] = "off" /\ ~due[l]
    /\ handler[l] = "removing" => ~Running(l)
    /\ Running(l) => handler[l] \in {"open", "stopping"}
    /\ Serving(l) => Running(l)

\* A removal is sent only when the connection is closed and its loop ended.
RemoveLast(l) ==
    handler[l] \in {"new", "acquiring", "open", "stopping"} =>
        sent[l] # "remove" /\ <<l, "remove">> \notin late

\* Nobody takes a fresh lease away from a connection.
Present(l) ==
    /\ handler[l] = "open" \/ (handler[l] = "acquiring" /\ reply[l] = "yes")
    /\ age[l] < TTL
    => l \in members

\* The key expires after the last of its fresh members.
KeyCovers == \A l \in members : keyAge <= age[l]

Base ==
    /\ TypeOK
    /\ Cardinality(Reaped) <= MaxConnections
    /\ KeyCovers
    /\ \A l \in Leases : LoopShape(l) /\ RemoveLast(l) /\ Present(l)

\* What holds while loops and calls run on time.
Timely(l) ==
    /\ handler[l] = "acquiring" /\ reply[l] = "yes" => age[l] <= waited[l]
    /\ loop[l] = "refreshing" /\ reply[l] = "yes" => age[l] <= waited[l]
    /\ Running(l) /\ since[l] < TTL => age[l] <= since[l] + CallTime
    /\ loop[l] = "idle" /\ ~due[l] => age[l] + next[l] < TTL + Interval + CallTime
    /\ loop[l] = "idle" /\ due[l] => age[l] < TTL + Interval + CallTime
    /\ loop[l] = "refreshing" => age[l] < TTL + Interval + CallTime + waited[l]

IInv == Base /\ (~stalled => \A l \in Leases : Timely(l))

------------------------------------------------------------------------------
(* What one command does                                                   *)

\* A command keeps the number of fresh members within the limit, makes no
\* member older and drops none that is fresh, but for the one it removes.
LEMMA RunEffect ==
    ASSUME Base, NEW l \in Leases, NEW command \in Commands, Run(l, command)
    PROVE  /\ members' \subseteq Leases
           /\ age' \in [Leases -> 0..AgeCap] /\ keyAge' \in 0..TTL
           /\ Cardinality(Reaped') <= MaxConnections
           /\ KeyCovers'
           /\ \A m \in Leases : age'[m] <= age[m]
           /\ \A m \in Leases : (m # l \/ command # "remove") /\ m \in members /\ age[m] < TTL
                                    => m \in members'
           /\ \A m \in Leases : age'[m] # age[m] => m \in members'
           /\ command # "remove" /\ Succeeds(l, command) => l \in members' /\ age'[l] = 0
<1> USE LeaseConstants
<1>1. IsFiniteSet(Reaped)
  BY FS_Subset DEF Base, TypeOK, Reaped
<1>2. CASE command = "remove"
  <2>1. Reaped' \subseteq Reaped
    BY <1>2 DEF Run, Reaped
  <2>2. Cardinality(Reaped') <= Cardinality(Reaped)
    BY <2>1, <1>1, FS_Subset
  <2>3. Cardinality(Reaped) \in Nat /\ Cardinality(Reaped') \in Nat
    BY <2>1, <1>1, FS_Subset, FS_CardinalityType
  <2> QED
    BY <1>2, <2>2, <2>3 DEF Run, Base, TypeOK, KeyCovers, AgeCap
<1>3. CASE command # "remove" /\ Succeeds(l, command)
  <2>1. Grant(l) /\ Acquirable(l)
    BY <1>3 DEF Run, Succeeds, Acquirable, Refreshable
  <2>2. age' \in [Leases -> 0..AgeCap] /\ age'[l] = 0
    BY <2>1 DEF Grant, Base, TypeOK, AgeCap
  <2>3. Reaped' = Reaped \cup {l}
    BY <2>1, <2>2 DEF Grant, Reaped, Base, TypeOK
  <2>4. Cardinality(Reaped') <= MaxConnections
    <3>1. CASE l \in Reaped
      <4>1. Reaped' = Reaped
        BY <2>3, <3>1
      <4> QED
        BY <4>1 DEF Base
    <3>2. CASE l \notin Reaped
      <4>1. Cardinality(Reaped \cup {l}) = Cardinality(Reaped) + 1
        BY <3>2, <1>1, FS_AddElement
      <4>2. Cardinality(Reaped) \in Nat /\ Cardinality(Reaped) < MaxConnections
        BY <2>1, <3>2, <1>1, FS_CardinalityType DEF Acquirable
      <4> QED
        BY <2>3, <4>1, <4>2
    <3> QED
      BY <3>1, <3>2
  <2>5. \A m \in Leases : m # l => age'[m] = age[m]
    BY <2>1 DEF Grant, Base, TypeOK
  <2> QED
    BY <1>3, <2>1, <2>2, <2>4, <2>5 DEF Grant, Reaped, Base, TypeOK, KeyCovers
<1>4. CASE command # "remove" /\ ~Succeeds(l, command)
  <2>1. Refuse
    BY <1>4 DEF Run
  <2>2. Reaped' = Reaped
    BY <2>1 DEF Refuse, Reaped
  <2> QED
    <3>1. Cardinality(Reaped') <= MaxConnections
      BY <2>2 DEF Base
    <3>2. members' \subseteq members /\ age' = age /\ keyAge' = keyAge
      BY <2>1 DEF Refuse, Reaped
    <3>3. \A m \in Leases : m \in members /\ age[m] < TTL => m \in members'
      BY <2>1 DEF Refuse, Reaped
    <3> QED
      BY <1>4, <3>1, <3>2, <3>3 DEF Base, TypeOK, KeyCovers, AgeCap
<1> QED
  BY <1>2, <1>3, <1>4

------------------------------------------------------------------------------
(* The invariant is inductive                                              *)

LEMMA InitBase == Init => IInv
<1> SUFFICES ASSUME Init PROVE IInv
  OBVIOUS
<1> USE LeaseConstants
<1>1. Reaped = {}
  BY DEF Init, Reaped
<1>2. Cardinality(Reaped) <= MaxConnections
  BY <1>1, FS_EmptySet
<1>3. TypeOK
  <2>1. AgeCap \in 0..AgeCap /\ 0 \in 0..TTL /\ 0 \in 0..CallTime
          /\ Interval \in 1..Interval
    BY DEF AgeCap
  <2> QED
    BY <2>1 DEF Init, TypeOK
<1>4. KeyCovers /\ \A l \in Leases : LoopShape(l) /\ RemoveLast(l) /\ Present(l)
  BY DEF Init, KeyCovers, LoopShape, RemoveLast, Present, Running, Serving
<1>5. \A l \in Leases : Timely(l)
  BY DEF Init, Timely, Running
<1> QED
  BY <1>2, <1>3, <1>4, <1>5 DEF IInv, Base

\* Steps of Redis: a command, in time or late, a command resent, the key's end.
LEMMA ExecuteKeeps ==
    ASSUME IInv, NEW l \in Leases, Execute(l)
    PROVE  IInv'
<1> USE LeaseConstants
<1>1. sent[l] \in Commands /\ Run(l, sent[l]) /\ Base
  BY DEF Execute, IInv, Base, TypeOK
<1>2. TypeOK'
  BY <1>1, RunEffect DEF Execute, tickVars, Base, TypeOK
<1>3. \A m \in Leases : LoopShape(m)' /\ RemoveLast(m)'
  BY <1>1 DEF Execute, tickVars, Base, TypeOK, LoopShape, RemoveLast, Running, Serving
<1>4. \A m \in Leases : Present(m)'
  <2> SUFFICES ASSUME NEW m \in Leases PROVE Present(m)'
    OBVIOUS
  <2>1. m = l /\ handler[m] \in {"open", "acquiring"} => sent[l] # "remove"
    BY <1>1 DEF Base, RemoveLast
  <2>2. reply'[m] = "yes" => reply[m] = "yes" \/ (m = l /\ Succeeds(l, sent[l]))
    BY <1>1 DEF Execute, Base, TypeOK
  <2>3. Present(m)
    BY <1>1 DEF Base
  <2> QED
    BY <1>1, <2>1, <2>2, <2>3, RunEffect DEF Execute, Present, Base, TypeOK
<1>5. ~stalled' => \A m \in Leases : Timely(m)'
  <2> SUFFICES ASSUME ~stalled', NEW m \in Leases PROVE Timely(m)'
    OBVIOUS
  <2>1. Timely(m) /\ LoopShape(m)
    BY DEF IInv, Base, Execute
  <2>2. reply'[m] = "yes" => reply[m] = "yes" \/ (m = l /\ Succeeds(l, sent[l]))
    BY <1>1 DEF Execute, Base, TypeOK
  <2>3. m = l /\ (handler[m] = "acquiring" \/ loop[m] = "refreshing") => sent[l] # "remove"
    BY <1>1, <2>1 DEF Base, RemoveLast, LoopShape, Running
  <2>4. age'[m] <= age[m] /\ age[m] \in Nat /\ age'[m] \in Nat
        /\ waited[m] \in Nat /\ since[m] \in Nat /\ next[m] \in Nat
    BY <1>1, <1>2, RunEffect DEF Base, TypeOK
  <2>5. m = l /\ sent[l] # "remove" /\ Succeeds(l, sent[l]) => age'[m] = 0
    BY <1>1, RunEffect
  <2> QED
    BY <2>1, <2>2, <2>3, <2>4, <2>5 DEF Execute, tickVars, Timely, Running
<1> QED
  BY <1>1, <1>2, <1>3, <1>4, <1>5, RunEffect DEF IInv, Base

LEMMA ExecuteLateKeeps ==
    ASSUME IInv, NEW l \in Leases, NEW command \in Commands, ExecuteLate(l, command)
    PROVE  IInv'
<1> USE LeaseConstants
<1>1. Run(l, command) /\ Base
  BY DEF ExecuteLate, IInv
<1>2. TypeOK'
  BY <1>1, RunEffect DEF ExecuteLate, tickVars, Base, TypeOK
<1>3. \A m \in Leases : LoopShape(m)' /\ RemoveLast(m)'
  BY <1>1 DEF ExecuteLate, tickVars, Base, TypeOK, LoopShape, RemoveLast, Running, Serving
<1>4. \A m \in Leases : Present(m)'
  BY <1>1, RunEffect DEF ExecuteLate, Present, RemoveLast, Base, TypeOK
<1>5. ~stalled' => \A m \in Leases : Timely(m)'
  <2> SUFFICES ASSUME ~stalled', NEW m \in Leases PROVE Timely(m)'
    OBVIOUS
  <2>1. age'[m] <= age[m] /\ age[m] \in Nat /\ age'[m] \in Nat
        /\ waited[m] \in Nat /\ since[m] \in Nat /\ next[m] \in Nat
    BY <1>1, <1>2, RunEffect DEF Base, TypeOK
  <2> QED
    BY <2>1 DEF ExecuteLate, IInv, tickVars, Timely, Running
<1> QED
  BY <1>1, <1>2, <1>3, <1>4, <1>5, RunEffect DEF IInv, Base

\* A step that leaves the set and its ages alone.
LEMMA SameSet ==
    ASSUME Base, UNCHANGED redisVars
    PROVE  Cardinality(Reaped') <= MaxConnections /\ KeyCovers'
BY DEF Base, redisVars, Reaped, KeyCovers

LEMMA KeyExpiresKeeps ==
    ASSUME IInv, KeyExpires
    PROVE  IInv'
<1> USE LeaseConstants
<1>1. Base
  BY DEF IInv
<1>2. \A m \in members : ~(age[m] < TTL)
  BY <1>1 DEF KeyExpires, Base, KeyCovers, TypeOK
<1>3. Reaped' = {}
  BY DEF KeyExpires, Reaped
<1>4. Cardinality(Reaped') <= MaxConnections
  BY <1>3, FS_EmptySet
<1>5. TypeOK' /\ KeyCovers'
  BY <1>1 DEF KeyExpires, Base, TypeOK, KeyCovers, tickVars, callVars
<1>6. \A m \in Leases : LoopShape(m)' /\ RemoveLast(m)' /\ Present(m)'
  BY <1>1, <1>2 DEF KeyExpires, Base, LoopShape, RemoveLast, Present, Running, Serving,
                    tickVars, callVars
<1> QED
  BY <1>1, <1>4, <1>5, <1>6 DEF KeyExpires, IInv, Base, Timely, Running, tickVars, callVars

LEMMA ResendKeeps ==
    ASSUME IInv, NEW l \in Leases, Resend(l)
    PROVE  IInv'
<1> USE LeaseConstants
<1>1. Base
  BY DEF IInv
<1>2. Command(l) \in Commands
        /\ (handler[l] \in {"new", "acquiring", "open", "stopping"} => Command(l) # "remove")
  BY DEF Command, Commands
<1>3. late' \subseteq late \cup {<<l, sent[l]>>}
        /\ (sent[l] = "none" => late' = late)
  BY DEF Resend, LeaveBehind
<1>4. late' \subseteq Leases \X Commands
  BY <1>1, <1>3 DEF Base, TypeOK
<1>5. TypeOK'
  BY <1>1, <1>2, <1>4 DEF Resend, Base, TypeOK, redisVars, tickVars
<1>6. \A m \in Leases : LoopShape(m)' /\ RemoveLast(m)' /\ Present(m)'
  BY <1>1, <1>2, <1>3 DEF Resend, Base, TypeOK, LoopShape, RemoveLast, Present, Running, Serving,
                    redisVars, tickVars
<1>7. ~stalled' => \A m \in Leases : Timely(m)'
  BY <1>1 DEF Resend, IInv, Base, TypeOK, Timely, Running, redisVars, tickVars
<1> QED
  BY <1>1, <1>5, <1>6, <1>7, SameSet DEF Resend, IInv, Base

\* The ways a call begins and ends.
LEMMA CallEffect ==
    ASSUME Base, NEW l \in Leases,
           \/ \E command \in Commands : Send(l, command)
           \/ \E answer \in {"yes", "no"} : Answered(l, answer)
           \/ Abandon(l)
    PROVE  /\ sent' \in [Leases -> Commands \cup {"none"}]
           /\ reply' \in [Leases -> {"none", "yes", "no"}]
           /\ waited' \in [Leases -> 0..CallTime]
           /\ late' \subseteq late \cup {<<l, sent[l]>>} /\ (sent[l] = "none" => late' = late)
           /\ late' \subseteq Leases \X Commands
           /\ reply'[l] = "none"
           /\ \A m \in Leases \ {l} : sent'[m] = sent[m] /\ reply'[m] = reply[m]
                                        /\ waited'[m] = waited[m]
<1> USE LeaseConstants
<1>1. CASE \E command \in Commands : Send(l, command)
  BY <1>1 DEF Base, TypeOK, Send
<1>2. CASE \E answer \in {"yes", "no"} : Answered(l, answer)
  BY <1>2 DEF Base, TypeOK, Answered
<1>3. CASE Abandon(l)
  <2>1. late' \subseteq late \cup {<<l, sent[l]>>} /\ (sent[l] = "none" => late' = late)
    BY <1>3 DEF Abandon, LeaveBehind
  <2>2. late' \subseteq Leases \X Commands
    BY <2>1 DEF Base, TypeOK
  <2> QED
    BY <1>3, <2>1, <2>2 DEF Base, TypeOK, Abandon
<1> QED
  BY <1>1, <1>2, <1>3

\* The steps of the handler and of the loop leave the sorted set alone.
LEMMA ConnectionKeepsBase ==
    ASSUME IInv, NEW l \in Leases, Connection(l)
    PROVE  Base'
<1> USE LeaseConstants
<1>1. Base
  BY DEF IInv
<1>2. UNCHANGED redisVars /\ UNCHANGED stalled
  BY DEF Connection, Acquire, Open, TurnAway, ClientGone, Release, Remove, End, Crash,
         LoopStops, Refresh, Confirmed, Unconfirmed, LeaseLost
<1>3. SUFFICES TypeOK' /\ \A m \in Leases : LoopShape(m)' /\ RemoveLast(m)' /\ Present(m)'
  BY <1>1, <1>2, SameSet DEF Base
<1> USE DEF Commands
<1>0. Interval \in 1..Interval /\ 0 \in 0..TTL
  OBVIOUS
<1> DEFINE Calls ==
       /\ sent' \in [Leases -> Commands \cup {"none"}]
       /\ reply' \in [Leases -> {"none", "yes", "no"}]
       /\ waited' \in [Leases -> 0..CallTime]
       /\ late' \subseteq late \cup {<<l, sent[l]>>} /\ (sent[l] = "none" => late' = late)
       /\ late' \subseteq Leases \X Commands
       /\ reply'[l] = "none"
       /\ \A m \in Leases \ {l} : sent'[m] = sent[m] /\ reply'[m] = reply[m]
<1>4. CASE Acquire(l)
  <2>1. \E command \in Commands : Send(l, command)
    BY <1>4 DEF Acquire
  <2>2. Calls
    BY <1>1, <2>1, CallEffect
  <2>3. TypeOK'
    BY <1>1, <1>4, <2>2 DEF Acquire, Base, TypeOK, redisVars, tickVars
  <2>4. \A m \in Leases : LoopShape(m)' /\ Present(m)'
    BY <1>1, <1>4, <2>2 DEF Acquire, Base, TypeOK, LoopShape, Present, Running, Serving,
        Send, redisVars, tickVars
  <2>5. \A m \in Leases : RemoveLast(m)'
    BY <1>1, <1>4, <2>2 DEF Acquire, Base, TypeOK, LoopShape, RemoveLast, Running,
        Send
  <2> QED
    BY <2>3, <2>4, <2>5
<1>5. CASE Open(l)
  <2>1. \E answer \in {"yes", "no"} : Answered(l, answer)
    BY <1>5 DEF Open
  <2>2. Calls
    BY <1>1, <2>1, CallEffect
  <2>3. TypeOK'
    BY <1>0, <1>1, <1>5, <2>2 DEF Open, Base, TypeOK, redisVars
  <2>4. \A m \in Leases : LoopShape(m)' /\ Present(m)'
    BY <1>1, <1>5, <2>2 DEF Open, Base, TypeOK, LoopShape, Present, Running, Serving,
        Answered, redisVars
  <2>5. \A m \in Leases : RemoveLast(m)'
    BY <1>1, <1>5, <2>2 DEF Open, Base, TypeOK, LoopShape, RemoveLast, Running,
        Answered
  <2> QED
    BY <2>3, <2>4, <2>5
<1>6. CASE TurnAway(l)
  <2>1. (\E answer \in {"yes", "no"} : Answered(l, answer)) \/ Abandon(l)
    BY <1>6 DEF TurnAway
  <2>2. Calls
    BY <1>1, <2>1, CallEffect
  <2>3. TypeOK'
    BY <1>1, <1>6, <2>2 DEF TurnAway, Base, TypeOK, redisVars, tickVars
  <2>4. \A m \in Leases : LoopShape(m)' /\ Present(m)'
    BY <1>1, <1>6, <2>2 DEF TurnAway, Base, TypeOK, LoopShape, Present, Running, Serving,
        Answered, Abandon, LeaveBehind, redisVars, tickVars
  <2>5. \A m \in Leases : RemoveLast(m)'
    BY <1>1, <1>6, <2>2 DEF TurnAway, Base, TypeOK, LoopShape, RemoveLast, Running,
        Answered, Abandon, LeaveBehind
  <2> QED
    BY <2>3, <2>4, <2>5
<1>7. CASE ClientGone(l)
  <2>1. TypeOK'
    BY <1>1, <1>7 DEF ClientGone, Base, TypeOK, redisVars, callVars, tickVars
  <2>2. \A m \in Leases : LoopShape(m)' /\ RemoveLast(m)' /\ Present(m)'
    BY <1>1, <1>7 DEF ClientGone, Base, TypeOK, LoopShape, RemoveLast, Present, Running, Serving,
        redisVars, callVars, tickVars
  <2> QED
    BY <2>1, <2>2
<1>8. CASE Release(l)
  <2>1. TypeOK'
    BY <1>1, <1>8 DEF Release, Base, TypeOK, redisVars, callVars, tickVars
  <2>2. \A m \in Leases : LoopShape(m)' /\ RemoveLast(m)' /\ Present(m)'
    BY <1>1, <1>8 DEF Release, Base, TypeOK, LoopShape, RemoveLast, Present, Running, Serving,
        redisVars, callVars, tickVars
  <2> QED
    BY <2>1, <2>2
<1>9. CASE Remove(l)
  <2>1. \E command \in Commands : Send(l, command)
    BY <1>9 DEF Remove
  <2>2. Calls
    BY <1>1, <2>1, CallEffect
  <2>3. TypeOK'
    BY <1>1, <1>9, <2>2 DEF Remove, Base, TypeOK, redisVars, tickVars
  <2>4. \A m \in Leases : LoopShape(m)' /\ Present(m)'
    BY <1>1, <1>9, <2>2 DEF Remove, Base, TypeOK, LoopShape, Present, Running, Serving,
        Send, redisVars, tickVars
  <2>5. \A m \in Leases : RemoveLast(m)'
    BY <1>1, <1>9, <2>2 DEF Remove, Base, TypeOK, LoopShape, RemoveLast, Running,
        Send
  <2> QED
    BY <2>3, <2>4, <2>5
<1>10. CASE End(l)
  <2>1. (\E answer \in {"yes", "no"} : Answered(l, answer)) \/ Abandon(l)
    BY <1>10 DEF End
  <2>2. Calls
    BY <1>1, <2>1, CallEffect
  <2>3. TypeOK'
    BY <1>1, <1>10, <2>2 DEF End, Base, TypeOK, redisVars, tickVars
  <2>4. \A m \in Leases : LoopShape(m)' /\ Present(m)'
    BY <1>1, <1>10, <2>2 DEF End, Base, TypeOK, LoopShape, Present, Running, Serving,
        Answered, Abandon, LeaveBehind, redisVars, tickVars
  <2>5. \A m \in Leases : RemoveLast(m)'
    BY <1>1, <1>10, <2>2 DEF End, Base, TypeOK, LoopShape, RemoveLast, Running,
        Answered, Abandon, LeaveBehind
  <2> QED
    BY <2>3, <2>4, <2>5
<1>11. CASE Crash(l)
  <2>1. (\E answer \in {"yes", "no"} : Answered(l, answer)) \/ Abandon(l)
    BY <1>11 DEF Crash
  <2>2. Calls
    BY <1>1, <2>1, CallEffect
  <2>3. TypeOK'
    BY <1>0, <1>1, <1>11, <2>2 DEF Crash, Base, TypeOK, redisVars, Forget
  <2>4. \A m \in Leases : LoopShape(m)' /\ Present(m)'
    BY <1>1, <1>11, <2>2 DEF Crash, Base, TypeOK, LoopShape, Present, Running, Serving,
        Answered, Abandon, LeaveBehind, redisVars, Forget
  <2>5. \A m \in Leases : RemoveLast(m)'
    BY <1>1, <1>11, <2>2 DEF Crash, Base, TypeOK, LoopShape, RemoveLast, Running,
        Answered, Abandon, LeaveBehind
  <2> QED
    BY <2>3, <2>4, <2>5
<1>12. CASE LoopStops(l)
  <2>1. TypeOK'
    BY <1>0, <1>1, <1>12 DEF LoopStops, Base, TypeOK, redisVars, callVars, Forget
  <2>2. \A m \in Leases : LoopShape(m)' /\ RemoveLast(m)' /\ Present(m)'
    BY <1>1, <1>12 DEF LoopStops, Base, TypeOK, LoopShape, RemoveLast, Present, Running, Serving,
        redisVars, callVars, Forget
  <2> QED
    BY <2>1, <2>2
<1>13. CASE Refresh(l)
  <2>1. \E command \in Commands : Send(l, command)
    BY <1>13 DEF Refresh
  <2>2. Calls
    BY <1>1, <2>1, CallEffect
  <2>3. TypeOK'
    BY <1>1, <1>13, <2>2 DEF Refresh, Base, TypeOK, redisVars
  <2>4. \A m \in Leases : LoopShape(m)' /\ Present(m)'
    BY <1>1, <1>13, <2>2 DEF Refresh, Base, TypeOK, LoopShape, Present, Running, Serving,
        Send, redisVars
  <2>5. \A m \in Leases : RemoveLast(m)'
    BY <1>1, <1>13, <2>2 DEF Refresh, Base, TypeOK, LoopShape, RemoveLast, Running,
        Send
  <2> QED
    BY <2>3, <2>4, <2>5
<1>14. CASE Confirmed(l)
  <2>1. \E answer \in {"yes", "no"} : Answered(l, answer)
    BY <1>14 DEF Confirmed
  <2>2. Calls
    BY <1>1, <2>1, CallEffect
  <2>3. TypeOK'
    BY <1>0, <1>1, <1>14, <2>2 DEF Confirmed, Base, TypeOK, redisVars
  <2>4. \A m \in Leases : LoopShape(m)' /\ Present(m)'
    BY <1>1, <1>14, <2>2 DEF Confirmed, Base, TypeOK, LoopShape, Present, Running, Serving,
        Answered, redisVars
  <2>5. \A m \in Leases : RemoveLast(m)'
    BY <1>1, <1>14, <2>2 DEF Confirmed, Base, TypeOK, LoopShape, RemoveLast, Running,
        Answered
  <2> QED
    BY <2>3, <2>4, <2>5
<1>15. CASE Unconfirmed(l)
  <2>1. (\E answer \in {"yes", "no"} : Answered(l, answer)) \/ Abandon(l)
    BY <1>15 DEF Unconfirmed
  <2>2. Calls
    BY <1>1, <2>1, CallEffect
  <2>3. TypeOK'
    BY <1>1, <1>15, <2>2 DEF Unconfirmed, Base, TypeOK, redisVars, tickVars
  <2>4. \A m \in Leases : LoopShape(m)' /\ Present(m)'
    BY <1>1, <1>15, <2>2 DEF Unconfirmed, Base, TypeOK, LoopShape, Present, Running, Serving,
        Answered, Abandon, LeaveBehind, redisVars, tickVars
  <2>5. \A m \in Leases : RemoveLast(m)'
    BY <1>1, <1>15, <2>2 DEF Unconfirmed, Base, TypeOK, LoopShape, RemoveLast, Running,
        Answered, Abandon, LeaveBehind
  <2> QED
    BY <2>3, <2>4, <2>5
<1>16. CASE LeaseLost(l)
  <2>1. (\E answer \in {"yes", "no"} : Answered(l, answer)) \/ Abandon(l)
    BY <1>16 DEF LeaseLost
  <2>2. Calls
    BY <1>1, <2>1, CallEffect
  <2>3. TypeOK'
    BY <1>0, <1>1, <1>16, <2>2 DEF LeaseLost, Base, TypeOK, redisVars, Forget
  <2>4. \A m \in Leases : LoopShape(m)' /\ Present(m)'
    BY <1>1, <1>16, <2>2 DEF LeaseLost, Base, TypeOK, LoopShape, Present, Running, Serving,
        Answered, Abandon, LeaveBehind, redisVars, Forget
  <2>5. \A m \in Leases : RemoveLast(m)'
    BY <1>1, <1>16, <2>2 DEF LeaseLost, Base, TypeOK, LoopShape, RemoveLast, Running,
        Answered, Abandon, LeaveBehind
  <2> QED
    BY <2>3, <2>4, <2>5
<1> QED
  BY <1>4, <1>5, <1>6, <1>7, <1>8, <1>9, <1>10, <1>11, <1>12, <1>13, <1>14, <1>15,
     <1>16
  DEF Connection

LEMMA ConnectionKeepsTimely ==
    ASSUME IInv, NEW l \in Leases, Connection(l)
    PROVE  ~stalled' => \A m \in Leases : Timely(m)'
<1> USE LeaseConstants
<1>1. Base
  BY DEF IInv
<1>2. UNCHANGED redisVars /\ UNCHANGED stalled
  BY DEF Connection, Acquire, Open, TurnAway, ClientGone, Release, Remove, End, Crash,
         LoopStops, Refresh, Confirmed, Unconfirmed, LeaseLost
<1> SUFFICES ASSUME ~stalled', NEW m \in Leases PROVE Timely(m)'
  OBVIOUS
<1>3. Timely(m) /\ Timely(l)
  BY <1>2 DEF IInv
<1>4. /\ age' = age /\ age[m] \in Nat /\ since[m] \in Nat
      /\ waited[m] \in 0..CallTime /\ next[m] \in 1..Interval
  BY <1>1, <1>2 DEF redisVars, Base, TypeOK
<1>5. CASE m # l
  <2>1. /\ handler'[m] = handler[m] /\ loop'[m] = loop[m] /\ reply'[m] = reply[m]
        /\ waited'[m] = waited[m] /\ since'[m] = since[m] /\ next'[m] = next[m]
        /\ due'[m] = due[m]
    BY <1>1, <1>5 DEF Connection, Acquire, Open, TurnAway, ClientGone, Release, Remove, End,
       Crash, LoopStops, Refresh, Confirmed, Unconfirmed, LeaseLost, Send, Answered, Abandon,
       Forget, tickVars, callVars, Base, TypeOK
  <2> QED
    BY <1>3, <1>4, <2>1 DEF Timely, Running
<1>6. CASE m = l /\ (Acquire(l) \/ TurnAway(l) \/ ClientGone(l) \/ Release(l) \/ Remove(l)
                     \/ End(l) \/ Crash(l) \/ LoopStops(l) \/ LeaseLost(l))
  <2>1. LoopShape(l)
    BY <1>1 DEF Base
  <2>2. /\ handler'[l] = "acquiring" /\ reply'[l] = "yes" =>
              handler[l] = "acquiring" /\ reply[l] = "yes" /\ waited'[l] = waited[l]
        /\ loop'[l] \in {"idle", "refreshing"} =>
              /\ loop'[l] = loop[l] /\ since'[l] = since[l] /\ next'[l] = next[l]
              /\ due'[l] = due[l] /\ waited'[l] = waited[l] /\ reply'[l] = reply[l]
    BY <1>1, <1>6, <2>1 DEF Acquire, TurnAway, ClientGone, Release, Remove, End, Crash,
       LoopStops, LeaseLost, Send, Answered, Abandon, Forget, tickVars, callVars, Base, TypeOK,
       LoopShape, Running
  <2> QED
    BY <1>3, <1>4, <1>6, <2>2 DEF Timely, Running
<1>7. CASE m = l /\ Open(l)
  <2>1. /\ handler'[l] = "open" /\ loop'[l] = "idle" /\ since'[l] = 0
        /\ next'[l] = Interval /\ ~due'[l] /\ age[l] <= waited[l]
    BY <1>1, <1>3, <1>7 DEF Open, Answered, Base, TypeOK, LoopShape, Timely
  <2> QED
    BY <1>4, <1>7, <2>1 DEF Timely, Running
<1>8. CASE m = l /\ Refresh(l)
  <2>1. /\ handler'[l] = handler[l] /\ loop'[l] = "refreshing" /\ since'[l] = since[l]
        /\ reply'[l] = "none" /\ waited'[l] = 0
    BY <1>1, <1>8 DEF Refresh, Send, Base, TypeOK
  <2>2. loop[l] = "idle" /\ due[l]
    BY <1>8 DEF Refresh
  <2> QED
    BY <1>3, <1>4, <1>8, <2>1, <2>2 DEF Timely, Running
<1>9. CASE m = l /\ Confirmed(l)
  <2>1. /\ loop'[l] = "idle" /\ since'[l] = 0 /\ reply'[l] = "none"
        /\ next'[l] = next[l] /\ age[l] <= waited[l]
    BY <1>1, <1>3, <1>9 DEF Confirmed, Answered, Base, TypeOK, Timely
  <2> QED
    BY <1>4, <1>9, <2>1 DEF Timely, Running
<1>10. CASE m = l /\ Unconfirmed(l)
  <2>1. /\ loop'[l] = "idle" /\ since'[l] = since[l] /\ reply'[l] = "none"
        /\ next'[l] = next[l] /\ since[l] < TTL /\ loop[l] = "refreshing"
    BY <1>1, <1>10 DEF Unconfirmed, Abandon, Base, TypeOK, tickVars
  <2> QED
    BY <1>3, <1>4, <1>10, <2>1 DEF Timely, Running
<1> QED
  BY <1>5, <1>6, <1>7, <1>8, <1>9, <1>10 DEF Connection

LEMMA TickKeeps ==
    ASSUME IInv, Tick
    PROVE  IInv'
<1> USE LeaseConstants
<1>1. Base
  BY DEF IInv
<1>2. AgeCap \in Nat /\ TTL <= AgeCap
  BY DEF AgeCap
<1>3. \A cap \in Nat : \A n \in 0..cap :
          Older(n, cap) \in 0..cap /\ (Older(n, cap) = n + 1 \/ (n = cap /\ Older(n, cap) = n))
  BY DEF Older
<1>4. TypeOK'
  <2>2. TypeOK
    BY <1>1 DEF Base
  <2>3. age' \in [Leases -> 0..AgeCap] /\ keyAge' \in 0..TTL
    BY <1>2, <1>3, <2>2 DEF Tick, TypeOK
  <2>4. since' \in [Leases -> 0..TTL] /\ waited' \in [Leases -> 0..CallTime]
    BY <1>2, <1>3, <2>2 DEF Tick, TypeOK
  <2>5. next' \in [Leases -> 1..Interval]
    BY <2>2 DEF Tick, TypeOK
  <2>6. due' \in [Leases -> BOOLEAN] /\ stalled' \in BOOLEAN
    BY <2>2 DEF Tick, TypeOK
  <2> QED
    BY <2>2, <2>3, <2>4, <2>5, <2>6 DEF Tick, TypeOK
<1>5. \A m \in Leases : age[m] \in Nat /\ age'[m] \in Nat /\ age[m] <= age'[m]
                          /\ age'[m] <= age[m] + 1 /\ age'[m] <= AgeCap
                          /\ (age'[m] = age[m] + 1 \/ age'[m] = AgeCap)
  <2> SUFFICES ASSUME NEW m \in Leases
               PROVE  /\ age[m] \in Nat /\ age'[m] \in Nat /\ age[m] <= age'[m]
                      /\ age'[m] <= age[m] + 1 /\ age'[m] <= AgeCap
                      /\ (age'[m] = age[m] + 1 \/ age'[m] = AgeCap)
    OBVIOUS
  <2>1. age[m] \in 0..AgeCap /\ age'[m] = Older(age[m], AgeCap) /\ AgeCap \in Nat
    BY <1>1, <1>2 DEF Tick, Base, TypeOK
  <2>2. age'[m] = IF age[m] < AgeCap THEN age[m] + 1 ELSE age[m]
    BY <2>1 DEF Older
  <2> QED
    BY <2>1, <2>2
<1>6. Cardinality(Reaped') <= MaxConnections
  <2>1. Reaped' \subseteq Reaped
    BY <1>1, <1>5 DEF Tick, Reaped, Base, TypeOK
  <2>2. IsFiniteSet(Reaped)
    BY <1>1, FS_Subset DEF Base, TypeOK, Reaped
  <2>3. Cardinality(Reaped') <= Cardinality(Reaped)
    BY <2>1, <2>2, FS_Subset
  <2>4. Cardinality(Reaped) \in Nat /\ Cardinality(Reaped') \in Nat
    BY <2>1, <2>2, FS_Subset, FS_CardinalityType
  <2> QED
    BY <1>1, <2>3, <2>4 DEF Base
<1>7. KeyCovers'
  <2>1. keyAge \in Nat /\ keyAge' \in Nat /\ keyAge' <= keyAge + 1 /\ keyAge' <= TTL
    BY <1>1 DEF Tick, Older, Base, TypeOK
  <2> QED
    BY <1>1, <1>2, <1>5, <2>1 DEF Tick, KeyCovers, Base, TypeOK
<1>8. \A m \in Leases : LoopShape(m)' /\ RemoveLast(m)' /\ Present(m)'
  <2> SUFFICES ASSUME NEW m \in Leases PROVE LoopShape(m)' /\ RemoveLast(m)' /\ Present(m)'
    OBVIOUS
  <2>1. LoopShape(m) /\ RemoveLast(m) /\ Present(m)
    BY <1>1 DEF Base
  <2>2. ~Running(m) => due'[m] = due[m]
    BY <1>1 DEF Tick, Base, TypeOK
  <2>3. LoopShape(m)'
    BY <2>1, <2>2 DEF Tick, LoopShape, Running, Serving
  <2>4. RemoveLast(m)' /\ Present(m)'
    BY <1>1, <1>5, <2>1 DEF Tick, RemoveLast, Present, Base, TypeOK
  <2> QED
    BY <2>3, <2>4
<1>9. ~stalled' => \A m \in Leases : Timely(m)'
  <2> SUFFICES ASSUME ~stalled', NEW m \in Leases PROVE Timely(m)'
    OBVIOUS
  <2>1. ~stalled /\ ~Overdue(m) /\ Timely(m)
    BY DEF Tick, IInv
  <2>2. /\ handler'[m] = handler[m] /\ loop'[m] = loop[m] /\ reply'[m] = reply[m]
    BY DEF Tick
  <2>3. InCall(m) => waited'[m] = waited[m] + 1
    BY <1>1, <2>1 DEF Tick, Older, Overdue, Base, TypeOK
  <2>4. Running(m) /\ since'[m] < TTL => since'[m] = since[m] + 1
    <3>1. /\ since[m] \in 0..TTL /\ TTL \in Nat
          /\ Running(m) => since'[m] = Older(since[m], TTL)
      BY <1>1, <1>2 DEF Tick, Base, TypeOK
    <3>2. Running(m) => since'[m] = IF since[m] < TTL THEN since[m] + 1 ELSE since[m]
      BY <3>1 DEF Older
    <3> QED
      BY <3>1, <3>2
  <2>5. Running(m) => /\ next[m] = 1 => next'[m] = Interval /\ due'[m]
                      /\ next[m] # 1 => next'[m] = next[m] - 1 /\ due'[m] = due[m]
    BY <1>1 DEF Tick, Base, TypeOK
  <2>6. /\ since[m] \in 0..TTL /\ next[m] \in 1..Interval /\ waited[m] \in 0..CallTime
        /\ age[m] \in 0..AgeCap /\ due[m] \in BOOLEAN
    BY <1>1 DEF Base, TypeOK
  <2>7. CASE handler[m] = "acquiring" \/ ~Running(m)
    BY <1>1, <1>2, <1>5, <2>1, <2>2, <2>3, <2>6, <2>7
    DEF Timely, Running, InCall, Base, LoopShape
  <2>8. CASE loop[m] = "refreshing"
    BY <1>1, <1>2, <1>5, <2>1, <2>2, <2>3, <2>4, <2>6, <2>8
    DEF Timely, Running, InCall, Base, LoopShape
  <2>9. CASE loop[m] = "idle"
    <3>1. /\ ~due[m] /\ age[m] + next[m] < TTL + Interval + CallTime
          /\ since[m] < TTL => age[m] <= since[m] + CallTime
      BY <2>1, <2>9 DEF Overdue, Timely, Running
    <3>2. since'[m] < TTL => since'[m] = since[m] + 1
      BY <2>4, <2>9 DEF Running
    <3>3. handler[m] # "acquiring"
      BY <1>1, <2>9 DEF Base, LoopShape
    <3> QED
      BY <1>2, <1>5, <2>2, <2>5, <2>6, <2>9, <3>1, <3>2, <3>3 DEF Timely, Running
  <2> QED
    BY <2>7, <2>8, <2>9 DEF Running
<1> QED
  BY <1>4, <1>6, <1>7, <1>8, <1>9 DEF IInv, Base

LEMMA NextKeeps == IInv /\ [Next]_vars => IInv'
<1> SUFFICES ASSUME IInv, [Next]_vars PROVE IInv'
  OBVIOUS
<1>1. CASE Redis
  BY <1>1, KeyExpiresKeeps, ExecuteKeeps, ResendKeeps, ExecuteLateKeeps DEF Redis
<1>2. CASE \E l \in Leases : Connection(l)
  BY <1>2, ConnectionKeepsBase, ConnectionKeepsTimely DEF IInv
<1>3. CASE Tick
  BY <1>3, TickKeeps
<1>4. CASE UNCHANGED vars
  BY <1>4 DEF vars, redisVars, tickVars, callVars, IInv, Base, TypeOK, Reaped, KeyCovers,
     LoopShape, RemoveLast, Present, Timely, Running, Serving
<1> QED
  BY <1>1, <1>2, <1>3, <1>4 DEF Next

\* The invariant of the proofs: where each lease's member, calls and loop stand,
\* and, while nothing is overdue, how old each may be.
THEOREM Inductive == Spec => []IInv
<1>1. Init => IInv
  BY InitBase
<1>2. IInv /\ [Next]_vars => IInv'
  BY NextKeeps
<1> QED
  BY <1>1, <1>2, PTL DEF Spec

------------------------------------------------------------------------------
(* The results                                                             *)

\* Type correctness: no age, duration or answer leaves its range.
THEOREM TypeCorrectness == Spec => []TypeOK
<1>1. IInv => TypeOK
  BY DEF IInv, Base
<1> QED
  BY <1>1, Inductive, PTL

\* However late, often or out of order Redis executes the commands, no more
\* than MaxConnections of the connections being served hold a fresh lease.
THEOREM CapHolds == Spec => []WithinCap
<1>1. IInv => WithinCap
  <2> SUFFICES ASSUME IInv PROVE WithinCap
    OBVIOUS
  <2> USE LeaseConstants
  <2>1. {l \in Leases : Serving(l) /\ age[l] < TTL} \subseteq Reaped
    BY DEF IInv, Base, Serving, Present, Reaped
  <2>2. IsFiniteSet(Reaped)
    BY FS_Subset DEF IInv, Base, TypeOK, Reaped
  <2>3. /\ Cardinality({l \in Leases : Serving(l) /\ age[l] < TTL}) <= Cardinality(Reaped)
        /\ Cardinality({l \in Leases : Serving(l) /\ age[l] < TTL}) \in Nat
        /\ Cardinality(Reaped) \in Nat
    BY <2>1, <2>2, FS_Subset, FS_CardinalityType
  <2> QED
    BY <2>3 DEF IInv, Base, WithinCap
<1> QED
  BY <1>1, Inductive, PTL

\* When loops and calls run on time, a connection whose lease is not renewed
\* is cancelled within the lease, one refresh interval and two calls.
THEOREM LossIsNoticed == Spec => []LostInTime
<1>1. IInv => LostInTime
  <2> SUFFICES ASSUME IInv, ~stalled, NEW l \in Leases, Serving(l)
               PROVE  age[l] < TTL + Interval + 2 * CallTime
    BY DEF LostInTime
  <2> USE LeaseConstants
  <2>1. Running(l) /\ Timely(l)
    BY DEF IInv, Base, LoopShape
  <2>2. /\ age[l] \in Nat /\ since[l] \in Nat /\ waited[l] \in 0..CallTime
        /\ next[l] \in 1..Interval /\ due[l] \in BOOLEAN
    BY DEF IInv, Base, TypeOK
  <2> QED
    BY <2>1, <2>2 DEF Timely, Running
<1> QED
  BY <1>1, Inductive, PTL

\* Only an acquisition brings a lease into the set: a refresh, however late,
\* revives none.
THEOREM OnlyAcquisitionsAdd == Spec => NoRevival
<1> DEFINE Added == \A l \in Leases : l \in members' \ members =>
                        sent[l] = "acquire" \/ <<l, "acquire">> \in late
<1>1. IInv /\ [Next]_vars => [Added]_vars
  <2> SUFFICES ASSUME IInv, Next, NEW l \in Leases, l \in members' \ members
               PROVE  sent[l] = "acquire" \/ <<l, "acquire">> \in late
    OBVIOUS
  <2>1. \A m \in Leases, command \in Commands :
            Run(m, command) => m = l /\ command = "acquire"
    BY DEF Run, Succeeds, Refreshable, Grant, Refuse, Reaped, Commands
  <2>2. CASE Redis
    BY <2>1, <2>2 DEF Redis, KeyExpires, Execute, ExecuteLate, Resend, redisVars,
       IInv, Base, TypeOK
  <2>3. CASE \E m \in Leases : Connection(m)
    BY <2>3 DEF Connection, Acquire, Open, TurnAway, ClientGone, Release, Remove, End, Crash,
       LoopStops, Refresh, Confirmed, Unconfirmed, LeaseLost, redisVars
  <2>4. CASE Tick
    BY <2>4 DEF Tick
  <2> QED
    BY <2>2, <2>3, <2>4 DEF Next
<1> QED
  BY <1>1, Inductive, PTL DEF Spec, NoRevival

------------------------------------------------------------------------------
(* Leases whose handler is gone                                            *)

\* A call has either its command or its answer under way, and a handler that
\* is gone has left neither its loop running nor a command that counts as its
\* own.
Quiet(l) ==
    /\ reply[l] # "none" => sent[l] = "none"
    /\ handler[l] = "ended" => sent[l] = "none"

LEMMA QuietStep ==
    ASSUME IInv, \A l \in Leases : Quiet(l), Next
    PROVE  \A l \in Leases : Quiet(l)'
<1> USE DEF IInv, Base, TypeOK, Quiet
<1>1. CASE KeyExpires BY <1>1 DEF KeyExpires, callVars
<1>2. ASSUME NEW m \in Leases, Execute(m) PROVE \A l \in Leases : Quiet(l)'
  BY <1>2 DEF Execute
<1>3. ASSUME NEW m \in Leases, Resend(m) PROVE \A l \in Leases : Quiet(l)'
  <2>1. handler[m] # "ended"
    BY <1>3 DEF Resend, InCall, LoopShape, Running
  <2> QED BY <1>3, <2>1 DEF Resend
<1>4. ASSUME NEW m \in Leases, NEW command \in Commands, ExecuteLate(m, command)
      PROVE  \A l \in Leases : Quiet(l)'
  BY <1>4 DEF ExecuteLate
<1>5. ASSUME NEW m \in Leases, Connection(m) PROVE \A l \in Leases : Quiet(l)'
  <2>1. CASE Acquire(m) BY <1>5, <2>1 DEF Acquire, Send
  <2>2. CASE Open(m) BY <1>5, <2>2 DEF Open, Answered
  <2>3. CASE TurnAway(m) BY <1>5, <2>3 DEF TurnAway, Answered, Abandon
  <2>4. CASE ClientGone(m) BY <1>5, <2>4 DEF ClientGone, callVars
  <2>5. CASE Release(m) BY <1>5, <2>5 DEF Release, callVars
  <2>6. CASE Remove(m) BY <1>5, <2>6 DEF Remove, Send
  <2>7. CASE End(m) BY <1>5, <2>7 DEF End, Answered, Abandon
  <2>8. CASE Crash(m) BY <1>5, <2>8 DEF Crash, Abandon
  <2>9. CASE LoopStops(m) BY <1>5, <2>9 DEF LoopStops, callVars
  <2>10. CASE Refresh(m) BY <1>5, <2>10 DEF Refresh, Send, LoopShape, Running
  <2>11. CASE Confirmed(m) BY <1>5, <2>11 DEF Confirmed, Answered
  <2>12. CASE Unconfirmed(m) BY <1>5, <2>12 DEF Unconfirmed, Abandon
  <2>13. CASE LeaseLost(m) BY <1>5, <2>13 DEF LeaseLost, Answered, Abandon
  <2> QED
    BY <1>5, <2>1, <2>2, <2>3, <2>4, <2>5, <2>6, <2>7,
       <2>8, <2>9, <2>10, <2>11, <2>12, <2>13 DEF Connection
<1>6. CASE Tick BY <1>6 DEF Tick
<1> QED
  BY <1>1, <1>2, <1>3, <1>4, <1>5, <1>6 DEF Next, Redis

\* A handler that is gone has no command of its own under way.
THEOREM EndedSendNothing == Spec => [](\A l \in Leases : Quiet(l))
<1>1. Init => \A l \in Leases : Quiet(l)
  BY DEF Init, Quiet
<1>2. IInv /\ (\A l \in Leases : Quiet(l)) /\ [Next]_vars
        => (\A l \in Leases : Quiet(l))'
  BY QuietStep DEF vars, callVars, Quiet
<1> QED
  BY <1>1, <1>2, Inductive, PTL DEF Spec

\* What a step does to a lease whose handler is gone.
Aged(l) ==
    /\ handler'[l] = "ended"
    /\ LateOf(l)' \subseteq LateOf(l)
    /\ age'[l] < age[l] \/ l \in members' \ members => LateOf(l)' # LateOf(l)

\* A command touches no other lease, but to drop it.
LEMMA RunElsewhere ==
    ASSUME Base, NEW l \in Leases, NEW m \in Leases, m # l,
           NEW command \in Commands, Run(m, command)
    PROVE  age'[l] = age[l] /\ (l \in members' => l \in members)
BY DEF Run, Grant, Refuse, Reaped, Base, TypeOK

LEMMA AgedStep ==
    ASSUME IInv, NEW l \in Leases, Quiet(l), handler[l] = "ended", Next
    PROVE  Aged(l)
<1> USE DEF IInv, Base, TypeOK
<1>1. sent[l] = "none" /\ ~Running(l) /\ age[l] \in 0..AgeCap
  BY DEF Quiet, LoopShape
<1>2. ASSUME UNCHANGED <<age, late>>, handler'[l] = "ended", members' \subseteq members
      PROVE  Aged(l)
  BY <1>1, <1>2, LeaseConstants DEF Aged, LateOf, AgeCap
<1>3. CASE KeyExpires
  BY <1>2, <1>3 DEF KeyExpires, callVars
<1>4. ASSUME NEW m \in Leases, Execute(m) PROVE Aged(l)
  <2>1. m # l /\ sent[m] \in Commands /\ Run(m, sent[m]) /\ UNCHANGED <<handler, late>>
    BY <1>1, <1>4 DEF Execute
  <2>2. age'[l] = age[l] /\ (l \in members' => l \in members)
    BY <2>1, RunElsewhere
  <2> QED
    BY <1>1, <2>1, <2>2, LeaseConstants DEF Aged, LateOf, AgeCap
<1>5. ASSUME NEW m \in Leases, Resend(m) PROVE Aged(l)
  <2>1. m # l
    BY <1>1, <1>5 DEF Resend, InCall, Running
  <2>2. LateOf(l)' = LateOf(l)
    BY <1>5, <2>1 DEF Resend, LeaveBehind, LateOf
  <2>3. UNCHANGED <<handler, members, age>>
    BY <1>5 DEF Resend, redisVars
  <2> QED
    BY <1>1, <2>2, <2>3, LeaseConstants DEF Aged, AgeCap
<1>6. ASSUME NEW m \in Leases, NEW command \in Commands, ExecuteLate(m, command)
      PROVE  Aged(l)
  <2>1. /\ <<m, command>> \in late /\ late' = late \ {<<m, command>>}
        /\ Run(m, command) /\ UNCHANGED handler
    BY <1>6 DEF ExecuteLate
  <2>2. CASE m = l
    <3>1. LateOf(l)' \subseteq LateOf(l) /\ command \in LateOf(l) /\ command \notin LateOf(l)'
      BY <2>1, <2>2 DEF LateOf
    <3> QED
      BY <2>1, <3>1 DEF Aged
  <2>3. CASE m # l
    <3>1. age'[l] = age[l] /\ (l \in members' => l \in members)
      BY <2>1, <2>3, RunElsewhere
    <3>2. LateOf(l)' = LateOf(l)
      BY <2>1, <2>3 DEF LateOf
    <3> QED
      BY <1>1, <2>1, <3>1, <3>2, LeaseConstants DEF Aged, AgeCap
  <2> QED
    BY <2>2, <2>3
<1>7. ASSUME NEW m \in Leases, Connection(m) PROVE Aged(l)
  <2>1. m # l
    BY <1>1, <1>7
    DEF Connection, Acquire, Open, TurnAway, ClientGone, Release, Remove, End, Crash,
        LoopStops, Refresh, Confirmed, Unconfirmed, LeaseLost, Running
  <2>2. UNCHANGED <<members, age>>
    BY <1>7
    DEF Connection, Acquire, Open, TurnAway, ClientGone, Release, Remove, End, Crash,
        LoopStops, Refresh, Confirmed, Unconfirmed, LeaseLost, redisVars
  <2>3. handler'[l] = handler[l]
    BY <1>7, <2>1
    DEF Connection, Acquire, Open, TurnAway, ClientGone, Release, Remove, End, Crash,
        LoopStops, Refresh, Confirmed, Unconfirmed, LeaseLost
  <2>4. UNCHANGED late \/ LeaveBehind(m)
    BY <1>7
    DEF Connection, Acquire, Open, TurnAway, ClientGone, Release, Remove, End, Crash,
        LoopStops, Refresh, Confirmed, Unconfirmed, LeaseLost, Send, Answered, Abandon,
        callVars
  <2>5. LateOf(l)' = LateOf(l)
    BY <2>1, <2>4 DEF LeaveBehind, LateOf
  <2> QED
    BY <1>1, <2>2, <2>3, <2>5, LeaseConstants DEF Aged, AgeCap
<1>8. CASE Tick
  <2>1. age'[l] >= age[l]
    BY <1>1, <1>8, LeaseConstants DEF Tick, Older, AgeCap
  <2>2. UNCHANGED <<members, handler, late>>
    BY <1>8 DEF Tick
  <2>3. age'[l] \in Int
    BY <1>1, <1>8, LeaseConstants DEF Tick, Older, AgeCap
  <2> QED
    BY <1>1, <2>1, <2>2, <2>3, LeaseConstants DEF Aged, LateOf, AgeCap
<1> QED
  BY <1>3, <1>4, <1>5, <1>6, <1>7, <1>8 DEF Next, Redis

\* Once its handler is gone, only a command already under way renews a lease
\* or adds it, and is used up: the pair of what is under way and the lease's
\* age bounds how long it can count.
THEOREM EndedLeasesAge == Spec => EndedOnlyAges
<1>1. IInv /\ (\A l \in Leases : Quiet(l)) /\ [Next]_vars =>
        [\A l \in Leases : handler[l] = "ended" =>
           /\ handler'[l] = "ended"
           /\ LateOf(l)' \subseteq LateOf(l)
           /\ age'[l] < age[l] \/ l \in members' \ members => LateOf(l)' # LateOf(l)]_vars
  BY AgedStep DEF Aged
<1> QED
  BY <1>1, Inductive, EndedSendNothing, PTL DEF Spec, EndedOnlyAges
=============================================================================
