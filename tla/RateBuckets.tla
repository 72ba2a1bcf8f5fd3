---------------------------- MODULE RateBuckets ----------------------------
(***************************************************************************)
(* The token buckets of the operator router, and the requests that use     *)
(* them.  A request is authenticated, reads the monotonic clock, and only  *)
(* then takes the lock of the buckets; others may come in between.         *)
(*                                                                         *)
(* Sessions are numbered in the order they were issued; bucket 0 stands    *)
(* for a public one.  The access sequence of the code is kept as the order *)
(* of last use, which is all that eviction reads of it.                    *)
(***************************************************************************)
EXTENDS Integers, Sequences, SequencesExt

CONSTANTS
    Requests,
    Scale,        \* units one request costs (RATE_SCALE)
    Capacity,     \* requests a full bucket holds
    Refill,       \* units a tick brings back
    MaxBuckets,   \* MAX_PROTECTED_BUCKETS
    MaxTick,      \* bound: how far the clock runs
    MaxSessions   \* bound: sessions issued

VARIABLES
    tick,      \* the monotonic clock
    active,    \* the active session
    buckets,   \* what every bucket holds and when that was worked out
    recency,   \* protected buckets, the least recently used first
    me,        \* the requests
    fatal,     \* fatal_shutdown
    admitted   \* ghost: when the requests of a bucket were admitted

vars == <<tick, active, buckets, recency, me, fatal, admitted>>

Idle == [pc |-> "idle", key |-> 0, tick |-> 0]

Init ==
    /\ tick = 0
    /\ active = 1
    /\ buckets = <<>>
    /\ recency = <<>>
    /\ me = [q \in Requests |-> Idle]
    /\ fatal = FALSE
    /\ admitted = [k \in 0..MaxSessions |-> <<>>]

\* dispatch_inner lets it in; a protected request is authenticated as the active session.
Admit(q, key) ==
    /\ me[q].pc = "idle"
    /\ ~fatal
    /\ key \in {0, active}
    /\ me' = [me EXCEPT ![q] = [pc |-> "tick", key |-> key, tick |-> 0]]
    /\ UNCHANGED <<tick, active, buckets, recency, fatal, admitted>>

ReadTick(q) ==
    /\ me[q].pc = "tick"
    /\ me' = [me EXCEPT ![q].pc = "rate", ![q].tick = tick]
    /\ UNCHANGED <<tick, active, buckets, recency, fatal, admitted>>

Full(now) == [units |-> Capacity * Scale, last |-> now]

Least(a, b) == IF a <= b THEN a ELSE b

\* Mutant of Refilled: what a bucket gains while it rests is not capped.
RefilledUncapped(bucket, now) ==
    [units |-> bucket.units + (now - bucket.last) * Refill, last |-> now]

\* TokenBucket::consume before it takes anything.
Refilled(bucket, now) ==
    [units |-> Least(bucket.units + (now - bucket.last) * Refill, Capacity * Scale), last |-> now]

\* The bucket that makes room for a new protected one.
Victims(key) ==
    IF key # 0 /\ key \notin ToSet(recency) /\ Len(recency) >= MaxBuckets
    THEN {recency[1]} ELSE {}

\* consume_public_rate and consume_protected_rate, under the lock of the buckets.
Consume(q) ==
    LET key == me[q].key
        now == me[q].tick
        kept == [k \in (DOMAIN buckets) \ Victims(key) |-> buckets[k]]
        old == IF key \in DOMAIN buckets THEN buckets[key] ELSE Full(now)
        new == Refilled(old, now)
        put(b) == buckets' = [k \in DOMAIN kept \cup {key} |-> IF k = key THEN b ELSE kept[k]]
    IN  /\ me[q].pc = "rate"
        /\ recency' = IF key = 0 THEN recency
                      ELSE Append(SelectSeq(recency, LAMBDA k : k \notin Victims(key) \cup {key}), key)
        /\ \/ /\ now < old.last
              /\ put(old)
              /\ fatal' = TRUE
              /\ UNCHANGED admitted
           \/ /\ now >= old.last
              /\ new.units < Scale
              /\ put(new)
              /\ UNCHANGED <<fatal, admitted>>
           \/ /\ now >= old.last
              /\ new.units >= Scale
              /\ put([new EXCEPT !.units = @ - Scale])
              /\ admitted' = [admitted EXCEPT ![key] = Append(@, now)]
              /\ UNCHANGED fatal
        /\ me' = [me EXCEPT ![q] = Idle]
        /\ UNCHANGED <<tick, active>>

\* An exchange replaces the session.
ReplaceSession ==
    /\ active < MaxSessions
    /\ active' = active + 1
    /\ UNCHANGED <<tick, buckets, recency, me, fatal, admitted>>

Tick ==
    /\ tick < MaxTick
    /\ tick' = tick + 1
    /\ UNCHANGED <<active, buckets, recency, me, fatal, admitted>>

Next ==
    \/ \E q \in Requests : \/ \E key \in 0..MaxSessions : Admit(q, key)
                           \/ ReadTick(q) \/ Consume(q)
    \/ ReplaceSession
    \/ Tick

Spec == Init /\ [][Next]_vars

-----------------------------------------------------------------------------

\* Buckets hold between nothing and their capacity, and recency lists the protected ones once.
TypeOK ==
    /\ \A k \in DOMAIN buckets : buckets[k].units \in 0..(Capacity * Scale)
                                 /\ buckets[k].last \in 0..tick
    /\ ToSet(recency) = (DOMAIN buckets) \ {0}
    /\ IsInjective(recency)
    /\ Len(recency) <= MaxBuckets

\* What a window of the admissions of a bucket may have cost at most.
WithinRate(ticks) ==
    \A i \in DOMAIN ticks : \A j \in i..Len(ticks) :
        (j - i + 1) * Scale <= Capacity * Scale + (ticks[j] - ticks[i]) * Refill

\* consume: in no window of time are more requests of the public routes or of the active session
\* admitted than a full bucket and its refill over that window allow.
RateHolds == \A k \in {0, active} : WithinRate(admitted[k])

\* contracts/operator-control-plane.md 9.2 stops the process for a store, auth, environment or
\* catalog failure; here none of them fails.
NoFaultNoStop == ~fatal
=============================================================================
