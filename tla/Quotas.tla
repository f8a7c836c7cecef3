-------------------------------- MODULE Quotas --------------------------------
(***************************************************************************)
(* One rate-limit counter of packages/quotas: a fixed window kept in the   *)
(* process (memory store), or in Redis by INCR, EXPIRE and TTL, each a     *)
(* command of its own that other replicas' commands come between and that  *)
(* may fail.  A request that meets a failing store is let through.         *)
(***************************************************************************)
EXTENDS Integers, FiniteSets

CONSTANTS
    Hits,           \* requests that count against the one key
    QuotaLimit,     \* policy.limit
    Window,         \* policy.windowSeconds
    MaxClock        \* bound: seconds

ASSUME QuotaAssumption ==
    /\ IsFiniteSet(Hits)
    /\ {QuotaLimit, Window} \subseteq Nat \ {0}
    /\ MaxClock \in Nat

VARIABLES
    kept,           \* which store keeps the counter
    counter,        \* its count and the time it expires, 0 when there is none
    clock,
    hit,            \* the requests
    stuck           \* history: a request stopped between INCR and EXPIRE

quotaVars == <<kept, counter, clock, hit, stuck>>

\* A key without EXPIRE.
Unending == MaxClock + Window + 1

NoCounter == [count |-> 0, expires |-> 0]

NewHit == [pc |-> "new", count |-> 0, at |-> 0, until |-> 0, unset |-> FALSE]

QuotaInit ==
    /\ kept \in {"memory", "redis"}
    /\ counter = NoCounter
    /\ clock = 0
    /\ hit = [h \in Hits |-> NewHit]
    /\ stuck = FALSE

\* Mutant: seconds are compared with milliseconds, every window seems over.
Forgotten == NoCounter

\* Redis forgets an expired key by itself; the memory store at the next hit.
Current == IF counter.expires <= clock THEN NoCounter ELSE counter

\* consume's verdict; until: when the caller may try again.
Verdict(h, count, ttl) ==
    IF count <= QuotaLimit
    THEN [h EXCEPT !.pc = "allowed", !.count = count]
    ELSE [h EXCEPT !.pc = "refused", !.count = count, !.until = clock + ttl]

-----------------------------------------------------------------------------
\* createMemoryQuotaStore: one synchronous step.
MemoryHit(h) ==
    /\ hit[h].pc = "new" /\ kept = "memory"
    /\ counter' = [count |-> Current.count + 1,
                   expires |-> IF Current.count = 0 THEN clock + Window ELSE counter.expires]
    /\ hit' = [hit EXCEPT ![h] = Verdict([@ EXCEPT !.at = clock], counter'.count,
                                         counter'.expires - clock)]
    /\ UNCHANGED <<kept, clock, stuck>>

\* INCR: a key it creates has no expiry until the one who got 1 sets it.
Incr(h) ==
    /\ hit[h].pc = "new" /\ kept = "redis"
    /\ counter' = [count |-> Current.count + 1,
                   expires |-> IF Current.count = 0 THEN Unending ELSE counter.expires]
    /\ hit' = [hit EXCEPT ![h] = [@ EXCEPT !.pc = IF counter'.count = 1 THEN "expire" ELSE "ttl",
                                          !.count = counter'.count, !.at = clock]]
    /\ UNCHANGED <<kept, clock, stuck>>

\* EXPIRE
Expire(h) ==
    /\ hit[h].pc = "expire"
    /\ counter' = [counter EXCEPT !.expires = clock + Window]
    /\ hit' = [hit EXCEPT ![h].pc = "ttl"]
    /\ UNCHANGED <<kept, clock, stuck>>

\* TTL: without an answer above zero the whole window is told.
ReadTtl(h) ==
    /\ hit[h].pc = "ttl"
    /\ LET unset == Current.expires \in {0, Unending} IN
          hit' = [hit EXCEPT ![h] =
                    Verdict([@ EXCEPT !.unset = unset], @.count,
                            IF unset THEN Window ELSE Current.expires - clock)]
    /\ UNCHANGED <<kept, counter, clock, stuck>>

\* The store throws before, or the replica stops after, a command: failOpen.
StoreFails(h) ==
    /\ kept = "redis"
    /\ hit[h].pc \in {"new", "expire", "ttl"}
    /\ hit' = [hit EXCEPT ![h].pc = "degraded"]
    /\ stuck' = (stuck \/ hit[h].pc = "expire")
    /\ UNCHANGED <<kept, counter, clock>>

Tick ==
    /\ clock < MaxClock
    /\ clock' = clock + 1
    /\ counter' = IF kept = "redis" /\ counter.expires <= clock' THEN NoCounter ELSE counter
    /\ UNCHANGED <<kept, hit, stuck>>

QuotaNext ==
    \/ \E h \in Hits : MemoryHit(h) \/ Incr(h) \/ Expire(h) \/ ReadTtl(h) \/ StoreFails(h)
    \/ Tick
    \/ clock = MaxClock /\ UNCHANGED quotaVars

QuotaSpec == QuotaInit /\ [][QuotaNext]_quotaVars

-----------------------------------------------------------------------------
\* Types; a counter that is there expires, at the latest never.
QuotaTypeOK ==
    /\ counter.count \in 0..Cardinality(Hits)
    /\ counter.expires \in 0..Unending
    /\ counter.count = 0 <=> counter.expires = 0
    /\ \A h \in Hits : hit[h].pc \in {"new", "expire", "ttl", "allowed", "refused", "degraded"}

\* What a fixed window promises at any moment: a span as long as the window
\* touches two windows at most, hence no more than twice the limit pass in it.
\* The degraded ones are not counted.
TwiceTheLimit ==
    \A h \in Hits :
       Cardinality({g \in Hits : /\ hit[g].pc = "allowed"
                                 /\ hit[g].at \in hit[h].at..(hit[h].at + Window - 1)})
          <= 2 * QuotaLimit

\* Retry-After is enough: the counter that refused a request is over when the
\* time it was told is.  Not so for one refused before the first hit's EXPIRE.
RetryIsEnough ==
    \A h \in Hits :
       hit[h].pc = "refused" /\ ~hit[h].unset /\ hit[h].until <= clock
          => Current.count = 0 \/ \E g \in Hits : hit[g].at >= hit[h].until /\ hit[g].count = 1

\* A key that never expires refuses its caller for good once the limit is
\* reached: it exists only while the request that created it has yet to set the
\* expiry, or once one stopped just there.
EveryWindowEnds ==
    counter.expires = Unending => stuck \/ \E h \in Hits : hit[h].pc = "expire"

-----------------------------------------------------------------------------
\* Of the request quota: no span of a window admits more than twice the limit,
\* Retry-After suffices, and every window ends.
QuotaRules ==
    /\ QuotaTypeOK
    /\ TwiceTheLimit
    /\ RetryIsEnough
    /\ EveryWindowEnds
=============================================================================
