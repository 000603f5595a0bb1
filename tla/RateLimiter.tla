---------------------------- MODULE RateLimiter ----------------------------
(***************************************************************************)
(* The token buckets of internal/ratelimit, with the callers in            *)
(* server.go and ingest.go and the eviction on the sweeper's tick.         *)
(* Allow and Evict read the clock before they take the lock, so readings   *)
(* are applied out of order.                                               *)
(*                                                                         *)
(* Tokens are measured by the time it takes to earn them: a bucket earns 1 *)
(* per tick, one action costs Cost, which is 1/rate, and a bucket holds    *)
(* Burst, which is burst/rate.                                             *)
(***************************************************************************)
EXTENDS Clock

CONSTANTS
    Keys,      \* source addresses, or ids of inboxes
    Callers,   \* requests that may be asking at the same time
    Cost,      \* one action
    Burst,     \* a full bucket
    IdleTime,  \* idle, after which a bucket is forgotten
    MaxDelay,  \* bound on the time between a caller's reading and its lock
    Unasked    \* no reading

\* A burst is at least one action (New). Nothing ties the idle time to the time in
\* which a bucket fills: with HOOKLENS_RATE_CREATE below one inbox in three minutes
\* five tokens take longer than the fifteen minutes of Server.EvictLimiters.
ASSUME LimiterAssumption ==
    /\ Cost \in Nat \ {0}
    /\ Burst \in Nat
    /\ Burst >= Cost
    /\ MaxDelay \in Nat
    /\ IdleTime \in Nat
    /\ Unasked \notin Nat

Bucket == [tokens : 0..Burst, last : Nat]

\* How much a bucket that has been idle long enough to be forgotten may lack of a
\* burst, as seen by a late caller.
Shortfall == IF IdleTime >= Burst + MaxDelay THEN 0 ELSE Burst + MaxDelay - IdleTime

VARIABLES
    buckets,  \* Limiter.buckets
    reading,  \* per caller, its reading of the clock
    wants,    \* per caller, the key
    cutoff,   \* Evict's reading, less idle
    since,    \* history: per key, the start of the window that is looked at,
    granted,  \* what was granted since, in tokens,
    forgiven  \* and what was made up to it by forgetting its bucket

limiterVars == <<now, buckets, reading, wants, cutoff, since, granted, forgiven>>

\* Every bucket has its type, and holds no more than a burst.
LimiterTypeOK ==
    /\ ClockTypeOK
    /\ DOMAIN buckets \subseteq Keys
    /\ buckets \in [DOMAIN buckets -> Bucket]
    /\ reading \in [Callers -> Nat \cup {Unasked}]
    /\ wants \in [Callers -> Keys]
    /\ cutoff \in Nat \cup {Unasked}
    /\ since \in [Keys -> Nat]
    /\ granted \in [Keys -> Nat]
    /\ forgiven \in [Keys -> Nat]

LimiterInit ==
    /\ ClockInit
    /\ buckets = [k \in {} |-> k]
    /\ reading = [c \in Callers |-> Unasked]
    /\ wants \in [Callers -> Keys]
    /\ cutoff = Unasked
    /\ since = [k \in Keys |-> 0]
    /\ granted = [k \in Keys |-> 0]
    /\ forgiven = [k \in Keys |-> 0]

-----------------------------------------------------------------------------

\* now := l.now(), outside the lock.
Ask(c, k) ==
    /\ reading[c] = Unasked
    /\ reading' = [reading EXCEPT ![c] = now]
    /\ wants' = [wants EXCEPT ![c] = k]
    /\ UNCHANGED <<now, buckets, cutoff, since, granted, forgiven>>

\* Mutant: a reading from the past moves last back, and time is earned twice.
RefilledAnyway(b, t) ==
    [tokens |-> IF t > b.last THEN Smaller(b.tokens + (t - b.last), Burst) ELSE b.tokens,
     last |-> t]

\* The lazy refill for a reading t.
Refilled(b, t) ==
    IF t > b.last
    THEN [tokens |-> Smaller(b.tokens + (t - b.last), Burst), last |-> t]
    ELSE b

\* The bucket Allow works on; a new key's is full.
BucketFor(k, t) ==
    IF k \in DOMAIN buckets THEN Refilled(buckets[k], t)
    ELSE [tokens |-> Burst, last |-> t]

SetBucket(k, b) ==
    buckets' = [x \in DOMAIN buckets \cup {k} |-> IF x = k THEN b ELSE buckets[x]]

\* Allow, under the lock.
Allow(c) ==
    LET k == wants[c]
        b == BucketFor(k, reading[c])
    IN
    /\ reading[c] # Unasked
    /\ \/ /\ b.tokens >= Cost
          /\ SetBucket(k, [b EXCEPT !.tokens = @ - Cost])
          /\ granted' = [granted EXCEPT ![k] = @ + Cost]
       \/ /\ b.tokens < Cost
          /\ SetBucket(k, b)
          /\ UNCHANGED granted
    /\ reading' = [reading EXCEPT ![c] = Unasked]
    /\ UNCHANGED <<now, wants, cutoff, since, forgiven>>

\* Evict's reading, and then its pass over the buckets under the lock. Before a
\* time of IdleTime nothing is older than the cutoff.
EvictLimiters ==
    /\ cutoff = Unasked
    /\ now >= IdleTime
    /\ cutoff' = now - IdleTime
    /\ UNCHANGED <<now, buckets, reading, wants, since, granted, forgiven>>

Forgotten == {k \in DOMAIN buckets : buckets[k].last < cutoff}

ForgetBuckets ==
    /\ cutoff # Unasked
    /\ buckets' = [k \in DOMAIN buckets \ Forgotten |-> buckets[k]]
    /\ cutoff' = Unasked
    /\ forgiven' = [k \in Keys |-> forgiven[k] + IF k \in Forgotten THEN Shortfall ELSE 0]
    /\ UNCHANGED <<now, reading, wants, since, granted>>

\* Any moment may be the start of a window.
StartWindow(k) ==
    /\ since' = [since EXCEPT ![k] = now]
    /\ granted' = [granted EXCEPT ![k] = 0]
    /\ forgiven' = [forgiven EXCEPT ![k] = 0]
    /\ UNCHANGED <<now, buckets, reading, wants, cutoff>>

\* A caller gets from the clock to the lock within MaxDelay.
LimiterTick ==
    /\ \A c \in Callers : reading[c] # Unasked => now < reading[c] + MaxDelay
    /\ Tick
    /\ UNCHANGED <<buckets, reading, wants, cutoff, since, granted, forgiven>>

LimiterNext ==
    \/ \E c \in Callers, k \in Keys : Ask(c, k)
    \/ \E c \in Callers : Allow(c)
    \/ EvictLimiters
    \/ ForgetBuckets
    \/ \E k \in Keys : StartWindow(k)
    \/ LimiterTick

LimiterSpec == LimiterInit /\ [][LimiterNext]_limiterVars

-----------------------------------------------------------------------------
(* Properties                                                              *)

\* What a limiter is for: in any window of time a key is granted no more than a
\* burst and what the window earned, with readings out of order and buckets
\* forgotten. Late readings are worth no more than their delay, and a bucket that is
\* forgotten no more than it could lack after that idle time; that this is nothing,
\* the bucket being "certainly full" (server.go:460-463), depends on the rates that
\* are configured.
LimitHolds ==
    \A k \in Keys : granted[k] <= Burst + (now - since[k]) + MaxDelay + forgiven[k]

=============================================================================
