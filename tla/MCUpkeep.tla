------------------------------ MODULE MCUpkeep ------------------------------
(* The parts of the server that have only the clock in common. A behaviour   *)
(* exercises one of them, which the initial state picks; the others stand    *)
(* still.                                                                    *)
EXTENDS EndpointCache, RateLimiter, LastSeen, Retention, Paging

VARIABLE part

cacheOwn     == <<inboxes, entries, lookup, changed>>
limiterOwn   == <<buckets, reading, wants, cutoff, since, granted, forgiven>>
lastSeenOwn  == <<phase, received, touched, lastSeen, delay, latest, failed>>
retentionOwn == <<retention, transaction, table, sweep, process, failures>>

vars == <<part, now, cacheOwn, limiterOwn, lastSeenOwn, retentionOwn, pagingVars>>

\* What stands still starts in one state.
Fixed ==
    /\ part # "cache" => inboxes = {}
    /\ part # "limiter" => wants \in [Callers -> {CHOOSE k \in Keys : TRUE}]
    /\ part # "retention" => retention = CHOOSE h \in Hours : TRUE

UpkeepParts == {"cache", "limiter", "lastSeen", "retention", "paging"}

\* Bounds on the clock, below MaxTime.
Horizon == [cache |-> 3, limiter |-> 6, lastSeen |-> 5, retention |-> 2, paging |-> 0]

PartsInit ==
    /\ CacheInit
    /\ LimiterInit
    /\ LastSeenInit
    /\ RetentionInit
    /\ PagingInit
    /\ Fixed

Init == part \in UpkeepParts /\ PartsInit

Next ==
    /\ UNCHANGED part
    /\ \/ /\ part = "cache" /\ CacheNext
          /\ UNCHANGED <<limiterOwn, lastSeenOwn, retentionOwn, pagingVars>>
       \/ /\ part = "limiter" /\ LimiterNext
          /\ UNCHANGED <<cacheOwn, lastSeenOwn, retentionOwn, pagingVars>>
       \/ /\ part = "lastSeen" /\ LastSeenNext
          /\ UNCHANGED <<cacheOwn, limiterOwn, retentionOwn, pagingVars>>
       \/ /\ part = "retention" /\ RetentionNext
          /\ UNCHANGED <<cacheOwn, limiterOwn, lastSeenOwn, pagingVars>>
       \/ /\ part = "paging" /\ PagingNext
          /\ UNCHANGED <<now, cacheOwn, limiterOwn, lastSeenOwn, retentionOwn>>
    /\ now' <= Horizon[part]

\* The processes of module Retention keep going.
InRetention ==
    /\ part = "retention"
    /\ UNCHANGED <<part, cacheOwn, limiterOwn, lastSeenOwn, pagingVars>>

Fairness ==
    /\ WF_vars(InRetention /\ SweeperStep)
    /\ SF_vars(InRetention /\ DeleteBatch)
    /\ SF_vars(InRetention /\ SweeperStops)
    /\ WF_vars(InRetention /\ TransactionStep)
    /\ WF_vars(InRetention /\ ProcessStep)

Spec == Init /\ [][Next]_vars /\ Fairness

\* Each part's type invariant.
TypesOK ==
    /\ CacheTypeOK
    /\ LimiterTypeOK
    /\ LastSeenTypeOK
    /\ RetentionTypeOK
    /\ PagingTypeOK

=============================================================================
