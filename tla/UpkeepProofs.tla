---------------------------- MODULE UpkeepProofs ----------------------------
(***************************************************************************)
(* The parts of the server that have only the clock in common, each on its *)
(* own and then side by side as module MCUpkeep has them.                  *)
(***************************************************************************)
EXTENDS MCUpkeep, FiniteInduction, FiniteSetTheorems, TLAPS

-----------------------------------------------------------------------------
(***************************************************************************)
(* The inbox cache: how full and how stale it can get, for every time to   *)
(* live, cap and number of requests that resolve at the same time.         *)
(***************************************************************************)

\* What a lookup that overlaps a change knows: an answer that has become wrong
\* was given before the change, and not longer than MaxLookup ago.
Lookups ==
    \A r \in Resolvers :
        /\ at[r] # "idle" => slug[r] \in Slugs
        /\ at[r] = "put" =>
             /\ asked[r] <= now
             /\ now <= asked[r] + MaxLookup
             /\ answer[r] # (slug[r] \in inboxes) => asked[r] <= changed[slug[r]]

\* Nothing lives longer than its time to live from now, right or wrong.
Lives == \A s \in DOMAIN entries : entries[s].expires <= now + TTL(entries[s].found)

CacheInv ==
    /\ CacheTypeOK
    /\ \A s \in Slugs : changed[s] <= now
    /\ Lookups
    /\ Lives
    /\ StalenessIsBounded

-----------------------------------------------------------------------------
(* The map                                                                 *)

\* A time to live is a natural number.
LEMMA TTLType == ASSUME NEW f \in BOOLEAN PROVE TTL(f) \in Nat
  BY CacheAssumption DEF CacheAssumption, TTL

\* Taking keys away leaves a map of its type that is no larger, and is smaller
\* when it has changed.
LEMMA FewerKeys ==
    ASSUME CacheTypeOK, NEW gone
    PROVE  /\ DOMAIN Without(gone) \subseteq DOMAIN entries
           /\ \A s \in DOMAIN Without(gone) : Without(gone)[s] = entries[s]
           /\ Without(gone) \in [DOMAIN Without(gone) -> Entry]
           /\ IsFiniteSet(DOMAIN Without(gone))
           /\ Cardinality(DOMAIN Without(gone)) \in Nat
           /\ Cardinality(DOMAIN Without(gone)) <= MaxEntries
           /\ Without(gone) # entries =>
                Cardinality(DOMAIN Without(gone)) < MaxEntries
  <1> DEFINE w == Without(gone)
  <1>1. /\ DOMAIN w = DOMAIN entries \ gone
        /\ \A s \in DOMAIN w : w[s] = entries[s]
        /\ w \in [DOMAIN w -> Entry]
    BY DEF Without, CacheTypeOK
  <1>2. IsFiniteSet(DOMAIN entries) /\ Cardinality(DOMAIN entries) <= MaxEntries
    BY DEF CacheTypeOK
  <1>3. Cardinality(DOMAIN entries) \in Nat
    BY <1>2, FS_CardinalityType
  <1>4. DOMAIN w \in SUBSET DOMAIN entries
    BY <1>1
  <1> HIDE DEF w
  <1>5. /\ IsFiniteSet(DOMAIN w)
        /\ Cardinality(DOMAIN w) <= Cardinality(DOMAIN entries)
        /\ Cardinality(DOMAIN entries) = Cardinality(DOMAIN w)
             => DOMAIN entries = DOMAIN w
    BY <1>2, <1>4, FS_Subset
  <1>6. Cardinality(DOMAIN w) \in Nat
    BY <1>5, FS_CardinalityType
  <1>7. w # entries => DOMAIN entries # DOMAIN w
    <2>1. DOMAIN entries = DOMAIN w => w = entries
      <3>1. entries \in [DOMAIN entries -> Entry]
        BY DEF CacheTypeOK
      <3> QED  BY <1>1, <3>1
    <2> QED  BY <2>1
  <1>8. MaxEntries \in Nat
    BY CacheAssumption DEF CacheAssumption
  <1> QED  BY <1>1, <1>2, <1>3, <1>4, <1>5, <1>6, <1>7, <1>8 DEF w

\* An entry that put admits fits.
LEMMA RoomForPut ==
    ASSUME CacheTypeOK, Admits, NEW s
    PROVE  /\ IsFiniteSet(DOMAIN MadeRoom \cup {s})
           /\ Cardinality(DOMAIN MadeRoom \cup {s}) <= MaxEntries
  <1>1. MaxEntries \in Nat
    BY CacheAssumption DEF CacheAssumption
  <1>2. /\ IsFiniteSet(DOMAIN MadeRoom)
        /\ Cardinality(DOMAIN MadeRoom) \in Nat
        /\ Cardinality(DOMAIN MadeRoom) < MaxEntries
    <2>1. CASE Cardinality(DOMAIN entries) < MaxEntries
      <3>1. IsFiniteSet(DOMAIN entries) /\ MadeRoom = entries
        BY <2>1 DEF MadeRoom, CacheTypeOK
      <3> QED  BY <2>1, <3>1, FS_CardinalityType
    <2>2. CASE ~(Cardinality(DOMAIN entries) < MaxEntries)
      BY <2>2, FewerKeys DEF MadeRoom, Admits
    <2> QED  BY <2>1, <2>2
  <1>3. /\ IsFiniteSet(DOMAIN MadeRoom \cup {s})
        /\ Cardinality(DOMAIN MadeRoom \cup {s}) =
             IF s \in DOMAIN MadeRoom THEN Cardinality(DOMAIN MadeRoom)
             ELSE Cardinality(DOMAIN MadeRoom) + 1
    BY <1>2, FS_AddElement
  <1> QED  BY <1>1, <1>2, <1>3

\* Entries that make room for another were there before.
LEMMA RoomIsOld ==
    ASSUME CacheTypeOK
    PROVE  /\ DOMAIN MadeRoom \subseteq DOMAIN entries
           /\ \A s \in DOMAIN MadeRoom : MadeRoom[s] = entries[s]
  BY FewerKeys DEF MadeRoom

\* Dropping entries, and nothing else, keeps what is said of each.
LEMMA DropKeeps ==
    ASSUME CacheInv, NEW gone, entries' = Without(gone),
           UNCHANGED <<now, inboxes, changed>>
    PROVE  Lives' /\ StalenessIsBounded'
  BY FewerKeys DEF CacheInv, Lives, StalenessIsBounded, TTL

-----------------------------------------------------------------------------

\* The initial states satisfy the inductive invariant.
THEOREM CacheInit_Inv == CacheInit => CacheInv
  <1> SUFFICES ASSUME CacheInit PROVE CacheInv
    OBVIOUS
  <1> USE CacheAssumption, ClockAssumption DEF CacheAssumption, ClockAssumption
  <1>1. CacheTypeOK
    <2>1. DOMAIN entries = {}
      BY DEF CacheInit
    <2>2. IsFiniteSet(DOMAIN entries) /\ Cardinality(DOMAIN entries) <= MaxEntries
      BY <2>1, FS_EmptySet
    <2> QED  BY <2>1, <2>2 DEF CacheInit, CacheTypeOK, ClockInit, ClockTypeOK
  <1> QED  BY <1>1 DEF CacheInit, CacheInv, ClockInit, Lookups, Lives, StalenessIsBounded

\* Change keeps the inductive invariant.
LEMMA ChangeKeeps ==
    ASSUME CacheInv, NEW c \in Slugs, ChangeInbox(c)
    PROVE  CacheInv'
  <1> USE CacheAssumption, ClockAssumption DEF CacheAssumption, ClockAssumption
  <1>1. CacheTypeOK'
    BY DEF CacheInv, CacheTypeOK, ClockTypeOK, ChangeInbox, lookup
  <1>2. \A s \in Slugs : changed'[s] <= now'
    BY DEF CacheInv, CacheTypeOK, ClockTypeOK, ChangeInbox
  <1>3. Lookups'
    BY DEF CacheInv, CacheTypeOK, ClockTypeOK, ChangeInbox, lookup, Lookups
  <1>4. Lives'
    BY DEF CacheInv, ChangeInbox, Lives, TTL
  <1>5. StalenessIsBounded'
    <2> SUFFICES ASSUME NEW s \in DOMAIN entries, entries[s].found # (s \in inboxes')
                 PROVE  entries[s].expires
                          <= changed'[s] + MaxLookup + TTL(entries[s].found)
      BY DEF StalenessIsBounded, ChangeInbox, TTL
    <2>1. /\ s \in Slugs
          /\ entries[s].expires \in Nat
          /\ TTL(entries[s].found) \in Nat
          /\ now \in Nat
          /\ entries[s].expires <= now + TTL(entries[s].found)
      BY TTLType DEF CacheInv, CacheTypeOK, ClockTypeOK, Entry, Lives
    <2>2. CASE s = c
      <3>1. changed'[s] = now
        BY <2>1, <2>2 DEF ChangeInbox, CacheInv, CacheTypeOK
      <3> QED  BY <2>1, <3>1
    <2>3. CASE s # c
      BY <2>1, <2>3 DEF ChangeInbox, CacheInv, CacheTypeOK, StalenessIsBounded
    <2> QED  BY <2>2, <2>3
  <1> QED  BY <1>1, <1>2, <1>3, <1>4, <1>5 DEF CacheInv

\* Miss keeps the inductive invariant.
LEMMA MissKeeps ==
    ASSUME CacheInv, NEW r \in Resolvers, NEW s \in Slugs, Miss(r, s)
    PROVE  CacheInv'
  <1>1. CacheTypeOK'
    BY FewerKeys DEF CacheInv, CacheTypeOK, ClockTypeOK, Miss
  <1>2. Lookups'
    BY DEF CacheInv, CacheTypeOK, Miss, Lookups
  <1>3. Lives' /\ StalenessIsBounded'
    BY DropKeeps DEF Miss
  <1> QED  BY <1>1, <1>2, <1>3 DEF CacheInv, Miss

\* Query keeps the inductive invariant.
LEMMA QueryKeeps ==
    ASSUME CacheInv, NEW r \in Resolvers, Query(r)
    PROVE  CacheInv'
  <1> USE CacheAssumption, ClockAssumption DEF CacheAssumption, ClockAssumption
  <1>1. CacheTypeOK'
    <2>1. UNCHANGED <<now, inboxes, entries, changed>>
      BY DEF Query
    <2>2. /\ at' \in [Resolvers -> {"idle", "query", "put"}]
          /\ slug' \in [Resolvers -> Slugs \cup {NoSlug}]
          /\ answer' \in [Resolvers -> BOOLEAN]
          /\ asked' \in [Resolvers -> Nat]
      <3>1. CASE at' = [at EXCEPT ![r] = "put"]
                  /\ answer' = [answer EXCEPT ![r] = slug[r] \in inboxes]
                  /\ asked' = [asked EXCEPT ![r] = now]
                  /\ slug' = slug
        <4>1. (slug[r] \in inboxes) \in BOOLEAN
          OBVIOUS
        <4>2. answer' \in [Resolvers -> BOOLEAN]
          BY <3>1, <4>1, Zenon DEF CacheInv, CacheTypeOK
        <4>3. now \in Nat
          BY DEF CacheInv, CacheTypeOK, ClockTypeOK
        <4> QED  BY <3>1, <4>2, <4>3 DEF CacheInv, CacheTypeOK
      <3>2. CASE at' = [at EXCEPT ![r] = "idle"] /\ slug' = [slug EXCEPT ![r] = NoSlug]
                  /\ answer' = answer /\ asked' = asked
        BY <3>2 DEF CacheInv, CacheTypeOK
      <3> QED  BY <3>1, <3>2 DEF Query, AfterFailure
    <2> QED  BY <2>1, <2>2 DEF CacheInv, CacheTypeOK, ClockTypeOK
  <1>2. Lookups'
    BY DEF CacheInv, CacheTypeOK, ClockTypeOK, Query, AfterFailure, Lookups
  <1>3. Lives' /\ StalenessIsBounded'
    BY DEF CacheInv, Query, Lives, StalenessIsBounded, TTL
  <1> QED  BY <1>1, <1>2, <1>3 DEF CacheInv, Query

\* An answer is installed no later than MaxLookup after it was given, so a wrong
\* one lives no longer than that and its time to live after the change.
LEMMA PutKeeps ==
    ASSUME CacheInv, NEW r \in Resolvers, Put(r)
    PROVE  CacheInv'
  <1> USE CacheAssumption, ClockAssumption DEF CacheAssumption, ClockAssumption
  <1> DEFINE new == [found |-> answer[r], expires |-> now + TTL(answer[r])]
  <1>1. /\ slug[r] \in Slugs /\ answer[r] \in BOOLEAN /\ asked[r] \in Nat
        /\ now \in Nat /\ asked[r] <= now /\ now <= asked[r] + MaxLookup
        /\ answer[r] # (slug[r] \in inboxes) => asked[r] <= changed[slug[r]]
        /\ changed[slug[r]] \in Nat
        /\ TTL(answer[r]) \in Nat
    BY TTLType DEF CacheInv, CacheTypeOK, ClockTypeOK, Lookups, Put
  <1>2. new \in Entry
    BY <1>1 DEF Entry
  <1>3. /\ UNCHANGED <<now, inboxes, changed>>
        /\ at' = [at EXCEPT ![r] = "idle"]
        /\ slug' = [slug EXCEPT ![r] = NoSlug]
        /\ answer' = [answer EXCEPT ![r] = FALSE]
        /\ asked' = [asked EXCEPT ![r] = 0]
    BY DEF Put
  <1>4. \/ entries' = entries
        \/ /\ Admits
           /\ entries' = [s \in DOMAIN MadeRoom \cup {slug[r]} |->
                            IF s = slug[r] THEN new ELSE MadeRoom[s]]
    BY DEF Put
  <1>5. /\ \A s \in DOMAIN entries' :
             \/ s \in DOMAIN entries /\ entries'[s] = entries[s]
             \/ s = slug[r] /\ entries'[s] = new
        /\ DOMAIN entries' \subseteq Slugs
        /\ entries' \in [DOMAIN entries' -> Entry]
        /\ IsFiniteSet(DOMAIN entries')
        /\ Cardinality(DOMAIN entries') <= MaxEntries
    <2>1. CASE entries' = entries
      BY <2>1 DEF CacheInv, CacheTypeOK
    <2>2. CASE Admits /\ entries' = [s \in DOMAIN MadeRoom \cup {slug[r]} |->
                                       IF s = slug[r] THEN new ELSE MadeRoom[s]]
      <3> HIDE DEF new
      <3>1. DOMAIN entries' = DOMAIN MadeRoom \cup {slug[r]}
        BY <2>2
      <3>2. IsFiniteSet(DOMAIN entries') /\ Cardinality(DOMAIN entries') <= MaxEntries
        BY <2>2, <3>1, RoomForPut DEF CacheInv
      <3>3. \A s \in DOMAIN entries' :
              \/ s \in DOMAIN entries /\ entries'[s] = entries[s]
              \/ s = slug[r] /\ entries'[s] = new
        BY <2>2, <3>1, RoomIsOld DEF CacheInv
      <3>4. DOMAIN entries' \subseteq Slugs /\ entries' \in [DOMAIN entries' -> Entry]
        BY <1>1, <1>2, <2>2, <3>1, <3>3 DEF CacheInv, CacheTypeOK
      <3> QED  BY <3>2, <3>3, <3>4
    <2> QED  BY <1>4, <2>1, <2>2
  <1>6. CacheTypeOK'
    BY <1>1, <1>3, <1>5 DEF CacheInv, CacheTypeOK, ClockTypeOK
  <1>7. Lookups'
    BY <1>1, <1>3 DEF CacheInv, CacheTypeOK, Lookups
  <1>8. Lives'
    <2> SUFFICES ASSUME NEW s \in DOMAIN entries'
                 PROVE  entries'[s].expires <= now + TTL(entries'[s].found)
      BY <1>3 DEF Lives, TTL
    <2>1. CASE s \in DOMAIN entries /\ entries'[s] = entries[s]
      BY <2>1 DEF CacheInv, Lives
    <2>2. CASE s = slug[r] /\ entries'[s] = new
      BY <1>1, <2>2
    <2> QED  BY <1>5, <2>1, <2>2
  <1>9. StalenessIsBounded'
    <2> SUFFICES ASSUME NEW s \in DOMAIN entries', entries'[s].found # (s \in inboxes)
                 PROVE  entries'[s].expires
                          <= changed[s] + MaxLookup + TTL(entries'[s].found)
      BY <1>3 DEF StalenessIsBounded, TTL
    <2>1. CASE s \in DOMAIN entries /\ entries'[s] = entries[s]
      BY <2>1 DEF CacheInv, StalenessIsBounded
    <2>2. CASE s = slug[r] /\ entries'[s] = new
      BY <1>1, <2>2
    <2> QED  BY <1>5, <2>1, <2>2
  <1> QED  BY <1>3, <1>6, <1>7, <1>8, <1>9 DEF CacheInv

\* EvictExpired keeps the inductive invariant.
LEMMA EvictExpiredKeeps ==
    ASSUME CacheInv, EvictExpired
    PROVE  CacheInv'
  <1>1. CacheTypeOK'
    BY FewerKeys DEF CacheInv, CacheTypeOK, ClockTypeOK, EvictExpired, lookup
  <1>2. Lookups'
    BY DEF CacheInv, EvictExpired, lookup, Lookups
  <1>3. Lives' /\ StalenessIsBounded'
    BY DropKeeps DEF EvictExpired
  <1> QED  BY <1>1, <1>2, <1>3 DEF CacheInv, EvictExpired

\* CacheTick keeps the inductive invariant.
LEMMA CacheTickKeeps ==
    ASSUME CacheInv, CacheTick
    PROVE  CacheInv'
  <1> USE CacheAssumption, ClockAssumption DEF CacheAssumption, ClockAssumption
  <1>1. now \in Nat /\ now' = now + 1 /\ now < MaxTime
    BY DEF CacheInv, CacheTypeOK, ClockTypeOK, CacheTick, Tick
  <1>2. CacheTypeOK'
    BY <1>1 DEF CacheInv, CacheTypeOK, ClockTypeOK, CacheTick, lookup
  <1>3. \A s \in Slugs : changed'[s] <= now'
    BY <1>1 DEF CacheInv, CacheTypeOK, CacheTick
  <1>4. Lookups'
    BY <1>1 DEF CacheInv, CacheTypeOK, CacheTick, lookup, Lookups
  <1>5. Lives'
    <2> SUFFICES ASSUME NEW s \in DOMAIN entries
                 PROVE  entries[s].expires <= now' + TTL(entries[s].found)
      BY DEF Lives, CacheTick, TTL
    <2>1. /\ entries[s].expires \in Nat
          /\ TTL(entries[s].found) \in Nat
          /\ entries[s].expires <= now + TTL(entries[s].found)
      BY TTLType DEF CacheInv, CacheTypeOK, Entry, Lives
    <2> QED  BY <1>1, <2>1
  <1>6. StalenessIsBounded'
    BY DEF CacheInv, CacheTick, StalenessIsBounded, TTL
  <1> QED  BY <1>2, <1>3, <1>4, <1>5, <1>6 DEF CacheInv

\* Every step keeps the map within its cap and every wrong entry within its bound.
THEOREM CacheStep_Inv == CacheInv /\ [CacheNext]_cacheVars => CacheInv'
  <1> SUFFICES ASSUME CacheInv, [CacheNext]_cacheVars
               PROVE  CacheInv'
    OBVIOUS
  <1>1. CASE \E s \in Slugs : ChangeInbox(s)
    BY <1>1, ChangeKeeps
  <1>2. CASE \E r \in Resolvers, s \in Slugs : Miss(r, s)
    BY <1>2, MissKeeps
  <1>3. CASE \E r \in Resolvers : Query(r) \/ Put(r)
    BY <1>3, QueryKeeps, PutKeeps
  <1>4. CASE EvictExpired
    BY <1>4, EvictExpiredKeeps
  <1>5. CASE CacheTick
    BY <1>5, CacheTickKeeps
  <1>6. CASE UNCHANGED cacheVars
    BY <1>6 DEF cacheVars, lookup, CacheInv, CacheTypeOK, ClockTypeOK, Lookups, Lives,
                StalenessIsBounded, TTL
  <1> QED  BY <1>1, <1>2, <1>3, <1>4, <1>5, <1>6 DEF CacheNext

\* The cache holds no more than maxEndpointEntries, and nothing but entries:
\* put counts before it admits (cache.go:120-150).
THEOREM CacheIsBounded == CacheSpec => []CacheTypeOK
  <1>1. CacheInv => CacheTypeOK
    BY DEF CacheInv
  <1> QED  BY <1>1, CacheInit_Inv, CacheStep_Inv, PTL DEF CacheSpec

\* However lookups, creations, deletions and evictions overlap, an entry that
\* has become wrong outlives the change by no more than its time to live and the
\* time a lookup takes (cache.go:16-34, 203-234).
THEOREM CacheIsFresh == CacheSpec => []StalenessIsBounded
  <1>1. CacheInv => StalenessIsBounded
    BY DEF CacheInv
  <1> QED  BY <1>1, CacheInit_Inv, CacheStep_Inv, PTL DEF CacheSpec

-----------------------------------------------------------------------------
(***************************************************************************)
(* The rate limiter: the limit holds, for every rate, burst and idle time. *)
(* The argument is an account: what a key was granted in the window, and   *)
(* what its bucket is worth now, is never more than a burst, what the      *)
(* window earned and what forgetting the bucket made up.                   *)
(***************************************************************************)

\* What a bucket can be worth to a late reader, and what the window allows.
Cap == Burst + MaxDelay

Allowance(k) == Burst + (now - since[k]) + MaxDelay + forgiven[k]

Worth(k) == buckets[k].tokens + (now - buckets[k].last)

\* Readings are late by no more than MaxDelay; no bucket is from the future.
Punctual ==
    /\ \A c \in Callers :
         reading[c] # Unasked => reading[c] <= now /\ now <= reading[c] + MaxDelay
    /\ \A k \in DOMAIN buckets : buckets[k].last <= now
    /\ \A k \in Keys : since[k] <= now
    /\ cutoff # Unasked => cutoff + IdleTime <= now

\* The account of each key. One without a bucket is worth a full one.
Account ==
    \A k \in Keys :
        /\ k \in DOMAIN buckets =>
             \/ granted[k] + Worth(k) <= Allowance(k)
             \/ granted[k] + Cap <= Allowance(k)
        /\ k \notin DOMAIN buckets => granted[k] <= now - since[k] + forgiven[k]

LimiterInv == LimiterTypeOK /\ Punctual /\ Account

-----------------------------------------------------------------------------

\* A refill leaves a bucket of its type, no newer than now, whose worth to a
\* late reader is at most Cap and has not grown.
LEMMA RefilledBucket ==
    ASSUME NEW b \in Bucket, NEW t \in Nat, now \in Nat, b.last <= now, t <= now,
           now <= t + MaxDelay
    PROVE  /\ Refilled(b, t) \in Bucket
           /\ Refilled(b, t).last <= now
           /\ Refilled(b, t).tokens + (now - Refilled(b, t).last) <= Cap
           /\ Refilled(b, t).tokens + (now - Refilled(b, t).last)
                <= b.tokens + (now - b.last)
  <1> USE LimiterAssumption DEF LimiterAssumption
  <1>1. CASE t > b.last
    <2> DEFINE n == Smaller(b.tokens + (t - b.last), Burst)
    <2>0. b.tokens \in Nat /\ b.last \in Nat /\ b.tokens <= Burst
      BY DEF Bucket
    <2>1. n \in 0..Burst /\ n <= b.tokens + (t - b.last)
      BY <1>1, <2>0 DEF Smaller
    <2>2. Refilled(b, t) = [tokens |-> n, last |-> t]
      BY <1>1 DEF Refilled
    <2> HIDE DEF n
    <2>3. Refilled(b, t) \in Bucket /\ Refilled(b, t).last = t /\ Refilled(b, t).tokens = n
      BY <2>1, <2>2 DEF Bucket
    <2> QED  BY <2>0, <2>1, <2>3 DEF Cap
  <1>2. CASE ~(t > b.last)
    BY <1>2 DEF Refilled, Bucket, Cap
  <1> QED  BY <1>1, <1>2

\* The bucket that Allow works on keeps the key's account.
LEMMA WorkingBucket ==
    ASSUME LimiterInv, NEW k \in Keys, NEW t \in Nat, t <= now, now <= t + MaxDelay
    PROVE  /\ BucketFor(k, t) \in Bucket
           /\ BucketFor(k, t).last <= now
           /\ granted[k] + BucketFor(k, t).tokens + (now - BucketFor(k, t).last)
                <= Allowance(k)
  <1> USE LimiterAssumption DEF LimiterAssumption
  <1> now \in Nat /\ granted[k] \in Nat /\ since[k] \in Nat /\ forgiven[k] \in Nat
    BY DEF LimiterInv, LimiterTypeOK, ClockTypeOK, ClockAssumption
  <1>1. CASE k \in DOMAIN buckets
    <2>1. buckets[k] \in Bucket /\ buckets[k].last <= now
      BY <1>1 DEF LimiterInv, LimiterTypeOK, Punctual
    <2>2. BucketFor(k, t) = Refilled(buckets[k], t)
      BY <1>1 DEF BucketFor
    <2> DEFINE r == Refilled(buckets[k], t)
    <2>3. /\ r \in Bucket
          /\ r.last <= now
          /\ r.tokens + (now - r.last) <= Cap
          /\ r.tokens + (now - r.last) <= Worth(k)
      BY <2>1, RefilledBucket DEF Worth
    <2>4. \/ granted[k] + Worth(k) <= Allowance(k)
          \/ granted[k] + Cap <= Allowance(k)
      BY <1>1 DEF LimiterInv, Account
    <2> HIDE DEF r
    <2>5. granted[k] + r.tokens + (now - r.last) <= Allowance(k)
      BY <2>1, <2>3, <2>4 DEF Cap, Worth, Allowance, Bucket
    <2> QED  BY <2>2, <2>3, <2>5 DEF r
  <1>2. CASE k \notin DOMAIN buckets
    <2>1. BucketFor(k, t) = [tokens |-> Burst, last |-> t]
      BY <1>2 DEF BucketFor
    <2>2. granted[k] <= now - since[k] + forgiven[k]
      BY <1>2 DEF LimiterInv, Account
    <2> QED  BY <2>1, <2>2 DEF Bucket, Allowance
  <1> QED  BY <1>1, <1>2

\* A step that keeps buckets, grants, readings and windows keeps the account.
LEMMA AccountKept ==
    ASSUME LimiterInv, now' = now, buckets' = buckets, granted' = granted, since' = since,
           forgiven' = forgiven
    PROVE  Account'
  <1> QED  BY DEF LimiterInv, Account, Worth, Allowance

\* The initial states satisfy the inductive invariant.
THEOREM LimiterInit_Inv == LimiterInit => LimiterInv
  <1> SUFFICES ASSUME LimiterInit
               PROVE  LimiterInv
    OBVIOUS
  <1> USE LimiterAssumption, ClockAssumption DEF LimiterAssumption, ClockAssumption
  <1>1. LimiterTypeOK
    BY DEF LimiterInit, LimiterTypeOK, ClockInit, ClockTypeOK, Bucket
  <1>2. Punctual
    BY DEF LimiterInit, Punctual, ClockInit
  <1>3. Account
    BY DEF LimiterInit, Account, ClockInit
  <1> QED  BY <1>1, <1>2, <1>3 DEF LimiterInv

\* Ask keeps the inductive invariant.
LEMMA AskKeeps ==
    ASSUME LimiterInv, NEW c \in Callers, NEW k \in Keys, Ask(c, k)
    PROVE  LimiterInv'
  <1> USE LimiterAssumption, ClockAssumption DEF LimiterAssumption, ClockAssumption
  <1>1. LimiterTypeOK'
    BY DEF LimiterInv, LimiterTypeOK, ClockTypeOK, Ask
  <1>2. Punctual'
    BY DEF LimiterInv, LimiterTypeOK, ClockTypeOK, Punctual, Ask
  <1>3. Account'
    BY AccountKept DEF Ask
  <1> QED  BY <1>1, <1>2, <1>3 DEF LimiterInv

\* Allow keeps the inductive invariant.
LEMMA AllowKeeps ==
    ASSUME LimiterInv, NEW c \in Callers, Allow(c)
    PROVE  LimiterInv'
  <1> USE LimiterAssumption, ClockAssumption DEF LimiterAssumption, ClockAssumption
  <1> DEFINE k == wants[c]
             t == reading[c]
             b == BucketFor(k, t)
             kept == IF b.tokens >= Cost THEN [b EXCEPT !.tokens = @ - Cost] ELSE b
  <1>1. k \in Keys /\ t \in Nat /\ t <= now /\ now <= t + MaxDelay /\ now \in Nat
    BY DEF LimiterInv, LimiterTypeOK, ClockTypeOK, Punctual, Allow
  <1>2. /\ b \in Bucket
        /\ b.last <= now
        /\ granted[k] + b.tokens + (now - b.last) <= Allowance(k)
    BY <1>1, WorkingBucket
  <1>3. /\ buckets' = [x \in DOMAIN buckets \cup {k} |-> IF x = k THEN kept ELSE buckets[x]]
        /\ granted' = [granted EXCEPT ![k] = IF b.tokens >= Cost THEN @ + Cost ELSE @]
        /\ reading' = [reading EXCEPT ![c] = Unasked]
        /\ UNCHANGED <<now, wants, cutoff, since, forgiven>>
    <2>1. CASE b.tokens >= Cost /\ SetBucket(k, [b EXCEPT !.tokens = @ - Cost])
                /\ granted' = [granted EXCEPT ![k] = @ + Cost]
      BY <2>1 DEF Allow, SetBucket
    <2>2. CASE b.tokens < Cost /\ SetBucket(k, b) /\ UNCHANGED granted
      <3>1. ~(b.tokens >= Cost)
        BY <1>2, <2>2 DEF Bucket
      <3>2. granted' = [granted EXCEPT ![k] = granted[k]]
        BY <1>1, <2>2 DEF LimiterInv, LimiterTypeOK
      <3> QED  BY <2>2, <3>1, <3>2 DEF Allow, SetBucket
    <2> QED  BY <2>1, <2>2 DEF Allow
  <1>4. /\ kept \in Bucket
        /\ kept.last = b.last
        /\ kept.tokens = IF b.tokens >= Cost THEN b.tokens - Cost ELSE b.tokens
    BY <1>2 DEF Bucket
  <1> HIDE DEF b, kept
  <1>5. LimiterTypeOK'
    <2>1. buckets' \in [DOMAIN buckets' -> Bucket] /\ DOMAIN buckets' \subseteq Keys
      BY <1>1, <1>3, <1>4 DEF LimiterInv, LimiterTypeOK
    <2>2. granted' \in [Keys -> Nat]
      BY <1>1, <1>3 DEF LimiterInv, LimiterTypeOK
    <2> QED  BY <1>3, <2>1, <2>2 DEF LimiterInv, LimiterTypeOK, ClockTypeOK
  <1>6. Punctual'
    <2>1. \A x \in DOMAIN buckets' : buckets'[x].last <= now'
      BY <1>1, <1>2, <1>3, <1>4 DEF LimiterInv, Punctual
    <2> QED  BY <1>3, <2>1 DEF LimiterInv, LimiterTypeOK, Punctual
  <1>7. Account'
    <2> SUFFICES ASSUME NEW x \in Keys
                 PROVE  /\ x \in DOMAIN buckets' =>
                             \/ granted'[x] + Worth(x)' <= Allowance(x)'
                             \/ granted'[x] + Cap <= Allowance(x)'
                        /\ x \notin DOMAIN buckets' => granted'[x] <= now' - since'[x] + forgiven'[x]
      BY DEF Account, Cap
    <2>1. CASE x = k
      <3>1. buckets'[k] = kept /\ k \in DOMAIN buckets' /\ Allowance(k)' = Allowance(k)
        BY <1>3 DEF Allowance
      <3>2. granted'[k] = IF b.tokens >= Cost THEN granted[k] + Cost ELSE granted[k]
        BY <1>1, <1>3 DEF LimiterInv, LimiterTypeOK
      <3>3. granted[k] \in Nat /\ b.tokens \in Nat /\ b.last \in Nat /\ since[k] \in Nat
            /\ forgiven[k] \in Nat
        BY <1>1, <1>2 DEF LimiterInv, LimiterTypeOK, Bucket
      <3>4. granted'[k] + (buckets'[k].tokens + (now' - buckets'[k].last))
              <= Burst + (now' - since'[k]) + MaxDelay + forgiven'[k]
        BY <1>1, <1>2, <1>3, <1>4, <3>1, <3>2, <3>3 DEF Allowance
      <3>5. k \in DOMAIN buckets'
        BY <3>1
      <3> QED  BY <2>1, <3>4, <3>5 DEF Worth, Allowance
    <2>2. CASE x # k
      <3>1. granted'[x] = granted[x]
        BY <1>3, <2>2 DEF LimiterInv, LimiterTypeOK
      <3>2. x \in DOMAIN buckets' <=> x \in DOMAIN buckets
        BY <1>3, <2>2
      <3>3. x \in DOMAIN buckets => buckets'[x] = buckets[x]
        BY <1>3, <2>2
      <3> QED  BY <1>3, <3>1, <3>2, <3>3 DEF LimiterInv, Account, Worth, Allowance
    <2> QED  BY <2>1, <2>2
  <1> QED  BY <1>5, <1>6, <1>7 DEF LimiterInv

\* Evict keeps the inductive invariant.
LEMMA EvictKeeps ==
    ASSUME LimiterInv, EvictLimiters
    PROVE  LimiterInv'
  <1> USE LimiterAssumption, ClockAssumption DEF LimiterAssumption, ClockAssumption
  <1>1. LimiterTypeOK'
    BY DEF LimiterInv, LimiterTypeOK, ClockTypeOK, EvictLimiters
  <1>2. Punctual'
    BY DEF LimiterInv, LimiterTypeOK, ClockTypeOK, Punctual, EvictLimiters
  <1>3. Account'
    BY AccountKept DEF EvictLimiters
  <1> QED  BY <1>1, <1>2, <1>3 DEF LimiterInv

\* What is forgotten has been idle for IdleTime, and lacks no more than Shortfall.
LEMMA ForgetKeeps ==
    ASSUME LimiterInv, ForgetBuckets
    PROVE  LimiterInv'
  <1> USE LimiterAssumption, ClockAssumption DEF LimiterAssumption, ClockAssumption
  <1>1. LimiterTypeOK'
    <2>1. Shortfall \in Nat
      BY DEF Shortfall
    <2>2. forgiven' \in [Keys -> Nat]
      BY <2>1 DEF LimiterInv, LimiterTypeOK, ForgetBuckets
    <2> QED  BY <2>2 DEF LimiterInv, LimiterTypeOK, ClockTypeOK, ForgetBuckets
  <1>2. Punctual'
    BY DEF LimiterInv, LimiterTypeOK, Punctual, ForgetBuckets
  <1>3. Account'
    <2> SUFFICES ASSUME NEW k \in Keys
                 PROVE  /\ k \in DOMAIN buckets' =>
                             \/ granted'[k] + Worth(k)' <= Allowance(k)'
                             \/ granted'[k] + Cap <= Allowance(k)'
                        /\ k \notin DOMAIN buckets' => granted'[k] <= now' - since'[k] + forgiven'[k]
      BY DEF Account, Cap
    <2>1. CASE k \in Forgotten
      <3>1. k \in DOMAIN buckets /\ buckets[k] \in Bucket /\ buckets[k].last < cutoff
        BY <2>1 DEF Forgotten, LimiterInv, LimiterTypeOK
      <3>2. cutoff \in Nat /\ cutoff + IdleTime <= now /\ now \in Nat
        BY DEF ForgetBuckets, LimiterInv, LimiterTypeOK, ClockTypeOK, Punctual
      <3>3. granted[k] \in Nat /\ since[k] \in Nat /\ forgiven[k] \in Nat
        BY DEF LimiterInv, LimiterTypeOK
      <3>4. \/ granted[k] + Worth(k) <= Allowance(k)
            \/ granted[k] + Cap <= Allowance(k)
        BY <3>1 DEF LimiterInv, Account
      <3>5. Shortfall \in Nat /\ Worth(k) + Shortfall >= Cap
        BY <3>1, <3>2 DEF Worth, Cap, Bucket, Shortfall
      <3>6. granted[k] <= now - since[k] + forgiven[k] + Shortfall
        BY <3>1, <3>2, <3>3, <3>4, <3>5 DEF Cap, Allowance, Worth, Bucket
      <3>7. k \notin DOMAIN buckets' /\ forgiven'[k] = forgiven[k] + Shortfall
        BY <2>1 DEF ForgetBuckets
      <3>8. now' = now /\ granted' = granted /\ since' = since
        BY DEF ForgetBuckets
      <3> QED  BY <3>2, <3>3, <3>5, <3>6, <3>7, <3>8
    <2>2. CASE k \notin Forgotten
      <3>1. forgiven'[k] = forgiven[k]
        BY <2>2 DEF ForgetBuckets, LimiterInv, LimiterTypeOK
      <3>2. k \in DOMAIN buckets' <=> k \in DOMAIN buckets
        BY <2>2 DEF ForgetBuckets
      <3>3. k \in DOMAIN buckets => buckets'[k] = buckets[k]
        BY <2>2 DEF ForgetBuckets
      <3> QED  BY <3>1, <3>2, <3>3 DEF ForgetBuckets, LimiterInv, Account, Worth, Allowance
    <2> QED  BY <2>1, <2>2
  <1> QED  BY <1>1, <1>2, <1>3 DEF LimiterInv

\* Window keeps the inductive invariant.
LEMMA WindowKeeps ==
    ASSUME LimiterInv, NEW w \in Keys, StartWindow(w)
    PROVE  LimiterInv'
  <1> USE LimiterAssumption, ClockAssumption DEF LimiterAssumption, ClockAssumption
  <1>1. LimiterTypeOK'
    BY DEF LimiterInv, LimiterTypeOK, ClockTypeOK, StartWindow
  <1>2. Punctual'
    BY DEF LimiterInv, LimiterTypeOK, ClockTypeOK, Punctual, StartWindow
  <1>3. Account'
    <2> SUFFICES ASSUME NEW k \in Keys
                 PROVE  /\ k \in DOMAIN buckets' =>
                             \/ granted'[k] + Worth(k)' <= Allowance(k)'
                             \/ granted'[k] + Cap <= Allowance(k)'
                        /\ k \notin DOMAIN buckets' => granted'[k] <= now' - since'[k] + forgiven'[k]
      BY DEF Account, Cap
    <2>1. CASE k = w
      BY <2>1 DEF StartWindow, LimiterInv, LimiterTypeOK, ClockTypeOK, Cap, Allowance
    <2>2. CASE k # w
      <3>1. granted'[k] = granted[k] /\ since'[k] = since[k] /\ forgiven'[k] = forgiven[k]
        BY <2>2 DEF StartWindow, LimiterInv, LimiterTypeOK
      <3> QED  BY <3>1 DEF StartWindow, LimiterInv, Account, Worth, Allowance
    <2> QED  BY <2>1, <2>2
  <1> QED  BY <1>1, <1>2, <1>3 DEF LimiterInv

\* Tick keeps the inductive invariant.
LEMMA TickKeeps ==
    ASSUME LimiterInv, LimiterTick
    PROVE  LimiterInv'
  <1> USE LimiterAssumption, ClockAssumption DEF LimiterAssumption, ClockAssumption
  <1>0. now \in Nat /\ now' = now + 1 /\ now < MaxTime
    BY DEF LimiterInv, LimiterTypeOK, ClockTypeOK, LimiterTick, Tick
  <1>1. LimiterTypeOK'
    BY <1>0 DEF LimiterInv, LimiterTypeOK, ClockTypeOK, LimiterTick
  <1>2. Punctual'
    <2>1. \A c \in Callers :
            reading'[c] # Unasked => reading'[c] <= now' /\ now' <= reading'[c] + MaxDelay
      BY <1>0 DEF LimiterInv, LimiterTypeOK, Punctual, LimiterTick
    <2>2. \A k \in DOMAIN buckets' : buckets'[k].last <= now'
      BY <1>0 DEF LimiterInv, LimiterTypeOK, Punctual, LimiterTick, Bucket
    <2>3. \A k \in Keys : since'[k] <= now'
      BY <1>0 DEF LimiterInv, LimiterTypeOK, Punctual, LimiterTick
    <2>4. cutoff' # Unasked => cutoff' + IdleTime <= now'
      BY <1>0 DEF LimiterInv, LimiterTypeOK, Punctual, LimiterTick
    <2> QED  BY <2>1, <2>2, <2>3, <2>4 DEF Punctual
  <1>3. Account'
    <2> SUFFICES ASSUME NEW k \in Keys
                 PROVE  /\ k \in DOMAIN buckets' =>
                             \/ granted'[k] + Worth(k)' <= Allowance(k)'
                             \/ granted'[k] + Cap <= Allowance(k)'
                        /\ k \notin DOMAIN buckets' => granted'[k] <= now' - since'[k] + forgiven'[k]
      BY DEF Account, Cap
    <2>1. /\ granted[k] \in Nat /\ since[k] \in Nat /\ forgiven[k] \in Nat
          /\ UNCHANGED <<buckets, since, granted, forgiven>>
      BY DEF LimiterInv, LimiterTypeOK, LimiterTick
    <2>2. k \in DOMAIN buckets => buckets[k].tokens \in Nat /\ buckets[k].last \in Nat
      BY DEF LimiterInv, LimiterTypeOK, Bucket
    <2> QED  BY <1>0, <2>1, <2>2 DEF LimiterInv, Account, Worth, Allowance, Cap
  <1> QED  BY <1>1, <1>2, <1>3 DEF LimiterInv

\* Every step keeps the account, and the times it rests on.
THEOREM LimiterStep_Inv == LimiterInv /\ [LimiterNext]_limiterVars => LimiterInv'
  <1> SUFFICES ASSUME LimiterInv, [LimiterNext]_limiterVars
               PROVE  LimiterInv'
    OBVIOUS
  <1>1. CASE \E c \in Callers, k \in Keys : Ask(c, k)
    BY <1>1, AskKeeps
  <1>2. CASE \E c \in Callers : Allow(c)
    BY <1>2, AllowKeeps
  <1>3. CASE EvictLimiters
    BY <1>3, EvictKeeps
  <1>4. CASE ForgetBuckets
    BY <1>4, ForgetKeeps
  <1>5. CASE \E k \in Keys : StartWindow(k)
    BY <1>5, WindowKeeps
  <1>6. CASE LimiterTick
    BY <1>6, TickKeeps
  <1>7. CASE UNCHANGED limiterVars
    BY <1>7 DEF limiterVars, LimiterInv, LimiterTypeOK, ClockTypeOK, Punctual, Account, Worth,
                Allowance
  <1> QED  BY <1>1, <1>2, <1>3, <1>4, <1>5, <1>6, <1>7 DEF LimiterNext

\* The account implies the limit: a bucket is worth nothing negative.
THEOREM Inv_LimitHolds == LimiterInv => LimitHolds
  <1> SUFFICES ASSUME LimiterInv, NEW k \in Keys
               PROVE  granted[k] <= Burst + (now - since[k]) + MaxDelay + forgiven[k]
    BY DEF LimitHolds
  <1> USE LimiterAssumption DEF LimiterAssumption
  <1>1. granted[k] \in Nat /\ since[k] \in Nat /\ now \in Nat /\ forgiven[k] \in Nat
    BY DEF LimiterInv, LimiterTypeOK, ClockTypeOK, ClockAssumption
  <1>2. CASE k \in DOMAIN buckets
    <2>1. buckets[k].tokens \in Nat /\ buckets[k].last \in Nat /\ buckets[k].last <= now
      BY <1>2 DEF LimiterInv, LimiterTypeOK, Punctual, Bucket
    <2> QED  BY <1>1, <1>2, <2>1 DEF LimiterInv, Account, Worth, Allowance, Cap
  <1>3. CASE k \notin DOMAIN buckets
    BY <1>1, <1>3 DEF LimiterInv, Account
  <1> QED  BY <1>2, <1>3

\* The limiters of server.go and ingest.go grant no key more than a burst, what
\* any window of time earned it, the delay of a late reading, and for each time its
\* bucket was forgotten what a bucket may still lack then (ratelimit.go:67-98,
\* 108-128).
THEOREM LimiterBound == LimiterSpec => []LimitHolds
  <1> QED  BY LimiterInit_Inv, LimiterStep_Inv, Inv_LimitHolds, PTL DEF LimiterSpec

-----------------------------------------------------------------------------
(***************************************************************************)
(* How far last_seen_at is behind the captures, for every number of        *)
(* overlapping captures, however long each takes. A state comes to rest by *)
(* a successful update, and then the column plus its delay is the present; *)
(* from there on only captures that are close to the mark pass without an  *)
(* update of their own.                                                    *)
(***************************************************************************)

\* Nothing in progress or recorded is from the future.
Past ==
    /\ \A h \in Handlers : phase[h] # "idle" => received[h] <= now
    /\ \A t \in latest \cup touched : t <= now

\* At rest, the mark is no newer than the column and its delay.
MarkIsCovered == AtRest => \A m \in touched : \E s \in lastSeen : m <= s + delay

LastSeenInv == LastSeenTypeOK /\ Past /\ MarkIsCovered /\ LagIsBounded

-----------------------------------------------------------------------------

\* A set of at most one time is the set of any of its members.
LEMMA OneMark ==
    ASSUME NEW x \in AtMostOne, NEW t \in x
    PROVE  x = {t} /\ t \in 0..MaxTime
  BY DEF AtMostOne

\* The initial states satisfy the inductive invariant.
THEOREM LastSeenInit_Inv == LastSeenInit => LastSeenInv
  <1> SUFFICES ASSUME LastSeenInit PROVE LastSeenInv
    OBVIOUS
  <1> USE ClockAssumption DEF ClockAssumption, LastSeenInit, ClockInit
  <1>1. {} \in AtMostOne
    BY DEF AtMostOne
  <1>2. 0 \in 0..MaxTime
    OBVIOUS
  <1>3. LastSeenTypeOK
    <2>1. ClockTypeOK
      BY <1>2 DEF ClockTypeOK
    <2>2. /\ phase \in [Handlers -> {"idle", "store", "touch"}]
          /\ received \in [Handlers -> 0..MaxTime]
      BY <1>2
    <2> QED  BY <1>1, <1>2, <2>1, <2>2 DEF LastSeenTypeOK
  <1>4. Past /\ MarkIsCovered /\ LagIsBounded
    BY DEF Past, MarkIsCovered, LagIsBounded
  <1> QED  BY <1>3, <1>4 DEF LastSeenInv

\* Receive keeps the inductive invariant.
LEMMA ReceiveKeeps ==
    ASSUME LastSeenInv, NEW h \in Handlers, Receive(h)
    PROVE  LastSeenInv'
  <1> USE ClockAssumption DEF ClockAssumption
  <1>1. /\ LastSeenTypeOK
        /\ UNCHANGED <<now, touched, lastSeen, delay, latest, failed>>
    BY DEF LastSeenInv, Receive
  <1>2. LastSeenTypeOK'
    BY <1>1 DEF LastSeenTypeOK, ClockTypeOK, Receive
  <1>3. Past'
    BY <1>1 DEF LastSeenInv, LastSeenTypeOK, ClockTypeOK, Past, Receive
  <1>4. AtRest' => AtRest
    BY <1>1 DEF AtRest, LastSeenTypeOK, Receive
  <1>5. MarkIsCovered' /\ LagIsBounded'
    BY <1>1, <1>4 DEF LastSeenInv, MarkIsCovered, LagIsBounded
  <1> QED  BY <1>2, <1>3, <1>5 DEF LastSeenInv

\* A capture that is due is about to write the column: nothing is at rest.
LEMMA DueKeeps ==
    ASSUME LastSeenInv, NEW h \in Handlers, ShouldTouch(h),
           \A m \in touched : received[h] >= m + TouchInterval
    PROVE  LastSeenInv'
  <1> USE ClockAssumption, LastSeenAssumption DEF ClockAssumption, LastSeenAssumption
  <1> DEFINE t == received[h]
  <1>1. /\ LastSeenTypeOK
        /\ t \in 0..MaxTime /\ now \in 0..MaxTime
        /\ t <= now
        /\ phase[h] = "store"
    BY DEF LastSeenInv, LastSeenTypeOK, ClockTypeOK, Past, ShouldTouch
  <1>2. Marked(t) = {t}
    <2>1. \A m \in touched : m \in 0..MaxTime
      BY <1>1, OneMark DEF LastSeenTypeOK
    <2>2. ~\E m \in touched : t < m + TouchInterval
      BY <1>1, <2>1
    <2> QED  BY <2>2 DEF Marked
  <1>3. /\ touched' = {t}
        /\ phase' = [phase EXCEPT ![h] = "touch"]
        /\ failed' = FALSE
        /\ UNCHANGED <<now, received, lastSeen, delay>>
    BY <1>2 DEF ShouldTouch
  <1>4. latest' = {t} \/ latest' = latest
    BY DEF ShouldTouch
  <1>5. LastSeenTypeOK'
    BY <1>1, <1>3, <1>4 DEF LastSeenTypeOK, ClockTypeOK, AtMostOne
  <1>6. Past'
    BY <1>1, <1>3, <1>4 DEF LastSeenInv, LastSeenTypeOK, Past
  <1>7. ~AtRest'
    BY <1>1, <1>3 DEF AtRest, LastSeenTypeOK
  <1>8. MarkIsCovered' /\ LagIsBounded'
    BY <1>7 DEF MarkIsCovered, LagIsBounded
  <1> QED  BY <1>5, <1>6, <1>8 DEF LastSeenInv

\* One that is not due is close to the mark, and at rest the mark is covered.
LEMMA NotDueKeeps ==
    ASSUME LastSeenInv, NEW h \in Handlers, ShouldTouch(h),
           NEW m \in touched, ~(received[h] >= m + TouchInterval)
    PROVE  LastSeenInv'
  <1> USE ClockAssumption, LastSeenAssumption DEF ClockAssumption, LastSeenAssumption
  <1> DEFINE t == received[h]
  <1>1. /\ LastSeenTypeOK
        /\ t \in 0..MaxTime /\ now \in 0..MaxTime
        /\ t <= now
        /\ phase[h] = "store"
    BY DEF LastSeenInv, LastSeenTypeOK, ClockTypeOK, Past, ShouldTouch
  <1>2. touched = {m} /\ m \in 0..MaxTime
    BY <1>1, OneMark DEF LastSeenTypeOK
  <1>3. t < m + TouchInterval
    BY <1>1, <1>2
  <1>4. /\ touched' = touched
        /\ phase' = [phase EXCEPT ![h] = "idle"]
        /\ failed' = failed
        /\ UNCHANGED <<now, received, lastSeen, delay>>
    BY <1>1, <1>2, <1>3 DEF ShouldTouch, Marked, LastSeenTypeOK
  <1>5. latest' = {t} \/ latest' = latest
    BY DEF ShouldTouch
  <1>6. LastSeenTypeOK'
    BY <1>1, <1>4, <1>5 DEF LastSeenTypeOK, ClockTypeOK, AtMostOne
  <1>7. Past'
    BY <1>1, <1>4, <1>5 DEF LastSeenInv, LastSeenTypeOK, Past
  <1>8. AtRest' => AtRest
    BY <1>1, <1>4 DEF AtRest, LastSeenTypeOK
  <1>9. MarkIsCovered'
    BY <1>4, <1>8 DEF LastSeenInv, MarkIsCovered
  <1>10. LagIsBounded'
    <2>1. CASE latest' = latest
      BY <1>4, <1>8, <2>1 DEF LastSeenInv, LagIsBounded
    <2>2. CASE latest' = {t}
      <3> SUFFICES ASSUME AtRest'
                   PROVE  \E s \in lastSeen : t < s + delay + TouchInterval
        BY <1>4, <2>2 DEF LagIsBounded
      <3>1. PICK s \in lastSeen : m <= s + delay
        BY <1>2, <1>8 DEF LastSeenInv, MarkIsCovered
      <3>2. s \in 0..MaxTime /\ delay \in 0..MaxTime
        BY <1>1, OneMark DEF LastSeenTypeOK
      <3> QED  BY <1>1, <1>2, <1>3, <3>1, <3>2
    <2> QED  BY <1>5, <2>1, <2>2
  <1> QED  BY <1>6, <1>7, <1>9, <1>10 DEF LastSeenInv

\* An update that succeeds brings the column and its delay to the present; one
\* that fails leaves nothing at rest.
LEMMA TouchKeeps ==
    ASSUME LastSeenInv, NEW h \in Handlers, TouchEndpoint(h)
    PROVE  LastSeenInv'
  <1> USE ClockAssumption, LastSeenAssumption DEF ClockAssumption, LastSeenAssumption
  <1>1. /\ LastSeenTypeOK
        /\ received[h] \in 0..MaxTime /\ now \in 0..MaxTime
        /\ received[h] <= now
        /\ phase' = [phase EXCEPT ![h] = "idle"]
        /\ UNCHANGED <<now, received, touched, latest>>
    BY DEF LastSeenInv, LastSeenTypeOK, ClockTypeOK, Past, TouchEndpoint
  <1>2. Past'
    BY <1>1 DEF LastSeenInv, LastSeenTypeOK, Past
  <1>3. CASE /\ lastSeen' = {received[h]}
             /\ delay' = now - received[h]
             /\ failed' = failed
    <2>1. delay' \in 0..MaxTime /\ received[h] + delay' = now
      BY <1>1, <1>3
    <2>2. LastSeenTypeOK'
      BY <1>1, <1>3, <2>1 DEF LastSeenTypeOK, ClockTypeOK, AtMostOne
    <2>3. \A t \in latest \cup touched : t \in 0..MaxTime /\ t <= now
      BY <1>1, OneMark DEF LastSeenInv, LastSeenTypeOK, Past
    <2>4. MarkIsCovered'
      BY <1>1, <1>3, <2>1, <2>3 DEF MarkIsCovered
    <2>5. \A t \in latest : t < received[h] + delay' + TouchInterval
      BY <1>1, <2>1, <2>3
    <2>6. LagIsBounded'
      BY <1>1, <1>3, <2>5 DEF LagIsBounded
    <2> QED  BY <1>2, <2>2, <2>4, <2>6 DEF LastSeenInv
  <1>4. CASE lastSeen' = lastSeen /\ delay' = delay /\ failed' = TRUE
    <2>1. LastSeenTypeOK'
      BY <1>1, <1>4 DEF LastSeenTypeOK, ClockTypeOK
    <2>2. MarkIsCovered' /\ LagIsBounded'
      BY <1>4 DEF AtRest, MarkIsCovered, LagIsBounded
    <2> QED  BY <1>2, <2>1, <2>2 DEF LastSeenInv
  <1> QED  BY <1>3, <1>4 DEF TouchEndpoint

\* A mark that is forgotten need not be covered.
LEMMA EvictTouchedKeeps ==
    ASSUME LastSeenInv, EvictTouched
    PROVE  LastSeenInv'
  <1> USE ClockAssumption, LastSeenAssumption DEF ClockAssumption, LastSeenAssumption
  <1>1. /\ LastSeenTypeOK
        /\ UNCHANGED <<now, phase, received, lastSeen, delay, latest, failed>>
    BY DEF LastSeenInv, EvictTouched
  <1>2. touched' = touched \/ touched' = {}
    <2>1. \A m \in touched : touched = {m}
      BY <1>1, OneMark DEF LastSeenTypeOK
    <2> QED  BY <2>1 DEF EvictTouched
  <1>3. LastSeenTypeOK'
    BY <1>1, <1>2 DEF LastSeenTypeOK, ClockTypeOK, AtMostOne
  <1>4. Past'
    BY <1>1, <1>2 DEF LastSeenInv, Past
  <1>5. AtRest' = AtRest
    BY <1>1 DEF AtRest
  <1>6. MarkIsCovered' /\ LagIsBounded'
    BY <1>1, <1>2, <1>5 DEF LastSeenInv, MarkIsCovered, LagIsBounded
  <1> QED  BY <1>3, <1>4, <1>6 DEF LastSeenInv

\* LastSeenTick keeps the inductive invariant.
LEMMA LastSeenTickKeeps ==
    ASSUME LastSeenInv, LastSeenTick
    PROVE  LastSeenInv'
  <1> USE ClockAssumption DEF ClockAssumption
  <1>1. /\ LastSeenTypeOK
        /\ now \in 0..MaxTime /\ now < MaxTime /\ now' = now + 1
        /\ UNCHANGED <<phase, received, touched, lastSeen, delay, latest, failed>>
    BY DEF LastSeenInv, LastSeenTypeOK, ClockTypeOK, LastSeenTick, Tick
  <1>2. LastSeenTypeOK'
    BY <1>1 DEF LastSeenTypeOK, ClockTypeOK
  <1>3. Past'
    <2>1. \A t \in latest \cup touched : t \in 0..MaxTime
      BY <1>1, OneMark DEF LastSeenTypeOK
    <2>2. \A h \in Handlers : received[h] \in 0..MaxTime
      BY <1>1 DEF LastSeenTypeOK
    <2> QED  BY <1>1, <2>1, <2>2 DEF LastSeenInv, Past
  <1>4. AtRest' = AtRest
    BY <1>1 DEF AtRest
  <1>5. MarkIsCovered' /\ LagIsBounded'
    BY <1>1, <1>4 DEF LastSeenInv, MarkIsCovered, LagIsBounded
  <1> QED  BY <1>2, <1>3, <1>5 DEF LastSeenInv

\* Every step keeps the inductive invariant.
THEOREM LastSeenStep_Inv == LastSeenInv /\ [LastSeenNext]_lastSeenVars => LastSeenInv'
  <1> SUFFICES ASSUME LastSeenInv, [LastSeenNext]_lastSeenVars
               PROVE  LastSeenInv'
    OBVIOUS
  <1>1. CASE \E h \in Handlers : Receive(h)
    BY <1>1, ReceiveKeeps
  <1>2. ASSUME NEW h \in Handlers, ShouldTouch(h)
        PROVE  LastSeenInv'
    BY <1>2, DueKeeps, NotDueKeeps
  <1>3. CASE \E h \in Handlers : TouchEndpoint(h)
    BY <1>3, TouchKeeps
  <1>4. CASE EvictTouched
    BY <1>4, EvictTouchedKeeps
  <1>5. CASE LastSeenTick
    BY <1>5, LastSeenTickKeeps
  <1>6. CASE UNCHANGED lastSeenVars
    BY <1>6
    DEF lastSeenVars, LastSeenInv, LastSeenTypeOK, ClockTypeOK, Past, AtRest,
        MarkIsCovered, LagIsBounded
  <1> QED  BY <1>1, <1>2, <1>3, <1>4, <1>5, <1>6 DEF LastSeenNext

\* With no update under way, and unless one has failed, last_seen_at is behind
\* the captures by less than touchInterval and the delay with which it was
\* written (ingest.go:225-229, endpoints.go:169-179).
THEOREM LastSeenCorrect == LastSeenSpec => []LagIsBounded
  <1>1. LastSeenInv => LagIsBounded
    BY DEF LastSeenInv
  <1> QED  BY <1>1, LastSeenInit_Inv, LastSeenStep_Inv, PTL DEF LastSeenSpec

-----------------------------------------------------------------------------
(***************************************************************************)
(* Retention: rows expire by the setting in force, for any number of rows  *)
(* and settings, batches of any size, and any failures of the database.    *)
(***************************************************************************)

\* The rows of the table, the ones that are not visible yet included.
Present == Inserting \cup Stored

\* A row that no change of the setting has overlapped has the committed expiry,
\* also while the setting is changing.
Projected == \A r \in Present \ crossed : expires[r] = arrived[r] + retention

\* The second statement misses only what the history knows of.
Covered ==
    /\ setting # "none" => Inserting \subseteq crossed
    /\ setting = "reprojected" => Present \ crossed \subseteq reprojects

RetentionInv ==
    /\ RetentionTypeOK
    /\ batches < MaxBatches
    /\ Projected
    /\ Covered

-----------------------------------------------------------------------------

\* The invariant contains the property.
LEMMA InvImplies == RetentionInv => ExpiryFollowsSetting
  BY DEF RetentionInv, Projected, Present, ExpiryFollowsSetting

\* The initial states satisfy the inductive invariant.
THEOREM RetentionInit_Inv == RetentionInit => RetentionInv
  <1> SUFFICES ASSUME RetentionInit PROVE RetentionInv
    OBVIOUS
  <1> USE ClockAssumption, RetentionAssumption
      DEF ClockAssumption, RetentionAssumption, RetentionInit, ClockInit
  <1>1. Cardinality({}) = 0
    BY FS_EmptySet
  <1>2. RetentionTypeOK
    BY <1>1 DEF RetentionTypeOK, ClockTypeOK
  <1>3. Projected /\ Covered
    BY DEF Projected, Covered, Present, Inserting, Stored
  <1> QED  BY <1>2, <1>3 DEF RetentionInv

-----------------------------------------------------------------------------
(* Inserts                                                                 *)

\* BeginInsert keeps the inductive invariant.
LEMMA BeginInsertKeeps ==
    ASSUME RetentionInv, NEW r \in Rows, BeginInsert(r)
    PROVE  RetentionInv'
  <1> USE ClockAssumption, RetentionAssumption DEF ClockAssumption, RetentionAssumption
  <1>1. /\ RetentionTypeOK
        /\ state[r] = "none"
        /\ state' = [state EXCEPT ![r] = "inserting"]
        /\ arrived' = [arrived EXCEPT ![r] = now]
        /\ expires' = [expires EXCEPT ![r] = now + retention]
        /\ crossed' = IF setting # "none" THEN crossed \cup {r} ELSE crossed
        /\ UNCHANGED <<now, retention, transaction, sweep, process, failures>>
    BY DEF RetentionInv, BeginInsert
  <1>2. now \in Nat /\ retention \in Nat
    BY <1>1 DEF RetentionTypeOK, ClockTypeOK
  <1>3. RetentionTypeOK'
    BY <1>1, <1>2 DEF RetentionTypeOK, ClockTypeOK, transaction, sweep
  <1>4. /\ Inserting' = Inserting \cup {r} /\ Stored' = Stored
        /\ r \notin Inserting /\ r \notin Stored
    BY <1>1 DEF RetentionTypeOK, Inserting, Stored
  <1>5. Projected'
    <2> SUFFICES ASSUME NEW x \in (Present \ crossed)'
                 PROVE  expires'[x] = arrived'[x] + retention'
      BY DEF Projected
    <2>1. CASE x = r
      BY <1>1, <2>1 DEF RetentionTypeOK
    <2>2. CASE x # r
      <3>1. x \in Present \ crossed
        BY <1>1, <1>4, <2>2 DEF Present
      <3>2. x \in Rows
        BY <3>1 DEF Present, Inserting, Stored
      <3> QED  BY <1>1, <2>2, <3>1, <3>2 DEF RetentionInv, Projected, RetentionTypeOK
    <2> QED  BY <2>1, <2>2
  <1>6. Covered'
    BY <1>1, <1>4 DEF RetentionInv, Covered, Present, transaction
  <1> QED  BY <1>1, <1>3, <1>5, <1>6 DEF RetentionInv, sweep

\* CommitInsert keeps the inductive invariant.
LEMMA CommitInsertKeeps ==
    ASSUME RetentionInv, NEW r \in Rows, CommitInsert(r)
    PROVE  RetentionInv'
  <1>1. /\ RetentionTypeOK
        /\ state[r] = "inserting"
        /\ state' = [state EXCEPT ![r] = "stored"]
        /\ UNCHANGED <<now, retention, transaction, arrived, expires, crossed, sweep,
                       process, failures>>
    BY DEF RetentionInv, CommitInsert
  <1>2. RetentionTypeOK'
    BY <1>1 DEF RetentionTypeOK, ClockTypeOK, transaction, sweep
  <1>3. Inserting' \subseteq Inserting /\ Present' = Present
    BY <1>1 DEF RetentionTypeOK, Present, Inserting, Stored
  <1>4. Projected' /\ Covered'
    BY <1>1, <1>3 DEF RetentionInv, Projected, Covered, transaction
  <1> QED  BY <1>1, <1>2, <1>4 DEF RetentionInv, sweep

-----------------------------------------------------------------------------
(* SetRetention                                                            *)

\* Update keeps the inductive invariant.
LEMMA UpdateKeeps ==
    ASSUME RetentionInv, NEW h \in Hours, UpdateSetting(h)
    PROVE  RetentionInv'
  <1>1. /\ RetentionTypeOK
        /\ setting' = "updated" /\ wanted' = h
        /\ crossed' = crossed \cup Inserting
        /\ UNCHANGED <<now, retention, reprojects, state, arrived, expires, sweep, process,
                       failures>>
    BY DEF RetentionInv, UpdateSetting
  <1>2. Inserting' = Inserting /\ Present' = Present
    BY <1>1 DEF Present, Inserting, Stored
  <1>3. RetentionTypeOK'
    BY <1>1 DEF RetentionTypeOK, ClockTypeOK, sweep, Inserting
  <1>4. Projected' /\ Covered'
    BY <1>1, <1>2 DEF RetentionInv, Projected, Covered
  <1> QED  BY <1>1, <1>3, <1>4 DEF RetentionInv, sweep

\* What the second statement does not find is being inserted, and crossed.
LEMMA ReprojectKeeps ==
    ASSUME RetentionInv, Reproject
    PROVE  RetentionInv'
  <1>1. /\ RetentionTypeOK
        /\ setting = "updated" /\ setting' = "reprojected"
        /\ reprojects' = Stored
        /\ UNCHANGED <<now, retention, wanted, table, sweep, process, failures>>
    BY DEF RetentionInv, Reproject, ReprojectedRows
  <1>2. Inserting' = Inserting /\ Present' = Present /\ Inserting \subseteq crossed
    BY <1>1 DEF RetentionInv, Covered, Present, Inserting, Stored, table
  <1>3. RetentionTypeOK'
    BY <1>1 DEF RetentionTypeOK, ClockTypeOK, table, sweep, Stored
  <1>4. Projected'
    BY <1>1, <1>2 DEF RetentionInv, Projected, table
  <1>5. Covered'
    BY <1>1, <1>2 DEF Covered, Present, table
  <1> QED  BY <1>1, <1>3, <1>4, <1>5 DEF RetentionInv, sweep

\* CommitSetting keeps the inductive invariant.
LEMMA CommitSettingKeeps ==
    ASSUME RetentionInv, CommitSetting
    PROVE  RetentionInv'
  <1> USE RetentionAssumption DEF RetentionAssumption
  <1>1. /\ RetentionTypeOK
        /\ setting = "reprojected" /\ setting' = "none"
        /\ retention' = wanted
        /\ expires' = [r \in Rows |->
                         IF r \in reprojects THEN arrived[r] + wanted ELSE expires[r]]
        /\ crossed' = crossed \ reprojects
        /\ reprojects' = {}
        /\ UNCHANGED <<now, wanted, state, arrived, sweep, process, failures>>
    BY DEF RetentionInv, CommitSetting
  <1>2. Inserting' = Inserting /\ Present' = Present /\ Present \subseteq Rows
    BY <1>1 DEF Present, Inserting, Stored
  <1>3. RetentionTypeOK'
    <2>1. \A r \in Rows : arrived[r] + wanted \in Nat
      BY <1>1 DEF RetentionTypeOK
    <2> QED  BY <1>1, <2>1 DEF RetentionTypeOK, ClockTypeOK, sweep
  <1>4. Present \ crossed \subseteq reprojects
    BY <1>1 DEF RetentionInv, Covered
  <1>5. Projected'
    BY <1>1, <1>2, <1>4 DEF Projected
  <1>6. Covered'
    BY <1>1 DEF Covered
  <1> QED  BY <1>1, <1>3, <1>5, <1>6 DEF RetentionInv, sweep

\* AbortSetting keeps the inductive invariant.
LEMMA AbortSettingKeeps ==
    ASSUME RetentionInv, AbortSetting
    PROVE  RetentionInv'
  <1> USE RetentionAssumption DEF RetentionAssumption
  <1>1. /\ RetentionTypeOK
        /\ setting' = "none" /\ retention' = retention /\ wanted' = retention
        /\ reprojects' = {}
        /\ failures < MaxFailures /\ failures' = failures + 1
        /\ UNCHANGED <<now, table, sweep, process>>
    BY DEF RetentionInv, AbortSetting, RolledBack, Fails
  <1>2. Present' = Present
    BY <1>1 DEF Present, Inserting, Stored, table
  <1>3. RetentionTypeOK'
    BY <1>1 DEF RetentionTypeOK, ClockTypeOK, table, sweep
  <1>4. Projected' /\ Covered'
    BY <1>1, <1>2 DEF RetentionInv, Projected, Covered, table
  <1> QED  BY <1>1, <1>3, <1>4 DEF RetentionInv, sweep

-----------------------------------------------------------------------------
(* The sweeper                                                             *)

\* Rows that go leave the others as they are.
LEMMA DeleteChosenKeeps ==
    ASSUME RetentionInv, DeleteChosen, chosen \cap reprojects = {},
           UNCHANGED <<retention, transaction>>
    PROVE  /\ state' \in [Rows -> {"none", "inserting", "stored"}]
           /\ arrived' \in [Rows -> Nat]
           /\ expires' \in [Rows -> Nat]
           /\ crossed' \subseteq Rows
           /\ Projected'
           /\ Covered'
  <1>1. RetentionTypeOK
    BY DEF RetentionInv
  <1>2. /\ state' \in [Rows -> {"none", "inserting", "stored"}]
        /\ arrived' \in [Rows -> Nat]
        /\ expires' \in [Rows -> Nat]
        /\ crossed' \subseteq Rows
    BY <1>1 DEF RetentionTypeOK, DeleteChosen
  <1>3. /\ Inserting' = Inserting \ chosen
        /\ Present' = Present \ chosen
        /\ Present \subseteq Rows
    BY <1>1 DEF RetentionTypeOK, DeleteChosen, Present, Inserting, Stored
  <1>4. \A r \in Present' : arrived'[r] = arrived[r] /\ expires'[r] = expires[r]
    BY <1>3 DEF DeleteChosen
  <1>5. crossed' = crossed \ chosen
    BY DEF DeleteChosen
  <1>6. Projected'
    BY <1>3, <1>4, <1>5 DEF RetentionInv, Projected
  <1>7. Covered'
    BY <1>3, <1>5 DEF RetentionInv, Covered, transaction
  <1> QED  BY <1>2, <1>6, <1>7

\* A step that leaves the table and the transaction alone keeps the invariant.
LEMMA TableKept ==
    ASSUME RetentionInv, UNCHANGED <<retention, transaction, table>>
    PROVE  Projected' /\ Covered'
  BY DEF RetentionInv, Projected, Covered, Present, Inserting, Stored, transaction, table

\* Select keeps the inductive invariant.
LEMMA SelectKeeps ==
    ASSUME RetentionInv, NEW batch \in SUBSET Rows, SelectBatch(batch)
    PROVE  RetentionInv'
  <1> USE RetentionAssumption DEF RetentionAssumption
  <1>1. /\ RetentionTypeOK
        /\ Cardinality(batch) = Smaller(Batch, Cardinality(ExpiredRows))
        /\ chosen' = batch
        /\ \/ sweeper' = "waiting" /\ batches' = 0
           \/ UNCHANGED <<sweeper, batches>>
        /\ UNCHANGED <<now, retention, transaction, table, process, failures>>
    BY DEF RetentionInv, SelectBatch
  <1>2. Cardinality(ExpiredRows) \in Nat
    <2>1. ExpiredRows \in SUBSET Rows
      BY DEF ExpiredRows, Stored
    <2> QED  BY <2>1, FS_Subset, FS_CardinalityType
  <1>3. Cardinality(batch) <= Batch
    BY <1>1, <1>2 DEF Smaller
  <1>4. RetentionTypeOK'
    BY <1>1, <1>3 DEF RetentionTypeOK, ClockTypeOK, transaction, table
  <1> QED  BY <1>1, <1>4, TableKept DEF RetentionInv

\* Delete keeps the inductive invariant.
LEMMA DeleteKeeps ==
    ASSUME RetentionInv, DeleteBatch
    PROVE  RetentionInv'
  <1> USE RetentionAssumption DEF RetentionAssumption
  <1>1. /\ RetentionTypeOK /\ batches < MaxBatches
        /\ chosen' = {}
        /\ \/ sweeper' = "waiting" /\ batches' = 0
           \/ ~TickIsOver(Cardinality(chosen)) /\ batches' = batches + 1 /\ UNCHANGED sweeper
        /\ UNCHANGED <<now, retention, transaction, process, failures>>
    BY DEF RetentionInv, DeleteBatch
  <1>2. batches' \in 0..MaxBatches /\ batches' < MaxBatches
    BY <1>1 DEF RetentionTypeOK, TickIsOver
  <1>3. /\ state' \in [Rows -> {"none", "inserting", "stored"}]
        /\ arrived' \in [Rows -> Nat]
        /\ expires' \in [Rows -> Nat]
        /\ crossed' \subseteq Rows
        /\ Projected'
        /\ Covered'
    BY <1>1, DeleteChosenKeeps DEF DeleteBatch
  <1>4. RetentionTypeOK'
    BY <1>1, <1>2, <1>3, FS_EmptySet DEF RetentionTypeOK, ClockTypeOK, transaction
  <1> QED  BY <1>2, <1>3, <1>4 DEF RetentionInv

\* SweepFails keeps the inductive invariant.
LEMMA SweepFailsKeeps ==
    ASSUME RetentionInv, SweepFails
    PROVE  RetentionInv'
  <1> USE RetentionAssumption DEF RetentionAssumption
  <1>1. /\ RetentionTypeOK
        /\ failures' \in 0..MaxFailures
        /\ sweeper' = "waiting" /\ chosen' = {} /\ batches' = 0
        /\ UNCHANGED <<now, retention, transaction, process>>
    BY DEF RetentionInv, RetentionTypeOK, SweepFails, Fails, AfterFailedSweep
  <1>2. /\ state' \in [Rows -> {"none", "inserting", "stored"}]
        /\ arrived' \in [Rows -> Nat]
        /\ expires' \in [Rows -> Nat]
        /\ crossed' \subseteq Rows
        /\ Projected'
        /\ Covered'
    <2>1. CASE UNCHANGED table
      BY <1>1, <2>1, TableKept DEF RetentionTypeOK, table
    <2>2. CASE chosen \cap reprojects = {} /\ DeleteChosen
      BY <1>1, <2>2, DeleteChosenKeeps
    <2> QED  BY <2>1, <2>2 DEF SweepFails
  <1>3. RetentionTypeOK'
    BY <1>1, <1>2, FS_EmptySet DEF RetentionTypeOK, ClockTypeOK, transaction
  <1> QED  BY <1>1, <1>2, <1>3 DEF RetentionInv

-----------------------------------------------------------------------------

\* Steps that touch neither the setting nor the table.
LEMMA OthersKeep ==
    ASSUME RetentionInv,
           \/ BeginSweep \/ SweeperStops \/ Signal \/ ServeFails \/ CancelRun \/ ClosePool
           \/ RetentionTick
           \/ UNCHANGED retentionVars
    PROVE  RetentionInv'
  <1> USE ClockAssumption, RetentionAssumption DEF ClockAssumption, RetentionAssumption
  <1>1. /\ RetentionTypeOK
        /\ now' \in 0..MaxTime
        /\ sweeper' \in {"waiting", "sweeping", "stopped"}
        /\ process' \in {"running", "failed", "stopping", "closed"}
        /\ UNCHANGED <<retention, transaction, table, chosen, batches, failures>>
    BY DEF RetentionInv, RetentionTypeOK, ClockTypeOK, BeginSweep, SweeperStops, Signal,
           ServeFails, CancelRun, AfterServe, ClosePool, RetentionTick, Tick, retentionVars,
           transaction, table, sweep
  <1>2. RetentionTypeOK'
    BY <1>1 DEF RetentionTypeOK, ClockTypeOK, transaction, table
  <1> QED  BY <1>1, <1>2, TableKept DEF RetentionInv

\* Every step keeps the inductive invariant.
THEOREM RetentionStep_Inv ==
    RetentionInv /\ [RetentionNext]_retentionVars => RetentionInv'
  <1> SUFFICES ASSUME RetentionInv, [RetentionNext]_retentionVars
               PROVE  RetentionInv'
    OBVIOUS
  <1>1. CASE \E r \in Rows : BeginInsert(r) \/ CommitInsert(r)
    BY <1>1, BeginInsertKeeps, CommitInsertKeeps
  <1>2. CASE (\E h \in Hours : UpdateSetting(h)) \/ Reproject \/ CommitSetting \/ AbortSetting
    BY <1>2, UpdateKeeps, ReprojectKeeps, CommitSettingKeeps, AbortSettingKeeps
  <1>3. CASE (\E batch \in SUBSET Rows : SelectBatch(batch)) \/ DeleteBatch \/ SweepFails
    BY <1>3, SelectKeeps, DeleteKeeps, SweepFailsKeeps
  <1>4. CASE \/ BeginSweep \/ SweeperStops \/ Signal \/ ServeFails \/ CancelRun \/ ClosePool
             \/ RetentionTick
             \/ UNCHANGED retentionVars
    BY <1>4, OthersKeep
  <1> QED  BY <1>1, <1>2, <1>3, <1>4 DEF RetentionNext

\* Outside a transaction that changes the setting, every row expires by the
\* setting in force, unless its insert overlapped a change (requests.go:339-352).
THEOREM ExpiryCorrect == RetentionSpec => []ExpiryFollowsSetting
  BY InvImplies, RetentionInit_Inv, RetentionStep_Inv, PTL DEF RetentionSpec

\* Every variable has its type, and a DELETE selects no more than a batch.
THEOREM RetentionTyped == RetentionSpec => []RetentionTypeOK
  <1>1. RetentionInv => RetentionTypeOK
    BY DEF RetentionInv
  <1> QED  BY <1>1, RetentionInit_Inv, RetentionStep_Inv, PTL DEF RetentionSpec

-----------------------------------------------------------------------------
(***************************************************************************)
(* Paging: a client gets every row that stays, and none twice, for any     *)
(* page size and any set of times and ids.                                 *)
(***************************************************************************)

\* A client that is paging has read nothing, or its cursor is the last row that it has;
\* a row that was there all the time has been read or lies below the cursor.
CursorInv ==
    /\ client = "reading" => IF cursor = NoCursor THEN read = <<>>
                             ELSE read # <<>> /\ cursor = read[Len(read)]
    /\ client = "finished" => cursor = NoCursor
    /\ cursor # NoCursor => \A p \in standing : p \in Received \/ Below(p, cursor)

PagingInv ==
    /\ PagingTypeOK
    /\ IsFiniteSet(rows)
    /\ standing \subseteq rows
    /\ CursorInv
    /\ PagesAreComplete

\* A position is a pair of numbers.
LEMMA Pairs == \A p \in Position : p[1] \in Nat /\ p[2] \in Nat /\ p = <<p[1], p[2]>>
  <1> SUFFICES ASSUME NEW p \in Position
               PROVE  p[1] \in Nat /\ p[2] \in Nat /\ p = <<p[1], p[2]>>
    OBVIOUS
  <1>1. PICK t \in Times, id \in Ids : p = <<t, id>>
    BY DEF Position
  <1> QED  BY <1>1, PagingAssumption

\* Newer is a strict total order of positions, and Below is its inverse.
LEMMA NewerIsOrder ==
    ASSUME NEW p \in Position, NEW q \in Position
    PROVE  /\ Below(p, q) <=> Newer(q, p)
           /\ ~Newer(p, p)
           /\ p # q => Newer(p, q) \/ Newer(q, p)
           /\ \A r \in Position : Newer(p, q) /\ Newer(q, r) => Newer(p, r)
  <1>1. /\ p[1] \in Nat /\ p[2] \in Nat /\ q[1] \in Nat /\ q[2] \in Nat
        /\ p # q => p[1] # q[1] \/ p[2] # q[2]
    BY Pairs
  <1>2. \A r \in Position : r[1] \in Nat /\ r[2] \in Nat
    BY Pairs
  <1>3. (Below(p, q) <=> Newer(q, p)) /\ ~Newer(p, p)
    BY <1>1 DEF Newer, Below
  <1>4. p # q => Newer(p, q) \/ Newer(q, p)
    BY <1>1 DEF Newer
  <1>5. ASSUME NEW r \in Position, Newer(p, q), Newer(q, r) PROVE Newer(p, r)
    BY <1>1, <1>2, <1>5 DEF Newer
  <1> QED  BY <1>3, <1>4, <1>5

\* A nonempty finite set of positions has an oldest one.
LEMMA OldestRow ==
    ASSUME NEW S \in SUBSET Position, IsFiniteSet(S), S # {}
    PROVE  \E x \in S : \A y \in S : y # x => Newer(y, x)
  <1> DEFINE Good == {s \in SUBSET S : s # {} => \E x \in s : \A y \in s : y # x => Newer(y, x)}
  <1>1. ASSUME NEW s \in SUBSET S, \A r \in SUBSET s : r # s => r \in Good
        PROVE  s \in Good
    <2> SUFFICES ASSUME s # {} PROVE \E x \in s : \A y \in s : y # x => Newer(y, x)
      OBVIOUS
    <2>1. PICK z \in s : TRUE
      OBVIOUS
    <2> DEFINE r == s \ {z}
    <2>2. CASE r = {}
      BY <2>1, <2>2
    <2>3. CASE r # {}
      <3>1. PICK x \in r : \A y \in r : y # x => Newer(y, x)
        <4>1. r \in SUBSET s /\ r # s
          BY <2>1
        <4>2. r \in Good
          BY <1>1, <4>1
        <4> QED  BY <2>3, <4>2
      <3>2. x \in Position /\ z \in Position /\ x # z /\ \A y \in s : y \in Position
        BY <3>1
      <3>3. CASE Newer(z, x)
        BY <3>1, <3>3
      <3>4. CASE Newer(x, z)
        <4>1. \A y \in s : y # z => Newer(y, z)
          BY <3>1, <3>2, <3>4, NewerIsOrder
        <4> QED  BY <2>1, <4>1
      <3> QED  BY <3>2, <3>3, <3>4, NewerIsOrder
    <2> QED  BY <2>2, <2>3
  <1> HIDE DEF Good
  <1>2. S \in Good
    BY <1>1, PartInduction
  <1> QED  BY <1>2 DEF Good

\* s holds the members of S in their order.
Lists(s, S) ==
    /\ s \in [1..Cardinality(S) -> S]
    /\ \A i, j \in 1..Cardinality(S) : i < j => Newer(s[i], s[j])

\* A finite set of positions can be put in order.
LEMMA OrderExists ==
    ASSUME NEW S \in SUBSET Position, IsFiniteSet(S)
    PROVE  \E s : Lists(s, S)
  <1> DEFINE Good == {T \in SUBSET S : \E s : Lists(s, T)}
  <1>1. ASSUME NEW T \in SUBSET S, \A r \in SUBSET T : r # T => r \in Good
        PROVE  T \in Good
    <2> SUFFICES \E s : Lists(s, T)
      OBVIOUS
    <2>0. IsFiniteSet(T) /\ Cardinality(T) \in Nat
      BY FS_Subset, FS_CardinalityType
    <2>1. CASE T = {}
      <3> DEFINE s == [i \in 1..0 |-> 0]
      <3>1. Cardinality(T) = 0
        BY <2>1, FS_EmptySet
      <3>2. s \in [1..0 -> T]
        OBVIOUS
      <3>3. Lists(s, T)
        BY <3>1, <3>2 DEF Lists
      <3> QED  BY <3>3
    <2>2. CASE T # {}
      <3>1. PICK x \in T : \A y \in T : y # x => Newer(y, x)
        BY <2>0, <2>2, OldestRow
      <3> DEFINE r == T \ {x}
                 n == Cardinality(T)
      <3>2. Cardinality(r) = n - 1 /\ n > 0
        BY <2>0, <2>2, FS_RemoveElement, FS_EmptySet
      <3>3. PICK u : Lists(u, r)
        BY <1>1, <3>1
      <3> DEFINE s == [i \in 1..n |-> IF i = n THEN x ELSE u[i]]
      <3>4. \A i \in 1..n - 1 : u[i] \in r
        BY <3>2, <3>3 DEF Lists
      <3>5. n \in Nat
        BY <2>0
      <3>6. \A i, j \in 1..n - 1 : i < j => Newer(u[i], u[j])
        BY <3>2, <3>3 DEF Lists
      <3> HIDE DEF n
      <3>7. s \in [1..n -> T]
        BY <3>1, <3>4, <3>5
      <3>8. ASSUME NEW i \in 1..n, NEW j \in 1..n, i < j PROVE Newer(s[i], s[j])
        <4>1. i \in 1..n - 1 /\ s[i] = u[i]
          BY <3>5, <3>8
        <4>2. CASE j = n
          BY <3>1, <3>4, <3>5, <4>1, <4>2
        <4>3. CASE j # n
          BY <3>5, <3>6, <3>8, <4>1, <4>3
        <4> QED  BY <4>2, <4>3
      <3> HIDE DEF s
      <3>9. Lists(s, T)
        BY <3>7, <3>8 DEF Lists, n
      <3> QED  BY <3>9
    <2> QED  BY <2>1, <2>2
  <1> HIDE DEF Good
  <1>2. S \in Good
    BY <1>1, PartInduction
  <1> QED  BY <1>2 DEF Good

\* InOrder puts every row of a set in its place.
LEMMA InOrderLists ==
    ASSUME NEW S \in SUBSET Position, IsFiniteSet(S)
    PROVE  /\ Lists(InOrder(S), S)
           /\ Cardinality(S) \in Nat
           /\ \A p \in S : \E i \in 1..Cardinality(S) : InOrder(S)[i] = p
  <1> DEFINE s == InOrder(S)
             n == Cardinality(S)
  <1>1. Lists(s, S)
    BY OrderExists DEF Lists, InOrder
  <1>2. n \in Nat
    BY FS_CardinalityType
  <1>3. s \in [1..n -> S] /\ \A i, j \in 1..n : i < j => Newer(s[i], s[j])
    BY <1>1 DEF Lists
  <1> HIDE DEF s
  <1>4. \A i, j \in 1..n : s[i] = s[j] => i = j
    <2> SUFFICES ASSUME NEW i \in 1..n, NEW j \in 1..n, i # j PROVE s[i] # s[j]
      OBVIOUS
    <2>1. s[i] \in Position /\ s[j] \in Position
      BY <1>3
    <2>2. Newer(s[i], s[j]) \/ Newer(s[j], s[i])
      BY <1>2, <1>3
    <2> QED  BY <2>1, <2>2, NewerIsOrder
  <1>5. s \in Injection(1..n, S)
    BY <1>3, <1>4 DEF Injection, IsInjective
  <1>6. Cardinality(1..n) = n
    BY <1>2, FS_Interval
  <1>7. s \in Surjection(1..n, S)
    BY <1>5, <1>6, FS_Injection
  <1> QED  BY <1>1, <1>2, <1>7 DEF Surjection, s

\* The list t, of members of S, has the first n of the m members of s in their places.
Begins(t, S, s, m, n) ==
    /\ t \in Seq(S)
    /\ Len(t) = IF m < n THEN m ELSE n
    /\ \A i \in 1..Len(t) : t[i] = s[i]

\* FirstOf takes the first n of a list, or all if there are less.
LEMMA FirstRows ==
    ASSUME NEW S, NEW m \in Nat, NEW s \in [1..m -> S], NEW n \in Nat
    PROVE  Begins(FirstOf(s, n), S, s, m, n)
  <1>1. s \in Seq(S) /\ Len(s) = m
    OBVIOUS
  <1> DEFINE k == IF m < n THEN m ELSE n
  <1>2. k \in Nat /\ k <= Len(s) /\ FirstOf(s, n) = SubSeq(s, 1, k)
    BY <1>1 DEF FirstOf
  <1>3. /\ SubSeq(s, 1, k) \in Seq(S)
        /\ Len(SubSeq(s, 1, k)) = k
        /\ \A i \in 1..k : SubSeq(s, 1, k)[i] = s[i]
    <2> HIDE DEF k
    <2> QED  BY <1>1, <1>2
  <1> QED  BY <1>2, <1>3 DEF Begins

\* What the query answers: the candidates in their order, or the first Limit of them
\* with the last of these as the cursor if there are more.
LEMMA PageOf ==
    ASSUME PagingInv
    PROVE  LET C == Candidates
               s == InOrder(C)
               page == FirstOf(Probed, Limit)
           IN  /\ C \in SUBSET Position
               /\ Cardinality(C) \in Nat
               /\ Lists(s, C)
               /\ \A p \in C : \E i \in 1..Cardinality(C) : s[i] = p
               /\ page \in Seq(C)
               /\ \A i \in 1..Len(page) : page[i] = s[i]
               /\ \/ Len(page) = Cardinality(C) /\ NextCursor(Probed) = NoCursor
                  \/ /\ Limit < Cardinality(C) /\ Len(page) = Limit
                     /\ NextCursor(Probed) = s[Limit]
  <1> DEFINE C == Candidates
             n == Cardinality(C)
             s == InOrder(C)
             out == Probed
             page == FirstOf(out, Limit)
  <1> USE PagingAssumption
  <1>1. C \in SUBSET rows /\ C \in SUBSET Position
    BY DEF Candidates, PagingInv, PagingTypeOK
  <1>2. IsFiniteSet(C)
    BY <1>1, FS_Subset DEF PagingInv
  <1> HIDE DEF C
  <1>3. Lists(s, C) /\ n \in Nat /\ \A p \in C : \E i \in 1..n : s[i] = p
    BY <1>1, <1>2, InOrderLists
  <1>4. s \in [1..n -> C]
    BY <1>3 DEF Lists
  <1>5. out = FirstOf(s, Limit + 1)
    BY DEF Probed, C
  <1> HIDE DEF s, out, n
  <1> DEFINE m == Len(out)
  <1>6. /\ out \in Seq(C) /\ m = (IF n < Limit + 1 THEN n ELSE Limit + 1)
        /\ \A i \in 1..m : out[i] = s[i]
    <2> DEFINE more == Limit + 1
    <2>1. more \in Nat /\ out = FirstOf(s, more) /\ n \in Nat
      BY <1>3, <1>5
    <2> HIDE DEF more
    <2>2. Begins(out, C, s, n, more)
      BY ONLY <1>4, <2>1, FirstRows
    <2> QED  BY <2>2 DEF Begins, more
  <1>7. m \in Nat /\ out \in [1..m -> C]
    BY <1>6
  <1> HIDE DEF m
  <1>8. /\ page \in Seq(C) /\ Len(page) = (IF m < Limit THEN m ELSE Limit)
        /\ \A i \in 1..Len(page) : page[i] = out[i]
    <2>1. Limit \in Nat
      OBVIOUS
    <2>2. Begins(page, C, out, m, Limit)
      BY ONLY <1>7, <2>1, FirstRows
    <2> QED  BY <2>2 DEF Begins
  <1>9. \A i \in 1..Len(page) : page[i] = s[i]
    BY <1>6, <1>7, <1>8
  <1>10. NextCursor(out) = IF m > Limit THEN out[Limit] ELSE NoCursor
    BY DEF NextCursor, m
  <1>11. CASE n <= Limit
    BY <1>1, <1>3, <1>6, <1>8, <1>9, <1>10, <1>11 DEF C, s, n, out
  <1>12. CASE Limit < n
    <2>1. m = Limit + 1 /\ Len(page) = Limit /\ Limit \in 1..m
      BY <1>3, <1>6, <1>8, <1>12
    <2>2. NextCursor(out) = s[Limit]
      BY <1>6, <1>10, <2>1
    <2> QED  BY <1>1, <1>3, <1>8, <1>9, <1>12, <2>1, <2>2 DEF C, s, n, out
  <1> QED  BY <1>3, <1>11, <1>12

\* A client that reads a page.
LEMMA ReadPageKeeps == ASSUME PagingInv, ReadPage PROVE PagingInv'
  <1> DEFINE C == Candidates
             n == Cardinality(C)
             s == InOrder(C)
             page == FirstOf(Probed, Limit)
             len == Len(page)
             last == Len(read)
             next == NextCursor(Probed)
  <1> USE PagingAssumption
  <1>1. /\ C \in SUBSET Position /\ n \in Nat /\ page \in Seq(C)
        /\ \A p \in C : \E i \in 1..n : s[i] = p
        /\ \A i \in 1..len : page[i] = s[i]
        /\ \/ len = n /\ next = NoCursor
           \/ Limit < n /\ len = Limit /\ next = s[Limit]
    BY PageOf
  <1>2. s \in [1..n -> C] /\ \A i, j \in 1..n : i < j => Newer(s[i], s[j])
    BY PageOf DEF Lists
  <1>3. /\ client = "reading" /\ read' = read \o page /\ cursor' = next
        /\ client' = (IF next = NoCursor THEN "finished" ELSE "reading")
        /\ UNCHANGED <<rows, standing>>
    BY DEF ReadPage
  <1>4. /\ PagingTypeOK /\ IsFiniteSet(rows) /\ standing \subseteq rows
        /\ CursorInv /\ PagesAreComplete
    BY DEF PagingInv
  <1>5. \A p \in rows : cursor = NoCursor \/ Below(p, cursor) => p \in C
    BY DEF Candidates
  <1>6. \A p \in C : p \in Position /\ (cursor = NoCursor \/ Below(p, cursor))
    BY <1>1 DEF Candidates
  <1> HIDE DEF C, s, page, next, n
  <1>7. /\ len \in Nat /\ last \in Nat /\ len <= n /\ read \in Seq(Position)
        /\ \A i \in 1..last : read[i] \in Position
        /\ \A i \in 1..len : page[i] \in C /\ page[i] \in Position
    BY <1>1, <1>4 DEF PagingTypeOK
  <1>8. /\ Len(read') = last + len /\ DOMAIN read' = 1..(last + len)
        /\ \A i \in 1..last : read'[i] = read[i]
        /\ \A i \in 1..len : read'[last + i] = page[i]
    BY <1>1, <1>3, <1>7
  <1>9. next # NoCursor => /\ len = Limit /\ Limit < n /\ next = s[Limit] /\ next \in Position
                           /\ next = page[len] /\ len > 0
    BY <1>1, <1>2, <1>7
  <1>10. PagingTypeOK'
    <2>1. read' \in Seq(Position)
      BY <1>1, <1>3, <1>7
    <2>2. cursor' \in Position \cup {NoCursor} /\ client' \in {"reading", "finished"}
      BY <1>3, <1>9
    <2> QED  BY <1>3, <1>4, <2>1, <2>2 DEF PagingTypeOK
  <1>11. Received \subseteq Received' /\ \A i \in 1..len : page[i] \in Received'
    <2>1. Received' = {read'[i] : i \in 1..(last + len)}
      BY <1>8 DEF Received
    <2>2. Received = {read[i] : i \in 1..last}
      BY <1>7 DEF Received
    <2>3. \A i \in 1..last : i \in 1..(last + len)
      BY <1>7
    <2>4. \A i \in 1..len : last + i \in 1..(last + len)
      BY <1>7
    <2> HIDE DEF last, len
    <2> QED  BY <1>8, <2>1, <2>2, <2>3, <2>4
  \* A row that was there all the time has been read, is on the page, or comes after it.
  <1>12. ASSUME NEW p \in standing
         PROVE  p \in Received' \/ (next # NoCursor /\ Below(p, next))
    <2>1. p \in Received \/ p \in C
      BY <1>3, <1>4, <1>5 DEF CursorInv
    <2>2. ASSUME p \in C PROVE p \in Received' \/ (next # NoCursor /\ Below(p, next))
      <3>1. PICK i \in 1..n : s[i] = p
        BY <1>1, <2>2
      <3>2. CASE i <= len
        BY <1>1, <1>7, <1>11, <3>1, <3>2
      <3>3. CASE ~(i <= len)
        <4>1. len < i /\ len # n
          BY <1>1, <1>7, <3>1, <3>3
        <4>2. next = s[Limit] /\ Limit \in 1..n /\ Limit < i /\ next \in Position
          BY <1>1, <1>2, <4>1
        <4>3. Newer(next, p) /\ p \in Position
          BY <1>2, <1>6, <2>2, <3>1, <4>2
        <4>4. next # NoCursor
          BY <4>2 DEF Position
        <4> QED  BY <4>2, <4>3, <4>4, NewerIsOrder
      <3> QED  BY <3>2, <3>3
    <2> QED  BY <1>11, <2>1, <2>2
  <1>13. CursorInv'
    <2>1. next # NoCursor => read' # <<>> /\ next = read'[Len(read')]
      BY <1>7, <1>8, <1>9
    <2> QED  BY <1>3, <1>12, <2>1 DEF CursorInv
  <1>14. \A i, j \in DOMAIN read' : i < j => Newer(read'[i], read'[j])
    <2> SUFFICES ASSUME NEW i \in 1..(last + len), NEW j \in 1..(last + len), i < j
                 PROVE  Newer(read'[i], read'[j])
      BY <1>8
    <2>1. CASE j <= last
      <3>1. i \in 1..last /\ j \in 1..last
        BY <1>7, <2>1
      <3>2. Newer(read[i], read[j])
        BY <1>4, <1>7, <3>1 DEF PagesAreComplete
      <3> QED  BY <1>8, <3>1, <3>2
    <2>2. CASE i <= last /\ last < j
      <3>1. PICK b \in 1..len : read'[j] = page[b]
        <4> DEFINE b == j - last
        <4>1. b \in 1..len /\ j = last + b
          BY <1>7, <2>2
        <4> HIDE DEF b
        <4>2. read'[j] = page[b]
          BY <1>8, <4>1
        <4> QED  BY <4>1, <4>2
      <3>2. i \in 1..last /\ last \in 1..last
        BY <1>7, <2>2
      <3>3. cursor # NoCursor /\ cursor = read[last]
        BY <1>3, <1>4, <3>2 DEF CursorInv
      <3>4. Newer(cursor, read'[j]) /\ cursor \in Position /\ read'[j] \in Position
        BY <1>6, <1>7, <3>1, <3>2, <3>3, NewerIsOrder
      <3>5. CASE i = last
        BY <1>8, <3>2, <3>3, <3>4, <3>5
      <3>6. CASE i # last
        <4>1. Newer(read[i], cursor)
          BY <1>4, <1>7, <3>2, <3>3, <3>6 DEF PagesAreComplete
        <4> QED  BY <1>7, <1>8, <3>2, <3>4, <4>1, NewerIsOrder
      <3> QED  BY <3>5, <3>6
    <2>3. CASE last < i
      <3> DEFINE a == i - last
                 b == j - last
      <3>1. /\ a \in 1..len /\ b \in 1..len /\ a < b /\ i = last + a /\ j = last + b
        BY <1>7, <2>3
      <3> HIDE DEF a, b
      <3>2. read'[i] = page[a] /\ read'[j] = page[b]
        BY <1>8, <3>1
      <3>3. a \in 1..n /\ b \in 1..n
        BY <1>1, <1>7, <3>1
      <3>4. read'[i] = s[a] /\ read'[j] = s[b]
        BY <1>1, <3>1, <3>2
      <3> QED  BY <1>2, <3>1, <3>3, <3>4
    <2> QED  BY <1>7, <2>1, <2>2, <2>3
  <1>15. client' = "finished" => standing' \subseteq Received'
    BY <1>3, <1>12
  <1> QED  BY <1>3, <1>4, <1>10, <1>13, <1>14, <1>15 DEF PagingInv, PagesAreComplete

\* A client that has begun to page keeps its place while rows come and go.
LEMMA PlaceKept ==
    ASSUME PagingInv, UNCHANGED <<client, cursor, read>>, IsFiniteSet(rows'),
           rows' \subseteq Position, standing' \subseteq rows',
           standing' \subseteq standing \/ (read = <<>> /\ client = "reading")
    PROVE  PagingInv'
  <1>1. PagingTypeOK'
    BY DEF PagingInv, PagingTypeOK
  <1>2. Received' = Received /\ \A p : Below(p, cursor)' <=> Below(p, cursor)
    BY DEF Received, Below
  <1>3. CASE standing' \subseteq standing
    <2>1. CursorInv'
      BY <1>2, <1>3 DEF PagingInv, CursorInv
    <2>2. PagesAreComplete'
      BY <1>2, <1>3 DEF PagingInv, PagesAreComplete, Newer
    <2> QED  BY <1>1, <2>1, <2>2 DEF PagingInv
  <1>4. CASE read = <<>> /\ client = "reading"
    <2>1. cursor = NoCursor
      BY <1>4 DEF PagingInv, CursorInv
    <2>2. CursorInv' /\ PagesAreComplete'
      BY <1>4, <2>1 DEF CursorInv, PagesAreComplete
    <2> QED  BY <1>1, <2>2 DEF PagingInv
  <1> QED  BY <1>3, <1>4

\* A row is stored.
LEMMA StoreRowKeeps ==
    ASSUME PagingInv, NEW id \in Ids, NEW t \in Times, StoreRow(id, t)
    PROVE  PagingInv'
  <1>1. <<t, id>> \in Position /\ IsFiniteSet(rows \cup {<<t, id>>})
    BY FS_AddElement DEF PagingInv, Position
  <1>2. rows' \subseteq Position /\ IsFiniteSet(rows')
    BY <1>1 DEF StoreRow, PagingInv, PagingTypeOK
  <1>3. standing' \subseteq rows'
    BY DEF StoreRow, PagingInv
  <1>4. standing' \subseteq standing \/ (read = <<>> /\ client = "reading")
    BY DEF StoreRow
  <1> QED  BY <1>2, <1>3, <1>4, PlaceKept DEF StoreRow

\* A row is deleted.
LEMMA DeleteRowKeeps ==
    ASSUME PagingInv, NEW p \in Position, DeleteRow(p)
    PROVE  PagingInv'
  <1>1. IsFiniteSet(rows')
    BY FS_RemoveElement DEF DeleteRow, PagingInv
  <1>2. rows' \subseteq Position /\ standing' \subseteq rows' /\ standing' \subseteq standing
    BY DEF DeleteRow, PagingInv, PagingTypeOK
  <1> QED  BY <1>1, <1>2, PlaceKept DEF DeleteRow

\* The client starts with an empty list.
LEMMA PagingInit_Inv == PagingInit => PagingInv
  BY FS_EmptySet DEF PagingInit, PagingInv, PagingTypeOK, CursorInv, PagesAreComplete

\* Every step of the table and of the client keeps the invariant.
LEMMA PagingStep_Inv == PagingInv /\ [PagingNext]_pagingVars => PagingInv'
  <1> SUFFICES ASSUME PagingInv, [PagingNext]_pagingVars PROVE PagingInv'
    OBVIOUS
  <1>1. CASE PagingNext
    BY <1>1, StoreRowKeeps, DeleteRowKeeps, ReadPageKeeps DEF PagingNext
  <1>2. CASE UNCHANGED pagingVars
    <2>1. /\ UNCHANGED <<client, cursor, read>> /\ rows' = rows /\ standing' = standing
      BY <1>2 DEF pagingVars
    <2>2. IsFiniteSet(rows') /\ rows' \subseteq Position /\ standing' \subseteq rows'
      BY <2>1 DEF PagingInv, PagingTypeOK
    <2> QED  BY <2>1, <2>2, PlaceKept
  <1> QED  BY <1>1, <1>2

\* "A cursor that cannot tell two rows apart either skips one or returns it forever"
\* (cursor.go:13-15): for any page size and any set of times and ids, a client that
\* pages through an inbox gets no row twice, and every row that was there all the time.
THEOREM PagingIsComplete == PagingSpec => []PagesAreComplete
  <1>1. PagingInv => PagesAreComplete
    BY DEF PagingInv
  <1> QED  BY <1>1, PagingInit_Inv, PagingStep_Inv, PTL DEF PagingSpec

-----------------------------------------------------------------------------
(***************************************************************************)
(* The parts side by side.                                                 *)
(***************************************************************************)

\* The part that moves keeps its invariant, and what stands still its type.
UpkeepInv ==
    /\ part \in UpkeepParts
    /\ TypesOK
    /\ part = "cache" => CacheInv
    /\ part = "limiter" => LimiterInv
    /\ part = "lastSeen" => LastSeenInv
    /\ part = "retention" => RetentionInv
    /\ part = "paging" => PagingInv

\* Whatever the clock shows, the variables of a part that stands still have their type.
LEMMA StandsStill ==
    ASSUME TypesOK, ClockTypeOK'
    PROVE  /\ UNCHANGED cacheOwn => CacheTypeOK'
           /\ UNCHANGED limiterOwn => LimiterTypeOK'
           /\ UNCHANGED lastSeenOwn => LastSeenTypeOK'
           /\ UNCHANGED retentionOwn => RetentionTypeOK'
           /\ UNCHANGED pagingVars => PagingTypeOK'
  <1>1. ASSUME UNCHANGED cacheOwn PROVE CacheTypeOK'
    BY <1>1 DEF TypesOK, CacheTypeOK, cacheOwn, lookup
  <1>2. ASSUME UNCHANGED limiterOwn PROVE LimiterTypeOK'
    BY <1>2 DEF TypesOK, LimiterTypeOK, limiterOwn
  <1>3. ASSUME UNCHANGED lastSeenOwn PROVE LastSeenTypeOK'
    BY <1>3 DEF TypesOK, LastSeenTypeOK, lastSeenOwn
  <1>4. ASSUME UNCHANGED retentionOwn PROVE RetentionTypeOK'
    BY <1>4 DEF TypesOK, RetentionTypeOK, retentionOwn, transaction, table, sweep
  <1>5. ASSUME UNCHANGED pagingVars PROVE PagingTypeOK'
    BY <1>5 DEF TypesOK, PagingTypeOK, pagingVars
  <1> QED  BY <1>1, <1>2, <1>3, <1>4, <1>5

\* Each part's invariant includes its type.
LEMMA PartsAreTyped ==
    /\ CacheInv => CacheTypeOK
    /\ LimiterInv => LimiterTypeOK
    /\ LastSeenInv => LastSeenTypeOK
    /\ RetentionInv => RetentionTypeOK
    /\ PagingInv => PagingTypeOK
  BY DEF CacheInv, LimiterInv, LastSeenInv, RetentionInv, PagingInv

\* Each part's type includes the clock's.
LEMMA ClockIsTyped ==
    /\ CacheTypeOK => ClockTypeOK
    /\ LimiterTypeOK => ClockTypeOK
    /\ LastSeenTypeOK => ClockTypeOK
    /\ RetentionTypeOK => ClockTypeOK
  BY DEF CacheTypeOK, LimiterTypeOK, LastSeenTypeOK, RetentionTypeOK

\* All parts start in their invariants.
LEMMA UpkeepInit_Inv == Init => UpkeepInv
  BY CacheInit_Inv, LimiterInit_Inv, LastSeenInit_Inv, RetentionInit_Inv, PagingInit_Inv,
     PartsAreTyped DEF Init, PartsInit, UpkeepInv, TypesOK

\* Every step keeps the invariant of the part that takes it and the types of the rest.
LEMMA UpkeepStep_Inv == UpkeepInv /\ [Next]_vars => UpkeepInv'
  <1> SUFFICES ASSUME UpkeepInv, [Next]_vars PROVE UpkeepInv'
    OBVIOUS
  <1>1. TypesOK
    BY DEF UpkeepInv
  <1>2. CASE part = "cache" /\ CacheNext /\ part' = part
             /\ UNCHANGED <<limiterOwn, lastSeenOwn, retentionOwn, pagingVars>>
    <2>1. CacheInv'
      BY <1>2, CacheStep_Inv DEF UpkeepInv
    <2>2. CacheTypeOK' /\ ClockTypeOK'
      BY <2>1 DEF CacheInv, CacheTypeOK
    <2> QED  BY <1>1, <1>2, <2>1, <2>2, StandsStill DEF UpkeepInv, TypesOK
  <1>3. CASE part = "limiter" /\ LimiterNext /\ part' = part
             /\ UNCHANGED <<cacheOwn, lastSeenOwn, retentionOwn, pagingVars>>
    <2>1. LimiterInv'
      BY <1>3, LimiterStep_Inv DEF UpkeepInv
    <2>2. LimiterTypeOK' /\ ClockTypeOK'
      BY <2>1 DEF LimiterInv, LimiterTypeOK
    <2> QED  BY <1>1, <1>3, <2>1, <2>2, StandsStill DEF UpkeepInv, TypesOK
  <1>4. CASE part = "lastSeen" /\ LastSeenNext /\ part' = part
             /\ UNCHANGED <<cacheOwn, limiterOwn, retentionOwn, pagingVars>>
    <2>1. LastSeenInv'
      BY <1>4, LastSeenStep_Inv DEF UpkeepInv
    <2>2. LastSeenTypeOK' /\ ClockTypeOK'
      BY <2>1 DEF LastSeenInv, LastSeenTypeOK
    <2> QED  BY <1>1, <1>4, <2>1, <2>2, StandsStill DEF UpkeepInv, TypesOK
  <1>5. CASE part = "retention" /\ RetentionNext /\ part' = part
             /\ UNCHANGED <<cacheOwn, limiterOwn, lastSeenOwn, pagingVars>>
    <2>1. RetentionInv'
      BY <1>5, RetentionStep_Inv DEF UpkeepInv
    <2>2. RetentionTypeOK' /\ ClockTypeOK'
      BY <2>1 DEF RetentionInv, RetentionTypeOK
    <2> QED  BY <1>1, <1>5, <2>1, <2>2, StandsStill DEF UpkeepInv, TypesOK
  <1>6. CASE part = "paging" /\ PagingNext /\ part' = part
             /\ UNCHANGED <<now, cacheOwn, limiterOwn, lastSeenOwn, retentionOwn>>
    <2>1. PagingInv'
      BY <1>6, PagingStep_Inv DEF UpkeepInv
    <2>2. PagingTypeOK' /\ ClockTypeOK'
      BY <1>1, <1>6, <2>1 DEF PagingInv, TypesOK, CacheTypeOK, ClockTypeOK
    <2> QED  BY <1>1, <1>6, <2>1, <2>2, StandsStill DEF UpkeepInv, TypesOK
  <1>7. CASE UNCHANGED vars
    <2>1. /\ part' = part
          /\ UNCHANGED <<now, cacheOwn, limiterOwn, lastSeenOwn, retentionOwn, pagingVars>>
      BY <1>7 DEF vars
    <2>2. ClockTypeOK'
      BY <1>1, <2>1 DEF TypesOK, CacheTypeOK, ClockTypeOK
    <2>3. TypesOK'
      BY <1>1, <2>1, <2>2, StandsStill DEF TypesOK
    <2>4. /\ UNCHANGED cacheVars /\ UNCHANGED limiterVars /\ UNCHANGED lastSeenVars
          /\ UNCHANGED retentionVars /\ UNCHANGED pagingVars
      <3>1. UNCHANGED cacheVars
        BY <2>1 DEF cacheOwn, cacheVars
      <3>2. UNCHANGED limiterVars
        BY <2>1 DEF limiterOwn, limiterVars
      <3>3. UNCHANGED lastSeenVars
        BY <2>1 DEF lastSeenOwn, lastSeenVars
      <3>4. UNCHANGED retentionVars
        BY <2>1 DEF retentionOwn, retentionVars
      <3> QED  BY <2>1, <3>1, <3>2, <3>3, <3>4
    <2> QED  BY <2>1, <2>3, <2>4, CacheStep_Inv, LimiterStep_Inv, LastSeenStep_Inv,
                RetentionStep_Inv, PagingStep_Inv DEF UpkeepInv
  <1> QED  BY <1>2, <1>3, <1>4, <1>5, <1>6, <1>7 DEF Next

\* Whichever part is exercised, every variable of all of them has its type: the cap
\* of the cache on its entries, the burst of the limiter on its tokens, and the
\* bounds of the sweeper on its batches included.
THEOREM TypesHold == Spec => []TypesOK
  <1>1. UpkeepInv => TypesOK
    BY DEF UpkeepInv
  <1> QED  BY <1>1, UpkeepInit_Inv, UpkeepStep_Inv, PTL DEF Spec

=============================================================================
