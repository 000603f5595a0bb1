--------------------------- MODULE EndpointCache ---------------------------
(***************************************************************************)
(* The cache in front of the inbox lookup (internal/ingest/cache.go):      *)
(* Handler.resolve reads it, asks the database on a miss without holding   *)
(* the lock, and installs what it was told, a "no such inbox" included.    *)
(* Lookups of one slug overlap, inboxes are created and deleted meanwhile, *)
(* and the sweeper drops what has expired.                                 *)
(*                                                                         *)
(* A hit changes nothing, and is no step here.                             *)
(***************************************************************************)
EXTENDS Clock, FiniteSets

CONSTANTS
    Slugs,
    Resolvers,    \* requests that may be resolving at the same time
    EndpointTTL,  \* endpointTTL
    NegativeTTL,  \* negativeTTL
    MaxEntries,   \* maxEndpointEntries
    NoSlug,       \* nothing is looked up
    MaxLookup     \* bound on the time between the database's answer to a lookup
                  \* and its installation

ASSUME CacheAssumption ==
    /\ EndpointTTL \in Nat
    /\ NegativeTTL \in Nat
    /\ MaxEntries \in Nat \ {0}
    /\ MaxLookup \in Nat
    /\ NoSlug \notin Slugs

\* ep # nil, and expires.
Entry == [found : BOOLEAN, expires : Nat]

VARIABLES
    inboxes,  \* the slugs of the endpoints table
    entries,  \* endpointCache.entries
    at,       \* per resolver: "idle", "query" after a miss, "put" with an answer
    slug,     \* per resolver, what it looks up
    answer,   \* per resolver, whether the database knew it
    asked,    \* per resolver, when the database answered
    changed   \* history: when a slug was last created or deleted

lookup    == <<at, slug, answer, asked>>
cacheVars == <<now, inboxes, entries, lookup, changed>>

\* The map stays within its cap; every entry has its type.
CacheTypeOK ==
    /\ ClockTypeOK
    /\ inboxes \subseteq Slugs
    /\ DOMAIN entries \subseteq Slugs
    /\ entries \in [DOMAIN entries -> Entry]
    /\ IsFiniteSet(DOMAIN entries)
    /\ Cardinality(DOMAIN entries) <= MaxEntries
    /\ at \in [Resolvers -> {"idle", "query", "put"}]
    /\ slug \in [Resolvers -> Slugs \cup {NoSlug}]
    /\ answer \in [Resolvers -> BOOLEAN]
    /\ asked \in [Resolvers -> Nat]
    /\ changed \in [Slugs -> Nat]

CacheInit ==
    /\ ClockInit
    /\ inboxes \in SUBSET Slugs
    /\ entries = [s \in {} |-> s]
    /\ at = [r \in Resolvers |-> "idle"]
    /\ slug = [r \in Resolvers |-> NoSlug]
    /\ answer = [r \in Resolvers |-> FALSE]
    /\ asked = [r \in Resolvers |-> 0]
    /\ changed = [s \in Slugs |-> 0]

-----------------------------------------------------------------------------

\* The map without some of its keys.
Without(gone) == [s \in DOMAIN entries \ gone |-> entries[s]]

Expired == {s \in DOMAIN entries : entries[s].expires <= now}

\* An endpoint is created, or deleted by a tool beside this process.
ChangeInbox(s) ==
    /\ inboxes' = IF s \in inboxes THEN inboxes \ {s} ELSE inboxes \cup {s}
    /\ changed' = [changed EXCEPT ![s] = now]
    /\ UNCHANGED <<now, entries, lookup>>

\* endpointCache.get finds nothing, or something expired, which it deletes.
Miss(r, s) ==
    /\ at[r] = "idle"
    /\ s \notin DOMAIN entries \/ s \in Expired
    /\ entries' = Without({s})
    /\ at' = [at EXCEPT ![r] = "query"]
    /\ slug' = [slug EXCEPT ![r] = s]
    /\ UNCHANGED <<now, inboxes, answer, asked, changed>>

\* Mutant: whatever the error, the inbox is taken not to exist.
CachedAsAbsent == "put"

\* Where resolve goes when EndpointBySlug fails: it returns the error.
AfterFailure == "idle"

\* EndpointBySlug.
Query(r) ==
    /\ at[r] = "query"
    /\ \/ /\ at' = [at EXCEPT ![r] = "put"]
          /\ answer' = [answer EXCEPT ![r] = slug[r] \in inboxes]
          /\ asked' = [asked EXCEPT ![r] = now]
          /\ UNCHANGED slug
       \/ /\ at' = [at EXCEPT ![r] = AfterFailure]
          /\ slug' = [slug EXCEPT ![r] = IF AfterFailure = "idle" THEN NoSlug ELSE @]
          /\ UNCHANGED <<answer, asked>>
    /\ UNCHANGED <<now, inboxes, entries, changed>>

TTL(found) == IF found THEN EndpointTTL ELSE NegativeTTL

\* The map put finds room in: a full one is rid of what has expired.
MadeRoom ==
    IF Cardinality(DOMAIN entries) < MaxEntries THEN entries ELSE Without(Expired)

\* Mutant: what was evicted is not counted.
AdmitsAnyway == TRUE

\* Whether put admits an entry: a full map in which nothing has expired refuses,
\* also a key that it holds.
Admits == Cardinality(DOMAIN entries) < MaxEntries \/ MadeRoom # entries

\* endpointCache.put.
Put(r) ==
    LET room == MadeRoom
        new == [found |-> answer[r], expires |-> now + TTL(answer[r])]
    IN
    /\ at[r] = "put"
    /\ entries' =
         IF Admits
         THEN [s \in DOMAIN room \cup {slug[r]} |-> IF s = slug[r] THEN new ELSE room[s]]
         ELSE entries
    /\ at' = [at EXCEPT ![r] = "idle"]
    /\ slug' = [slug EXCEPT ![r] = NoSlug]
    /\ answer' = [answer EXCEPT ![r] = FALSE]
    /\ asked' = [asked EXCEPT ![r] = 0]
    /\ UNCHANGED <<now, inboxes, changed>>

\* EvictEndpointCache, from the sweeper's tick.
EvictExpired ==
    /\ entries' = Without(Expired)
    /\ UNCHANGED <<now, inboxes, lookup, changed>>

\* A lookup gets from the database to the map within MaxLookup.
CacheTick ==
    /\ \A r \in Resolvers : at[r] = "put" => now < asked[r] + MaxLookup
    /\ Tick
    /\ UNCHANGED <<inboxes, entries, lookup, changed>>

CacheNext ==
    \/ \E s \in Slugs : ChangeInbox(s)
    \/ \E r \in Resolvers, s \in Slugs : Miss(r, s)
    \/ \E r \in Resolvers : Query(r) \/ Put(r)
    \/ EvictExpired
    \/ CacheTick

CacheSpec == CacheInit /\ [][CacheNext]_cacheVars

-----------------------------------------------------------------------------
(* Properties                                                              *)

\* How stale a cached answer may be (cache.go:16-34): once an inbox has been
\* created or deleted, an entry that says otherwise is gone after its time to
\* live, counted from the end of the lookups that were under way. A failure of
\* the database never turns into "no such inbox".
StalenessIsBounded ==
    \A s \in DOMAIN entries :
        entries[s].found # (s \in inboxes) =>
            entries[s].expires <= changed[s] + MaxLookup + TTL(entries[s].found)

=============================================================================
