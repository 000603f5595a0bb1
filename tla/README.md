# hooklens in TLA+

TLA+ specifications of hooklens, the webhook inspector: what its concurrent parts do,
model-checked with TLC on small instances, and proved with TLAPS for instances of any size
where that is possible.

## 1. The system

A provider sends a webhook to `/e/<slug>/...`. The ingest handler stores it, shows it to open
browsers, forwards it through a WebSocket tunnel to a CLI on a developer's machine, records what
became of that, and relays the local app's answer to the provider.

    provider --HTTP--> ingest --INSERT/UPDATE--> Postgres <--DELETE-- sweeper
                         |  \                        ^
                         |   publish                 | list, diff, replay, settings
                         |     \                     |
                         |      broker --SSE--> browser (useInbox)
                         |
                         +-- Hub.Forward --> client (one per tunnel) ==WebSocket== CLI --> local app
                                               ^
                                        Server.Handle (handshake, register, serve, tear down)

### Inventory

| Component | State it keeps | Operations | What is hard | What makes it correct |
|---|---|---|---|---|
| Tunnel hub (`internal/tunnel/hub.go`, `semaphore.go`) | `Hub.clients`; per client: `pending`, `closed`, `done`, the slots of `sem`, `nextID` | `Forward`/`send`, `deliver`, `forget`, `close`, `register`, `unregister` | three parties remove entries of one map; the client is used after the registry lock is let go; a one-place channel is filled outside the lock by the only reader | no slot leaked, no entry left over, a waiter can always be reached, a response reaches its own call, the newest tunnel wins, `done` is closed once, a dead tunnel releases its callers |
| Tunnel server (`server.go`) | one goroutine per connection, one reader, a detached closer | `handshake`, `Handle`, `serve`, `closeWith` | eviction, ping timeout, shutdown and teardown race; deferred calls run in reverse | only authenticated connections hold an inbox; dead peers are noticed; closes are explained |
| Tunnel client (`client.go`, `backoff.go`, `protocol.go`) | one session at a time, backoff | `Run`, `connectOnce`, `handshake`, `serve`, `callLocal` | what to retry and what to give up on; two CLIs on one inbox; calls that outlive the server's interest | stops only for its own fault, comes back after everything else, no eviction war |
| Ingest (`internal/ingest/ingest.go`) | per request; `touched` timestamps | `capture`, `forward`, `publish`, `publishDelivery`, `shouldTouch` | failure, crash or timeout at each step around the durability line; retries that overlap | acknowledged means stored, refused means not stored, browsers are told what a reload confirms |
| Inbox cache (`ingest/cache.go`) | bounded map with positive and negative entries | `get`, `put`, `forget`, `evict`, `resolve` | lookups that race with creation and expiry | bounded, no stale negative after the inbox was seen |
| Rate limiter (`internal/ratelimit`) | buckets | `Allow`, `Evict` | clock read outside the lock; eviction forgets | never more than burst + rate x time |
| Captures store (`internal/store/requests.go`, `cursor.go`) | `requests`, `endpoints` tables | `InsertRequest`, `RecordForward`, `ListRequests`, `SetRetention`, `DeleteExpiredRequests` | commits in doubt; inserts that race with retention changes; pages that shift | one outcome per row, expiry follows the setting, paging neither skips nor repeats |
| Inbox store (`internal/store/endpoints.go`, `internal/secret`) | `endpoints` table | create, authenticate | straight-line code | token hash compared, slug unique |
| Live feed (`internal/broker`, `server/sse.go`, `web/src/lib/useInbox.ts`, `sse.ts`, `delivery.ts`) | subscribers and their bounded queues; the browser's list | `Subscribe`, `Publish`, `Unsubscribe`, `handleStream`, `applyDelivery` | gaps between list fetch, subscription and reconnection; slow viewers | the list converges, drops are reported |
| Sweeper (`internal/sweeper`) | a ticker, batches | `Run`, `sweepOnce` | a tick during shutdown, `OnTick` set late | bounded batches, terminates |
| Process (`cmd/hooklens/main.go`) | `baseCtx`, the HTTP server | start, stop | `Shutdown` does not know hijacked connections; deadlines of the HTTP server | clean stop, restart |
| Replay (`server/replay.go`, `internal/replay`) | none | one forward or one HTTP request | a further caller of `Hub.Forward` | as `Hub.Forward` |
| Diff (`internal/diff`, `server/diff.go`) | none | `Bodies`, `Headers`, `handleDiff` | arrays matched by ids that may be missing, repeated or of mixed types | "identical" means it; both directions agree |
| Metrics (`internal/metrics`) | series, counts, sums | `Observe`, `Add`, `Write` | races for a new series and for the sum, scrapes in between | no observation lost or counted twice |
| Signatures, configuration, routing, load generator, web rendering | none | pure functions, parsing, rendering | little | unit tests reach them |

Components interact by direct calls (ingest to store, hub and broker), shared maps under mutexes
(hub, broker, cache, limiter), channels (waiter channels, `done`, broker queues), detached
goroutines (`closeWith`), contexts (request, process, ping), and two network protocols (tunnel
frames, server-sent events). `PROJECT.json` lists every component with its status, and every
hazard at the line where it bites.

## 2. The modules

| Module | Role |
|---|---|
| `TunnelHub` | the hub and the connection life cycle on the server: `hub.go`, `semaphore.go`, and `Handle`, `serve`, `readLoop` of `server.go` |
| `TunnelPromise` | abstract specification of the hub: what callers of `Hub.Forward` may rely on; `TunnelHub` implements it (`KeepsPromise`) |
| `TunnelHubProofs` | theorems about `TunnelHub` and their proofs |
| `TunnelSession` | one inbox's sessions from both ends: server handshake, ping loop, eviction, shutdown; CLI `Run`; network cuts; process restarts |
| `Capture` | `ingest.capture` from the inbox lookup to the answer, with retries, database failures, deadlines and crashes |
| `CaptureProofs` | theorems about `Capture` and their proofs |
| `LiveFeed` | a browser that follows an inbox: `internal/broker`, `handleStream`, and the list of `useInbox.ts`, `sse.ts`, `delivery.ts` |
| `Clock` | the clock, and what it takes to bound it; extended by the next four and by `RoundTrip` |
| `EndpointCache` | the cache in front of the inbox lookup, with `resolve` split at its database query |
| `RateLimiter` | token buckets with clock readings outside the lock, and their eviction |
| `LastSeen` | `shouldTouch`, `TouchEndpoint`, `EvictTouched` |
| `Retention` | the expiry of captures: `InsertRequest`, `SetRetention`, `DeleteExpiredRequests`, the sweeper, and the order of the shutdown |
| `Paging` | `ListRequests`, its cursor, and a client that pages |
| `RoundTrip` | a forward from the server's caller to the app and back, with the slots and deadlines of both ends |
| `Metrics` | one histogram: `slot`, `Observe`, `addFloat`, and a scrape |
| `CaptureDiff` | `diff.Bodies`, `diff.Headers` and `handleDiff` |
| `TunnelSessionProofs`, `LiveFeedProofs`, `MetricsProofs` | theorems about those modules and their proofs |
| `RequestsProofs` | theorems about `RoundTrip` and `CaptureDiff`, one after the other |
| `UpkeepProofs` | theorems about the five parts of `MCUpkeep`, one after the other, and about `MCUpkeep` |
| `FiniteInduction` | induction over naturals and over the parts of a finite set, as lemmas that the provers can apply |
| `MCTunnelHub`, `MCTunnelSession`, `MCCapture`, `MCLiveFeed` | finite values for the constants |
| `MCUpkeep` | `EndpointCache`, `RateLimiter`, `LastSeen`, `Retention` and `Paging` under one specification; the initial state picks which of them a behaviour exercises |
| `MCParts` | `RoundTrip`, `Metrics` and `CaptureDiff`, in the same way, beside the parts of `MCUpkeep` |

The modules overlap at two seams. `TunnelHub` starts where a handshake has succeeded and lets any
socket drop at any time; `TunnelSession` says how connections come and go and carries no
forwarded requests. `Capture` takes `Hub.Forward` as a call that ends with any outcome, by its
deadline at the latest; that is what `DeadlineReturns` of `TunnelHub` shows. `RoundTrip` follows such a
call over a connection that stays up, to the app and back. `LiveFeed` takes from `Capture` the order store,
announce, record, announce again.

The eight parts of `MCParts` share no state in the code (the sweeper's tick
calls three of them, at any time). They are checked side by side, not interleaved, because an interleaving
of parts that do not touch each other shows nothing that one part does not. The clock is the only variable they
share.

### TunnelHub

*State.* `clients` is `Hub.clients`. Per `*client`: `pending` is the map (as the set of callers
with an entry; the key is `reqID`), `closed`, `done`, `slots` (tokens in `sem`), `nextID`.
`socket` says whether the connection is open, `closing` names clients with a detached
`closeWith` under way, `written` the requests that are on the connection. `handler` is the program
counter of `Server.Handle` (its deferred calls included), `reader` what `readLoop` holds between
taking an entry and sending to the channel. Per call of `Forward`: `pc`, the client it read
(`via`), its id, its one-place channel (`chan`), whether its deadline passed, its result.

*Steps.* Every critical section of a mutex, every channel operation and every socket operation
that another goroutine can tell apart is an action of its own. So the following interleave
freely: lookup in the registry, `acquire`, entering the map, writing, the three branches of the
`select`, `forget`, `release`; taking an entry and sending the response; the lock section of
`close` and `close(c.done)`; `register`, the eviction of the old client, its detached close;
`unregister`, `close`, `CloseNow` in the order in which Go runs the deferred calls.

*Data.* A response is represented by the call it is about. The peer may answer any request that was
written, in any order and any number of times. `Write` succeeds or fails; a write that fails may have
brought the frame to the peer all the same, and one cut short by a deadline may cost the connection, as the
WebSocket library does it. `Encode` errors leave `send` through the same deferred calls and coincide with
`WriteFails`.

### TunnelSession

*State.* The server process, one handler per connection record (`srv`), what is left of the
connection (`link`: up, cut without either end knowing, closed by the CLI with or without the
server having been told, closed by the server, closed by both), unread frames, connections about
to be evicted, the registered connection (`holder`), and per CLI its position in `Run`, its
connection, why it stopped, and its credentials.

*Steps.* `ReadHello`, `HelloLost`, `HelloLate`, `AuthOK`, `AuthRefused`, `WriteAck` are
`handshake`; `Register`, `CloseReplaced`, `End` are `Handle`; `ServeShutdown`, `ServeReadFails`,
`PingStart`, `PingAnswered`, `PingFails` are `serve`; `Dial`, `DialFails`, `ReadFrame`,
`ConnectionLost`, `HandshakeGivesUp`, `Retry`, `Interrupt` are the CLI. Time is not counted; each
timer is an action that may fire, and a timer that fires on a healthy connection counts as a fault.

### Capture

*State.* Per attempt of an event: the handler's position, whether the provider still waits, the
outcome of the forward, the row, what browsers were told, the answer decided and the answer seen.

*Steps.* One action per stage of `capture`: `Resolve`, `Limit`, `Read`, `Insert`, `Publish`,
`Forward`, `ForwardEnds`, `Record`, `Announce`, `Respond`. `Insert` and `Record` may fail before
or after the commit. The provider sends (`Send`) and gives up (`HangUp`), which cancels the
request's context and with it everything that runs on it; `RecordForward` runs on a context of its
own. `WriteDeadline` is `http.Server.WriteTimeout`, which may pass during any wait; a forward that ends by its own
deadline, as long and begun later, has outlasted it (`ForwardEnds`). `Crash` ends all handlers; rows stay.

*Data.* Outcomes are told apart by when they can come about and by what is answered: failures
(`undelivered` at any time, `expired` only at the deadline, `too_large` without a forward) and
answers (`delivered`; `odd`, a status outside 100..599, which breaks a CHECK constraint of the
table; `zero`, which `RecordForward` takes for "no status"). `TypeOK` contains the CHECK
constraints.

### LiveFeed

*State.* Per capture the stage of its handler; the ids in the table; the broker's subscribers, queues and
drop counts; per stream the position of `handleStream` and what it has reported, the connection and the
events on it; per viewer the fetch of the list and its answer, the cached page and the number of missed events
it was told of.

*Steps.* `InsertRow`, `PublishCapture`, `RecordOutcome`, `PublishDelivery` are the capture's handler.
`OpenStream` (headers and "connected" written), `Subscribe`, `ForwardEvent`, `ReportDrops`,
`ReturnFrom` are `handleStream`. `BreakStream` is the network. `ServeList` and `ListArrives` split the fetch at the
moment the table is read; `Refetch` is the invalidation after a replay; `ReadEvent` is `onEvent`.

*Data.* A row is an id and whether its outcome is there. A write to a dead connection may succeed into a buffer
nobody reads.

### EndpointCache, RateLimiter, LastSeen, Retention, Paging

*EndpointCache.* The map with its expiries, the table of inboxes, and per request whether it is between the miss and the query
or between the query and `put`. `Miss` deletes an expired entry as `get` does. `Put` evicts when full and refuses
when that freed nothing. `MaxLookup` bounds the time from the database's answer to `put`.

*RateLimiter.* Tokens are measured in the time it takes to earn them, so one tick earns one, an action costs
`Cost` = 1/rate and a bucket holds `Burst` = burst/rate; all are integers. `Ask` reads the clock, `Allow` is the part
under the lock. `EvictLimiters` reads the clock, `ForgetBuckets` is the pass under the lock. `MaxDelay` bounds
the time from a reading to the lock. `StartWindow` makes any moment the start of the window that `LimitHolds` is about.
Nothing in the code ties the idle time to the time in which a bucket fills, so nothing in the module does: what forgetting
a bucket may be worth to its key (`Shortfall`) is added up in `forgiven`.

*LastSeen.* `ShouldTouch` sets the mark under its lock, `TouchEndpoint` writes the column later or fails, for
overlapping captures whose times of receipt are in another order. Nothing bounds a capture's duration, so updates overtake each
other; `delay` is how late the value in the column was written.

*Retention.* Statements at read committed: an insert reads the committed setting when it begins and is seen when it commits; `SetRetention` is
two statements and a commit; a DELETE selects rows by what was committed and then deletes them once nobody holds them.
The sweeper's batches, failures and stop, and `main.go`'s shutdown: `Signal` or `ServeFails`, `CancelRun`, `ClosePool`.
`SetRetention` has no caller in the program yet; it is modelled as the operation that the store offers.

*Paging.* The table as positions (time, id), and a client that follows `next_cursor` while rows are stored above
and below its cursor and deleted.

### RoundTrip, Metrics, CaptureDiff

*RoundTrip.* Per call the server's side (waiting for a slot, waiting for the reply, over) and the CLI's
(frame coming, waiting for a slot, in `callLocal`, replying), with the moments their deadlines run from. A request that gets a
slot need not reach the app: it may fail to be decoded or built, or nobody may listen. Time does
not pass a deadline before it is noticed, nor a frame's `MaxTravel`.

*Metrics.* Per observer its next atomic step: find the series under the read lock, create it under the write
lock, count, total, load the sum, swap the sum. A scrape loads one number per step. `MCParts` starts with any values.

*CaptureDiff.* JSON values are trees, paths are sequences of keys, indices and ids, changes are a set (the code sorts them by
path). The three ways the code goes through two values (by key, by index, by id) are one, `Places`, of two functions. The recursion of
`walk` is a function of the depth, `Walk`: encoding/json refuses values that nest deeper than a limit (`MaxDepth`), and `WalkOnce` is
one level. The reference, `Same`, says when two values are equal to a reader; it does not follow the code: it asks for a
pairing of the elements.

## 3. The runs

| Run | Instance | What it shows |
|---|---|---|
| `hub` | 1 inbox, 2 tunnels, 2 calls, 2 slots; about 2.7 million states | the safety properties of the hub and that it implements `TunnelPromise` |
| `hub_live` | the same with 1 slot, and either the second tunnel or the second call never starts | types with the bound of the semaphore; a closed tunnel releases its callers, a passed deadline ends its call, a displaced handler ends |
| `hub_order` | 1 tunnel, 1 call | violation: see finding 6 |
| `session` | 2 CLIs, 3 connections, 1 fault; about 250 000 states | no CLI believes it is live when it is not, the holder is authenticated, dead peers are noticed, sessions settle |
| `session_gives_up` | 1 CLI, 2 connections, 1 fault | violation: see finding 1 |
| `session_replaces_itself` | 1 CLI, 2 connections, 2 faults | violation: see finding 2 |
| `session_shutdown_silent` | 1 CLI, 2 connections, 1 fault | violation: see finding 3 |
| `capture` | 1 event, 3 attempts, 2 faults; about 330 000 states | acknowledged is stored, refusals lie above the durability line, the feed is confirmed by the table (status 0 excepted), events are stored in the end |
| `capture_unanswered` | 1 event, 1 attempt, no fault | violation: see finding 4 |
| `feed` | 2 captures, 1 viewer with 2 streams and 1 refetch, queue and wire of 1; about 330 000 states | no row twice, drops reported exactly and in the end, what was queued for a viewer is shown, dead streams are forgotten |
| `feed_gap` | the same without a refetch | violation: see finding 5 |
| `parts` | eight parts, see below; about 1.06 million states | staleness of the cache, the limit, the lag of `last_seen_at`, expiries follow the setting, pages are complete, the CLI speaks first, scrapes are current, comparisons are exact; expired rows go, shutdown ends |

### Properties, and the mistakes they would catch

*Hub.* `TypeOK`, with one slot and two calls for it: a semaphore that admits one too many. `SlotsAreHeld`: an exit of `send` that skips the release (the comment at `hub.go:155-158`
fears exactly that). `PendingIsOwned`: entries left behind by timed-out calls, or entered into a
client after it was closed. `WaiterIsReachable`: a call stranded until its deadline.
`AnswersAreOwn`: ids that are not unique. `ReaderNeverBlocks`: two sends to one channel, which would
freeze the whole tunnel. `RegistryNamesOpen` and `ServedIsRegistered`: an `unregister` that is missing,
or that removes the winner. `DoneClosedOnce`: a double close, which panics. `DropWakesCallers`,
`DeadlineReturns` and `DisplacedEnds` are failure modes 4, 3 with 9, and 5 of the package's list.

*Session.* `NoZombieCli`, `HolderIsAuthenticated`, `SessionsSettle` (a client that retried after
"replaced" would make two CLIs evict each other for ever), `DeadPeerIsNoticed` (a ping without a
timeout).

*Capture.* `AcknowledgedIsStored`, `RefusalsAreAboveTheLine`, `FeedIsConfirmed`, `EventuallyStored`. `FeedIsConfirmed`
states the one exception to what the comment at `ingest.go:275-276` claims, a status of 0 (section 4), and that there is no other.

*Live feed.* `NoRowTwice`: the list fetch, the stream and a refetch each bring a capture. `ReportsAreExact`: a
report that repeats or loses a count. `WatchedIsShown`: an event that overtakes its list, or an outcome put on
another row. `DeadStreamsAreForgotten`: a handler that returns without `Unsubscribe`. `DropsAreTold`: drops nobody
hears of because no further event comes.

*Upkeep.* `StalenessIsBounded`: lookups that install what has become wrong, an answer cached on an error, lifetimes that add up.
`LimitHolds`: time earned twice by readings that are applied in another order, a forgotten bucket worth more than it lacked.
`LagIsBounded`: a mark that moves without a write, a late update that costs more than its own delay. `ExpiryFollowsSetting`: rows that a change of the setting misses, a
change that is half done. `PagesAreComplete`: rows skipped or repeated because they share a time, or because the cursor points
at the wrong row. `ExpiredIsSwept`: a sweeper that a failure ends, or a backlog that never drains. `ProcessCloses`: an
exit that waits for a sweeper nobody cancelled. `TypesOK` includes the cap of the cache, and the batch of a DELETE.

*Requests.* `ClientSpeaksFirst`: a local deadline that does not cover the wait for a slot, so that the server gives
up first and the developer is told nothing useful; a failure that is reported as an answer. `ScrapesAreCurrent`: a series created
twice, a sum stored over another, a value in two buckets. `ComparisonIsExact`: arrays matched by ids that are ambiguous on one side.

Each of these has a mutant in the same module: the definition it replaces, changed the way a slip
in that code would change it. The run must then fail at that property.

### Bounds, and why they are enough

Two tunnels of one inbox are the smallest instance with a displacement, and the properties about
the registry compare at most two tunnels; different inboxes share no state. Two calls are the
smallest instance in which ids can clash, responses can be swapped, and a slot can be waited for (with one slot). The
theorems of section 5 lift the safety results to any numbers. Two CLIs with three connection
records let each CLI hold a connection while an abandoned one is still in a handshake. One fault
is one cut, late hello, database failure, restart, interrupt or impatient CLI; the finding that needs two has
two. Three attempts and two faults let every single failure, and every pair, fall between any
two steps of overlapping attempts, with one attempt left to succeed. Attempts of different
events share no state in `Capture`.

In `feed` a queue of one message overflows at the second event; two streams are the smallest instance with a
reconnection; two captures are needed for an outcome to reach the wrong row. A second stream is opened only by a viewer
that has its list and did not replay (`SmallScope`), which keeps the graph small enough for liveness.

In `parts` the cache has 2 slugs, 2 lookups and a cap of 1; the limiter 1 key, 2 callers, a burst of 3 at a cost of 2
readings late by 1 and an idle time of 3, after which a bucket may lack 1; last-seen 2 captures at a time in an interval of 2; retention 2 rows, 2 settings, batches of 1, 1 failure; paging
3 ids, 2 times and pages of 1. These are the smallest numbers at which two
steps of the same part overlap, a cap or batch is reached, and a lifetime ends within the horizon. `Horizon` bounds the
clock of each part; buckets of one key do not depend on another's. Three forwards share 1 slot, so that
one waits for a slot at the CLI after its predecessor's caller gave up; three observers race for one series with one
boundary; the comparison runs over all pairs of 133 bodies (arrays of up to two elements of ten kinds, one level below an object too, so
that none nests deeper than `MaxDepth` = 3)
and all pairs of lists of up to two headers.

The bounds are `MaxFaults` in `TunnelSession` and `Capture`, `MaxAttempts` in `Capture`, `MaxStreams`,
`MaxRefetches` and `WireSize` in `LiveFeed`, `MaxTime` and `Horizon` for the clock, `MaxFailures` in `Retention`, and the
sizes of the sets. `MaxLookup`, `MaxDelay` and `MaxTravel` are not bounds of the check but parameters of
what is promised: the properties state how staleness, the limit and the deadlines depend on them. `nextID` is bounded by the number of calls. Symmetry under permutations of
calls and of tunnels is used in `hub`, which has no liveness property. In `parts`, which has two, calls and observers, each of which
nothing but its name tells from the next, start in the order of their names (`CallsInOrder`, `ObserversInOrder`). `hub_live` leaves out
behaviours in which both tunnels and both calls are active; nothing obliges a second tunnel or a
second call to start, so the rest are complete behaviours of the system.

`CHECK_DEADLOCK FALSE` is set everywhere because the systems may stop: calls all return,
CLIs stop for good, providers are satisfied or out of attempts, clocks reach their bound, a comparison is
made once.

### Fairness

No fairness is on a fault, on the peer, on a new call or on a deadline. It is weak except in two places
of `Retention`.

- `TunnelHub`: the steps of `Forward` that need nobody else, the eviction, the detached close, the
  teardown, and the reader's send. Go schedules runnable goroutines. `Write` is not fair: it waits
  for the peer. `TakePending` is not fair: the peer need not answer.
- `TunnelSession`: handshake steps and the handshake timer on a connection that brings nothing,
  `serve`'s own steps, pings (a ticker), the detached close (which is bounded by the library's
  close timeout), the CLI's reads, dials and backoff (`sleep` ends), and the
  end and restart of a process that was told to stop (its shutdown has a time limit of 20 s;
  a supervisor restarts it). `SessionsSettle` depends on the restart.
- `Capture`: the handler's own steps (the tunnel call ends by its deadline), and the provider's
  next attempt. A provider that does not retry gets no promise.
- `LiveFeed`: the stream handlers' steps (their loops run, their tickers tick) and the browser's reads.
  Nothing obliges a capture, a break, or a new stream.
- `Retention` (in `parts`): the sweeper's steps, the statements of a transaction, and the steps of `run` after
  `serve`. Strong on `DeleteBatch`: transactions may hold the rows again and again, and Postgres queues for row
  locks. Strong on `SweeperStops`: `select` picks at random among ready branches, so it does not take the tick for ever.

## 4. Findings

1. **A CLI with the right token gives up for good** (`session_gives_up`). Any error of the token
   lookup is answered `unauthorized`, also a database failure or a query cancelled by shutdown, and the
   CLI treats that code as permanent, although `protocol.go:161-167` reserves the permanent
   codes for a client that is wrong.
2. **A lone CLI is replaced by itself** (`session_replaces_itself`). Registration follows the
   order in which handshakes end. If a token lookup outlasts the CLI's own handshake deadline, the
   CLI redials and registers, then the abandoned connection registers and evicts it; `replaced` is
   permanent. `protocol.go:182-185` says that a flap does not lead there.
3. **A shutdown during a ping is not explained** (`session_shutdown_silent`). The ping's context
   derives from the process context, so `serve` returns without the close frame that
   `server.go:368-369` and `protocol.go:122-124` promise.
4. **A stored capture is not answered** (`capture_unanswered`). The forward's deadline is 30 s
   and starts later than the server's `WriteTimeout` of 30 s, so a forward that uses up its
   deadline ends when nothing can be written to the provider any more, which retries an event that is stored.
   `ingest.go:403-406` says that the server gives up first and answers deliberately.
5. **A viewer may miss a capture for good** (`feed_gap`). `useInbox.ts:99-101` and `204` rely on the initial
   fetch and the stream covering everything. The server subscribes after it has said "connected", an event
   that arrives before the list is ignored, and nothing is fetched after a reconnection; each leaves a gap that
   no report of drops mentions.
6. **A tunnel leaves the registry before its callers are woken** (`hub_order`). `server.go:193-195` gives the order
   `close()` before `unregister()` and says that it matters; deferred calls run last in, first out, so `unregister` comes first.
   `RegistryNamesOpen` holds because of that: in the order of the comment the registry would name a closed client in between.
   A caller that was woken and retries finds the entry gone in the code's order, which is the aim the comment states.

Smaller observations, without a run of their own: `ingest.go:191-197` speaks of keeping a partial body, which
`FromHTTP` does not return; a 503 after a commit in doubt leaves a stored capture that the provider will send again.

- A status of 0 is shown as a delivery, and a reload shows none: `publishDelivery` announces it as `forward_status` 0
  (`ingest.go:376-381`), `RecordForward` stores null for it (`requests.go:406-409`); `ingest.go:275-276` says that a browser never shows a
  delivery state that a reload would contradict. `FeedIsConfirmed` names the exception.
- `last_seen_at` may be set back: `TouchEndpoint` overwrites unconditionally and nothing bounds the time from a capture's receipt to its
  update, so an update that is overtaken by the next one, an interval later, leaves the column staler than `touchInterval`, which
  `ingest.go:89` calls "how stale last_seen_at is allowed to get". What does hold is `LagIsBounded`.
- A bucket that is forgotten need not be full, though `server.go:460-463` says it certainly is. The fifteen minutes are fixed and the rate
  is configured: with `HOOKLENS_RATE_CREATE` below one inbox in three minutes, five tokens take longer, and the key gets a
  full bucket instead. `LimitHolds` counts what that is worth (`forgiven`).
- `client.go:284-287` bounds the CLI's goroutines by the server's in-flight limit. That limit is freed when the
  server's caller gives up, while the CLI goes on; and "whoever gives up first" is the client (`client.go:21-24`) only for
  calls that did not spend the difference between the deadlines waiting for a slot (`inTime` in `RoundTrip`).
- `requests.go:339-352`: a capture whose insert overlaps a change of the setting keeps the old expiry (`crossed`
  in `Retention`); nothing locks it out. A DELETE that has selected a row by its old expiry deletes it although the
  row has been given a longer one since.
- In one scrape `_count` and the `+Inf` bucket may disagree while observations are under way.
- `Replay.tsx:29-31` says that a replay through the tunnel produces a new capture; `replayToTunnel` stores nothing. The refetch
  it starts may put an older page over what the stream has brought meanwhile (`Refetch` ends the promise of `WatchedIsShown`).
- Two arrays with the same elements in another order count as identical when all have unambiguous ids.
- `ForgetEndpoint` is not called, and `DeleteEndpoint` and `SetRetention` have no caller in the program.

## 5. The proofs

Assumptions are those of the modules. `HubAssumption`: every client belongs to an inbox, the
in-flight limit is positive, `None` is none of the values, and the calls are finitely many (slots are
counted by a cardinality). `CaptureAssumption`: the bounds are natural numbers and `None` is
none of the values.

**TunnelHub.** `Invariance` proves the inductive invariant `IndInv`, a conjunction of named parts:

- `Typed`: types, and that a call past the lookup has a client (`BoundHasClient`) and an evicting
  handler has a client to evict (`EvictingHasOld`);
- `Slotted`: slots equal the number of calls that hold one, and never exceed the limit. By itself
  `slots <= MaxInFlight` is not inductive: `release` must be known to have something to release;
- `Registered`: the two registry properties, plus what they need: a connection that is not registered is
  untouched (`ReadyIsFresh`), and a displaced client is out of the registry and stays out
  (`DisplacedIsOut`);
- `DoneClosedOnce`;
- `Numbered`: ids are positive, at most `nextID`, and differ within a client;
- `Answered`: `PendingIsOwned` and `AnswersAreOwn`, plus: a call with an entry in the map has no
  response anywhere (`Unanswered`), and the response a reader holds is for its own call and the
  first for it. This is what makes the one-place buffer enough;
- `WaiterIsReachable`.

Each part has a lemma `Next...` that names only the parts it needs, with one step per action or
group of actions that cannot disturb it. `TypeCorrect`, `SlotsCorrect`, `PendingCorrect`, `WaitersCorrect`,
`AnswersCorrect`, `ReaderCorrect`, `RegistryCorrect`, `WinnerCorrect` and `DoneCorrect` follow.
`Refinement` (`Spec => KeepsPromise`) uses `IndInv` and `Undecided` (no result before `send` is
over); `NextPromise` maps every step to a step of `TunnelPromise` or to a stutter.

**TunnelSession.** `NoZombies` and `HoldersCorrect` prove `NoZombieCli` and `HolderIsAuthenticated`, `TypeCorrect` the type
invariant, for any CLIs, connections and numbers of faults, stops and restarts (`SessionAssumption`). Neither property is inductive. The
invariant adds that a handler past the credentials found them good and that the holder is past them (`Authenticated`), that a
connection that works has a handler, in a session once hello_ok is on its way or read (`Attended`), and
that a session that works is registered or has somebody who will close it (`Displaceable`). What every close does to
a connection is one predicate (`Released`), and most actions are an instance of one of three lemmas about it.

**Capture.** `IndInv` is `TypeOK`, `Unsent` and, for each attempt on its own, `AttemptInv`: above the line
nothing is stored and nobody told; below it the row is there without an outcome until recorded; what is
announced is what was recorded; the answer about to be given fits the row, and a given answer is
the handler's last act. A step of one attempt leaves the others alone (`StepIsLocal`,
`Untouched`), so each action is checked for its own attempt only (`StepKeeps`). `TypeCorrect`,
`AcknowledgementsCorrect`, `RefusalsCorrect` and `FeedCorrect` follow for any numbers of events,
attempts and faults. `FeedCorrect` is about `FeedIsConfirmed`, the exception for a status of 0 included.

**RateLimiter.** `LimiterBound` proves `LimitHolds` for any keys, callers, costs, bursts of at least one action (which `New` sees to),
bounds on the delay and idle times. The invariant is an account (`Account`): what a key was granted in the window and what its
bucket is worth now, to a reader that may be late, do not exceed the allowance. A key without a bucket is worth a full
one, so forgetting a bucket costs what it may still lack, `Shortfall`, which is 0 if the idle time is no less than the time in which
a bucket fills and a reading is late. `LimitHolds` alone is not inductive.

**EndpointCache.** `CacheIsBounded` proves the type invariant with the cap on the map; `CacheIsFresh` proves
`StalenessIsBounded`. The invariant adds what an overlapping lookup knows (`Lookups`: an answer that has become wrong was given before the change)
and that no entry, right or wrong, outlives its time to live from now (`Lives`). The cardinality arguments
cite the library's theorems on finite sets.

**LastSeen.** `LastSeenCorrect` proves `LagIsBounded` for any number of overlapping captures and any duration of each; the interval is positive
(`LastSeenAssumption`). A state comes to rest only by an update that succeeds, and then the column plus its delay is the present, which no capture
and no mark is ahead of (`Past`). While it stays at rest no capture has been due, so each is close to a mark that the column and its
delay cover (`MarkIsCovered`). `LagIsBounded` alone is not inductive: it says nothing of the mark.

**Retention.** `ExpiryCorrect` proves `ExpiryFollowsSetting` and `RetentionTyped` the type invariant, for finitely many rows
(`RetentionAssumption`; a batch is bounded by a cardinality). Rows not visible yet must be in the invariant
too (`Projected`), and between the two statements of a change the rows the second one will not reach are those known to
overlap it (`Covered`).

**RoundTrip.** `CliSpeaksFirst` proves `ClientSpeaksFirst`. The invariant adds that a job is nowhere longer than the
tick allows (`OnTime`), that what is left of an attempt ends before the deadline of a caller that had the time when it sent
(`Ahead`), where the app cannot have been asked and where it must have been (`Asked`), and what a caller was told (`Told`).

**CaptureDiff.** `ComparesExactly` proves `ComparisonIsExact`, for any JSON values and any depth. The invariant itself is plain; the argument
is an induction over the depth (`WalkIsExact`). `Exact` is what goes up a level (`OnceMoreIsExact`): no change exactly in what is the same,
the opposite changes from the other side, and, because arrays are matched by ids that are looked up within the elements, values that are
the same have the same id. Arrays are the hard case (`ArraysAreExact`): the pairing that `Same` asks for is the one by ids if both
sides have unambiguous ids (`ByIdIsExact`, with the library's counting theorems), and if one side has not, neither has the other,
so that the pairing can only be the one by index. That `Walk` and `Same` exist, as recursive functions must, is shown first.

**LiveFeed.** `FeedIsSound` proves the inductive invariant `FeedInv`, for any captures, viewers and streams,
and queues and wires of any size. None of the listed properties is inductive. Its parts:

- `StreamInv` says which streams are alive: a viewer reads the one it opened last, an earlier one has no handler any more, and what
  is not subscribed has nothing queued and nothing counted;
- `RowsInv`: `NoRowTwice`, also of the page that is fetched and not there yet;
- `DropsInv`: the count that `ReportsAreExact` is about is `Known`, which also holds of a viewer that has opened no stream;
- `OwedInv`: `WatchedIsShown`, and that a delivery that is owed is preceded by its capture, in the queue, on the wire or on
  the list (`Preceded`, `Before`), since `applyDelivery` ignores an outcome without a row; and `ToldInv`: what is told is recorded, so a
  page that is served brings it.

`TypesHold`, `NoCaptureIsTwoRows`, `DropReportsAreExact` and `WhatIsQueuedIsShown` follow. The first section of the module is about sequences:
what appending, taking the head, and a change of one row do to the set of elements, to their order (`Before`) and to the sum of the counts
on a wire (`OnWire`, a recursive function).

**Paging.** `PagingIsComplete` proves `PagesAreComplete`. The invariant adds that the cursor is the last row the client has, and
that a row that was there all the time has been read or lies below the cursor (`CursorInv`). The order of the rows is a
`CHOOSE`, so it has to be shown that every finite set of positions can be put in order (`OrderExists`, by induction over the
set: the oldest row goes last) and that this order loses none of them (`InOrderLists`).

**MCUpkeep.** `TypesHold` proves `TypesOK` for the five parts side by side: the part that moves keeps its
own invariant, and the types of the rest depend on nothing it changes but the clock (`StandsStill`).

**Metrics.** `ObservationsAreExact` proves the invariant `MetricsInv`, and `ScrapesAreExact` derives `ScrapesAreCurrent` from it, for finitely many
observers (`MetricsAssumption`) and any number of buckets. The invariant says what the one series has: every observation once, in its
bucket when it has begun, in the count when it is added, in the sum when it is over, while an object that lost the race for the
series has none (`CountsInv`, `SeriesInv`). A scrape's line lies between what it has to tell and what it may (`ScrapeInv`); for a bucket that
follows from the line before it (`ToldRules`, `LineIsCurrent`). `SwapSum` is right because the sum it compares with is still the
series' sum. The first section of the module shows that a sum over a finite set, which the library defines by taking one member
after another, does not depend on which is taken first (`SumsAnyOrder`), grows by what a new member has, and is monotonic (`SumOfRules`).

*Induction.* The library's induction theorems take a predicate as a parameter, which the provers cannot instantiate.
`FiniteInduction` states induction about sets instead: the numbers or the parts of a finite set that have a property contain
those that do not have a smaller exception, hence all of them (`UpTo`, `PartInduction`). It rests on the library's theorem that the proper
subset relation is well-founded on finite sets (`SmallestSet`).

**Only model-checked.** Liveness (`DropWakesCallers`, `DeadlineReturns`, `DisplacedEnds`,
`SessionsSettle`, `DeadPeerIsNoticed`, `EventuallyStored`, `DeadStreamsAreForgotten`, `DropsAreTold`,
`ExpiredIsSwept`, `ProcessCloses`): reasoning about fairness needs
`ENABLED`, which the prover does not support. Every safety invariant
of a passing run is stated by a theorem.

## 6. Not modelled, and why

- Signature verification, routing, middleware, configuration, flags, token hashing, address filters, rendering: pure
  or stateless code that unit tests reach. The load generator measures the system from outside.
- A replay to a URL: one outgoing request. Reads of a single row, and their handlers: one query and one response.
- Malformed frames and size limits: for the rest of the system they are a dropped connection.
- The length of delays (backoff, jitter, ping interval): only their order matters to the
  properties; where deadlines are compared, the comparison is a guard (`Capture`) or a number (`RoundTrip`).
- Panics and memory; SQL isolation beyond single statements and row locks; deadlocks of `SetRetention` with a DELETE,
  which Postgres resolves by failing one of them (`AbortSetting`, `SweepFails`); the local app; floating-point rounding
  in the limiter and in sums.
- The wait a refused caller is told, and the rounding of `Retry-After`.
- The counters of `internal/metrics/app.go`, which nothing in the program reads back.

## 7. Plan

What is left, in this order.

1. An abstract specification of a refused and of a granted request that `RateLimiter` implements.
