------------------------------ MODULE LiveFeed ------------------------------
(***************************************************************************)
(* How an open browser follows an inbox: the in-process broker             *)
(* (internal/broker), the handler of the event stream                      *)
(* (internal/server/sse.go), and the list the browser keeps                *)
(* (web/src/lib/useInbox.ts, sse.ts, delivery.ts).                         *)
(*                                                                         *)
(* Captures are stored, announced, given an outcome, and announced again   *)
(* by their own handlers (module Capture). A viewer asks for the list once *)
(* and opens a stream at the same time; the stream may break, and is       *)
(* opened again. After a replay through the tunnel the list is fetched     *)
(* again.                                                                  *)
(***************************************************************************)
EXTENDS Naturals, Sequences, FiniteSets, Functions

CONSTANTS
    Captures,     \* what providers send to the inbox
    Viewers,      \* browsers with the inbox open
    Buffer,       \* the broker's buffer: messages a subscriber may be behind
    WireSize,     \* events under way between the handler and the browser
    MaxStreams,   \* bound on the streams a viewer opens
    MaxRefetches  \* bound on the replays after which a viewer fetches again

ASSUME LiveFeedAssumption ==
    /\ Buffer \in Nat \ {0}
    /\ WireSize \in Nat \ {0}
    /\ MaxStreams \in Nat
    /\ MaxRefetches \in Nat

\* The streams a viewer opens, one after the other.
Streams == Viewers \X (1..MaxStreams)

Message == [event : {"capture", "delivery"}, id : Captures]

\* A row of the list, with its outcome or without.
Row == [id : Captures, outcome : BOOLEAN]

VARIABLES
    stage,     \* how far the handler of a capture is
    table,     \* the ids of the stored rows, newest first
    subs,      \* Broker.subs for the inbox
    queue,     \* per stream, Subscriber.ch
    dropped,   \* per stream, Subscriber.dropped
    handler,   \* per stream, where handleStream is
    reported,  \* per stream, its local variable
    up,        \* per stream, the connection is alive
    wire,      \* per stream, events written and not yet read
    opened,    \* per viewer, streams opened so far
    reading,   \* per viewer, whether it reads from the latest of them
    fetching,  \* per viewer, the request for the list: "no", "asked" or
               \* "answered" with a page
    page,      \* per viewer, the answer on its way
    loaded,    \* per viewer, whether the query cache holds a page
    list,      \* per viewer, the rows of that page
    shown,     \* per viewer, missed events it was told of
    refetches, \* per viewer, fetches after the first
    lost,      \* history: messages the broker dropped, per viewer
    owed       \* history: per viewer, messages put into the queue of its stream
               \* while its list was loaded and no fetch was under way

broker  == <<subs, queue, dropped>>
server  == <<handler, reported>>
network == <<up, wire, opened, reading>>
browser == <<fetching, page, loaded, list, shown, refetches>>
history == <<lost, owed>>
vars    == <<stage, table, broker, server, network, browser, history>>

\* Every variable has its type; no queue is longer than its buffer.
TypeOK ==
    /\ stage \in [Captures -> {"new", "stored", "announced", "recorded", "done"}]
    /\ table \in Seq(Captures)
    /\ subs \subseteq Streams
    /\ queue \in [Streams -> Seq(Message)]
    /\ \A s \in Streams : Len(queue[s]) <= Buffer
    /\ dropped \in [Streams -> Nat]
    /\ handler \in [Streams -> {"none", "opened", "streaming", "over"}]
    /\ reported \in [Streams -> Nat]
    /\ up \in [Streams -> BOOLEAN]
    /\ wire \in [Streams -> Seq(Message \cup [event : {"dropped"}, count : Nat])]
    /\ opened \in [Viewers -> 0..MaxStreams]
    /\ reading \in [Viewers -> BOOLEAN]
    /\ fetching \in [Viewers -> {"no", "asked", "answered"}]
    /\ page \in [Viewers -> Seq(Row)]
    /\ loaded \in [Viewers -> BOOLEAN]
    /\ list \in [Viewers -> Seq(Row)]
    /\ shown \in [Viewers -> Nat]
    /\ refetches \in [Viewers -> 0..MaxRefetches]
    /\ lost \in [Viewers -> Nat]
    /\ owed \in [Viewers -> SUBSET Message]

Init ==
    /\ stage = [c \in Captures |-> "new"]
    /\ table = <<>>
    /\ subs = {}
    /\ queue = [s \in Streams |-> <<>>]
    /\ dropped = [s \in Streams |-> 0]
    /\ handler = [s \in Streams |-> "none"]
    /\ reported = [s \in Streams |-> 0]
    /\ up = [s \in Streams |-> FALSE]
    /\ wire = [s \in Streams |-> <<>>]
    /\ opened = [v \in Viewers |-> 0]
    /\ reading = [v \in Viewers |-> FALSE]
    /\ fetching = [v \in Viewers |-> "asked"]
    /\ page = [v \in Viewers |-> <<>>]
    /\ loaded = [v \in Viewers |-> FALSE]
    /\ list = [v \in Viewers |-> <<>>]
    /\ shown = [v \in Viewers |-> 0]
    /\ refetches = [v \in Viewers |-> 0]
    /\ lost = [v \in Viewers |-> 0]
    /\ owed = [v \in Viewers |-> {}]

Current(v) == <<v, opened[v]>>

Ids(rows) == {r.id : r \in Range(rows)}

-----------------------------------------------------------------------------
(* The broker                                                              *)

\* Mutant: one message more than the channel holds.
RoomForOneMore(s) == Len(queue[s]) <= Buffer

\* Whether the non-blocking send of Publish goes through.
HasRoom(s) == Len(queue[s]) < Buffer

\* The viewers that will see what a message says, if nothing breaks: a delivery
\* is for a row that is on the list or on its way.
Follows(v, m) ==
    /\ loaded[v] /\ fetching[v] = "no"
    /\ opened[v] > 0 /\ Current(v) \in subs /\ up[Current(v)] /\ HasRoom(Current(v))
    /\ m.event = "delivery" =>
         \/ m.id \in Ids(list[v])
         \/ [event |-> "capture", id |-> m.id] \in owed[v]

\* Broker.Publish, under the broker's mutex.
Publish(m) ==
    /\ queue' = [s \in Streams |->
                   IF s \in subs /\ HasRoom(s) THEN Append(queue[s], m) ELSE queue[s]]
    /\ dropped' = [s \in Streams |->
                     IF s \in subs /\ ~HasRoom(s) THEN dropped[s] + 1 ELSE dropped[s]]
    /\ lost' = [v \in Viewers |->
                  lost[v] + Cardinality({s \in subs : s[1] = v /\ ~HasRoom(s)})]
    /\ owed' = [v \in Viewers |-> owed[v] \cup {x \in {m} : Follows(v, x)}]
    /\ UNCHANGED subs

-----------------------------------------------------------------------------
(* The handlers of captures                                                *)

Advance(c, from, to) == stage[c] = from /\ stage' = [stage EXCEPT ![c] = to]

InsertRow(c) ==
    /\ Advance(c, "new", "stored")
    /\ table' = <<c>> \o table
    /\ UNCHANGED <<broker, server, network, browser, history>>

PublishCapture(c) ==
    /\ Advance(c, "stored", "announced")
    /\ Publish([event |-> "capture", id |-> c])
    /\ UNCHANGED <<table, server, network, browser>>

RecordOutcome(c) ==
    /\ Advance(c, "announced", "recorded")
    /\ UNCHANGED <<table, broker, server, network, browser, history>>

PublishDelivery(c) ==
    /\ Advance(c, "recorded", "done")
    /\ Publish([event |-> "delivery", id |-> c])
    /\ UNCHANGED <<table, server, network, browser>>

-----------------------------------------------------------------------------
(* handleStream                                                            *)

\* The browser asks, the server authenticates it, writes the headers and the
\* event "connected", and the browser is live.
OpenStream(v) ==
    LET s == <<v, opened[v] + 1>> IN
    /\ ~reading[v]
    /\ opened[v] < MaxStreams
    /\ opened' = [opened EXCEPT ![v] = @ + 1]
    /\ reading' = [reading EXCEPT ![v] = TRUE]
    /\ up' = [up EXCEPT ![s] = TRUE]
    /\ handler' = [handler EXCEPT ![s] = "opened"]
    /\ UNCHANGED <<stage, table, broker, reported, wire, browser, history>>

Subscribe(s) ==
    /\ handler[s] = "opened"
    /\ handler' = [handler EXCEPT ![s] = "streaming"]
    /\ subs' = subs \cup {s}
    /\ UNCHANGED <<stage, table, queue, dropped, reported, network, browser, history>>

\* An event goes out. On a dead connection the write may succeed into a buffer
\* that nobody reads; a write that fails ends the handler (ReturnFrom).
WriteEvent(s, e) ==
    /\ up[s] => Len(wire[s]) < WireSize
    /\ wire' = [wire EXCEPT ![s] = IF up[s] THEN Append(@, e) ELSE @]

\* The branch of the select that receives from the subscriber's channel.
ForwardEvent(s) ==
    /\ handler[s] = "streaming"
    /\ queue[s] # <<>>
    /\ WriteEvent(s, Head(queue[s]))
    /\ queue' = [queue EXCEPT ![s] = Tail(@)]
    /\ UNCHANGED <<stage, table, subs, dropped, server, up, opened, reading,
                   browser, history>>

\* Mutant: the total, each time.
AllDrops(s) == dropped[s]

\* What the next report says.
NewDrops(s) == dropped[s] - reported[s]

\* Mutant: a single drop is not worth a report.
ManyDropsSince(s) == dropped[s] > reported[s] + 1

DropsSince(s) == dropped[s] > reported[s]

\* The branch of the ticker; a tick without news writes a comment, which the
\* browser skips.
ReportDrops(s) ==
    /\ handler[s] = "streaming"
    /\ DropsSince(s)
    /\ WriteEvent(s, [event |-> "dropped", count |-> NewDrops(s)])
    /\ reported' = [reported EXCEPT ![s] = dropped[s]]
    /\ UNCHANGED <<stage, table, broker, handler, up, opened, reading, browser,
                   history>>

\* Mutant: the deferred Unsubscribe is missing.
StillSubscribed(s) == subs

\* Broker.Unsubscribe, which also closes the channel.
Unsubscribed(s) == subs \ {s}

\* The context is done, or a write failed: the handler returns, and what it
\* counted is garbage.
ReturnFrom(s) ==
    /\ handler[s] \in {"opened", "streaming"}
    /\ ~up[s]
    /\ handler' = [handler EXCEPT ![s] = "over"]
    /\ subs' = Unsubscribed(s)
    /\ queue' = [queue EXCEPT ![s] = <<>>]
    /\ dropped' = [dropped EXCEPT ![s] = 0]
    /\ reported' = [reported EXCEPT ![s] = 0]
    /\ UNCHANGED <<stage, table, network, browser, history>>

\* The connection breaks, with what is under way on it. The browser will try
\* again; the server is yet to notice.
BreakStream(v) ==
    /\ reading[v]
    /\ reading' = [reading EXCEPT ![v] = FALSE]
    /\ up' = [up EXCEPT ![Current(v)] = FALSE]
    /\ wire' = [wire EXCEPT ![Current(v)] = <<>>]
    /\ owed' = [owed EXCEPT ![v] = {}]
    /\ UNCHANGED <<stage, table, broker, server, opened, browser, lost>>

-----------------------------------------------------------------------------
(* The browser                                                             *)

\* ListRequests reads the table: the newest page, here the whole.
ServeList(v) ==
    /\ fetching[v] = "asked"
    /\ fetching' = [fetching EXCEPT ![v] = "answered"]
    /\ page' = [page EXCEPT ![v] =
                  [i \in DOMAIN table |->
                     [id |-> table[i],
                      outcome |-> stage[table[i]] \in {"recorded", "done"}]]]
    /\ UNCHANGED <<stage, table, broker, server, network, loaded, list, shown,
                   refetches, history>>

\* The answer becomes the cached page, whatever was cached before.
ListArrives(v) ==
    /\ fetching[v] = "answered"
    /\ fetching' = [fetching EXCEPT ![v] = "no"]
    /\ loaded' = [loaded EXCEPT ![v] = TRUE]
    /\ list' = [list EXCEPT ![v] = page[v]]
    /\ page' = [page EXCEPT ![v] = <<>>]
    /\ UNCHANGED <<stage, table, broker, server, network, shown, refetches, history>>

\* The user replayed a capture through the tunnel (Replay.tsx): the cached page
\* is invalidated, and a fetch that is under way is started over.
Refetch(v) ==
    /\ list[v] # <<>>
    /\ refetches[v] < MaxRefetches
    /\ refetches' = [refetches EXCEPT ![v] = @ + 1]
    /\ fetching' = [fetching EXCEPT ![v] = "asked"]
    /\ page' = [page EXCEPT ![v] = <<>>]
    /\ owed' = [owed EXCEPT ![v] = {}]
    /\ UNCHANGED <<stage, table, broker, server, network, loaded, list, shown, lost>>

\* Mutant: no guard against duplicates.
AlwaysPrepended(rows, id) == <<[id |-> id, outcome |-> FALSE]>> \o rows

\* The update for a "capture" event on a cached page.
Prepended(rows, id) ==
    IF id \in Ids(rows) THEN rows ELSE <<[id |-> id, outcome |-> FALSE]>> \o rows

\* Mutant: the outcome goes to the newest row.
NewestPatched(rows, id) ==
    [i \in DOMAIN rows |->
       IF i = 1 THEN [rows[i] EXCEPT !.outcome = TRUE] ELSE rows[i]]

\* applyDelivery.
Patched(rows, id) ==
    [i \in DOMAIN rows |->
       IF rows[i].id = id THEN [rows[i] EXCEPT !.outcome = TRUE] ELSE rows[i]]

\* onEvent. Nothing is cached for a "capture" or "delivery" before the page is.
ReadEvent(v) ==
    LET s == Current(v)
        e == Head(wire[s])
    IN
    /\ reading[v]
    /\ wire[s] # <<>>
    /\ wire' = [wire EXCEPT ![s] = Tail(@)]
    /\ \/ /\ e.event = "dropped"
          /\ shown' = [shown EXCEPT ![v] = @ + e.count]
          /\ UNCHANGED list
       \/ /\ e.event = "capture"
          /\ list' = [list EXCEPT ![v] = IF loaded[v] THEN Prepended(@, e.id) ELSE @]
          /\ UNCHANGED shown
       \/ /\ e.event = "delivery"
          /\ list' = [list EXCEPT ![v] = IF loaded[v] THEN Patched(@, e.id) ELSE @]
          /\ UNCHANGED shown
    /\ UNCHANGED <<stage, table, broker, server, up, opened, reading, fetching, page,
                   loaded, refetches, history>>

-----------------------------------------------------------------------------

CaptureStep(c) ==
    \/ InsertRow(c)
    \/ PublishCapture(c)
    \/ RecordOutcome(c)
    \/ PublishDelivery(c)

StreamStep(s) ==
    \/ Subscribe(s)
    \/ ForwardEvent(s)
    \/ ReportDrops(s)
    \/ ReturnFrom(s)

ViewerStep(v) ==
    \/ OpenStream(v)
    \/ BreakStream(v)
    \/ ServeList(v)
    \/ ListArrives(v)
    \/ Refetch(v)
    \/ ReadEvent(v)

Next ==
    \/ \E c \in Captures : CaptureStep(c)
    \/ \E s \in Streams : StreamStep(s)
    \/ \E v \in Viewers : ViewerStep(v)

Spec == Init /\ [][Next]_vars

\* The loops of the handlers run, their tickers tick, and a browser reads what
\* arrives. Nothing obliges a capture to come, or a stream to break or to be
\* opened again.
Fairness ==
    /\ \A s \in Streams : /\ WF_vars(Subscribe(s))
                          /\ WF_vars(ForwardEvent(s))
                          /\ WF_vars(ReportDrops(s))
                          /\ WF_vars(ReturnFrom(s))
    /\ \A v \in Viewers : WF_vars(ReadEvent(v))

FairSpec == Spec /\ Fairness

-----------------------------------------------------------------------------
(* Properties                                                              *)

\* One capture is one row, although the list fetch, the stream and a refetch
\* each may bring it (useInbox.ts:205-208): two rows would look like a provider
\* that sent the event twice.
NoRowTwice ==
    \A v \in Viewers : \A i, j \in DOMAIN list[v] :
        list[v][i].id = list[v][j].id => i = j

\* Drops that have been written to a viewer's stream and not read.
OnWire(events) ==
    LET upTo[i \in 0..Len(events)] ==
          IF i = 0 THEN 0
          ELSE upTo[i - 1] + (IF events[i].event = "dropped" THEN events[i].count ELSE 0)
    IN upTo[Len(events)]

\* The count a viewer is shown never exceeds what the broker dropped for it, and
\* on a stream that never broke nothing is missing from it: what was dropped has
\* been shown, is on the wire, or awaits the next tick (sse.go:163-167).
ReportsAreExact ==
    \A v \in Viewers :
        LET s == Current(v)
            known == IF opened[v] = 0 THEN shown[v]
                     ELSE shown[v] + OnWire(wire[s])
                          + (IF s \in subs THEN dropped[s] - reported[s] ELSE 0)
        IN /\ known <= lost[v]
           /\ opened[v] = 1 /\ reading[v] => known = lost[v]

\* A viewer that has gone leaves no subscriber behind (sse.go:154-157).
DeadStreamsAreForgotten ==
    \A s \in Streams : (s \in subs /\ ~up[s]) ~> (s \notin subs)

\* A drop is told although no further event comes (sse.go:193-195).
DropsAreTold ==
    \A s \in Streams :
        (dropped[s] > reported[s]) ~> (dropped[s] = reported[s] \/ ~up[s])

Reflects(v, m) ==
    \E i \in DOMAIN list[v] :
        list[v][i].id = m.id /\ (m.event = "delivery" => list[v][i].outcome)

\* What was queued for a viewer that had its list is on its way to it until the
\* list says so; an outcome is not lost between its capture's event and the row.
\* (A break of the stream and a refetch of the list end the promise.)
WatchedIsShown ==
    \A v \in Viewers : \A m \in owed[v] :
        \/ m \in Range(queue[Current(v)]) \cup Range(wire[Current(v)])
        \/ Reflects(v, m)

\* useInbox.ts:99-101, "The stream keeps this current, so background refetching
\* on focus or reconnect is redundant chatter", and 204, "nothing cached yet; the
\* initial fetch will include it": once a viewer is subscribed, has its list and
\* has read everything, and was told of no drop, every announced capture is on
\* its list.
SettledListIsComplete ==
    \A v \in Viewers :
        (/\ loaded[v] /\ fetching[v] = "no"
         /\ reading[v] /\ handler[Current(v)] = "streaming"
         /\ queue[Current(v)] = <<>> /\ wire[Current(v)] = <<>>
         /\ shown[v] = 0 /\ dropped[Current(v)] = 0)
            => \A c \in Captures : stage[c] \in {"announced", "recorded", "done"}
                                      => c \in Ids(list[v])

=============================================================================
