------------------------------ MODULE TunnelHub ------------------------------
(***************************************************************************)
(* The registry of connected tunnels and the calls in flight on them:      *)
(* internal/tunnel/hub.go and semaphore.go, with the part of server.go     *)
(* (Handle, serve, readLoop) that creates, replaces and tears down a       *)
(* client.                                                                 *)
(*                                                                         *)
(* The processes are                                                       *)
(*   - one call of Hub.Forward per element of Callers (the goroutine of    *)
(*     an ingest or a replay request),                                     *)
(*   - one Server.Handle per element of Clients, from the moment its       *)
(*     handshake has succeeded, with its one reader goroutine.             *)
(* Every critical section of a mutex, every channel operation and every    *)
(* socket operation that another goroutine can observe is one step.        *)
(***************************************************************************)
EXTENDS Naturals, FiniteSets

CONSTANTS
    Endpoints,    \* inboxes
    Clients,      \* one *client per accepted connection
    Callers,      \* one per call of Hub.Forward
    Inbox,        \* Inbox[c]: the inbox connection c authenticated for
    MaxInFlight,  \* maxInFlightPerTunnel
    None          \* no client, no call, no outcome

\* What Forward returns: a response, or one of its errors.
Outcomes == {"response", "no_tunnel", "overloaded", "disconnected",
             "timeout", "protocol"}

ASSUME HubAssumption ==
    /\ Inbox \in [Clients -> Endpoints]
    /\ MaxInFlight \in Nat \ {0}
    /\ None \notin Clients \cup Callers \cup Outcomes
    /\ IsFiniteSet(Callers)

VARIABLES
    clients,    \* Hub.clients: inbox -> the client registered for it
    handler,    \* where the goroutine in Server.Handle is, per client
    displaced,  \* the client that register returned to a handler
    socket,     \* the connection under a client is open
    closing,    \* clients whose socket a detached closeWith is closing
    closed,     \* client.closed
    done,       \* the channel client.done is closed
    pending,    \* the callers with an entry in client.pending, keyed by reqID
    slots,      \* tokens in client.sem
    nextID,     \* client.nextID
    written,    \* the callers whose request frame is on the connection
    reader,     \* what readLoop holds between taking an entry and sending
    pc,         \* where a caller is
    via,        \* the client a caller read from the registry
    reqID,      \* the request id a caller was given
    chan,       \* the one-place channel of a caller: the call the response in
                \* it is about, None when empty
    expired,    \* the deadline of a caller's context has passed
    answer,     \* the call that the response a caller received is about
    outcome     \* what Forward returned

regVars    == <<clients, handler, displaced>>
connVars   == <<socket, closing, closed, done>>
flightVars == <<pending, slots, nextID, written, reader>>
callVars   == <<pc, via, reqID, chan, expired, answer, outcome>>
vars       == <<regVars, connVars, flightVars, callVars>>

-----------------------------------------------------------------------------
(* Types                                                                   *)

\* "ready" is a connection whose handshake has succeeded and that has not been
\* registered yet; "evict" and "wakeOld" are inside old.close(); "close" and
\* "wake" are inside the deferred cl.close().
HandlerStates == {"ready", "evict", "wakeOld", "serve", "unregister", "close",
                  "wake", "hangup", "gone"}

CallerStates == {"idle", "acquire", "enroll", "write", "wait", "forget",
                 "release", "returned"}

\* A caller holds a semaphore slot exactly in these states.
Holding == {"enroll", "write", "wait", "forget", "release"}

\* A caller is past the lookup in the registry.
Bound == Holding \cup {"acquire"}

NoResponse == [to |-> None, about |-> None]

\* The types of everything but the semaphores, whose bound is not a matter of
\* types alone.
StateTypes ==
    /\ clients \in [Endpoints -> Clients \cup {None}]
    /\ handler \in [Clients -> HandlerStates]
    /\ displaced \in [Clients -> Clients \cup {None}]
    /\ socket \in [Clients -> BOOLEAN]
    /\ closing \in SUBSET Clients
    /\ closed \in [Clients -> BOOLEAN]
    /\ done \in [Clients -> BOOLEAN]
    /\ pending \in [Clients -> SUBSET Callers]
    /\ nextID \in [Clients -> Nat]
    /\ written \in [Clients -> SUBSET Callers]
    /\ reader \in [Clients -> [to : Callers \cup {None},
                               about : Callers \cup {None}]]
    /\ pc \in [Callers -> CallerStates]
    /\ via \in [Callers -> Clients \cup {None}]
    /\ reqID \in [Callers -> Nat]
    /\ chan \in [Callers -> Callers \cup {None}]
    /\ expired \in [Callers -> BOOLEAN]
    /\ answer \in [Callers -> Callers \cup {None}]
    /\ outcome \in [Callers -> Outcomes \cup {None}]

\* Every variable has its type, and no semaphore holds more than its capacity
\* of maxInFlightPerTunnel tokens or less than none.
TypeOK == StateTypes /\ slots \in [Clients -> 0..MaxInFlight]

Init ==
    /\ clients = [e \in Endpoints |-> None]
    /\ handler = [c \in Clients |-> "ready"]
    /\ displaced = [c \in Clients |-> None]
    /\ socket = [c \in Clients |-> TRUE]
    /\ closing = {}
    /\ closed = [c \in Clients |-> FALSE]
    /\ done = [c \in Clients |-> FALSE]
    /\ pending = [c \in Clients |-> {}]
    /\ slots = [c \in Clients |-> 0]
    /\ nextID = [c \in Clients |-> 0]
    /\ written = [c \in Clients |-> {}]
    /\ reader = [c \in Clients |-> NoResponse]
    /\ pc = [f \in Callers |-> "idle"]
    /\ via = [f \in Callers |-> None]
    /\ reqID = [f \in Callers |-> 0]
    /\ chan = [f \in Callers |-> None]
    /\ expired = [f \in Callers |-> FALSE]
    /\ answer = [f \in Callers |-> None]
    /\ outcome = [f \in Callers |-> None]

-----------------------------------------------------------------------------
(* Server.Handle: registration, replacement and teardown of a client       *)

\* hub.register: newest wins. The client it displaces is closed next, inline;
\* without one the handler goes straight to serve.
Register(c) ==
    /\ handler[c] = "ready"
    /\ clients' = [clients EXCEPT ![Inbox[c]] = c]
    /\ displaced' = [displaced EXCEPT ![c] = clients[Inbox[c]]]
    /\ handler' = [handler EXCEPT ![c] =
                     IF clients[Inbox[c]] = None THEN "serve" ELSE "evict"]
    /\ UNCHANGED <<connVars, flightVars, callVars>>

\* Mutant: client.close without its test of the closed flag.
CloseUntested(c, t, wake, idle) ==
    /\ handler' = [handler EXCEPT ![c] = wake]
    /\ closed' = [closed EXCEPT ![t] = TRUE]
    /\ pending' = [pending EXCEPT ![t] = {}]

\* The critical section of client.close, run by the handler of c on client t:
\* a no-op when t is closed already, and then the closer goes on to idle;
\* otherwise the flag is set, the map is cleared, and the closer goes on to
\* close the channel done.
Close(c, t, wake, idle) ==
    /\ handler' = [handler EXCEPT ![c] = IF closed[t] THEN idle ELSE wake]
    /\ closed' = [closed EXCEPT ![t] = TRUE]
    /\ pending' = [pending EXCEPT ![t] = IF closed[t] THEN @ ELSE {}]

\* Mutant: client.close does not close the channel.
WakeNobody(t) == UNCHANGED done

\* close(c.done), outside the lock: every caller waiting on t is woken.
Wake(t) == done' = [done EXCEPT ![t] = TRUE]

\* Mutant: the displaced connection is left open.
LeaveOpen(t) == UNCHANGED closing

\* go s.closeWith(old.conn, CodeReplaced, ...): detached from the new tunnel.
StartCloseWith(t) == closing' = closing \cup {t}

\* old.close() in Handle. When it finds nothing to do the closing goroutine is
\* started at once.
EvictOld(c) ==
    /\ handler[c] = "evict"
    /\ Close(c, displaced[c], "wakeOld", "serve")
    /\ IF closed[displaced[c]] THEN StartCloseWith(displaced[c])
                               ELSE UNCHANGED closing
    /\ UNCHANGED <<clients, displaced, socket, done, slots, nextID, written,
                   reader, callVars>>

\* The rest of old.close(), then the detached closeWith.
WakeOld(c) ==
    /\ handler[c] = "wakeOld"
    /\ Wake(displaced[c])
    /\ StartCloseWith(displaced[c])
    /\ handler' = [handler EXCEPT ![c] = "serve"]
    /\ UNCHANGED <<clients, displaced, socket, closed, flightVars, callVars>>

\* The detached closeWith has written its frame and closed the socket of t.
CloseReplaced(t) ==
    /\ t \in closing
    /\ closing' = closing \ {t}
    /\ socket' = [socket EXCEPT ![t] = FALSE]
    /\ UNCHANGED <<regVars, closed, done, flightVars, callVars>>

\* The network, the peer or a refused frame closes the connection under c.
\* (DropForTest, and every closeWith of c's own goroutines, does the same.)
DropSocket(c) ==
    /\ socket[c]
    /\ socket' = [socket EXCEPT ![c] = FALSE]
    /\ UNCHANGED <<regVars, closing, closed, done, flightVars, callVars>>

\* Mutant: Handle without the deferred unregister.
NoDeferredUnregister == "close"

\* The deferred calls of Handle run last-in-first-out: unregister, then close.
AfterServe == "unregister"

\* serve returns because readLoop has returned: the read failed.
ReadFails(c) ==
    /\ handler[c] = "serve"
    /\ ~socket[c]
    /\ reader[c] = NoResponse
    /\ handler' = [handler EXCEPT ![c] = AfterServe]
    /\ UNCHANGED <<clients, displaced, connVars, flightVars, callVars>>

\* serve returns because a ping got no answer in time or the process is
\* stopping. Its reader goroutine goes on until the socket is closed.
ServeStops(c) ==
    /\ handler[c] = "serve"
    /\ handler' = [handler EXCEPT ![c] = AfterServe]
    /\ UNCHANGED <<clients, displaced, connVars, flightVars, callVars>>

\* Mutant: unregister without the identity check.
VacatedByAnyone(c) == None

\* The entry for c's inbox after hub.unregister: c is removed only while it is
\* still the registered client.
Vacated(c) == IF clients[Inbox[c]] = c THEN None ELSE clients[Inbox[c]]

\* hub.unregister, the deferred call that runs first.
Unregister(c) ==
    /\ handler[c] = "unregister"
    /\ clients' = [clients EXCEPT ![Inbox[c]] = Vacated(c)]
    /\ handler' = [handler EXCEPT ![c] = "close"]
    /\ UNCHANGED <<displaced, connVars, flightVars, callVars>>

\* The deferred cl.close(), lock section.
CloseOwn(c) ==
    /\ handler[c] = "close"
    /\ Close(c, c, "wake", "hangup")
    /\ UNCHANGED <<clients, displaced, socket, closing, done, slots, nextID,
                   written, reader, callVars>>

\* The rest of cl.close().
WakeOwn(c) ==
    /\ handler[c] = "wake"
    /\ Wake(c)
    /\ handler' = [handler EXCEPT ![c] = "hangup"]
    /\ UNCHANGED <<clients, displaced, socket, closing, closed, flightVars,
                   callVars>>

\* The outermost deferred call: CloseNow.
HangUp(c) ==
    /\ handler[c] = "hangup"
    /\ socket' = [socket EXCEPT ![c] = FALSE]
    /\ handler' = [handler EXCEPT ![c] = "gone"]
    /\ UNCHANGED <<clients, displaced, closing, closed, done, flightVars,
                   callVars>>

-----------------------------------------------------------------------------
(* readLoop and client.deliver                                             *)

\* readLoop runs from serve on until the socket is closed; frames that had
\* arrived before may still be read after it.
Reading(c) == handler[c] \in {"serve", "unregister", "close", "wake", "hangup"}

\* Mutant: deliver finds the entry and leaves it in the map.
EntriesKept(c, f) == pending[c]

\* The map after deliver has taken the entry of f.
EntriesLeft(c, f) == pending[c] \ {f}

\* The lock section of deliver, for a response frame about request g. The peer
\* answers what it was sent, in any order and as often as it likes. The entry
\* under the frame's id is taken and removed together; a frame whose id has no
\* entry is logged and changes nothing, so it is no step.
TakePending(c, g, f) ==
    /\ Reading(c)
    /\ reader[c] = NoResponse
    /\ g \in written[c]
    /\ f \in pending[c]
    /\ reqID[f] = reqID[g]
    /\ reader' = [reader EXCEPT ![c] = [to |-> f, about |-> g]]
    /\ pending' = [pending EXCEPT ![c] = EntriesLeft(c, f)]
    /\ UNCHANGED <<regVars, connVars, slots, nextID, written, callVars>>

\* ch <- resp, outside the lock: it waits for the one-place buffer to be free.
SendResponse(c) ==
    LET f == reader[c].to IN
    /\ f # None
    /\ chan[f] = None
    /\ chan' = [chan EXCEPT ![f] = reader[c].about]
    /\ reader' = [reader EXCEPT ![c] = NoResponse]
    /\ UNCHANGED <<regVars, connVars, pending, slots, nextID, written, pc, via,
                   reqID, expired, answer, outcome>>

-----------------------------------------------------------------------------
(* Hub.Forward and client.send                                             *)

Goto(f, state) == pc' = [pc EXCEPT ![f] = state]

Return(f, result) == outcome' = [outcome EXCEPT ![f] = result]

\* Forward's lock section: read the registered client, and return ErrNoTunnel
\* when there is none. The lock is not held from here on.
Lookup(f, e) ==
    /\ pc[f] = "idle"
    /\ via' = [via EXCEPT ![f] = clients[e]]
    /\ \/ /\ clients[e] = None
          /\ Goto(f, "returned")
          /\ Return(f, "no_tunnel")
       \/ /\ clients[e] # None
          /\ Goto(f, "acquire")
          /\ UNCHANGED outcome
    /\ UNCHANGED <<regVars, connVars, flightVars, reqID, chan, expired, answer>>

\* Mutant: the semaphore has one place more than maxInFlightPerTunnel.
SlotOrOneMore(c) == slots[c] <= MaxInFlight

\* The buffered channel that is the semaphore has room.
SlotFree(c) == slots[c] < MaxInFlight

\* Mutant: every request of a connection gets the same id.
SameID(c) == nextID[c]

\* c.nextID.Add(1)
NewID(c) == nextID[c] + 1

\* sem.acquire succeeds; the next request id is taken with it, because no other
\* goroutine can tell the two operations apart.
Acquire(f) ==
    LET c == via[f] IN
    /\ pc[f] = "acquire"
    /\ SlotFree(c)
    /\ slots' = [slots EXCEPT ![c] = @ + 1]
    /\ nextID' = [nextID EXCEPT ![c] = NewID(c)]
    /\ reqID' = [reqID EXCEPT ![f] = NewID(c)]
    /\ Goto(f, "enroll")
    /\ UNCHANGED <<regVars, connVars, pending, written, reader, via, chan,
                   expired, answer, outcome>>

\* Mutant: acquire does not watch the context.
NeverGiveUp(f) == FALSE

\* sem.acquire gives up: the deadline passed while queued, nothing was sent.
GiveUpQueued(f) ==
    /\ pc[f] = "acquire"
    /\ expired[f]
    /\ Goto(f, "returned")
    /\ Return(f, "overloaded")
    /\ UNCHANGED <<regVars, connVars, flightVars, via, reqID, chan, expired,
                   answer>>

\* Mutant: the early return on a closed client skips the release.
RefusedKeepsSlot == "returned"

\* After the early return on a closed client only the release is left to run.
AfterRefusal == "release"

\* The entries of c's map under other ids than that of f: what is left when the
\* id of f is set or deleted.
OtherEntries(c, f) == {g \in pending[c] : reqID[g] # reqID[f]}

\* The lock section of send on a closed client: ErrDisconnected.
Refuse(f) ==
    /\ pc[f] = "enroll"
    /\ closed[via[f]]
    /\ Goto(f, AfterRefusal)
    /\ Return(f, "disconnected")
    /\ UNCHANGED <<regVars, connVars, flightVars, via, reqID, chan, expired,
                   answer>>

\* The lock section of send on an open client: the caller's channel is entered
\* under its id. An entry under the same id would be overwritten.
Enroll(f) ==
    LET c == via[f] IN
    /\ pc[f] = "enroll"
    /\ ~closed[c]
    /\ pending' = [pending EXCEPT ![c] = OtherEntries(c, f) \cup {f}]
    /\ Goto(f, "write")
    /\ UNCHANGED <<regVars, connVars, slots, nextID, written, reader, via,
                   reqID, chan, expired, answer, outcome>>

\* Mutant: the map entry is cleaned up on the happy path only.
FailureSkipsForget == "release"

\* After a failed write, a timeout or a disconnect the deferred forget runs.
AfterFailure == "forget"

\* conn.Write puts the request frame on the connection.
Write(f) ==
    /\ pc[f] = "write"
    /\ socket[via[f]]
    /\ Goto(f, "wait")
    /\ written' = [written EXCEPT ![via[f]] = @ \cup {f}]
    /\ UNCHANGED <<regVars, connVars, pending, slots, nextID, reader, via,
                   reqID, chan, expired, answer, outcome>>

\* conn.Write fails: the socket is closed, or the caller's deadline passed
\* during the write. In the second case the library may have closed the
\* connection, because a frame was cut short. In both the peer may have got the
\* whole frame before the error.
WriteFails(f) ==
    LET c == via[f] IN
    /\ pc[f] = "write"
    /\ \/ /\ ~socket[c]
          /\ UNCHANGED socket
       \/ /\ expired[f]
          /\ socket' \in {socket, [socket EXCEPT ![c] = FALSE]}
    /\ Goto(f, AfterFailure)
    /\ written' \in {written, [written EXCEPT ![c] = @ \cup {f}]}
    /\ Return(f, "protocol")
    /\ UNCHANGED <<regVars, closing, closed, done, pending, slots, nextID,
                   reader, via, reqID, chan, expired, answer>>

\* The three branches of the select; any that is ready may be taken.
ReceiveResponse(f) ==
    /\ pc[f] = "wait"
    /\ chan[f] # None
    /\ answer' = [answer EXCEPT ![f] = chan[f]]
    /\ chan' = [chan EXCEPT ![f] = None]
    /\ Goto(f, "forget")
    /\ Return(f, "response")
    /\ UNCHANGED <<regVars, connVars, flightVars, via, reqID, expired>>

SeeDone(f) ==
    /\ pc[f] = "wait"
    /\ done[via[f]]
    /\ Goto(f, AfterFailure)
    /\ Return(f, "disconnected")
    /\ UNCHANGED <<regVars, connVars, flightVars, via, reqID, chan, expired,
                   answer>>

TimeOut(f) ==
    /\ pc[f] = "wait"
    /\ expired[f]
    /\ Goto(f, AfterFailure)
    /\ Return(f, "timeout")
    /\ UNCHANGED <<regVars, connVars, flightVars, via, reqID, chan, expired,
                   answer>>

\* The deferred forget: the entry under the caller's id goes, if there is one.
Forget(f) ==
    LET c == via[f] IN
    /\ pc[f] = "forget"
    /\ pending' = [pending EXCEPT ![c] = OtherEntries(c, f)]
    /\ Goto(f, "release")
    /\ UNCHANGED <<regVars, connVars, slots, nextID, written, reader, via,
                   reqID, chan, expired, answer, outcome>>

\* The deferred release, after which Forward returns.
Release(f) ==
    LET c == via[f] IN
    /\ pc[f] = "release"
    /\ slots' = [slots EXCEPT ![c] = @ - 1]
    /\ Goto(f, "returned")
    /\ UNCHANGED <<regVars, connVars, pending, nextID, written, reader, via,
                   reqID, chan, expired, answer, outcome>>

\* The deadline of the caller's context passes.
Expire(f) ==
    /\ pc[f] \in {"acquire", "enroll", "write", "wait"}
    /\ ~expired[f]
    /\ expired' = [expired EXCEPT ![f] = TRUE]
    /\ UNCHANGED <<regVars, connVars, flightVars, pc, via, reqID, chan, answer,
                   outcome>>

-----------------------------------------------------------------------------

\* The steps of Handle that end a connection once serve is over, and the one
\* that notices a dead socket.
Teardown(c) ==
    \/ ReadFails(c)
    \/ Unregister(c)
    \/ CloseOwn(c)
    \/ WakeOwn(c)
    \/ HangUp(c)

Handle(c) ==
    \/ Register(c)
    \/ EvictOld(c)
    \/ WakeOld(c)
    \/ ServeStops(c)
    \/ Teardown(c)

\* The steps of Forward that depend on nobody but the process itself: not the
\* write, which waits for the peer, nor the passing of the deadline.
Progress(f) ==
    \/ Acquire(f)
    \/ GiveUpQueued(f)
    \/ Refuse(f)
    \/ Enroll(f)
    \/ WriteFails(f)
    \/ ReceiveResponse(f)
    \/ SeeDone(f)
    \/ TimeOut(f)
    \/ Forget(f)
    \/ Release(f)

Forward(f) ==
    \/ \E e \in Endpoints : Lookup(f, e)
    \/ Progress(f)
    \/ Write(f)
    \/ Expire(f)

Next ==
    \/ \E c \in Clients :
          \/ Handle(c)
          \/ CloseReplaced(c)
          \/ DropSocket(c)
          \/ SendResponse(c)
          \/ \E f, g \in Callers : TakePending(c, g, f)
    \/ \E f \in Callers : Forward(f)

Spec == Init /\ [][Next]_vars

\* Go schedules every runnable goroutine; nothing is assumed of the peer, of
\* the network, of new calls or of deadlines.
Fairness ==
    /\ \A f \in Callers : WF_vars(Progress(f))
    /\ \A c \in Clients : /\ WF_vars(EvictOld(c) \/ WakeOld(c))
                          /\ WF_vars(CloseReplaced(c))
                          /\ WF_vars(Teardown(c))
                          /\ WF_vars(SendResponse(c))

FairSpec == Spec /\ Fairness

-----------------------------------------------------------------------------
(* Safety                                                                  *)

\* The tokens in a tunnel's semaphore are exactly the calls that are past
\* acquire and have not returned: no exit of send leaks a slot (hub.go:155-158,
\* "would permanently shrink the tunnel's capacity").
SlotsAreHeld ==
    \A c \in Clients :
        slots[c] = Cardinality({f \in Callers : via[f] = c /\ pc[f] \in Holding})

\* Nothing is left in a tunnel's map by a call that has ended or that runs on
\* another tunnel, and a closed tunnel's map is empty (hub.go:180-185, 256-260).
PendingIsOwned ==
    \A c \in Clients : \A f \in pending[c] :
        /\ via[f] = c
        /\ pc[f] \in {"write", "wait", "forget"}
        /\ ~closed[c]

\* A call that waits on a tunnel that is not closed can still be answered: its
\* entry is in the map, or its response is on its way to it. No interleaving of
\* calls, responses and cleanups strands it until its deadline.
WaiterIsReachable ==
    \A f \in Callers :
        (pc[f] \in {"write", "wait"} /\ ~closed[via[f]]) =>
            \/ f \in pending[via[f]]
            \/ reader[via[f]].to = f
            \/ chan[f] # None

\* A response reaches the call whose request it answers and no other
\* (hub.go:215-236).
AnswersAreOwn ==
    \A f \in Callers : /\ chan[f] \in {f, None}
                       /\ answer[f] \in {f, None}
                       /\ outcome[f] = "response" => answer[f] = f

\* The send in deliver never blocks: whenever the only reader of a tunnel holds
\* a response, the buffer it is about to send to is free (hub.go:163-169).
ReaderNeverBlocks ==
    \A c \in Clients : reader[c].to # None => chan[reader[c].to] = None

\* The registry names only tunnels whose handler has not begun to end and whose
\* client is open: what Forward finds there is worth sending to. This rests on
\* the order in which Go runs the deferred calls of Handle; with close first, as
\* server.go:193-195 has it, the registry would name closed clients.
RegistryNamesOpen ==
    \A e \in Endpoints : clients[e] # None =>
        /\ Inbox[clients[e]] = e
        /\ ~closed[clients[e]]
        /\ handler[clients[e]] \in {"evict", "wakeOld", "serve", "unregister"}

\* A tunnel being served is the one the registry names, unless a newer one has
\* displaced it and has closed it or is about to: no cleanup of an older tunnel
\* removes the winner (hub.go:88-94).
ServedIsRegistered ==
    \A c \in Clients : handler[c] \in {"evict", "wakeOld", "serve"} =>
        \/ clients[Inbox[c]] = c
        \/ closed[c]
        \/ \E d \in Clients : handler[d] = "evict" /\ displaced[d] = c

\* Handler c is about to close the channel done of client t.
Closes(c, t) == \/ handler[c] = "wakeOld" /\ displaced[c] = t
                \/ handler[c] = "wake" /\ c = t

\* The channel done is closed by one goroutine, once, although the replacing
\* and the replaced handler both call close; a second close would panic
\* (hub.go:263-266).
DoneClosedOnce ==
    \A t \in Clients :
        /\ \A c \in Clients : Closes(c, t) => closed[t] /\ ~done[t]
        /\ \A c, d \in Clients : Closes(c, t) /\ Closes(d, t) => c = d
        /\ done[t] => closed[t]

\* server.go:193-195: "close() before unregister() [...] Order matters: waking the
\* waiters first means a caller that retries immediately finds the registry
\* already consistent". The entry of a tunnel with waiting callers goes only
\* once they have been woken.
WokenBeforeVacated ==
    [][\A e \in Endpoints :
         (clients[e] # None /\ clients'[e] = None) =>
             \A f \in Callers :
                (pc[f] = "wait" /\ via[f] = clients[e]) => done[via[f]]]_vars

-----------------------------------------------------------------------------
(* Liveness, under FairSpec                                                *)

\* Failure mode 4: every call on a tunnel that has been closed returns, without
\* its deadline having to pass and whatever the peer does (hub.go:117-123).
DropWakesCallers ==
    \A c \in Clients, f \in Callers :
        (closed[c] /\ via[f] = c /\ pc[f] \in Bound) ~> (pc[f] = "returned")

\* Failure modes 3 and 9: a call whose deadline has passed returns, whether it
\* is queued for a slot, writing or waiting, and whatever other calls do.
DeadlineReturns ==
    \A f \in Callers : expired[f] ~> (pc[f] = "returned")

\* Failure mode 5: a displaced tunnel does not linger; its handler ends.
DisplacedEnds ==
    \A c, d \in Clients : (displaced[d] = c) ~> (handler[c] = "gone")

-----------------------------------------------------------------------------
(* Refinement                                                              *)

\* A call has ended, for its caller, when its result is decided; what is left
\* of send is its own cleanup.
PromisedStatus(f) == IF outcome[f] # None THEN outcome[f]
                     ELSE IF pc[f] = "idle" THEN "idle" ELSE "open"

\* A call is answered from the moment its entry has been taken for a response
\* to its own request.
PromisedAnswered ==
    {f \in Callers : \/ chan[f] = f
                    \/ answer[f] = f
                    \/ \E c \in Clients :
                          reader[c] = [to |-> f, about |-> f]}

Promise == INSTANCE TunnelPromise
           WITH holder <- clients,
                spent <- {c \in Clients : handler[c] # "ready"},
                status <- [f \in Callers |-> PromisedStatus(f)],
                answered <- PromisedAnswered

\* The hub keeps the promise of TunnelPromise: one tunnel per inbox, newest
\* first, and one result per call, a response only for its own request.
KeepsPromise == Promise!Spec

=============================================================================
