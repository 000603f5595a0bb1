------------------------------ MODULE RoundTrip ------------------------------
(***************************************************************************)
(* A forward from the server's caller to the developer's app and back      *)
(* (internal/tunnel: Hub.Forward, and serve, handle, callLocalBounded and  *)
(* callLocal of client.go). Captures and replays from the browser          *)
(* (internal/server/replay.go) call it alike. Both ends bound how many     *)
(* requests they have under way, and both have a deadline; who gives up    *)
(* first decides what the user is told.                                    *)
(*                                                                         *)
(* The connection stays up here; module TunnelHub is about losing it.      *)
(***************************************************************************)
EXTENDS Clock, FiniteSets

CONSTANTS
    Calls,            \* forwards to one tunnel
    Slots,            \* maxInFlightPerTunnel, of the server and of the CLI
    ForwardDeadline,  \* defaultForwardTimeout and replayTimeout
    LocalTimeout,     \* localTimeout
    MaxTravel         \* bound on the time a frame takes

ASSUME RoundTripAssumption ==
    /\ Slots \in Nat \ {0}
    /\ ForwardDeadline \in Nat
    /\ LocalTimeout \in Nat
    /\ MaxTravel \in Nat
    /\ LocalTimeout + 2 * MaxTravel < ForwardDeadline

VARIABLES
    caller,   \* per call: "idle", "queued" for a slot, "waiting", "over"
    started,  \* per call, when its deadline began to run
    inTime,   \* history: the calls that did not wait for a slot so long that the
              \* CLI's time cannot be over before their deadline
    job,      \* per call, at the CLI: "none", "coming", "queued" for a slot,
              \* "asking", in callLocal, "replying", "gone"
    began,    \* per call, when handle began
    entered,  \* per call, when its job got where it is
    reply,    \* per call, what the CLI replies: "none", "status", or an Error:
              \* "local" from the attempt, "limit" without one
    outcome,  \* per call, what its caller is told: "none", "overloaded",
              \* "timeout", or a reply
    handled   \* history: the calls that reached the app

callerVars == <<caller, started, inTime, outcome>>
cliVars    == <<job, began, entered, reply, handled>>
tripVars   == <<now, callerVars, cliVars>>

Replies == {"status", "local", "limit"}

\* Every variable has its type.
TripTypeOK ==
    /\ ClockTypeOK
    /\ caller \in [Calls -> {"idle", "queued", "waiting", "over"}]
    /\ job \in [Calls -> {"none", "coming", "queued", "asking", "replying", "gone"}]
    /\ started \in [Calls -> Nat]
    /\ inTime \subseteq Calls
    /\ began \in [Calls -> Nat]
    /\ entered \in [Calls -> Nat]
    /\ reply \in [Calls -> Replies \cup {"none"}]
    /\ outcome \in [Calls -> Replies \cup {"none", "overloaded", "timeout"}]
    /\ handled \subseteq Calls

TripInit ==
    /\ ClockInit
    /\ caller = [f \in Calls |-> "idle"]
    /\ started = [f \in Calls |-> 0]
    /\ inTime = {}
    /\ job = [f \in Calls |-> "none"]
    /\ began = [f \in Calls |-> 0]
    /\ entered = [f \in Calls |-> 0]
    /\ reply = [f \in Calls |-> "none"]
    /\ outcome = [f \in Calls |-> "none"]
    /\ handled = {}

-----------------------------------------------------------------------------
(* The server                                                              *)

Deadline(f) == started[f] + ForwardDeadline

CallForward(f) ==
    /\ caller[f] = "idle"
    /\ caller' = [caller EXCEPT ![f] = "queued"]
    /\ started' = [started EXCEPT ![f] = now]
    /\ UNCHANGED <<now, inTime, outcome, cliVars>>

Moves(f, stage) ==
    /\ job' = [job EXCEPT ![f] = stage]
    /\ entered' = [entered EXCEPT ![f] = now]

\* client.send takes a slot and writes the frame.
SendRequest(f) ==
    /\ caller[f] = "queued"
    /\ Cardinality({g \in Calls : caller[g] = "waiting"}) < Slots
    /\ now < Deadline(f)
    /\ caller' = [caller EXCEPT ![f] = "waiting"]
    /\ inTime' = IF now + LocalTimeout + 2 * MaxTravel < Deadline(f)
                 THEN inTime \cup {f} ELSE inTime
    /\ Moves(f, "coming")
    /\ UNCHANGED <<now, started, outcome, began, reply, handled>>

Returns(f, result) ==
    /\ caller' = [caller EXCEPT ![f] = "over"]
    /\ outcome' = [outcome EXCEPT ![f] = result]
    /\ started' = [started EXCEPT ![f] = 0]
    /\ UNCHANGED inTime

\* The deadline expires in the queue, or on the wait for the reply; either way
\* the slot is free again.
GiveUp(f) ==
    /\ caller[f] \in {"queued", "waiting"}
    /\ now >= Deadline(f)
    /\ Returns(f, IF caller[f] = "queued" THEN "overloaded" ELSE "timeout")
    /\ UNCHANGED <<now, cliVars>>

-----------------------------------------------------------------------------
(* The CLI                                                                 *)

\* serve reads the frame, and handle runs in a goroutine of its own.
HandleRequest(f) ==
    /\ job[f] = "coming"
    /\ Moves(f, "queued")
    /\ began' = [began EXCEPT ![f] = now]
    /\ UNCHANGED <<now, callerVars, reply, handled>>

\* callLocalBounded gets a slot. The app is asked unless the request cannot be
\* decoded or built, or nobody listens.
AskApp(f) ==
    /\ job[f] = "queued"
    /\ Cardinality({g \in Calls : job[g] = "asking"}) < Slots
    /\ Moves(f, "asking")
    /\ handled' \in {handled, handled \cup {f}}
    /\ UNCHANGED <<now, callerVars, began, reply>>

Replied(f, with) ==
    /\ Moves(f, "replying")
    /\ reply' = [reply EXCEPT ![f] = with]
    /\ UNCHANGED <<now, callerVars, began, handled>>

\* Mutant: only the HTTP client bounds the attempt, from its own beginning.
FromTheAttempt(f) == entered[f] + LocalTimeout

\* The context of handle bounds the wait for a slot and the attempt together.
LocalDeadline(f) == began[f] + LocalTimeout

\* No slot in time: the app was never asked.
RefuseLocally(f) ==
    /\ job[f] = "queued"
    /\ now >= LocalDeadline(f)
    /\ Replied(f, "limit")

\* The app answers with some status.
AppAnswers(f) ==
    /\ job[f] = "asking"
    /\ f \in handled
    /\ Replied(f, "status")

\* The app was not asked, or answers too much, or not in time.
AppFails(f) ==
    /\ job[f] = "asking"
    /\ Replied(f, "local")

\* The response frame arrives; without a caller it is dropped.
DeliverReply(f) ==
    /\ job[f] = "replying"
    /\ job' = [job EXCEPT ![f] = "gone"]
    /\ entered' = [entered EXCEPT ![f] = 0]
    /\ began' = [began EXCEPT ![f] = 0]
    /\ IF caller[f] = "waiting" THEN Returns(f, reply[f]) ELSE UNCHANGED callerVars
    /\ UNCHANGED <<now, reply, handled>>

-----------------------------------------------------------------------------

\* Frames arrive, and deadlines are noticed, before time passes them.
TripTick ==
    /\ \A f \in Calls :
         /\ job[f] \in {"coming", "replying"} => now < entered[f] + MaxTravel
         /\ job[f] \in {"queued", "asking"} => now < LocalDeadline(f)
         /\ caller[f] \in {"queued", "waiting"} => now < Deadline(f)
    /\ Tick
    /\ UNCHANGED <<callerVars, cliVars>>

TripNext ==
    \/ \E f \in Calls :
         \/ CallForward(f) \/ SendRequest(f) \/ GiveUp(f)
         \/ HandleRequest(f) \/ AskApp(f) \/ RefuseLocally(f)
         \/ AppAnswers(f) \/ AppFails(f) \/ DeliverReply(f)
    \/ TripTick

TripSpec == TripInit /\ [][TripNext]_tripVars

-----------------------------------------------------------------------------
(* Properties                                                              *)

\* "Whoever gives up first decides what gets recorded, and the client is the
\* only party that can say something useful" (client.go:21-24): the server gives
\* up on a frame that was sent only when the call had spent the difference
\* between the two deadlines waiting for a slot. And the user is told of a status
\* only when the app was asked, and of a limit only when it was not; a failed
\* attempt leaves that open.
ClientSpeaksFirst ==
    \A f \in Calls :
        /\ outcome[f] = "timeout" => f \notin inTime
        /\ outcome[f] = "status" => f \in handled
        /\ outcome[f] \in {"overloaded", "limit"} => f \notin handled

=============================================================================
