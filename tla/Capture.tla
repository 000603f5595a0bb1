------------------------------ MODULE Capture ------------------------------
(***************************************************************************)
(* The life of a webhook inside ingest.capture: the inbox is looked up,    *)
(* the rate limiter asked, the body read, the row inserted, and from there *)
(* on ("the request is durable from here on") the capture is announced to  *)
(* browsers, forwarded through the tunnel, its outcome recorded and        *)
(* announced, and the provider answered (internal/ingest/ingest.go, with   *)
(* InsertRequest and RecordForward of internal/store/requests.go and the   *)
(* server timeouts of cmd/hooklens/main.go).                               *)
(*                                                                         *)
(* One process per attempt: a provider sends an event, and sends it again  *)
(* while it has not been told 2xx. Attempts of one event overlap when the  *)
(* provider gives up on one that the handler is still working on. The      *)
(* database may fail, also after it has committed, and the process may be  *)
(* cut down at any point.                                                  *)
(***************************************************************************)
EXTENDS Naturals

CONSTANTS
    Events,       \* what providers have to deliver
    MaxAttempts,  \* bound on the attempts per event
    MaxFaults,    \* bound on failures of the database, refusals of the rate
                  \* limiter, impatience of providers and crashes
    None          \* no answer, no outcome

Attempts == Events \X (1..MaxAttempts)

\* The codes of forwardErrorCode and the two that forward adds itself, told
\* apart by when they can come about: "no_tunnel", "disconnected", "protocol"
\* and "unreachable" at any time; "timeout" and "overloaded" only when the
\* forward's deadline has passed; "too_large" without a forward.
Failures == {"undelivered", "expired", "too_large"}

\* The local app answered: with a status in 100..599, with one outside it, or
\* with 0, which RecordForward takes for "no status".
Answers == {"delivered", "odd", "zero"}

Outcomes == Failures \cup Answers

\* 404, 429 and 503; the handler's own 200; the app's own status, when it is a
\* success and when it is not; 502 for a status that cannot be relayed.
Replies == {"not_found", "limited", "unavailable", "captured", "app_ok",
            "app_error", "bad_gateway"}

\* What makes a provider stop.
Acks == {"captured", "app_ok"}

Stages == {"idle", "resolve", "limit", "read", "insert", "publish", "forward",
           "wait", "record", "announce", "respond", "done"}

ASSUME CaptureAssumption ==
    /\ MaxAttempts \in Nat
    /\ MaxFaults \in Nat
    /\ None \notin Outcomes \cup Replies \cup {"lost", "gave_up", "cut"}

VARIABLES
    kind,     \* per event: "normal", "large" (longer than maxBody), or for an
              \* "unknown" inbox
    tries,    \* attempts the provider has made, per event
    pc,       \* where the handler of an attempt is
    client,   \* during an attempt, the provider is "waiting"; "late": the
              \* server's WriteTimeout has passed, nothing can be written to
              \* it; "gone": it hung up
    fwd,      \* what forward decided, None once the handler is over
    rows,     \* the row of an attempt: "absent", "unrecorded" (stored, outcome
              \* columns null), or the outcome in it
    shown,    \* what browsers were told about an attempt: "capture", outcomes
    reply,    \* what the handler answers, None once it is over
    got,      \* what the provider has seen: a reply; "lost", a connection
              \* closed without one; "cut", the process died; "gave_up"
    faults    \* faults so far

provider == <<kind, tries, client, got>>
handler  == <<pc, fwd, reply>>
vars     == <<provider, handler, rows, shown, faults>>

\* The CHECK constraints of the table admit a status in 100..599 or a code.
Rows == {"absent", "unrecorded", "delivered"} \cup Failures

\* Every variable has its type; for a row that is its table's constraints.
TypeOK ==
    /\ kind \in [Events -> {"normal", "large", "unknown"}]
    /\ tries \in [Events -> 0..MaxAttempts]
    /\ pc \in [Attempts -> Stages]
    /\ client \in [Attempts -> {"waiting", "late", "gone"}]
    /\ fwd \in [Attempts -> Outcomes \cup {None}]
    /\ rows \in [Attempts -> Rows]
    /\ shown \in [Attempts -> SUBSET ({"capture"} \cup Outcomes)]
    /\ reply \in [Attempts -> Replies \cup {None}]
    /\ got \in [Attempts -> Replies \cup {"lost", "gave_up", "cut", None}]
    /\ faults \in 0..MaxFaults

Init ==
    /\ kind \in [Events -> {"normal", "large", "unknown"}]
    /\ tries = [e \in Events |-> 0]
    /\ pc = [a \in Attempts |-> "idle"]
    /\ client = [a \in Attempts |-> "waiting"]
    /\ fwd = [a \in Attempts |-> None]
    /\ rows = [a \in Attempts |-> "absent"]
    /\ shown = [a \in Attempts |-> {}]
    /\ reply = [a \in Attempts |-> None]
    /\ got = [a \in Attempts |-> None]
    /\ faults = 0

-----------------------------------------------------------------------------

Fault == faults < MaxFaults /\ faults' = faults + 1

\* The handler's request context is cancelled when the provider hangs up, and
\* whatever runs on it then fails; otherwise a failure is a fault of its own.
ContextFails(a) == \/ client[a] = "gone" /\ UNCHANGED faults
                   \/ Fault

Goto(a, stage) == pc' = [pc EXCEPT ![a] = stage]

\* The handler has decided on its answer and goes on to write it.
Answer(a, r) == /\ Goto(a, "respond")
                /\ reply' = [reply EXCEPT ![a] = r]

InProgress(a) == pc[a] \notin {"idle", "done"}

\* The handler waits for the provider, the database or the tunnel. Time passes
\* here; in between, the handler only computes.
Waits(a) == pc[a] \in {"resolve", "read", "insert", "wait", "record"}

-----------------------------------------------------------------------------
(* The provider                                                            *)

\* The first attempt, or a further one after an attempt that brought no 2xx.
Send(e) ==
    LET n == tries[e] + 1 IN
    /\ n <= MaxAttempts
    /\ tries[e] > 0 => got[<<e, tries[e]>>] \notin Acks \cup {None}
    /\ tries' = [tries EXCEPT ![e] = n]
    /\ Goto(<<e, n>>, "resolve")
    /\ UNCHANGED <<kind, client, got, fwd, reply, rows, shown, faults>>

\* The provider's own timeout. The handler goes on.
HangUp(a) ==
    /\ Waits(a)
    /\ client[a] # "gone"
    /\ got[a] = None
    /\ Fault
    /\ client' = [client EXCEPT ![a] = "gone"]
    /\ got' = [got EXCEPT ![a] = "gave_up"]
    /\ UNCHANGED <<kind, tries, handler, rows, shown>>

\* WriteTimeout, counted from the end of the request's headers, passes while the
\* handler waits for something slow.
WriteDeadline(a) ==
    /\ Waits(a)
    /\ client[a] = "waiting"
    /\ client' = [client EXCEPT ![a] = "late"]
    /\ UNCHANGED <<kind, tries, got, handler, rows, shown, faults>>

-----------------------------------------------------------------------------
(* Above the durability line                                               *)

\* resolve, through the cache or the database.
Resolve(a) ==
    /\ pc[a] = "resolve"
    /\ \/ /\ kind[a[1]] # "unknown"
          /\ Goto(a, "limit")
          /\ UNCHANGED <<reply, faults>>
       \/ /\ kind[a[1]] = "unknown"
          /\ Answer(a, "not_found")
          /\ UNCHANGED faults
       \/ /\ ContextFails(a)
          /\ Answer(a, "unavailable")
    /\ UNCHANGED <<provider, fwd, rows, shown>>

\* limiter.Allow.
Limit(a) ==
    /\ pc[a] = "limit"
    /\ \/ Goto(a, "read") /\ UNCHANGED <<reply, faults>>
       \/ Fault /\ Answer(a, "limited")
    /\ UNCHANGED <<provider, fwd, rows, shown>>

\* capture.FromHTTP: a body that could not be read to its end, or to maxBody,
\* gives no request at all.
Read(a) ==
    /\ pc[a] = "read"
    /\ \/ Goto(a, "insert") /\ UNCHANGED reply
       \/ client[a] = "gone" /\ Answer(a, "unavailable")
    /\ UNCHANGED <<provider, fwd, rows, shown, faults>>

\* Mutant: the limiter is asked once the row has been stored.
LimitBelowTheLine == "limit"

\* What follows a successful insert.
AfterInsert == "publish"

\* Mutant: a failed insert is logged and the provider told 200.
CapturedAnyway == "captured"

\* The answer when InsertRequest returned an error.
StoreFailure == "unavailable"

\* InsertRequest: one statement, its own transaction. An error means that it
\* was not committed, or that nobody knows.
Insert(a) ==
    /\ pc[a] = "insert"
    /\ \/ /\ rows' = [rows EXCEPT ![a] = "unrecorded"]
          /\ Goto(a, AfterInsert)
          /\ UNCHANGED <<reply, faults>>
       \/ /\ ContextFails(a)
          /\ rows' \in {rows, [rows EXCEPT ![a] = "unrecorded"]}
          /\ Answer(a, StoreFailure)
    /\ UNCHANGED <<provider, fwd, shown>>

-----------------------------------------------------------------------------
(* Below the durability line                                               *)

\* A browser is told: the case that matters is the one in which somebody is
\* watching the inbox and keeps up.
Tell(a, what) == shown' = [shown EXCEPT ![a] = @ \cup {what}]

Publish(a) ==
    /\ pc[a] = "publish"
    /\ Tell(a, "capture")
    /\ Goto(a, "forward")
    /\ UNCHANGED <<provider, fwd, reply, rows, faults>>

\* forward, up to the call of Hub.Forward: a truncated capture is not sent.
Forward(a) ==
    /\ pc[a] = "forward"
    /\ \/ /\ kind[a[1]] = "large"
          /\ fwd' = [fwd EXCEPT ![a] = "too_large"]
          /\ Goto(a, "record")
       \/ /\ kind[a[1]] # "large"
          /\ Goto(a, "wait")
          /\ UNCHANGED fwd
    /\ UNCHANGED <<provider, reply, rows, shown, faults>>

\* Hub.Forward returns. Its deadline is as long as WriteTimeout and starts
\* later, so when a call has used it up the write deadline has passed. An
\* outcome with no status, no error and no elapsed millisecond is the zero
\* value, which is not recorded.
ForwardEnds(a, o) ==
    /\ pc[a] = "wait"
    /\ o # "too_large"
    /\ client' = IF o = "expired" /\ client[a] = "waiting"
                 THEN [client EXCEPT ![a] = "late"] ELSE client
    /\ fwd' = [fwd EXCEPT ![a] = o]
    /\ \/ Goto(a, "record") /\ UNCHANGED reply
       \/ o = "zero" /\ Answer(a, "bad_gateway")
    /\ UNCHANGED <<kind, tries, got, rows, shown, faults>>

\* The answers that an outcome of the forward can lead to.
RepliesTo(o) == CASE o \in Failures -> {"captured"}
                  [] o = "delivered" -> {"app_ok", "app_error"}
                  [] OTHER -> {"bad_gateway"}

\* Mutant: RecordForward writes a status of 0 as it is.
RecordedAsIs(o) == o

\* The columns RecordForward leaves behind.
Recorded(o) == IF o = "zero" THEN "unrecorded" ELSE o

\* Mutant: the delivery event is published whatever became of the update.
AnnounceAnyway == "announce"

\* What follows a RecordForward that returned an error.
AfterRecordFailure == "respond"

\* RecordForward, on a context of its own. A status outside 100..599 breaks a
\* CHECK constraint; any other failure may come before or after the commit.
Record(a) ==
    LET o == fwd[a] IN
    /\ pc[a] = "record"
    /\ \E r \in RepliesTo(o) : reply' = [reply EXCEPT ![a] = r]
    /\ \/ /\ o # "odd"
          /\ rows' = [rows EXCEPT ![a] = Recorded(o)]
          /\ Goto(a, "announce")
          /\ UNCHANGED faults
       \/ /\ o = "odd"
          /\ Goto(a, AfterRecordFailure)
          /\ UNCHANGED <<rows, faults>>
       \/ /\ o # "odd"
          /\ Fault
          /\ rows' \in {rows, [rows EXCEPT ![a] = Recorded(o)]}
          /\ Goto(a, AfterRecordFailure)
    /\ UNCHANGED <<provider, fwd, shown>>

\* publishDelivery.
Announce(a) ==
    /\ pc[a] = "announce"
    /\ Tell(a, fwd[a])
    /\ Goto(a, "respond")
    /\ UNCHANGED <<provider, fwd, reply, rows, faults>>

\* The handlers of a set of attempts are over, and their local state is gone.
Return(over) ==
    /\ pc' = [a \in Attempts |-> IF a \in over THEN "done" ELSE pc[a]]
    /\ fwd' = [a \in Attempts |-> IF a \in over THEN None ELSE fwd[a]]
    /\ reply' = [a \in Attempts |-> IF a \in over THEN None ELSE reply[a]]
    /\ client' = [a \in Attempts |-> IF a \in over THEN "waiting" ELSE client[a]]

\* The handler returns and net/http flushes the answer, which reaches a provider
\* that is still there if the write deadline has not passed.
Respond(a) ==
    /\ pc[a] = "respond"
    /\ Return({a})
    /\ got' = [got EXCEPT ![a] = CASE client[a] = "waiting" -> reply[a]
                                   [] client[a] = "late" -> "lost"
                                   [] OTHER -> @]
    /\ UNCHANGED <<kind, tries, rows, shown, faults>>

\* The process dies, or its shutdown has waited long enough for the handlers,
\* and is started again.
Crash ==
    /\ \E a \in Attempts : InProgress(a)
    /\ Fault
    /\ Return({a \in Attempts : InProgress(a)})
    /\ got' = [a \in Attempts |->
                 IF InProgress(a) /\ got[a] = None THEN "cut" ELSE got[a]]
    /\ UNCHANGED <<kind, tries, rows, shown>>

-----------------------------------------------------------------------------

Step(a) ==
    \/ Resolve(a)
    \/ Limit(a)
    \/ Read(a)
    \/ Insert(a)
    \/ Publish(a)
    \/ Forward(a)
    \/ \E o \in Outcomes : ForwardEnds(a, o)
    \/ Record(a)
    \/ Announce(a)
    \/ Respond(a)

Next ==
    \/ \E e \in Events : Send(e)
    \/ \E a \in Attempts : Step(a) \/ HangUp(a) \/ WriteDeadline(a)
    \/ Crash

Spec == Init /\ [][Next]_vars

\* Handlers run, the tunnel call ends by its deadline (TunnelHub), and providers
\* retry. No fault is fair.
FairSpec ==
    /\ Spec
    /\ \A e \in Events : WF_vars(Send(e))
    /\ \A a \in Attempts : WF_vars(Step(a))

-----------------------------------------------------------------------------
(* Properties                                                              *)

\* A provider that was told 2xx, and will not send the event again, is right:
\* the row is there, whatever failed or crashed around it.
AcknowledgedIsStored ==
    \A a \in Attempts : got[a] \in Acks => rows[a] # "absent"

\* The durability line (ingest.go:167-174, 215-220): a 404 or a 429 means that
\* nothing was stored, and a 503 is never the answer to a capture that went
\* below the line: browsers know nothing of it and it has no outcome.
RefusalsAreAboveTheLine ==
    \A a \in Attempts :
        /\ got[a] \in {"not_found", "limited"} => rows[a] = "absent"
        /\ got[a] = "unavailable" => /\ rows[a] \in {"absent", "unrecorded"}
                                     /\ shown[a] = {}

\* What an open browser was told the table confirms, through failed updates,
\* retries and crashes: the capture is stored, and the outcome is the one in the
\* row. ingest.go:275-276 promises that of every outcome ("an open browser never
\* shows a delivery state that a reload would contradict"); it does not hold of a
\* status of 0, which is announced as a delivery and leaves the row without one.
FeedIsConfirmed ==
    \A a \in Attempts :
        /\ "capture" \in shown[a] => rows[a] # "absent"
        /\ \A o \in shown[a] \ {"capture"} :
              \/ rows[a] = o
              \/ o = "zero" /\ rows[a] = "unrecorded"

\* ingest.go:403-406: when the forward has used up its deadline, "WE give up first
\* and answer deliberately rather than having the provider hang up on us". A
\* provider that is still there gets the answer to such a capture.
GivingUpIsAnswered ==
    \A a \in Attempts : rows[a] = "expired" => got[a] # "lost"

\* Nothing is lost: an event for an existing inbox is stored in the end, once
\* the provider has tried more often than things went wrong.
EventuallyStored ==
    \A e \in Events :
        (kind[e] # "unknown" /\ MaxAttempts > MaxFaults) =>
            <>(\E n \in 1..MaxAttempts : rows[<<e, n>>] # "absent")

=============================================================================
