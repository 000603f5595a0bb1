---------------------------- MODULE CaptureProofs ----------------------------
(* The safety of the capture handler, for any number of events, attempts and *)
(* faults: what a provider and a browser were told is true of the table.     *)
EXTENDS Capture, TLAPS

\* What an answer says of the row behind it.
AnswerFits(a, r) ==
    /\ r \in Acks => rows[a] # "absent"
    /\ r \in {"not_found", "limited"} => rows[a] = "absent"
    /\ r = "unavailable" => /\ rows[a] \in {"absent", "unrecorded"}
                            /\ shown[a] = {}

\* Above the durability line nothing is stored and nobody has been told.
Above(a) ==
    pc[a] \in {"idle", "resolve", "limit", "read", "insert"} =>
        rows[a] = "absent" /\ shown[a] = {}

\* Below it the row is there, and has no outcome until it has been recorded.
Below(a) ==
    pc[a] \in {"publish", "forward", "wait", "record"} =>
        rows[a] = "unrecorded" /\ shown[a] \subseteq {"capture"}

\* Only a recorded outcome is announced, and answered with what it stands for.
Settled(a) ==
    /\ pc[a] = "record" => fwd[a] # None
    /\ pc[a] = "announce" => /\ fwd[a] # None
                             /\ rows[a] = Recorded(fwd[a])
                             /\ shown[a] \subseteq {"capture"}
                             /\ reply[a] \in RepliesTo(fwd[a])

\* The answer about to be given fits, and so does the one that was given, which
\* is the handler's last act.
Truthful(a) ==
    /\ pc[a] = "respond" => AnswerFits(a, reply[a])
    /\ AnswerFits(a, got[a])
    /\ got[a] \in Replies => pc[a] = "done"

\* What browsers were told about one attempt, up to what RecordForward makes of
\* a status of 0.
Durable(a) ==
    /\ "capture" \in shown[a] => rows[a] # "absent"
    /\ \A o \in shown[a] \ {"capture"} : rows[a] = Recorded(o)

AttemptInv(a) == Above(a) /\ Below(a) /\ Settled(a) /\ Truthful(a) /\ Durable(a)

\* Attempts that have not been made are idle.
Unsent == \A a \in Attempts : a[2] > tries[a[1]] => pc[a] = "idle"

IndInv == TypeOK /\ Unsent /\ \A a \in Attempts : AttemptInv(a)

-----------------------------------------------------------------------------

\* What a member of Attempts is.
LEMMA AttemptPairs ==
    /\ \A e \in Events, n \in 1..MaxAttempts : <<e, n>> \in Attempts
    /\ \A a \in Attempts : a[1] \in Events /\ a[2] \in 1..MaxAttempts
    /\ \A a \in Attempts : a = <<a[1], a[2]>>
BY DEF Attempts

\* The initial state satisfies the invariant.
LEMMA InitInv == Init => IndInv
BY CaptureAssumption
DEF Init, IndInv, TypeOK, Unsent, AttemptInv, Above, Below, Settled,
       Truthful, Durable, AnswerFits, Acks, Replies, Stages, Rows, Attempts

\* Every step keeps the types.
LEMMA NextTyped == IndInv /\ [Next]_vars => TypeOK'
<1> SUFFICES ASSUME TypeOK, Unsent, \A a \in Attempts : AttemptInv(a),
                    [Next]_vars
             PROVE  TypeOK'
  BY DEF IndInv
<1> USE DEF TypeOK, Rows, Stages, Replies, Outcomes, Failures, Answers
<1>1. ASSUME NEW e \in Events, Send(e) PROVE TypeOK'
  <2>1. tries[e] + 1 \in 0..MaxAttempts
    BY <1>1 DEF Send
  <2> QED
    BY <1>1, <2>1 DEF Send, Goto
<1>2. ASSUME NEW a \in Attempts, Resolve(a) PROVE TypeOK'
  BY <1>2, CaptureAssumption DEF Resolve, Goto, Answer, ContextFails, Fault, provider
<1>3. ASSUME NEW a \in Attempts, Limit(a) PROVE TypeOK'
  BY <1>3, CaptureAssumption DEF Limit, Goto, Answer, Fault, provider
<1>4. ASSUME NEW a \in Attempts, Read(a) PROVE TypeOK'
  BY <1>4 DEF Read, Goto, Answer, provider
<1>5. ASSUME NEW a \in Attempts, Insert(a) PROVE TypeOK'
  BY <1>5, CaptureAssumption
  DEF Insert, Goto, Answer, ContextFails, Fault, AfterInsert, StoreFailure,
      provider
<1>6. ASSUME NEW a \in Attempts, Publish(a) PROVE TypeOK'
  BY <1>6 DEF Publish, Tell, Goto, provider
<1>7. ASSUME NEW a \in Attempts, Forward(a) PROVE TypeOK'
  BY <1>7 DEF Forward, Goto, provider
<1>8. ASSUME NEW a \in Attempts, NEW o \in Outcomes, ForwardEnds(a, o)
      PROVE  TypeOK'
  BY <1>8 DEF ForwardEnds, Goto, Answer, provider
<1>9. ASSUME NEW a \in Attempts, Record(a) PROVE TypeOK'
  <2>1. fwd[a] \in Outcomes
    BY <1>9 DEF Record, AttemptInv, Settled
  <2>2. RepliesTo(fwd[a]) \subseteq Replies
    BY DEF RepliesTo
  <2>3. fwd[a] # "odd" => Recorded(fwd[a]) \in Rows
    BY <2>1 DEF Recorded
  <2>4. reply' \in [Attempts -> Replies \cup {None}]
    BY <1>9, <2>2 DEF Record
  <2>5. rows' \in [Attempts -> Rows]
    BY <1>9, <2>3 DEF Record
  <2>6. pc' \in [Attempts -> Stages] /\ faults' \in 0..MaxFaults
    BY <1>9, CaptureAssumption DEF Record, Goto, Fault, AfterRecordFailure
  <2> QED
    BY <1>9, <2>4, <2>5, <2>6 DEF Record, provider
<1>10. ASSUME NEW a \in Attempts, Announce(a) PROVE TypeOK'
  <2>1. fwd[a] \in Outcomes
    BY <1>10 DEF Announce, AttemptInv, Settled
  <2> QED
    BY <1>10, <2>1 DEF Announce, Tell, Goto, provider
<1>11. ASSUME NEW a \in Attempts, Respond(a) PROVE TypeOK'
  BY <1>11 DEF Respond, Return
<1>12. ASSUME NEW a \in Attempts, HangUp(a) PROVE TypeOK'
  BY <1>12, CaptureAssumption DEF HangUp, Fault, handler
<1>13. ASSUME NEW a \in Attempts, WriteDeadline(a) PROVE TypeOK'
  BY <1>13 DEF WriteDeadline, handler
<1>14. CASE Crash
  BY <1>14, CaptureAssumption DEF Crash, Return, Fault
<1>15. CASE UNCHANGED vars
  BY <1>15 DEF vars, provider, handler
<1> QED
  BY <1>1, <1>2, <1>3, <1>4, <1>5, <1>6, <1>7, <1>8, <1>9, <1>10, <1>11,
     <1>12, <1>13, <1>14, <1>15 DEF Next, Step

\* Attempts not made yet stay idle.
LEMMA NextUnsent == IndInv /\ [Next]_vars => Unsent'
<1> SUFFICES ASSUME TypeOK, Unsent, [Next]_vars,
                    NEW b \in Attempts, (b[2] > tries[b[1]])'
             PROVE  pc'[b] = "idle"
  BY DEF IndInv, Unsent
<1>1. b[1] \in Events /\ b[2] \in Nat /\ b = <<b[1], b[2]>>
  BY CaptureAssumption, AttemptPairs
<1>2. ASSUME NEW e \in Events, Send(e) PROVE pc'[b] = "idle"
  <2>1. tries[e] \in Nat /\ tries[b[1]] \in Nat
    BY <1>1 DEF TypeOK
  <2>2. tries'[e] = tries[e] + 1 /\ (b[1] # e => tries'[b[1]] = tries[b[1]])
    BY <1>1, <1>2 DEF Send, TypeOK
  <2>3. b # <<e, tries[e] + 1>>
    BY <1>1, <2>1, <2>2
  <2>4. b[2] > tries[b[1]]
    BY <1>1, <2>1, <2>2
  <2> QED
    BY <1>2, <2>3, <2>4 DEF Send, Goto, TypeOK, Unsent
<1>3. ASSUME UNCHANGED tries,
             \A a \in Attempts : pc[a] = "idle" => pc'[a] = "idle"
      PROVE  pc'[b] = "idle"
  BY <1>3 DEF Unsent
<1>4. ASSUME NEW a \in Attempts, Step(a) \/ HangUp(a) \/ WriteDeadline(a)
      PROVE  UNCHANGED tries /\ \A c \in Attempts : pc[c] = "idle" => pc'[c] = "idle"
  <2>1. UNCHANGED tries
    BY <1>4 DEF Step, HangUp, WriteDeadline, Resolve, Limit, Read, Insert,
                Publish, Forward, ForwardEnds, Record, Announce, Respond,
                provider
  <2>2. pc[a] # "idle" /\ \A c \in Attempts \ {a} : pc'[c] = pc[c]
    BY <1>4 DEF Step, HangUp, WriteDeadline, Waits, Resolve, Limit, Read,
                Insert, Publish, Forward, ForwardEnds, Record, Announce,
                Respond, Return, Answer, Goto, handler, TypeOK
  <2> QED
    BY <2>1, <2>2
<1>5. CASE Crash
  BY <1>5, <1>3 DEF Crash, Return, InProgress, TypeOK
<1>6. CASE UNCHANGED vars
  BY <1>6, <1>3 DEF vars, provider, handler
<1> QED
  BY <1>2, <1>3, <1>4, <1>5, <1>6 DEF Next

-----------------------------------------------------------------------------

\* An attempt that a step does not touch keeps its invariant.
LEMMA Untouched ==
    ASSUME NEW b \in Attempts, AttemptInv(b),
           pc'[b] = pc[b], fwd'[b] = fwd[b], rows'[b] = rows[b],
           shown'[b] = shown[b], reply'[b] = reply[b], got'[b] = got[b]
    PROVE  AttemptInv(b)'
BY DEF AttemptInv, Above, Below, Settled, Truthful, Durable, AnswerFits

\* The end of a handler: what the provider has seen in the end is None, no
\* reply, or the reply that fits.
LEMMA Over ==
    ASSUME NEW b \in Attempts, AttemptInv(b), pc'[b] = "done",
           rows'[b] = rows[b], shown'[b] = shown[b],
           got'[b] = got[b] \/ got'[b] \notin Replies
                            \/ (pc[b] = "respond" /\ got'[b] = reply[b])
    PROVE  AttemptInv(b)'
<1>1. AnswerFits(b, got[b]) /\ (pc[b] = "respond" => AnswerFits(b, reply[b]))
  BY DEF AttemptInv, Truthful
<1>2. AnswerFits(b, got'[b])
  BY <1>1 DEF AnswerFits, Acks, Replies
<1>3. AnswerFits(b, got[b])'
  BY <1>2 DEF AnswerFits
<1>4. Durable(b)'
  BY DEF AttemptInv, Durable
<1> QED
  BY <1>3, <1>4 DEF AttemptInv, Above, Below, Settled, Truthful

\* One step of the handler of a keeps the invariant of a.
LEMMA StepKeeps ==
    ASSUME IndInv, NEW a \in Attempts, Step(a)
    PROVE  AttemptInv(a)'
<1> USE DEF IndInv
<1>1. CASE Resolve(a)
  BY <1>1 DEF Resolve, Goto, Answer, provider, TypeOK, AttemptInv, Above, Below,
              Settled, Truthful, Durable, AnswerFits, Acks, Replies
<1>2. CASE Limit(a)
  BY <1>2 DEF Limit, Goto, Answer, provider, TypeOK, AttemptInv, Above, Below,
              Settled, Truthful, Durable, AnswerFits, Acks, Replies
<1>3. CASE Read(a)
  BY <1>3 DEF Read, Goto, Answer, provider, TypeOK, AttemptInv, Above, Below,
              Settled, Truthful, Durable, AnswerFits, Acks, Replies
<1>4. CASE Insert(a)
  BY <1>4 DEF Insert, Goto, Answer, AfterInsert, StoreFailure, provider, TypeOK,
              AttemptInv, Above, Below, Settled, Truthful, Durable, AnswerFits,
              Acks, Replies
<1>5. CASE Publish(a)
  BY <1>5 DEF Publish, Goto, Tell, provider, TypeOK, AttemptInv, Above, Below,
              Settled, Truthful, Durable, AnswerFits, Acks, Replies
<1>6. CASE Forward(a)
  BY <1>6, CaptureAssumption
  DEF Forward, Goto, provider, TypeOK, AttemptInv, Above, Below, Settled,
      Truthful, Durable, AnswerFits, Acks, Replies, Outcomes, Failures
<1>7. ASSUME NEW o \in Outcomes, ForwardEnds(a, o) PROVE AttemptInv(a)'
  BY <1>7, CaptureAssumption
  DEF ForwardEnds, Goto, Answer, provider, TypeOK, AttemptInv, Above, Below,
      Settled, Truthful, Durable, AnswerFits, Acks, Replies
<1>8. CASE Record(a)
  <2>1. /\ rows[a] = "unrecorded" /\ shown[a] \subseteq {"capture"}
        /\ fwd[a] \in Outcomes /\ got[a] \notin Replies /\ AnswerFits(a, got[a])
    BY <1>8 DEF Record, AttemptInv, Below, Settled, Truthful, TypeOK
  <2>2. Recorded(fwd[a]) # "absent"
    BY <2>1 DEF Recorded, Outcomes, Failures, Answers
  <2>3. reply'[a] \in RepliesTo(fwd[a])
    BY <1>8 DEF Record, TypeOK
  <2>4. reply'[a] \notin {"not_found", "limited", "unavailable"}
    BY <2>3 DEF RepliesTo
  <2>5. rows'[a] # "absent"
    BY <1>8, <2>1, <2>2 DEF Record, TypeOK
  <2>6. AnswerFits(a, reply[a])' /\ AnswerFits(a, got[a])'
    BY <1>8, <2>1, <2>4, <2>5 DEF Record, provider, AnswerFits, Acks, Replies
  <2>7. \/ pc'[a] = "announce" /\ rows'[a] = Recorded(fwd[a])
        \/ pc'[a] = "respond"
    BY <1>8 DEF Record, Goto, AfterRecordFailure, TypeOK
  <2>8. fwd' = fwd /\ shown' = shown /\ got' = got
    BY <1>8 DEF Record, provider
  <2> QED
    BY <2>1, <2>3, <2>5, <2>6, <2>7, <2>8, CaptureAssumption
    DEF AttemptInv, Above, Below, Settled, Truthful, Durable
<1>9. CASE Announce(a)
  <2>1. /\ rows[a] = Recorded(fwd[a]) /\ shown[a] \subseteq {"capture"}
        /\ fwd[a] \in Outcomes /\ reply[a] \in RepliesTo(fwd[a])
        /\ got[a] \notin Replies
    BY <1>9 DEF Announce, AttemptInv, Settled, Truthful, TypeOK
  <2>2. Recorded(fwd[a]) # "absent"
    BY <2>1 DEF Recorded, Outcomes, Failures, Answers
  <2>3. reply[a] \notin {"not_found", "limited", "unavailable"}
    BY <2>1 DEF RepliesTo
  <2>4. /\ pc'[a] = "respond" /\ shown'[a] = shown[a] \cup {fwd[a]}
        /\ fwd' = fwd /\ rows' = rows /\ reply' = reply /\ got' = got
    BY <1>9 DEF Announce, Goto, Tell, provider, TypeOK
  <2>5. AnswerFits(a, reply[a])' /\ AnswerFits(a, got[a])'
    BY <2>1, <2>2, <2>3, <2>4 DEF AnswerFits, Acks, Replies
  <2>6. Durable(a)'
    BY <2>1, <2>2, <2>4 DEF Durable
  <2> QED
    BY <2>1, <2>4, <2>5, <2>6 DEF AttemptInv, Above, Below, Settled, Truthful
<1>10. CASE Respond(a)
  <2>1. /\ pc[a] = "respond" /\ pc'[a] = "done"
        /\ rows'[a] = rows[a] /\ shown'[a] = shown[a]
        /\ got'[a] \in {reply[a], "lost", got[a]}
    BY <1>10 DEF Respond, Return, TypeOK
  <2> QED
    BY <2>1, Over DEF Replies
<1> QED
  BY <1>1, <1>2, <1>3, <1>4, <1>5, <1>6, <1>7, <1>8, <1>9, <1>10 DEF Step

\* One step of the handler of a leaves the other attempts alone.
LEMMA StepIsLocal ==
    ASSUME TypeOK, NEW a \in Attempts, Step(a), NEW b \in Attempts, b # a
    PROVE  /\ pc'[b] = pc[b] /\ fwd'[b] = fwd[b] /\ rows'[b] = rows[b]
           /\ shown'[b] = shown[b] /\ reply'[b] = reply[b] /\ got'[b] = got[b]
<1> USE DEF TypeOK
<1>1. CASE Resolve(a) \/ Limit(a) \/ Read(a) \/ Insert(a)
  BY <1>1 DEF Resolve, Limit, Read, Insert, Goto, Answer, provider
<1>2. CASE Publish(a) \/ Forward(a) \/ \E o \in Outcomes : ForwardEnds(a, o)
  BY <1>2 DEF Publish, Forward, ForwardEnds, Tell, Goto, Answer, provider
<1>3. CASE Record(a) \/ Announce(a) \/ Respond(a)
  BY <1>3 DEF Record, Announce, Respond, Return, Tell, Goto, provider
<1> QED
  BY <1>1, <1>2, <1>3 DEF Step

\* Every step keeps the invariant of every attempt.
LEMMA NextAttempts == IndInv /\ [Next]_vars => \A b \in Attempts : AttemptInv(b)'
<1> SUFFICES ASSUME IndInv, [Next]_vars, NEW b \in Attempts
             PROVE  AttemptInv(b)'
  OBVIOUS
<1> USE DEF IndInv
<1>1. ASSUME NEW e \in Events, Send(e) PROVE AttemptInv(b)'
  <2>1. CASE b = <<e, tries[e] + 1>>
    <3>1. tries[e] \in Nat /\ b[1] = e /\ b[2] = tries[e] + 1
      BY <2>1 DEF TypeOK
    <3>2. pc[b] = "idle"
      BY <3>1 DEF Unsent
    <3>3. pc'[b] = "resolve"
      BY <1>1, <2>1 DEF Send, Goto, TypeOK
    <3> QED
      BY <1>1, <3>2, <3>3 DEF Send, AttemptInv, Above, Below, Settled, Truthful,
                             Durable, AnswerFits
  <2>2. CASE b # <<e, tries[e] + 1>>
    BY <1>1, <2>2, Untouched DEF Send, Goto, TypeOK
  <2> QED
    BY <2>1, <2>2
<1>2. ASSUME NEW a \in Attempts, Step(a) PROVE AttemptInv(b)'
  <2>1. CASE a = b
    BY <1>2, <2>1, StepKeeps
  <2>2. CASE a # b
    BY <1>2, <2>2, StepIsLocal, Untouched
  <2> QED
    BY <2>1, <2>2
<1>3. ASSUME NEW a \in Attempts, HangUp(a) PROVE AttemptInv(b)'
  <2>1. got'[b] = got[b] \/ (got[b] = None /\ got'[b] = "gave_up")
    BY <1>3 DEF HangUp, TypeOK
  <2> QED
    BY <1>3, <2>1 DEF HangUp, handler, AttemptInv, Above, Below, Settled,
                     Truthful, Durable, AnswerFits, Acks, Replies
<1>4. ASSUME NEW a \in Attempts, WriteDeadline(a) PROVE AttemptInv(b)'
  BY <1>4, Untouched DEF WriteDeadline, handler
<1>5. CASE Crash
  <2>1. CASE InProgress(b)
    BY <1>5, <2>1, Over DEF Crash, Return, Replies
  <2>2. CASE ~InProgress(b)
    BY <1>5, <2>2, Untouched DEF Crash, Return
  <2> QED
    BY <2>1, <2>2
<1>6. CASE UNCHANGED vars
  BY <1>6, Untouched DEF vars, provider, handler
<1> QED
  BY <1>1, <1>2, <1>3, <1>4, <1>5, <1>6 DEF Next

-----------------------------------------------------------------------------

\* The inductive invariant holds in every reachable state of the handler.
THEOREM Invariance == Spec => []IndInv
<1>1. Init => IndInv
  BY InitInv
<1>2. IndInv /\ [Next]_vars => IndInv'
  BY NextTyped, NextUnsent, NextAttempts DEF IndInv
<1> QED
  BY <1>1, <1>2, PTL DEF Spec

\* Every variable has its type; no row breaks the constraints of its table.
THEOREM TypeCorrect == Spec => []TypeOK
<1>1. IndInv => TypeOK
  BY DEF IndInv
<1> QED
  BY <1>1, Invariance, PTL

\* A provider that was told 2xx can forget the event: its row is there, through
\* failures of the database, overlapping attempts and crashes.
THEOREM AcknowledgementsCorrect == Spec => []AcknowledgedIsStored
<1>1. IndInv => AcknowledgedIsStored
  BY DEF IndInv, AttemptInv, Truthful, AnswerFits, AcknowledgedIsStored
<1> QED
  BY <1>1, Invariance, PTL

\* The durability line: no refusal of a capture that went below it.
THEOREM RefusalsCorrect == Spec => []RefusalsAreAboveTheLine
<1>1. IndInv => RefusalsAreAboveTheLine
  BY DEF IndInv, AttemptInv, Truthful, AnswerFits, RefusalsAreAboveTheLine
<1> QED
  BY <1>1, Invariance, PTL

\* What a browser was told is in the table: through failed updates, retries and
\* crashes no capture is announced that is not stored, and no outcome but the
\* recorded one, except a status of 0, which is announced when the row has none.
THEOREM FeedCorrect == Spec => []FeedIsConfirmed
<1>1. IndInv => FeedIsConfirmed
  <2> SUFFICES ASSUME IndInv, NEW a \in Attempts
               PROVE  /\ "capture" \in shown[a] => rows[a] # "absent"
                      /\ \A o \in shown[a] \ {"capture"} :
                            \/ rows[a] = o
                            \/ o = "zero" /\ rows[a] = "unrecorded"
    BY DEF FeedIsConfirmed
  <2>1. Durable(a)
    BY DEF IndInv, AttemptInv
  <2> QED
    BY <2>1 DEF Durable, Recorded
<1> QED
  BY <1>1, Invariance, PTL

=============================================================================
