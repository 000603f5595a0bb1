---------------------------- MODULE RequestsProofs ----------------------------
(***************************************************************************)
(* The CLI speaks first, for every number of calls and slots, and for      *)
(* every pair of deadlines with the slack that RoundTripAssumption asks;   *)
(* and the comparison of captures is exact, for values of every depth.     *)
(***************************************************************************)
EXTENDS RoundTrip, CaptureDiff, FiniteInduction, FiniteSetTheorems, TLAPS

-----------------------------------------------------------------------------
(* The round trip                                                          *)

\* A job is where it is for no longer than the tick allows.
OnTime ==
    \A f \in Calls :
        /\ job[f] \in {"coming", "replying"} =>
             entered[f] <= now /\ now <= entered[f] + MaxTravel
        /\ job[f] \in {"queued", "asking"} =>
             began[f] <= now /\ now <= LocalDeadline(f)

\* What is left of an attempt, all frames included, ends before the deadline of
\* a caller that is still waiting and had the time when it sent.
Ahead ==
    \A f \in Calls :
        f \in inTime /\ caller[f] = "waiting" =>
          \/ /\ job[f] = "coming"
             /\ entered[f] + LocalTimeout + 2 * MaxTravel < Deadline(f)
          \/ /\ job[f] \in {"queued", "asking"}
             /\ began[f] + LocalTimeout + MaxTravel < Deadline(f)
          \/ /\ job[f] = "replying"
             /\ entered[f] + MaxTravel < Deadline(f)

\* What the app was asked, by the place of the job and by the reply.
Asked ==
    \A f \in Calls :
        /\ caller[f] \in {"idle", "queued"} => job[f] = "none" /\ f \notin inTime
        /\ job[f] \in {"none", "coming", "queued"} => f \notin handled
        /\ job[f] = "replying" =>
             \/ reply[f] = "status" /\ f \in handled
             \/ reply[f] = "local"
             \/ reply[f] = "limit" /\ f \notin handled

\* A caller that was told something has returned.
Told ==
    \A f \in Calls :
        /\ outcome[f] # "none" => caller[f] = "over"
        /\ outcome[f] = "overloaded" => job[f] = "none"
        /\ outcome[f] = "limit" => job[f] = "gone"

TripInv == TripTypeOK /\ OnTime /\ Ahead /\ Asked /\ Told /\ ClientSpeaksFirst

-----------------------------------------------------------------------------

\* The initial states satisfy the inductive invariant.
THEOREM TripInit_Inv == TripInit => TripInv
  <1> USE ClockAssumption DEF ClockAssumption
  <1> QED
    BY DEF TripInit, ClockInit, TripInv, TripTypeOK, ClockTypeOK, Replies, OnTime, Ahead,
           Asked, Told, ClientSpeaksFirst

\* Call keeps the inductive invariant.
LEMMA CallKeeps ==
    ASSUME TripInv, NEW f \in Calls, CallForward(f)
    PROVE  TripInv'
  <1> USE ClockAssumption DEF ClockAssumption, cliVars
  <1>1. TripTypeOK'
    BY DEF TripInv, TripTypeOK, ClockTypeOK, CallForward
  <1>2. OnTime'
    BY DEF TripInv, OnTime, CallForward, LocalDeadline
  <1>3. Ahead'
    BY DEF TripInv, TripTypeOK, Ahead, CallForward, Deadline
  <1>4. Asked' /\ Told' /\ ClientSpeaksFirst'
    BY DEF TripInv, TripTypeOK, Asked, Told, ClientSpeaksFirst, CallForward
  <1> QED  BY <1>1, <1>2, <1>3, <1>4 DEF TripInv

\* Send keeps the inductive invariant.
LEMMA SendKeeps ==
    ASSUME TripInv, NEW f \in Calls, SendRequest(f)
    PROVE  TripInv'
  <1> USE RoundTripAssumption, ClockAssumption DEF RoundTripAssumption, ClockAssumption, Moves
  <1>1. TripTypeOK'
    BY DEF TripInv, TripTypeOK, ClockTypeOK, SendRequest
  <1>2. OnTime'
    <2> SUFFICES ASSUME NEW g \in Calls
                 PROVE  /\ job'[g] \in {"coming", "replying"} =>
                             entered'[g] <= now' /\ now' <= entered'[g] + MaxTravel
                        /\ job'[g] \in {"queued", "asking"} =>
                             began'[g] <= now' /\ now' <= LocalDeadline(g)'
      BY DEF OnTime
    <2> QED  BY DEF TripInv, TripTypeOK, ClockTypeOK, OnTime, SendRequest, LocalDeadline
  <1>3. Ahead'
    <2> SUFFICES ASSUME NEW g \in Calls, g \in inTime', caller'[g] = "waiting"
                 PROVE  \/ /\ job'[g] = "coming"
                           /\ entered'[g] + LocalTimeout + 2 * MaxTravel < Deadline(g)'
                        \/ /\ job'[g] \in {"queued", "asking"}
                           /\ began'[g] + LocalTimeout + MaxTravel < Deadline(g)'
                        \/ /\ job'[g] = "replying"
                           /\ entered'[g] + MaxTravel < Deadline(g)'
      BY DEF Ahead
    <2>1. CASE g = f
      <3>1. job'[f] = "coming" /\ entered'[f] = now /\ Deadline(f)' = Deadline(f)
        BY DEF TripInv, TripTypeOK, SendRequest, Deadline
      <3>2. f \notin inTime
        BY DEF TripInv, Asked, SendRequest
      <3>3. now + LocalTimeout + 2 * MaxTravel < Deadline(f)
        BY <2>1, <3>2 DEF SendRequest
      <3> QED  BY <2>1, <3>1, <3>3
    <2>2. CASE g # f
      BY <2>2 DEF TripInv, TripTypeOK, Ahead, SendRequest, Deadline
    <2> QED  BY <2>1, <2>2
  <1>4. Asked' /\ Told' /\ ClientSpeaksFirst'
    BY DEF TripInv, TripTypeOK, Asked, Told, ClientSpeaksFirst, SendRequest
  <1> QED  BY <1>1, <1>2, <1>3, <1>4 DEF TripInv

\* A caller that had the time when it sent is answered before it gives up.
LEMMA GiveUpKeeps ==
    ASSUME TripInv, NEW f \in Calls, GiveUp(f)
    PROVE  TripInv'
  <1> USE RoundTripAssumption, ClockAssumption DEF RoundTripAssumption, ClockAssumption,
          cliVars, Returns
  <1>1. TripTypeOK'
    BY DEF TripInv, TripTypeOK, ClockTypeOK, GiveUp
  <1>2. OnTime'
    BY DEF TripInv, OnTime, GiveUp, LocalDeadline
  <1>3. Ahead'
    BY DEF TripInv, TripTypeOK, Ahead, GiveUp, Deadline
  <1>4. caller[f] = "waiting" => f \notin inTime
    <2> SUFFICES ASSUME caller[f] = "waiting", f \in inTime
                 PROVE  FALSE
      OBVIOUS
    <2>1. /\ now \in Nat /\ began[f] \in Nat /\ entered[f] \in Nat /\ started[f] \in Nat
          /\ Deadline(f) \in Nat /\ Deadline(f) <= now
      BY DEF TripInv, TripTypeOK, ClockTypeOK, GiveUp, Deadline
    <2>2. CASE job[f] \in {"coming", "replying"}
      <3>1. now <= entered[f] + MaxTravel
        BY <2>2 DEF TripInv, OnTime
      <3>2. entered[f] + MaxTravel < Deadline(f)
        BY <2>1, <2>2 DEF TripInv, Ahead
      <3> QED  BY <2>1, <3>1, <3>2
    <2>3. CASE job[f] \in {"queued", "asking"}
      <3>1. now <= began[f] + LocalTimeout
        BY <2>3 DEF TripInv, OnTime, LocalDeadline
      <3>2. began[f] + LocalTimeout + MaxTravel < Deadline(f)
        BY <2>3 DEF TripInv, Ahead
      <3> QED  BY <2>1, <3>1, <3>2
    <2> QED  BY <2>2, <2>3 DEF TripInv, Ahead
  <1>5. Asked' /\ Told'
    BY DEF TripInv, TripTypeOK, Asked, Told, GiveUp
  <1>6. ClientSpeaksFirst'
    BY <1>4 DEF TripInv, TripTypeOK, Asked, ClientSpeaksFirst, GiveUp
  <1> QED  BY <1>1, <1>2, <1>3, <1>5, <1>6 DEF TripInv

\* Handle keeps the inductive invariant.
LEMMA HandleKeeps ==
    ASSUME TripInv, NEW f \in Calls, HandleRequest(f)
    PROVE  TripInv'
  <1> USE RoundTripAssumption, ClockAssumption DEF RoundTripAssumption, ClockAssumption,
          callerVars, Moves
  <1>1. TripTypeOK'
    BY DEF TripInv, TripTypeOK, ClockTypeOK, HandleRequest
  <1>2. OnTime'
    BY DEF TripInv, TripTypeOK, ClockTypeOK, OnTime, HandleRequest, LocalDeadline
  <1>3. Ahead'
    <2> SUFFICES ASSUME NEW g \in Calls, g \in inTime, caller[g] = "waiting"
                 PROVE  \/ /\ job'[g] = "coming"
                           /\ entered'[g] + LocalTimeout + 2 * MaxTravel < Deadline(g)
                        \/ /\ job'[g] \in {"queued", "asking"}
                           /\ began'[g] + LocalTimeout + MaxTravel < Deadline(g)
                        \/ /\ job'[g] = "replying"
                           /\ entered'[g] + MaxTravel < Deadline(g)
      BY DEF Ahead, Deadline, HandleRequest
    <2>1. CASE g = f
      <3>1. job'[f] = "queued" /\ began'[f] = now /\ job[f] = "coming"
        BY DEF TripInv, TripTypeOK, HandleRequest
      <3>2. /\ now <= entered[f] + MaxTravel
            /\ entered[f] + LocalTimeout + 2 * MaxTravel < Deadline(f)
        BY <2>1, <3>1 DEF TripInv, OnTime, Ahead
      <3>3. now \in Nat /\ entered[f] \in Nat /\ Deadline(f) \in Nat
        BY DEF TripInv, TripTypeOK, ClockTypeOK, Deadline
      <3> QED  BY <2>1, <3>1, <3>2, <3>3
    <2>2. CASE g # f
      BY <2>2 DEF TripInv, TripTypeOK, Ahead, HandleRequest
    <2> QED  BY <2>1, <2>2
  <1>4. Asked' /\ Told' /\ ClientSpeaksFirst'
    BY DEF TripInv, TripTypeOK, Asked, Told, ClientSpeaksFirst, HandleRequest
  <1> QED  BY <1>1, <1>2, <1>3, <1>4 DEF TripInv

\* AskApp keeps the inductive invariant.
LEMMA AskAppKeeps ==
    ASSUME TripInv, NEW f \in Calls, AskApp(f)
    PROVE  TripInv'
  <1> USE RoundTripAssumption, ClockAssumption DEF RoundTripAssumption, ClockAssumption,
          callerVars, Moves
  <1>1. TripTypeOK'
    BY DEF TripInv, TripTypeOK, ClockTypeOK, AskApp
  <1>2. OnTime'
    BY DEF TripInv, TripTypeOK, OnTime, AskApp, LocalDeadline
  <1>3. Ahead'
    BY DEF TripInv, TripTypeOK, Ahead, AskApp, Deadline
  <1>4. Asked' /\ Told' /\ ClientSpeaksFirst'
    BY DEF TripInv, TripTypeOK, Asked, Told, ClientSpeaksFirst, AskApp
  <1> QED  BY <1>1, <1>2, <1>3, <1>4 DEF TripInv

\* Whatever the reply, it leaves no later than the attempt's deadline.
LEMMA RepliedKeeps ==
    ASSUME TripInv, NEW f \in Calls, NEW with \in Replies, Replied(f, with),
           job[f] \in {"queued", "asking"},
           with = "limit" <=> job[f] = "queued",
           with = "status" => f \in handled
    PROVE  TripInv'
  <1> USE RoundTripAssumption, ClockAssumption DEF RoundTripAssumption, ClockAssumption,
          callerVars, Moves
  <1>1. TripTypeOK'
    BY DEF TripInv, TripTypeOK, ClockTypeOK, Replied
  <1>2. OnTime'
    BY DEF TripInv, TripTypeOK, ClockTypeOK, OnTime, Replied, LocalDeadline
  <1>3. Ahead'
    <2> SUFFICES ASSUME NEW g \in Calls, g \in inTime, caller[g] = "waiting"
                 PROVE  \/ /\ job'[g] = "coming"
                           /\ entered'[g] + LocalTimeout + 2 * MaxTravel < Deadline(g)
                        \/ /\ job'[g] \in {"queued", "asking"}
                           /\ began'[g] + LocalTimeout + MaxTravel < Deadline(g)
                        \/ /\ job'[g] = "replying"
                           /\ entered'[g] + MaxTravel < Deadline(g)
      BY DEF Ahead, Deadline, Replied
    <2>1. CASE g = f
      <3>1. job'[f] = "replying" /\ entered'[f] = now
        BY DEF TripInv, TripTypeOK, Replied
      <3>2. /\ now <= began[f] + LocalTimeout
            /\ began[f] + LocalTimeout + MaxTravel < Deadline(f)
        BY <2>1 DEF TripInv, OnTime, Ahead, LocalDeadline
      <3>3. now \in Nat /\ began[f] \in Nat /\ Deadline(f) \in Nat
        BY DEF TripInv, TripTypeOK, ClockTypeOK, Deadline
      <3> QED  BY <2>1, <3>1, <3>2, <3>3
    <2>2. CASE g # f
      BY <2>2 DEF TripInv, TripTypeOK, Ahead, Replied
    <2> QED  BY <2>1, <2>2
  <1>4. Asked'
    BY DEF TripInv, TripTypeOK, Asked, Replied, Replies
  <1>5. Told' /\ ClientSpeaksFirst'
    BY DEF TripInv, TripTypeOK, Told, ClientSpeaksFirst, Replied
  <1> QED  BY <1>1, <1>2, <1>3, <1>4, <1>5 DEF TripInv

\* Deliver keeps the inductive invariant.
LEMMA DeliverKeeps ==
    ASSUME TripInv, NEW f \in Calls, DeliverReply(f)
    PROVE  TripInv'
  <1> USE RoundTripAssumption, ClockAssumption DEF RoundTripAssumption, ClockAssumption,
          callerVars, Returns
  <1>1. TripTypeOK'
    BY DEF TripInv, TripTypeOK, ClockTypeOK, DeliverReply
  <1>2. OnTime'
    BY DEF TripInv, TripTypeOK, OnTime, DeliverReply, LocalDeadline
  <1>3. Ahead'
    BY DEF TripInv, TripTypeOK, Ahead, DeliverReply, Deadline
  <1>4. Asked'
    BY DEF TripInv, TripTypeOK, Asked, DeliverReply
  <1>5. Told'
    BY DEF TripInv, TripTypeOK, Asked, Told, DeliverReply
  <1>6. ClientSpeaksFirst'
    BY DEF TripInv, TripTypeOK, Asked, ClientSpeaksFirst, DeliverReply
  <1> QED  BY <1>1, <1>2, <1>3, <1>4, <1>5, <1>6 DEF TripInv

\* TripTick keeps the inductive invariant.
LEMMA TripTickKeeps ==
    ASSUME TripInv, TripTick
    PROVE  TripInv'
  <1> USE RoundTripAssumption, ClockAssumption DEF RoundTripAssumption, ClockAssumption,
          callerVars, cliVars
  <1>1. now \in Nat /\ now' = now + 1 /\ now < MaxTime /\ UNCHANGED <<callerVars, cliVars>>
    BY DEF TripInv, TripTypeOK, ClockTypeOK, TripTick, Tick
  <1>2. TripTypeOK'
    BY <1>1 DEF TripInv, TripTypeOK, ClockTypeOK
  <1>3. OnTime'
    BY <1>1 DEF TripInv, TripTypeOK, OnTime, TripTick, LocalDeadline
  <1>4. Ahead' /\ Asked' /\ Told' /\ ClientSpeaksFirst'
    BY <1>1 DEF TripInv, Ahead, Asked, Told, ClientSpeaksFirst, Deadline
  <1> QED  BY <1>2, <1>3, <1>4 DEF TripInv

\* Every step keeps the attempts ahead of their callers.
THEOREM TripStep_Inv == TripInv /\ [TripNext]_tripVars => TripInv'
  <1> SUFFICES ASSUME TripInv, [TripNext]_tripVars
               PROVE  TripInv'
    OBVIOUS
  <1>1. ASSUME NEW f \in Calls, CallForward(f) \/ SendRequest(f) \/ GiveUp(f)
        PROVE  TripInv'
    BY <1>1, CallKeeps, SendKeeps, GiveUpKeeps
  <1>2. ASSUME NEW f \in Calls, HandleRequest(f) \/ AskApp(f) \/ DeliverReply(f)
        PROVE  TripInv'
    BY <1>2, HandleKeeps, AskAppKeeps, DeliverKeeps
  <1>3. ASSUME NEW f \in Calls, RefuseLocally(f)
        PROVE  TripInv'
    BY <1>3, RepliedKeeps DEF RefuseLocally, Replies
  <1>4. ASSUME NEW f \in Calls, AppAnswers(f) \/ AppFails(f)
        PROVE  TripInv'
    BY <1>4, RepliedKeeps DEF AppAnswers, AppFails, Replies
  <1>5. CASE TripTick
    BY <1>5, TripTickKeeps
  <1>6. CASE UNCHANGED tripVars
    BY <1>6 DEF tripVars, callerVars, cliVars, TripInv, TripTypeOK, ClockTypeOK, OnTime,
                Ahead, Asked, Told, ClientSpeaksFirst, Deadline, LocalDeadline
  <1> QED  BY <1>1, <1>2, <1>3, <1>4, <1>5, <1>6 DEF TripNext

\* A server's caller that sent with the slack left never gives up on a tunnel
\* that is up: the CLI's account of the attempt arrives first, and it says that
\* the app was asked only when it was (client.go:19-25, 303-352).
THEOREM CliSpeaksFirst == TripSpec => []ClientSpeaksFirst
  <1>1. TripInv => ClientSpeaksFirst
    BY DEF TripInv
  <1> QED  BY <1>1, TripInit_Inv, TripStep_Inv, PTL DEF TripSpec

-----------------------------------------------------------------------------
(* Comparison: ids                                                         *)

\* The keys of v that hold a scalar, as IdText has them.
Named(v) ==
    {i \in DOMAIN IdKeys :
       v.kind = "obj" /\ IdKeys[i] \in DOMAIN v.of /\ Scalar(v.of[IdKeys[i]])}

\* A set of naturals has a least member.
LEMMA LeastIsMember ==
    ASSUME NEW S \in SUBSET Nat, S # {}
    PROVE  Min(S) \in S
  <1> DEFINE F == {0..m : m \in S}
  <1>1. F \subseteq FiniteSubsetsOf(Nat)
    <2>1. \A m \in Nat : IsFiniteSet(0..m)
      BY FS_Interval
    <2> QED  BY <2>1 DEF FiniteSubsetsOf
  <1>2. F # {}
    OBVIOUS
  <1> HIDE DEF F
  <1>3. PICK T \in F : \A U \in F : U \subseteq T => U = T
    BY <1>1, <1>2, SmallestSet
  <1>4. PICK m \in S : T = 0..m
    BY DEF F
  <1>5. \A n \in S : m <= n
    <2> SUFFICES ASSUME NEW n \in S, n < m PROVE FALSE
      OBVIOUS
    <2>1. 0..n \in F /\ 0..n \subseteq T
      BY <1>4 DEF F
    <2>2. m \in 0..m /\ m \notin 0..n
      OBVIOUS
    <2> QED  BY <1>3, <1>4, <2>1, <2>2
  <1> QED  BY <1>5 DEF Min

\* What the id of a value is.
LEMMA IdIsText ==
    ASSUME NEW v
    PROVE  /\ Named(v) = {} => IdText(v) = EmptyText
           /\ Named(v) # {} =>
                /\ Min(Named(v)) \in Named(v)
                /\ IdText(v) = v.of[IdKeys[Min(Named(v))]].text
  <1>1. IdText(v) = IF Named(v) = {} THEN EmptyText
                    ELSE v.of[IdKeys[Min(Named(v))]].text
    BY DEF IdText, Named
  <1>2. Named(v) \in SUBSET Nat
    BY DiffAssumption DEF Named
  <1> QED  BY <1>1, <1>2, LeastIsMember

\* The largest of one is that one.
LEMMA OnlyIsLargest ==
    ASSUME NEW n \in Nat
    PROVE  Max({n}) = n
  BY DEF Max

\* Where ids are unique, the element with an id is that of the index.
LEMMA ByIdFinds ==
    ASSUME NEW items, items \in Seq(JSON), Unambiguous(items), NEW i \in DOMAIN items
    PROVE  /\ IdText(items[i]) \in DOMAIN ById(items)
           /\ ById(items)[IdText(items[i])] = items[i]
  <1>1. {j \in DOMAIN items : IdText(items[j]) = IdText(items[i])} = {i}
    BY DEF Unambiguous
  <1>2. i \in Nat
    OBVIOUS
  <1>3. IdText(items[i]) \in ElementIds(items)
    BY DEF ElementIds
  <1> QED  BY <1>1, <1>2, <1>3, OnlyIsLargest DEF ById

\* elementIDs: the elements are not none, each with an id of its own.
LEMMA IdentifiedIs ==
    ASSUME NEW items, items \in Seq(JSON)
    PROVE  Identified(items) <=> items # <<>> /\ Unambiguous(items)
  <1>1. \A i, j \in DOMAIN items : i < j \/ j < i \/ i = j
    OBVIOUS
  <1>2. \A i, j \in DOMAIN items : i < j => i # j
    OBVIOUS
  <1> QED  BY <1>1, <1>2 DEF Identified, Unambiguous, ElementIds

-----------------------------------------------------------------------------
(* Places                                                                  *)

\* Under a step there is a change for each change.
LEMMA UnderKeeps ==
    ASSUME NEW step, NEW changes
    PROVE  /\ Under(step, changes) = {} <=> changes = {}
           /\ Flip(Under(step, changes)) = Under(step, Flip(changes))
  <1>1. Under(step, changes) = {} <=> changes = {}
    BY DEF Under
  <1>2. \A path, op, old, new :
          LET c == Change(path, op, old, new)
          IN c.path = path /\ c.op = op /\ c.old = old /\ c.new = new
    BY DEF Change
  <1> DEFINE Both == {Change(<<step>> \o c.path, Opposite[c.op], c.new, c.old) : c \in changes}
  <1>3. Flip(Under(step, changes)) = Both
    <2>1. ASSUME NEW x \in Flip(Under(step, changes)) PROVE x \in Both
      <3>1. PICK y \in Under(step, changes) : x = Change(y.path, Opposite[y.op], y.new, y.old)
        BY DEF Flip
      <3>2. PICK c \in changes : y = Change(<<step>> \o c.path, c.op, c.old, c.new)
        BY DEF Under
      <3> QED  BY <1>2, <3>1, <3>2
    <2>2. ASSUME NEW c \in changes
          PROVE  Change(<<step>> \o c.path, Opposite[c.op], c.new, c.old)
                   \in Flip(Under(step, changes))
      <3>1. Change(<<step>> \o c.path, c.op, c.old, c.new) \in Under(step, changes)
        BY DEF Under
      <3> QED  BY <1>2, <3>1 DEF Flip
    <2> QED  BY <2>1, <2>2
  <1>4. Under(step, Flip(changes)) = Both
    <2>1. ASSUME NEW x \in Under(step, Flip(changes)) PROVE x \in Both
      <3>1. PICK y \in Flip(changes) : x = Change(<<step>> \o y.path, y.op, y.old, y.new)
        BY DEF Under
      <3>2. PICK c \in changes : y = Change(c.path, Opposite[c.op], c.new, c.old)
        BY DEF Flip
      <3> QED  BY <1>2, <3>1, <3>2
    <2>2. ASSUME NEW c \in changes
          PROVE  Change(<<step>> \o c.path, Opposite[c.op], c.new, c.old)
                   \in Under(step, Flip(changes))
      <3>1. Change(c.path, Opposite[c.op], c.new, c.old) \in Flip(changes)
        BY DEF Flip
      <3> QED  BY <1>2, <3>1 DEF Under
    <2> QED  BY <2>1, <2>2
  <1> QED  BY <1>1, <1>3, <1>4

\* A place shows nothing if both have it and the walk shows nothing there.
LEMMA PlaceIsEmpty ==
    ASSUME NEW step, NEW k, NEW l, NEW r, NEW walk
    PROVE  AtPlace(step, k, l, r, walk) = {} <=>
             k \in DOMAIN l /\ k \in DOMAIN r /\ walk[<<l[k], r[k]>>] = {} 
  BY UnderKeeps DEF AtPlace

\* From the other side a place shows the opposite.
LEMMA PlaceFlips ==
    ASSUME NEW step, NEW k, NEW l, NEW r, NEW walk, k \in DOMAIN l \cup DOMAIN r,
           k \in DOMAIN l /\ k \in DOMAIN r =>
             walk[<<r[k], l[k]>>] = Flip(walk[<<l[k], r[k]>>])
    PROVE  AtPlace(step, k, r, l, walk) = Flip(AtPlace(step, k, l, r, walk))
  <1>1. \A path, op, old, new :
          Flip({Change(path, op, old, new)}) = {Change(path, Opposite[op], new, old)}
    BY DEF Change, Flip
  <1>2. CASE k \notin DOMAIN r
    BY <1>1, <1>2 DEF AtPlace, Opposite
  <1>3. CASE k \notin DOMAIN l
    BY <1>1, <1>3 DEF AtPlace, Opposite
  <1>4. CASE k \in DOMAIN l /\ k \in DOMAIN r
    BY <1>4, UnderKeeps DEF AtPlace
  <1> QED  BY <1>2, <1>3, <1>4

\* Two functions show nothing if they have the same places and the walk shows
\* nothing at any.
LEMMA PlacesAreEmpty ==
    ASSUME NEW how, NEW l, NEW r, NEW walk
    PROVE  Places(how, l, r, walk) = {} <=>
             /\ DOMAIN l = DOMAIN r
             /\ \A k \in DOMAIN l : walk[<<l[k], r[k]>>] = {}
  <1>1. Places(how, l, r, walk) = {} <=>
          \A k \in DOMAIN l \cup DOMAIN r : AtPlace(<<how, k>>, k, l, r, walk) = {}
    BY DEF Places
  <1>2. Places(how, l, r, walk) = {} <=>
          \A k \in DOMAIN l \cup DOMAIN r :
             k \in DOMAIN l /\ k \in DOMAIN r /\ walk[<<l[k], r[k]>>] = {}
    BY <1>1, PlaceIsEmpty
  <1> QED  BY <1>2

\* From the other side the places show the opposite.
LEMMA PlacesFlip ==
    ASSUME NEW how, NEW l, NEW r, NEW walk,
           \A k \in DOMAIN l \cap DOMAIN r : walk[<<r[k], l[k]>>] = Flip(walk[<<l[k], r[k]>>])
    PROVE  Places(how, r, l, walk) = Flip(Places(how, l, r, walk))
  <1> DEFINE At(k) == AtPlace(<<how, k>>, k, l, r, walk)
             Back(k) == AtPlace(<<how, k>>, k, r, l, walk)
             K == DOMAIN l \cup DOMAIN r
  <1>1. \A k \in K : Back(k) = Flip(At(k))
    <2> SUFFICES ASSUME NEW k \in K
                 PROVE  AtPlace(<<how, k>>, k, r, l, walk)
                          = Flip(AtPlace(<<how, k>>, k, l, r, walk))
      OBVIOUS
    <2>1. k \in DOMAIN l /\ k \in DOMAIN r =>
            walk[<<r[k], l[k]>>] = Flip(walk[<<l[k], r[k]>>])
      OBVIOUS
    <2>2. k \in DOMAIN l \cup DOMAIN r
      OBVIOUS
    <2> HIDE DEF K, At, Back
    <2> QED  BY <2>1, <2>2, PlaceFlips
  <1>2. Places(how, r, l, walk) = UNION {Back(k) : k \in K}
    BY DEF Places
  <1>3. Places(how, l, r, walk) = UNION {At(k) : k \in K}
    BY DEF Places
  <1> HIDE DEF At, Back, K
  <1>4. Flip(UNION {At(k) : k \in K}) = UNION {Flip(At(k)) : k \in K}
    BY DEF Flip
  <1> QED  BY <1>1, <1>2, <1>3, <1>4

-----------------------------------------------------------------------------
(* Values                                                                  *)

\* What is to be shown of a walk and of a sameness: the walk finds nothing exactly
\* in what is the same and finds the opposite from the other side, and what is the
\* same has the same id.
Exact(walk, same) ==
    \A l, r \in JSON :
        /\ walk[<<l, r>>] = {} <=> <<l, r>> \in same
        /\ walk[<<r, l>>] = Flip(walk[<<l, r>>])
        /\ <<l, r>> \in same =>
             IdText(l) = IdText(r) /\ (Scalar(l) \/ Scalar(r) => l = r)

\* Values that are only told apart.
LEMMA DifferIsExact ==
    ASSUME NEW l, NEW r
    PROVE  /\ Differ(<<>>, l, r) = {} <=> l = r
           /\ Differ(<<>>, r, l) = Flip(Differ(<<>>, l, r))
  <1>1. Flip({Change(<<>>, "changed", l, r)}) = {Change(<<>>, "changed", r, l)}
    BY DEF Change, Flip, Opposite
  <1>2. Flip({}) = {}
    BY DEF Flip
  <1> QED  BY <1>1, <1>2 DEF Differ

\* The same objects have the same id.
LEMMA SameObjectsSameId ==
    ASSUME NEW walk, NEW same, Exact(walk, same),
           NEW l \in JSON, NEW r \in JSON, l.kind = "obj", r.kind = "obj",
           SameObjects(l.of, r.of, same)
    PROVE  IdText(l) = IdText(r)
  <1>1. \A k \in DOMAIN l.of : l.of[k] \in JSON /\ r.of[k] \in JSON
    BY DiffAssumption DEF SameObjects
  <1>2. \A k \in DOMAIN l.of : Scalar(l.of[k]) \/ Scalar(r.of[k]) => l.of[k] = r.of[k]
    BY <1>1 DEF SameObjects, Exact
  <1>3. DOMAIN l.of = DOMAIN r.of
    BY DEF SameObjects
  <1>4. Named(l) = Named(r) /\ \A i \in Named(l) : l.of[IdKeys[i]] = r.of[IdKeys[i]]
    BY <1>2, <1>3 DEF Named
  <1> QED  BY <1>4, IdIsText

\* A sequence has as many places as it is long.
LEMMA LengthCounts ==
    ASSUME NEW s, s \in Seq(JSON)
    PROVE  IsFiniteSet(DOMAIN s) /\ Cardinality(DOMAIN s) = Len(s)
  <1> DEFINE n == Len(s)
  <1>1. n \in Nat /\ DOMAIN s = 1..n
    OBVIOUS
  <1> HIDE DEF n
  <1>2. n \in Int /\ 1 \in Int
    BY <1>1
  <1>3. IsFiniteSet(1..n) /\ Cardinality(1..n) = IF 1 > n THEN 0 ELSE n - 1 + 1
    BY <1>2, FS_Interval
  <1>4. Cardinality(DOMAIN s) = n
    BY <1>1, <1>3
  <1> QED  BY <1>1, <1>3, <1>4 DEF n

\* Sequences with the same places are as long.
LEMMA SameLength ==
    ASSUME NEW l \in Seq(JSON), NEW r \in Seq(JSON)
    PROVE  DOMAIN l = DOMAIN r <=> Len(l) = Len(r)
  <1>1. DOMAIN l = 1..Len(l) /\ DOMAIN r = 1..Len(r)
    OBVIOUS
  <1> QED  BY <1>1, LengthCounts

\* One to one, between sequences that are as long, leaves none out.
LEMMA NoneLeftOut ==
    ASSUME NEW l \in Seq(JSON), NEW r \in Seq(JSON), Len(l) = Len(r),
           NEW f \in Injection(DOMAIN l, DOMAIN r), NEW j \in DOMAIN r
    PROVE  \E i \in DOMAIN l : f[i] = j
  <1>1. DOMAIN l = DOMAIN r
    BY SameLength
  <1>2. IsFiniteSet(DOMAIN r)
    BY LengthCounts
  <1>3. f \in Surjection(DOMAIN l, DOMAIN r)
    BY <1>1, <1>2, FS_Injection
  <1> QED  BY <1>3 DEF Surjection

\* One to one and leaving none out, sequences are as long.
LEMMA AsLong ==
    ASSUME NEW l \in Seq(JSON), NEW r \in Seq(JSON),
           NEW f \in Injection(DOMAIN l, DOMAIN r),
           \A j \in DOMAIN r : \E i \in DOMAIN l : f[i] = j
    PROVE  Len(l) = Len(r)
  <1>1. f \in [DOMAIN l -> DOMAIN r]
    BY DEF Injection
  <1>2. f \in Surjection(DOMAIN l, DOMAIN r)
    BY <1>1 DEF Surjection
  <1>3. IsFiniteSet(DOMAIN r)
    BY LengthCounts
  <1>4. Cardinality(DOMAIN l) = Cardinality(DOMAIN r)
    BY <1>2, <1>3, FS_Injection
  <1> QED  BY <1>4, LengthCounts

\* Arrays with unique ids on both sides, matched by them.
LEMMA ByIdIsExact ==
    ASSUME NEW walk, NEW same, Exact(walk, same), NEW l \in Seq(JSON), NEW r \in Seq(JSON),
           Unambiguous(l), Unambiguous(r)
    PROVE  /\ WalkArraysById(l, r, walk) = {} <=> SameArrays(l, r, same)
           /\ WalkArraysById(r, l, walk) = Flip(WalkArraysById(l, r, walk))
  <1> DEFINE L == ById(l)
             R == ById(r)
  <1>1. /\ DOMAIN L = {IdText(l[i]) : i \in DOMAIN l}
        /\ DOMAIN R = {IdText(r[i]) : i \in DOMAIN r}
    BY DEF ById, ElementIds
  <1>2. /\ \A i \in DOMAIN l : L[IdText(l[i])] = l[i]
        /\ \A i \in DOMAIN r : R[IdText(r[i])] = r[i]
    BY ByIdFinds
  <1>3. /\ \A i \in DOMAIN l : l[i] \in JSON
        /\ \A i \in DOMAIN r : r[i] \in JSON
    OBVIOUS
  <1>4. /\ WalkArraysById(l, r, walk) = Places("id", L, R, walk)
        /\ WalkArraysById(r, l, walk) = Places("id", R, L, walk)
    BY DEF WalkArraysById
  <1> HIDE DEF L, R
  <1>5. ASSUME WalkArraysById(l, r, walk) = {} PROVE SameArrays(l, r, same)
    <2>1. DOMAIN L = DOMAIN R /\ \A k \in DOMAIN L : walk[<<L[k], R[k]>>] = {}
      BY <1>4, <1>5, PlacesAreEmpty
    <2> DEFINE f == [i \in DOMAIN l |-> CHOOSE j \in DOMAIN r : IdText(r[j]) = IdText(l[i])]
    <2>2. \A i \in DOMAIN l : \E j \in DOMAIN r : IdText(r[j]) = IdText(l[i])
      BY <1>1, <2>1
    <2>3. \A i \in DOMAIN l : f[i] \in DOMAIN r /\ IdText(r[f[i]]) = IdText(l[i])
      BY <2>2
    <2>4. f \in [DOMAIN l -> DOMAIN r]
      BY <2>3
    <2> HIDE DEF f
    <2>5. f \in Injection(DOMAIN l, DOMAIN r)
      BY <2>3, <2>4 DEF Injection, IsInjective, Unambiguous
    <2>6. \A j \in DOMAIN r : \E i \in DOMAIN l : f[i] = j
      <3> SUFFICES ASSUME NEW j \in DOMAIN r PROVE \E i \in DOMAIN l : f[i] = j
        OBVIOUS
      <3>1. PICK i \in DOMAIN l : IdText(l[i]) = IdText(r[j])
        BY <1>1, <2>1
      <3> QED  BY <2>3, <3>1 DEF Unambiguous
    <2>7. Len(l) = Len(r)
      BY <2>5, <2>6, AsLong
    <2>8. \A i \in DOMAIN l : <<l[i], r[f[i]]>> \in same
      <3> SUFFICES ASSUME NEW i \in DOMAIN l PROVE <<l[i], r[f[i]]>> \in same
        OBVIOUS
      <3>1. L[IdText(l[i])] = l[i] /\ R[IdText(l[i])] = r[f[i]]
        BY <1>2, <2>3
      <3>2. walk[<<l[i], r[f[i]]>>] = {}
        BY <1>1, <2>1, <3>1
      <3> QED  BY <1>3, <2>3, <3>2 DEF Exact
    <2> QED  BY <2>5, <2>7, <2>8 DEF SameArrays
  <1>6. ASSUME SameArrays(l, r, same) PROVE WalkArraysById(l, r, walk) = {}
    <2>1. Len(l) = Len(r)
      BY <1>6 DEF SameArrays
    <2>2. PICK f \in Injection(DOMAIN l, DOMAIN r) :
            \A i \in DOMAIN l : <<l[i], r[f[i]]>> \in same
      BY <1>6 DEF SameArrays
    <2>3. \A i \in DOMAIN l : f[i] \in DOMAIN r
      BY DEF Injection
    <2>4. \A i \in DOMAIN l : IdText(l[i]) = IdText(r[f[i]]) /\ walk[<<l[i], r[f[i]]>>] = {}
      BY <1>3, <2>2, <2>3 DEF Exact
    <2>5. \A j \in DOMAIN r : \E i \in DOMAIN l : f[i] = j
      BY <2>1, NoneLeftOut
    <2>6. DOMAIN L = DOMAIN R
      <3>1. DOMAIN L \subseteq DOMAIN R
        BY <1>1, <2>3, <2>4
      <3>2. ASSUME NEW j \in DOMAIN r PROVE IdText(r[j]) \in DOMAIN L
        <4>1. PICK i \in DOMAIN l : f[i] = j
          BY <2>5
        <4>2. IdText(r[j]) = IdText(l[i])
          BY <2>4, <4>1
        <4> QED  BY <1>1, <4>2
      <3> QED  BY <1>1, <3>1, <3>2
    <2>7. \A k \in DOMAIN L : walk[<<L[k], R[k]>>] = {}
      <3> SUFFICES ASSUME NEW k \in DOMAIN L PROVE walk[<<L[k], R[k]>>] = {}
        OBVIOUS
      <3>1. PICK i \in DOMAIN l : k = IdText(l[i])
        BY <1>1
      <3>2. L[k] = l[i] /\ R[k] = r[f[i]]
        BY <1>2, <2>3, <2>4, <3>1
      <3> QED  BY <2>4, <3>2
    <2> QED  BY <1>4, <2>6, <2>7, PlacesAreEmpty
  <1>7. \A k \in DOMAIN L \cap DOMAIN R : L[k] \in JSON /\ R[k] \in JSON
    BY <1>1, <1>2, <1>3
  <1>8. \A k \in DOMAIN L \cap DOMAIN R : walk[<<R[k], L[k]>>] = Flip(walk[<<L[k], R[k]>>])
    BY <1>7 DEF Exact
  <1> QED  BY <1>4, <1>5, <1>6, <1>8, PlacesFlip

\* Arrays, matched as both sides allow.
LEMMA ArraysAreExact ==
    ASSUME NEW walk, NEW same, Exact(walk, same), NEW l \in Seq(JSON), NEW r \in Seq(JSON)
    PROVE  /\ WalkArrays(l, r, walk) = {} <=> SameArrays(l, r, same)
           /\ WalkArrays(r, l, walk) = Flip(WalkArrays(l, r, walk))
  <1>1. CASE Identified(l) /\ Identified(r)
    <2>1. Unambiguous(l) /\ Unambiguous(r)
      BY <1>1, IdentifiedIs
    <2> QED  BY <1>1, <2>1, ByIdIsExact DEF WalkArrays
  <1>2. CASE ~(Identified(l) /\ Identified(r))
    <2>1. /\ WalkArrays(l, r, walk) = Places("index", l, r, walk)
          /\ WalkArrays(r, l, walk) = Places("index", r, l, walk)
      BY <1>2 DEF WalkArrays
    <2>2. /\ \A i \in DOMAIN l : l[i] \in JSON
          /\ \A i \in DOMAIN r : r[i] \in JSON
      OBVIOUS
    <2>3. \A i \in DOMAIN l \cap DOMAIN r : walk[<<r[i], l[i]>>] = Flip(walk[<<l[i], r[i]>>])
      BY <2>2 DEF Exact
    <2>4. WalkArrays(r, l, walk) = Flip(WalkArrays(l, r, walk))
      BY <2>1, <2>3, PlacesFlip
    <2>5. ASSUME WalkArrays(l, r, walk) = {} PROVE SameArrays(l, r, same)
      <3> DEFINE f == [i \in DOMAIN l |-> i]
      <3>1. DOMAIN l = DOMAIN r /\ \A i \in DOMAIN l : walk[<<l[i], r[i]>>] = {}
        BY <2>1, <2>5, PlacesAreEmpty
      <3>2. Len(l) = Len(r)
        BY <3>1, SameLength
      <3>3. f \in Injection(DOMAIN l, DOMAIN r) /\ InPlace(f)
        BY <3>1 DEF Injection, IsInjective, InPlace
      <3>4. \A i \in DOMAIN l : <<l[i], r[f[i]]>> \in same
        BY <2>2, <3>1 DEF Exact
      <3> QED  BY <3>2, <3>3, <3>4 DEF SameArrays
    <2>6. ASSUME SameArrays(l, r, same) PROVE WalkArrays(l, r, walk) = {}
      <3>1. Len(l) = Len(r) /\ DOMAIN l = DOMAIN r
        BY <2>6, SameLength DEF SameArrays
      <3>2. PICK f \in Injection(DOMAIN l, DOMAIN r) :
              /\ InPlace(f) \/ Unambiguous(l)
              /\ \A i \in DOMAIN l : <<l[i], r[f[i]]>> \in same
        BY <2>6 DEF SameArrays
      <3>3. /\ DOMAIN f = DOMAIN l
            /\ \A i \in DOMAIN l : f[i] \in DOMAIN r
        BY DEF Injection
      <3>4. CASE InPlace(f)
        <4>1. \A i \in DOMAIN l : <<l[i], r[i]>> \in same
          BY <3>2, <3>3, <3>4 DEF InPlace
        <4>2. \A i \in DOMAIN l : walk[<<l[i], r[i]>>] = {}
          BY <2>2, <3>1, <4>1 DEF Exact
        <4> QED  BY <2>1, <3>1, <4>2, PlacesAreEmpty
      <3>5. CASE l = <<>>
        <4>1. DOMAIN l = {}
          BY <3>5
        <4> QED  BY <2>1, <3>1, <4>1, PlacesAreEmpty
      <3>6. CASE Unambiguous(l) /\ l # <<>>
        <4>1. \A i \in DOMAIN l : IdText(l[i]) = IdText(r[f[i]])
          BY <2>2, <3>2, <3>3 DEF Exact
        <4>2. \A j \in DOMAIN r : \E i \in DOMAIN l : f[i] = j
          BY <3>1, NoneLeftOut
        <4>3. \A j \in DOMAIN r : IdText(r[j]) # EmptyText
          BY <3>6, <4>1, <4>2 DEF Unambiguous
        <4>4. ASSUME NEW j \in DOMAIN r, NEW k \in DOMAIN r, j # k
              PROVE  IdText(r[j]) # IdText(r[k])
          <5>1. PICK i \in DOMAIN l : f[i] = j
            BY <4>2
          <5>2. PICK m \in DOMAIN l : f[m] = k
            BY <4>2
          <5>3. i # m
            BY <4>4, <5>1, <5>2
          <5> QED  BY <3>6, <4>1, <5>1, <5>2, <5>3 DEF Unambiguous
        <4>5. Unambiguous(r)
          BY <4>3, <4>4 DEF Unambiguous
        <4>6. r # <<>>
          BY <3>1, <3>6
        <4> QED  BY <1>2, <3>6, <4>5, <4>6, IdentifiedIs
      <3> QED  BY <3>2, <3>4, <3>5, <3>6
    <2> QED  BY <2>4, <2>5, <2>6
  <1> QED  BY <1>1, <1>2

\* A level more is exact if the one below it is.
LEMMA OnceMoreIsExact ==
    ASSUME NEW walk, NEW same, Exact(walk, same)
    PROVE  Exact(WalkOnce(walk), SameOnce(same))
  <1> SUFFICES ASSUME NEW l \in JSON, NEW r \in JSON
               PROVE  /\ WalkOnce(walk)[<<l, r>>] = {} <=> <<l, r>> \in SameOnce(same)
                      /\ WalkOnce(walk)[<<r, l>>] = Flip(WalkOnce(walk)[<<l, r>>])
                      /\ <<l, r>> \in SameOnce(same) =>
                           IdText(l) = IdText(r) /\ (Scalar(l) \/ Scalar(r) => l = r)
    BY DEF Exact
  <1>1. \A a, b \in JSON :
          WalkOnce(walk)[<<a, b>>] =
            IF a.kind = "obj" /\ b.kind = "obj" THEN WalkObjects(a.of, b.of, walk)
            ELSE IF a.kind = "arr" /\ b.kind = "arr" THEN WalkArrays(a.of, b.of, walk)
            ELSE Differ(<<>>, a, b)
    BY DEF WalkOnce
  <1>2. <<l, r>> \in SameOnce(same) <=>
          IF l.kind = "obj" /\ r.kind = "obj" THEN SameObjects(l.of, r.of, same)
          ELSE IF l.kind = "arr" /\ r.kind = "arr" THEN SameArrays(l.of, r.of, same)
          ELSE l = r
    BY DEF SameOnce
  <1>3. CASE l.kind = "obj" /\ r.kind = "obj"
    <2>1. /\ \A k \in DOMAIN l.of : l.of[k] \in JSON
          /\ \A k \in DOMAIN r.of : r.of[k] \in JSON
      BY <1>3, DiffAssumption
    <2>2. WalkObjects(l.of, r.of, walk) = {} <=> SameObjects(l.of, r.of, same)
      <3>1. WalkObjects(l.of, r.of, walk) = {} <=>
              /\ DOMAIN l.of = DOMAIN r.of
              /\ \A k \in DOMAIN l.of : walk[<<l.of[k], r.of[k]>>] = {}
        BY PlacesAreEmpty DEF WalkObjects
      <3>2. ASSUME DOMAIN l.of = DOMAIN r.of, NEW k \in DOMAIN l.of
            PROVE  walk[<<l.of[k], r.of[k]>>] = {} <=> <<l.of[k], r.of[k]>> \in same
        BY <2>1, <3>2 DEF Exact
      <3> QED  BY <3>1, <3>2 DEF SameObjects
    <2>3. \A k \in DOMAIN l.of \cap DOMAIN r.of :
            walk[<<r.of[k], l.of[k]>>] = Flip(walk[<<l.of[k], r.of[k]>>])
      BY <2>1 DEF Exact
    <2>4. WalkObjects(r.of, l.of, walk) = Flip(WalkObjects(l.of, r.of, walk))
      BY <2>3, PlacesFlip DEF WalkObjects
    <2>5. ~Scalar(l) /\ ~Scalar(r)
      BY <1>3 DEF Scalar
    <2> QED  BY <1>1, <1>2, <1>3, <2>2, <2>4, <2>5, SameObjectsSameId
  <1>4. CASE l.kind = "arr" /\ r.kind = "arr"
    <2>1. l.of \in Seq(JSON) /\ r.of \in Seq(JSON)
      BY <1>4, DiffAssumption
    <2>2. Named(l) = {} /\ Named(r) = {} /\ ~Scalar(l) /\ ~Scalar(r)
      BY <1>4 DEF Named, Scalar
    <2>3. IdText(l) = IdText(r)
      BY <2>2, IdIsText
    <2>4. /\ WalkArrays(l.of, r.of, walk) = {} <=> SameArrays(l.of, r.of, same)
          /\ WalkArrays(r.of, l.of, walk) = Flip(WalkArrays(l.of, r.of, walk))
      BY <2>1, ArraysAreExact
    <2>5. /\ WalkOnce(walk)[<<l, r>>] = WalkArrays(l.of, r.of, walk)
          /\ WalkOnce(walk)[<<r, l>>] = WalkArrays(r.of, l.of, walk)
          /\ <<l, r>> \in SameOnce(same) <=> SameArrays(l.of, r.of, same)
      BY <1>1, <1>2, <1>4
    <2> QED  BY <2>2, <2>3, <2>4, <2>5
  <1>5. CASE ~(l.kind = "obj" /\ r.kind = "obj") /\ ~(l.kind = "arr" /\ r.kind = "arr")
    <2>1. /\ WalkOnce(walk)[<<l, r>>] = Differ(<<>>, l, r)
          /\ WalkOnce(walk)[<<r, l>>] = Differ(<<>>, r, l)
          /\ <<l, r>> \in SameOnce(same) <=> l = r
      BY <1>1, <1>2, <1>5
    <2> QED  BY <2>1, DifferIsExact
  <1> QED  BY <1>3, <1>4, <1>5

\* u is the walk, up to depth n.
IsWalk(u, n) ==
    u = [depth \in 0..n |-> IF depth = 0 THEN WalkLeaves ELSE WalkOnce(u[depth - 1])]

\* The walk is what its definition says: one for each depth exists.
LEMMA WalkExists ==
    /\ Walk[0] = WalkLeaves
    /\ \A depth \in 1..MaxDepth : Walk[depth] = WalkOnce(Walk[depth - 1])
  <1> DEFINE N == {n \in 0..MaxDepth : \E u : IsWalk(u, n)}
  <1>1. MaxDepth \in Nat
    BY DiffAssumption
  <1>2. 0 \in N
    <2> DEFINE u == [depth \in 0..0 |-> WalkLeaves]
    <2>1. IsWalk(u, 0)
      BY DEF IsWalk
    <2> QED  BY <1>1, <2>1
  <1>3. ASSUME NEW n \in 1..MaxDepth, n - 1 \in N PROVE n \in N
    <2>1. PICK u : IsWalk(u, n - 1)
      BY <1>3
    <2> DEFINE w == [depth \in 0..n |-> IF depth = n THEN WalkOnce(u[n - 1]) ELSE u[depth]]
    <2>2. \A depth \in 0..n - 1 :
            u[depth] = IF depth = 0 THEN WalkLeaves ELSE WalkOnce(u[depth - 1])
      BY <2>1, <1>1 DEF IsWalk
    <2>3. w[n] = WalkOnce(w[n - 1])
      BY <1>1
    <2>4. \A depth \in 0..n - 1 : w[depth] = u[depth]
      BY <1>1
    <2>5. ASSUME NEW depth \in 0..n
          PROVE  w[depth] = IF depth = 0 THEN WalkLeaves ELSE WalkOnce(w[depth - 1])
      <3>1. CASE depth = n
        BY <1>1, <2>3, <3>1
      <3>2. CASE depth = 0
        BY <1>1, <2>2, <2>4, <3>2
      <3>3. CASE depth # n /\ depth # 0
        <4>1. depth \in 0..n - 1 /\ depth - 1 \in 0..n - 1
          BY <1>1, <3>3
        <4> QED  BY <2>2, <2>4, <3>3, <4>1
      <3> QED  BY <3>1, <3>2, <3>3
    <2>6. w = [depth \in 0..n |-> w[depth]]
      OBVIOUS
    <2> HIDE DEF w
    <2>7. IsWalk(w, n)
      BY <2>5, <2>6 DEF IsWalk
    <2> QED  BY <2>7
  <1> HIDE DEF N
  <1>4. MaxDepth \in N
    BY <1>1, <1>2, <1>3, UpTo
  <1>5. \E u : IsWalk(u, MaxDepth)
    BY <1>4 DEF N
  <1>6. IsWalk(Walk, MaxDepth)
    BY <1>5 DEF Walk, IsWalk
  <1> QED  BY <1>1, <1>6 DEF IsWalk

\* u is the sameness, up to depth n.
IsSame(u, n) ==
    u = [depth \in 0..n |-> IF depth = 0 THEN SameLeaves ELSE SameOnce(u[depth - 1])]

\* The sameness is what its definition says: one for each depth exists.
LEMMA SameExists ==
    /\ Same[0] = SameLeaves
    /\ \A depth \in 1..MaxDepth : Same[depth] = SameOnce(Same[depth - 1])
  <1> DEFINE N == {n \in 0..MaxDepth : \E u : IsSame(u, n)}
  <1>1. MaxDepth \in Nat
    BY DiffAssumption
  <1>2. 0 \in N
    <2> DEFINE u == [depth \in 0..0 |-> SameLeaves]
    <2>1. IsSame(u, 0)
      BY DEF IsSame
    <2> QED  BY <1>1, <2>1
  <1>3. ASSUME NEW n \in 1..MaxDepth, n - 1 \in N PROVE n \in N
    <2>1. PICK u : IsSame(u, n - 1)
      BY <1>3
    <2> DEFINE w == [depth \in 0..n |-> IF depth = n THEN SameOnce(u[n - 1]) ELSE u[depth]]
    <2>2. \A depth \in 0..n - 1 :
            u[depth] = IF depth = 0 THEN SameLeaves ELSE SameOnce(u[depth - 1])
      BY <2>1, <1>1 DEF IsSame
    <2>3. w[n] = SameOnce(w[n - 1])
      BY <1>1
    <2>4. \A depth \in 0..n - 1 : w[depth] = u[depth]
      BY <1>1
    <2>5. ASSUME NEW depth \in 0..n
          PROVE  w[depth] = IF depth = 0 THEN SameLeaves ELSE SameOnce(w[depth - 1])
      <3>1. CASE depth = n
        BY <1>1, <2>3, <3>1
      <3>2. CASE depth = 0
        BY <1>1, <2>2, <2>4, <3>2
      <3>3. CASE depth # n /\ depth # 0
        <4>1. depth \in 0..n - 1 /\ depth - 1 \in 0..n - 1
          BY <1>1, <3>3
        <4> QED  BY <2>2, <2>4, <3>3, <4>1
      <3> QED  BY <3>1, <3>2, <3>3
    <2>6. w = [depth \in 0..n |-> w[depth]]
      OBVIOUS
    <2> HIDE DEF w
    <2>7. IsSame(w, n)
      BY <2>5, <2>6 DEF IsSame
    <2> QED  BY <2>7
  <1> HIDE DEF N
  <1>4. MaxDepth \in N
    BY <1>1, <1>2, <1>3, UpTo
  <1>5. \E u : IsSame(u, MaxDepth)
    BY <1>4 DEF N
  <1>6. IsSame(Same, MaxDepth)
    BY <1>5 DEF Same, IsSame
  <1> QED  BY <1>1, <1>6 DEF IsSame

\* The walk is exact at every depth: by induction over it.
LEMMA WalkIsExact ==
    Exact(Walk[MaxDepth], Same[MaxDepth])
  <1> DEFINE N == {n \in 0..MaxDepth : Exact(Walk[n], Same[n])}
  <1>1. MaxDepth \in Nat
    BY DiffAssumption
  <1>2. 0 \in N
    <2>1. ASSUME NEW l \in JSON, NEW r \in JSON
          PROVE  /\ Walk[0][<<l, r>>] = Differ(<<>>, l, r)
                 /\ <<l, r>> \in Same[0] <=> l = r
      BY WalkExists, SameExists DEF WalkLeaves, SameLeaves
    <2>2. ASSUME NEW l \in JSON, NEW r \in JSON
          PROVE  /\ Walk[0][<<l, r>>] = {} <=> <<l, r>> \in Same[0]
                 /\ Walk[0][<<r, l>>] = Flip(Walk[0][<<l, r>>])
                 /\ <<l, r>> \in Same[0] => l = r
      <3>1. Walk[0][<<l, r>>] = Differ(<<>>, l, r) /\ Walk[0][<<r, l>>] = Differ(<<>>, r, l)
        BY <2>1
      <3> QED  BY <2>1, <3>1, DifferIsExact
    <2>3. Exact(Walk[0], Same[0])
      BY <2>2 DEF Exact
    <2> QED  BY <1>1, <2>3
  <1>3. ASSUME NEW n \in 1..MaxDepth, n - 1 \in N PROVE n \in N
    <2>1. Exact(WalkOnce(Walk[n - 1]), SameOnce(Same[n - 1]))
      BY <1>3, OnceMoreIsExact
    <2>2. Exact(Walk[n], Same[n])
      BY <2>1, WalkExists, SameExists
    <2> QED  BY <2>2
  <1> HIDE DEF N
  <1>4. MaxDepth \in N
    BY <1>1, <1>2, <1>3, UpTo
  <1> QED  BY <1>4 DEF N

-----------------------------------------------------------------------------
(* Captures                                                                *)

\* Bodies, JSON or not.
LEMMA BodiesAreExact ==
    ASSUME NEW l, NEW r,
           l.kind = "bytes" \/ l \in JSON, r.kind = "bytes" \/ r \in JSON
    PROVE  /\ BodyChanges(l, r) = {} <=> SameBodies(l, r)
           /\ BodyChanges(r, l) = Flip(BodyChanges(l, r))
  <1>1. CASE l.kind = "bytes" \/ r.kind = "bytes"
    BY <1>1, DifferIsExact DEF BodyChanges, SameBodies
  <1>2. CASE ~(l.kind = "bytes" \/ r.kind = "bytes")
    BY <1>2, WalkIsExact DEF BodyChanges, SameBodies, Exact
  <1> QED  BY <1>1, <1>2

\* Headers without a change have the same values.
LEMMA HeadersAreExact ==
    ASSUME NEW l, NEW r, HeaderChanges(l, r) = {}, NEW n \in Names(l) \cup Names(r)
    PROVE  Joined(l, n) = Joined(r, n)
  <1> DEFINE For(m) ==
               IF m \notin Names(r) THEN {Change(<<m>>, "removed", Joined(l, m), Absent)}
               ELSE IF m \notin Names(l) THEN {Change(<<m>>, "added", Absent, Joined(r, m))}
               ELSE Differ(<<m>>, Joined(l, m), Joined(r, m))
  <1>1. HeaderChanges(l, r) = UNION {For(m) : m \in Names(l) \cup Names(r)}
    BY DEF HeaderChanges
  <1>2. For(n) = {}
    BY <1>1
  <1> QED  BY <1>2 DEF Differ

\* The captures are among the inputs, and the answer is the comparison of them.
DiffInv == pair \in Inputs /\ comparison \in {{}, {Compared(pair)}}

\* handleDiff and diff.Bodies: whatever the captures, the answer has changes exactly
\* where they differ, and the opposite ones from the other side.
THEOREM ComparesExactly == DiffSpec => []ComparisonIsExact
  <1>1. DiffInit => DiffInv
    BY DEF DiffInit, DiffInv
  <1>2. DiffInv /\ [DiffNext]_diffVars => DiffInv'
    BY DEF DiffInv, DiffNext, CompareCaptures, diffVars
  <1>3. DiffInv => ComparisonIsExact
    <2> SUFFICES ASSUME DiffInv, NEW c \in comparison
                 PROVE  /\ c.body = {} <=> SameBodies(pair.left.body, pair.right.body)
                        /\ BodyChanges(pair.right.body, pair.left.body) = Flip(c.body)
                        /\ c.identical /\ pair.volatile =>
                             \A n \in Names(pair.left.headers) \cup Names(pair.right.headers) :
                                Joined(pair.left.headers, n) = Joined(pair.right.headers, n)
      BY DEF ComparisonIsExact
    <2>1. c = Compared(pair)
      BY DEF DiffInv
    <2>2. c.body = BodyChanges(pair.left.body, pair.right.body)
      BY <2>1 DEF Compared
    <2>3. /\ pair.left.body.kind = "bytes" \/ pair.left.body \in JSON
          /\ pair.right.body.kind = "bytes" \/ pair.right.body \in JSON
      BY DiffAssumption DEF DiffInv
    <2>4. /\ c.body = {} <=> SameBodies(pair.left.body, pair.right.body)
          /\ BodyChanges(pair.right.body, pair.left.body) = Flip(c.body)
      BY <2>2, <2>3, BodiesAreExact
    <2>5. c.identical /\ pair.volatile =>
            HeaderChanges(pair.left.headers, pair.right.headers) = {}
      BY <2>1 DEF Compared
    <2> QED  BY <2>4, <2>5, HeadersAreExact
  <1> QED  BY <1>1, <1>2, <1>3, PTL DEF DiffSpec

==============================================================================
