--------------------------- MODULE TunnelHubProofs ---------------------------
(***************************************************************************)
(* Theorems about TunnelHub, for every number of inboxes, tunnels, calls   *)
(* and slots.                                                              *)
(***************************************************************************)
EXTENDS TunnelHub, FiniteSetTheorems, TLAPS

-----------------------------------------------------------------------------
(* Types                                                                   *)

\* A caller that is past the registry has a client.
BoundHasClient == \A f \in Callers : pc[f] \in Bound => via[f] \in Clients

\* A handler that is closing a displaced client has one.
EvictingHasOld ==
    \A c \in Clients : handler[c] \in {"evict", "wakeOld"} =>
                          displaced[c] \in Clients

\* The part of the type invariant that is inductive on its own.
Typed == /\ StateTypes
         /\ slots \in [Clients -> Int]
         /\ BoundHasClient
         /\ EvictingHasOld

\* The initial states satisfy Typed.
LEMMA InitTyped == Init => Typed
BY HubAssumption DEF Init, Typed, StateTypes, HandlerStates, CallerStates,
   BoundHasClient, EvictingHasOld, Bound, Holding, NoResponse, Outcomes

\* No step breaks Typed.
LEMMA NextTyped == Typed /\ [Next]_vars => Typed'
<1> SUFFICES ASSUME Typed, [Next]_vars PROVE Typed'
    OBVIOUS
<1> USE HubAssumption
    DEF Typed, StateTypes, HandlerStates, CallerStates, BoundHasClient,
        EvictingHasOld, Bound, Holding, NoResponse, Outcomes,
        regVars, connVars, flightVars, callVars
<1>1. ASSUME NEW c \in Clients, Register(c) PROVE Typed'
      BY <1>1 DEF Register
<1>2. ASSUME NEW c \in Clients, EvictOld(c) PROVE Typed'
      BY <1>2 DEF EvictOld, Close, StartCloseWith
<1>3. ASSUME NEW c \in Clients, WakeOld(c) PROVE Typed'
      BY <1>3 DEF WakeOld, Wake, StartCloseWith
<1>4. ASSUME NEW c \in Clients, ServeStops(c) PROVE Typed'
      BY <1>4 DEF ServeStops, AfterServe
<1>5. ASSUME NEW c \in Clients, ReadFails(c) PROVE Typed'
      BY <1>5 DEF ReadFails, AfterServe
<1>6. ASSUME NEW c \in Clients, Unregister(c) PROVE Typed'
      BY <1>6 DEF Unregister, Vacated
<1>7. ASSUME NEW c \in Clients, CloseOwn(c) PROVE Typed'
      BY <1>7 DEF CloseOwn, Close
<1>8. ASSUME NEW c \in Clients, WakeOwn(c) PROVE Typed'
      BY <1>8 DEF WakeOwn, Wake
<1>9. ASSUME NEW c \in Clients, HangUp(c) PROVE Typed'
      BY <1>9 DEF HangUp
<1>10. ASSUME NEW c \in Clients, CloseReplaced(c) \/ DropSocket(c)
       PROVE Typed'
  <2>1. /\ socket' \in [Clients -> BOOLEAN]
        /\ closing' \in SUBSET Clients
        BY <1>10 DEF CloseReplaced, DropSocket
  <2>2. UNCHANGED <<regVars, closed, done, flightVars, callVars>>
        BY <1>10 DEF CloseReplaced, DropSocket
  <2> QED BY <2>1, <2>2
<1>11. ASSUME NEW c \in Clients, SendResponse(c) PROVE Typed'
      BY <1>11 DEF SendResponse
<1>12. ASSUME NEW c \in Clients, NEW g \in Callers, NEW f \in Callers,
              TakePending(c, g, f)
       PROVE Typed'
  <2>1. reader' \in [Clients -> [to : Callers \cup {None},
                                 about : Callers \cup {None}]]
        BY <1>12 DEF TakePending
  <2>2. pending' \in [Clients -> SUBSET Callers]
        BY <1>12 DEF TakePending, EntriesLeft
  <2>3. UNCHANGED <<regVars, connVars, slots, nextID, written, callVars>>
        BY <1>12 DEF TakePending
  <2> QED BY <2>1, <2>2, <2>3
<1>13. ASSUME NEW f \in Callers, NEW e \in Endpoints, Lookup(f, e)
       PROVE Typed'
  <2>1. /\ clients[e] \in Clients \cup {None}
        /\ via' = [via EXCEPT ![f] = clients[e]]
        /\ UNCHANGED <<regVars, connVars, flightVars, reqID, chan, expired,
                       answer>>
        BY <1>13 DEF Lookup
  <2>2. CASE clients[e] = None
    <3>1. /\ pc' = [pc EXCEPT ![f] = "returned"]
          /\ outcome' = [outcome EXCEPT ![f] = "no_tunnel"]
          BY <1>13, <2>2 DEF Lookup, Goto, Return
    <3> QED BY <2>1, <3>1
  <2>3. CASE clients[e] # None
    <3>1. pc' = [pc EXCEPT ![f] = "acquire"] /\ UNCHANGED outcome
          BY <1>13, <2>3 DEF Lookup, Goto
    <3> QED BY <2>1, <2>3, <3>1
  <2> QED BY <2>2, <2>3
<1>14. ASSUME NEW f \in Callers, Acquire(f) PROVE Typed'
  <2>1. via[f] \in Clients
        BY <1>14 DEF Acquire
  <2>2. /\ slots' \in [Clients -> Int]
        /\ nextID' \in [Clients -> Nat]
        /\ reqID' \in [Callers -> Nat]
        BY <1>14, <2>1 DEF Acquire, NewID
  <2>3. /\ pc' = [pc EXCEPT ![f] = "enroll"]
        /\ UNCHANGED <<regVars, connVars, pending, written, reader, via, chan,
                       expired, answer, outcome>>
        BY <1>14 DEF Acquire, Goto
  <2> QED BY <2>1, <2>2, <2>3
<1>15. ASSUME NEW f \in Callers, GiveUpQueued(f) PROVE Typed'
      BY <1>15 DEF GiveUpQueued, Goto, Return
<1>16. ASSUME NEW f \in Callers, Enroll(f) PROVE Typed'
  <2>1. via[f] \in Clients
        BY <1>16 DEF Enroll
  <2>2. OtherEntries(via[f], f) \cup {f} \in SUBSET Callers
        BY <2>1 DEF OtherEntries
  <2> QED BY <1>16, <2>1, <2>2 DEF Enroll, Goto
<1>17. ASSUME NEW f \in Callers, Write(f) PROVE Typed'
      BY <1>17 DEF Write, Goto
<1>18. ASSUME NEW f \in Callers, WriteFails(f) PROVE Typed'
  <2>1. socket' \in [Clients -> BOOLEAN]
        BY <1>18 DEF WriteFails
  <2> QED BY <1>18, <2>1 DEF WriteFails, AfterFailure, Goto, Return
<1>19. ASSUME NEW f \in Callers, ReceiveResponse(f) PROVE Typed'
      BY <1>19 DEF ReceiveResponse, Goto, Return
<1>20. ASSUME NEW f \in Callers, SeeDone(f) PROVE Typed'
      BY <1>20 DEF SeeDone, AfterFailure, Goto, Return
<1>25. ASSUME NEW f \in Callers, TimeOut(f) PROVE Typed'
      BY <1>25 DEF TimeOut, AfterFailure, Goto, Return
<1>21. ASSUME NEW f \in Callers, Forget(f) PROVE Typed'
  <2>1. OtherEntries(via[f], f) \in SUBSET Callers
        BY <1>21 DEF Forget, OtherEntries
  <2> QED BY <1>21, <2>1 DEF Forget, Goto
<1>22. ASSUME NEW f \in Callers, Release(f) PROVE Typed'
      BY <1>22 DEF Release, Goto
<1>23. ASSUME NEW f \in Callers, Expire(f) PROVE Typed'
      BY <1>23 DEF Expire
<1>26. ASSUME NEW f \in Callers, Refuse(f) PROVE Typed'
      BY <1>26 DEF Refuse, AfterRefusal, Goto, Return
<1>24. CASE UNCHANGED vars
      BY <1>24 DEF vars
<1> QED
    BY <1>1, <1>2, <1>3, <1>4, <1>5, <1>6, <1>7, <1>8, <1>9, <1>10, <1>11,
       <1>12, <1>13, <1>14, <1>15, <1>16, <1>17, <1>18, <1>19, <1>20, <1>21,
       <1>22, <1>23, <1>24, <1>25, <1>26
    DEF Next, Handle, Teardown, Forward, Progress

-----------------------------------------------------------------------------
(* Slots                                                                   *)

\* The callers that hold a slot of c.
Held(c) == {f \in Callers : via[f] = c /\ pc[f] \in Holding}

\* Every token in a semaphore belongs to a caller, and there is room for it.
Slotted == \A c \in Clients : /\ slots[c] = Cardinality(Held(c))
                              /\ slots[c] <= MaxInFlight

\* The calls that hold a slot are finitely many.
LEMMA HeldIsFinite ==
    ASSUME NEW c
    PROVE  IsFiniteSet(Held(c)) /\ Cardinality(Held(c)) \in Nat
BY HubAssumption, FS_Subset, FS_CardinalityType DEF Held

\* The initial states satisfy Slotted.
LEMMA InitSlotted == Init => Slotted
<1> SUFFICES ASSUME Init, NEW c \in Clients
             PROVE  slots[c] = Cardinality(Held(c)) /\ slots[c] <= MaxInFlight
    BY DEF Slotted
<1>1. Held(c) = {}
      BY DEF Init, Held, Holding
<1> QED BY <1>1, FS_EmptySet, HubAssumption DEF Init

\* A step that moves one caller without giving it or taking from it a slot.
LEMMA SameSlots ==
    ASSUME Typed, Slotted, slots' = slots, NEW f \in Callers,
           \A g \in Callers \ {f} : pc'[g] = pc[g] /\ via'[g] = via[g],
           pc'[f] \in Holding <=> pc[f] \in Holding,
           pc[f] \in Holding => via'[f] = via[f]
    PROVE  Slotted'
<1> SUFFICES ASSUME NEW c \in Clients PROVE Held(c)' = Held(c)
    BY DEF Slotted
<1> QED BY DEF Held

\* No step breaks Slotted.
LEMMA NextSlotted == Typed /\ Slotted /\ [Next]_vars => Slotted'
<1> SUFFICES ASSUME Typed, Slotted, [Next]_vars PROVE Slotted'
    OBVIOUS
<1>1. ASSUME UNCHANGED <<pc, via, slots>> PROVE Slotted'
      BY <1>1 DEF Slotted, Held
<1>2. ASSUME NEW c \in Clients, Handle(c) PROVE Slotted'
      BY <1>1, <1>2 DEF Handle, Teardown, Register, EvictOld, WakeOld,
         ServeStops, ReadFails, Unregister, CloseOwn, WakeOwn, HangUp,
         callVars, flightVars, Close
<1>3. ASSUME NEW c \in Clients, CloseReplaced(c) \/ DropSocket(c)
      PROVE Slotted'
      BY <1>1, <1>3 DEF CloseReplaced, DropSocket, callVars, flightVars
<1>4. ASSUME NEW c \in Clients,
             \/ SendResponse(c)
             \/ \E f, g \in Callers : TakePending(c, g, f)
      PROVE Slotted'
      BY <1>1, <1>4 DEF SendResponse, TakePending, callVars
<1>5. ASSUME NEW f \in Callers, Expire(f) PROVE Slotted'
      BY <1>1, <1>5 DEF Expire, flightVars
<1>6. ASSUME NEW f \in Callers, NEW e \in Endpoints, Lookup(f, e)
      PROVE Slotted'
      BY <1>6, SameSlots DEF Lookup, Goto, flightVars, Typed, StateTypes,
         Holding
<1>7. ASSUME NEW f \in Callers,
             \/ GiveUpQueued(f) \/ Refuse(f) \/ Enroll(f) \/ Write(f)
             \/ ReceiveResponse(f) \/ SeeDone(f) \/ TimeOut(f) \/ Forget(f)
             \/ WriteFails(f)
      PROVE Slotted'
      BY <1>7, SameSlots DEF GiveUpQueued, Refuse, Enroll, Write, WriteFails,
         ReceiveResponse, SeeDone, TimeOut, Forget, Goto, flightVars, Typed,
         StateTypes, Holding, AfterRefusal, AfterFailure
<1>8. ASSUME NEW f \in Callers, Acquire(f) PROVE Slotted'
  <2> SUFFICES ASSUME NEW c \in Clients
               PROVE  /\ slots'[c] = Cardinality(Held(c)')
                      /\ slots'[c] <= MaxInFlight
      BY DEF Slotted
  <2>0. /\ pc[f] = "acquire" /\ pc' = [pc EXCEPT ![f] = "enroll"]
        /\ via' = via /\ slots' = [slots EXCEPT ![via[f]] = @ + 1]
        /\ slots[via[f]] < MaxInFlight
        BY <1>8 DEF Acquire, Goto, SlotFree
  <2>1. pc \in [Callers -> CallerStates] /\ slots \in [Clients -> Int]
        BY DEF Typed, StateTypes
  <2>2. CASE c = via[f]
    <3>1. Held(c)' = Held(c) \cup {f} /\ f \notin Held(c)
          BY <2>0, <2>1, <2>2 DEF Held, Holding
    <3>2. Cardinality(Held(c)') = Cardinality(Held(c)) + 1
          BY <3>1, HeldIsFinite, FS_AddElement
    <3> QED BY <3>2, <2>0, <2>1, <2>2, HeldIsFinite, HubAssumption DEF Slotted
  <2>3. CASE c # via[f]
    <3>1. Held(c)' = Held(c)
          BY <2>0, <2>1, <2>3 DEF Held
    <3> QED BY <3>1, <2>0, <2>1, <2>3 DEF Slotted
  <2> QED BY <2>2, <2>3
<1>9. ASSUME NEW f \in Callers, Release(f) PROVE Slotted'
  <2> SUFFICES ASSUME NEW c \in Clients
               PROVE  /\ slots'[c] = Cardinality(Held(c)')
                      /\ slots'[c] <= MaxInFlight
      BY DEF Slotted
  <2>0. /\ pc[f] = "release" /\ pc' = [pc EXCEPT ![f] = "returned"]
        /\ via' = via /\ slots' = [slots EXCEPT ![via[f]] = @ - 1]
        BY <1>9 DEF Release, Goto
  <2>1. pc \in [Callers -> CallerStates] /\ slots \in [Clients -> Int]
        BY DEF Typed, StateTypes
  <2>2. CASE c = via[f]
    <3>1. Held(c)' = Held(c) \ {f} /\ f \in Held(c)
          BY <2>0, <2>1, <2>2 DEF Held, Holding
    <3>2. Cardinality(Held(c)') = Cardinality(Held(c)) - 1
          BY <3>1, HeldIsFinite, FS_RemoveElement
    <3> QED BY <3>2, <2>0, <2>1, <2>2, HeldIsFinite, HubAssumption DEF Slotted
  <2>3. CASE c # via[f]
    <3>1. Held(c)' = Held(c)
          BY <2>0, <2>1, <2>3 DEF Held
    <3> QED BY <3>1, <2>0, <2>1, <2>3 DEF Slotted
  <2> QED BY <2>2, <2>3
<1>10. CASE UNCHANGED vars
      BY <1>1, <1>10 DEF vars, callVars, flightVars
<1> QED
    BY <1>2, <1>3, <1>4, <1>5, <1>6, <1>7, <1>8, <1>9, <1>10
    DEF Next, Forward, Progress

-----------------------------------------------------------------------------
(* The registry                                                            *)

\* The steps that neither registration nor teardown takes leave this alone.
lifeVars == <<clients, handler, displaced, closed, done>>

\* A connection that has not registered is open and has displaced nobody.
ReadyIsFresh ==
    \A c \in Clients : handler[c] = "ready" =>
                          ~closed[c] /\ displaced[c] = None

\* A displaced client had registered for the same inbox, is not the one that
\* displaced it, and never comes back into the registry.
DisplacedIsOut ==
    \A d \in Clients : displaced[d] # None =>
        /\ displaced[d] \in Clients \ {d}
        /\ handler[displaced[d]] # "ready"
        /\ Inbox[displaced[d]] = Inbox[d]
        /\ clients[Inbox[d]] # displaced[d]

Registered == /\ ReadyIsFresh
              /\ DisplacedIsOut
              /\ RegistryNamesOpen
              /\ ServedIsRegistered

\* The initial states satisfy Registered.
LEMMA InitRegistered == Init => Registered /\ DoneClosedOnce
BY HubAssumption DEF Init, Registered, ReadyIsFresh, DisplacedIsOut,
   RegistryNamesOpen, ServedIsRegistered, DoneClosedOnce, Closes

\* Every step is one of the eight of Handle that registration and teardown
\* consist of, or it leaves the life of every client as it is.
LEMMA LifeSteps ==
    ASSUME [Next]_vars
    PROVE  \/ \E c \in Clients :
                 \/ Register(c) \/ EvictOld(c) \/ WakeOld(c) \/ ServeStops(c)
                 \/ ReadFails(c) \/ Unregister(c) \/ CloseOwn(c)
                 \/ WakeOwn(c) \/ HangUp(c)
           \/ UNCHANGED lifeVars
<1>1. ASSUME NEW c \in Clients,
             \/ CloseReplaced(c) \/ DropSocket(c) \/ SendResponse(c)
             \/ \E f, g \in Callers : TakePending(c, g, f)
      PROVE UNCHANGED lifeVars
      BY <1>1 DEF CloseReplaced, DropSocket, SendResponse, TakePending,
         lifeVars, regVars, connVars
<1>2. ASSUME NEW f \in Callers, Forward(f) PROVE UNCHANGED lifeVars
      BY <1>2 DEF Forward, Progress, Lookup, Acquire, GiveUpQueued, Refuse,
         Enroll, Write, WriteFails, ReceiveResponse, SeeDone, TimeOut, Forget,
         Release, Expire, lifeVars, regVars, connVars
<1>3. CASE UNCHANGED vars
      BY <1>3 DEF vars, lifeVars, regVars, connVars
<1> QED BY <1>1, <1>2, <1>3 DEF Next, Handle, Teardown

\* No step breaks Registered.
LEMMA NextRegistered == Typed /\ Registered /\ [Next]_vars => Registered'
<1> SUFFICES ASSUME Typed, Registered, [Next]_vars PROVE Registered'
    OBVIOUS
<1> USE HubAssumption DEF Registered, ReadyIsFresh, DisplacedIsOut,
        RegistryNamesOpen
<1>0. /\ clients \in [Endpoints -> Clients \cup {None}]
      /\ handler \in [Clients -> HandlerStates]
      /\ displaced \in [Clients -> Clients \cup {None}]
      /\ closed \in [Clients -> BOOLEAN]
      /\ EvictingHasOld
      BY DEF Typed, StateTypes
<1>1. ASSUME NEW c \in Clients, Register(c) PROVE Registered'
  <2>0. /\ handler[c] = "ready" /\ closed' = closed
        /\ clients' = [clients EXCEPT ![Inbox[c]] = c]
        /\ displaced' = [displaced EXCEPT ![c] = clients[Inbox[c]]]
        /\ handler' = [handler EXCEPT ![c] =
                         IF clients[Inbox[c]] = None THEN "serve" ELSE "evict"]
        BY <1>1 DEF Register, connVars
  <2>1. ReadyIsFresh'
        BY <1>0, <2>0
  <2>2. DisplacedIsOut'
        BY <1>0, <2>0
  <2>3. RegistryNamesOpen'
        BY <1>0, <2>0
  <2>4. ServedIsRegistered'
        BY <1>0, <2>0 DEF ServedIsRegistered
  <2> QED BY <2>1, <2>2, <2>3, <2>4
<1>2. ASSUME NEW c \in Clients, EvictOld(c) PROVE Registered'
  <2>0. /\ handler[c] = "evict" /\ displaced[c] \in Clients
        /\ clients' = clients /\ displaced' = displaced
        /\ handler' = [handler EXCEPT ![c] =
                         IF closed[displaced[c]] THEN "serve" ELSE "wakeOld"]
        /\ closed' = [closed EXCEPT ![displaced[c]] = TRUE]
        BY <1>0, <1>2 DEF EvictOld, Close, EvictingHasOld
  <2>1. ReadyIsFresh' /\ DisplacedIsOut'
        BY <1>0, <2>0
  <2>2. RegistryNamesOpen'
        BY <1>0, <2>0
  <2>3. ServedIsRegistered'
        BY <1>0, <2>0 DEF ServedIsRegistered
  <2> QED BY <2>1, <2>2, <2>3
<1>3. ASSUME NEW c \in Clients, WakeOld(c) PROVE Registered'
      BY <1>0, <1>3 DEF WakeOld, ServedIsRegistered
<1>4. ASSUME NEW c \in Clients, ServeStops(c) \/ ReadFails(c)
      PROVE Registered'
      BY <1>0, <1>4 DEF ServeStops, ReadFails, AfterServe, connVars,
         ServedIsRegistered
<1>5. ASSUME NEW c \in Clients, Unregister(c) PROVE Registered'
      BY <1>0, <1>5 DEF Unregister, Vacated, connVars, ServedIsRegistered
<1>6. ASSUME NEW c \in Clients, CloseOwn(c) PROVE Registered'
      BY <1>0, <1>6 DEF CloseOwn, Close, ServedIsRegistered
<1>7. ASSUME NEW c \in Clients, WakeOwn(c) \/ HangUp(c) PROVE Registered'
      BY <1>0, <1>7 DEF WakeOwn, HangUp, ServedIsRegistered
<1>8. CASE UNCHANGED lifeVars
      BY <1>8 DEF lifeVars, ServedIsRegistered
<1> QED BY <1>1, <1>2, <1>3, <1>4, <1>5, <1>6, <1>7, <1>8, LifeSteps

\* No step closes a done channel twice.
LEMMA NextDoneClosedOnce ==
    Typed /\ Registered /\ DoneClosedOnce /\ [Next]_vars => DoneClosedOnce'
<1> SUFFICES ASSUME Typed, Registered, DoneClosedOnce, [Next]_vars
             PROVE  DoneClosedOnce'
    OBVIOUS
<1> USE DEF DoneClosedOnce, Closes
<1>0. /\ handler \in [Clients -> HandlerStates]
      /\ displaced \in [Clients -> Clients \cup {None}]
      /\ closed \in [Clients -> BOOLEAN]
      /\ done \in [Clients -> BOOLEAN]
      /\ EvictingHasOld
      BY DEF Typed, StateTypes
<1>1. ASSUME NEW c \in Clients, Register(c) PROVE DoneClosedOnce'
      BY <1>0, <1>1 DEF Register, connVars
<1>2. ASSUME NEW c \in Clients, EvictOld(c) PROVE DoneClosedOnce'
      BY <1>0, <1>2 DEF EvictOld, Close, EvictingHasOld
<1>3. ASSUME NEW c \in Clients, WakeOld(c) PROVE DoneClosedOnce'
      BY <1>0, <1>3 DEF WakeOld, Wake, EvictingHasOld
<1>4. ASSUME NEW c \in Clients, ServeStops(c) \/ ReadFails(c)
      PROVE DoneClosedOnce'
      BY <1>0, <1>4 DEF ServeStops, ReadFails, AfterServe, connVars
<1>5. ASSUME NEW c \in Clients, Unregister(c) PROVE DoneClosedOnce'
      BY <1>0, <1>5 DEF Unregister, connVars
<1>6. ASSUME NEW c \in Clients, CloseOwn(c) PROVE DoneClosedOnce'
      BY <1>0, <1>6 DEF CloseOwn, Close
<1>7. ASSUME NEW c \in Clients, WakeOwn(c) PROVE DoneClosedOnce'
      BY <1>0, <1>7 DEF WakeOwn, Wake
<1>8. ASSUME NEW c \in Clients, HangUp(c) PROVE DoneClosedOnce'
      BY <1>0, <1>8 DEF HangUp
<1>9. CASE UNCHANGED lifeVars
      BY <1>9 DEF lifeVars
<1> QED BY <1>1, <1>2, <1>3, <1>4, <1>5, <1>6, <1>7, <1>8, <1>9, LifeSteps

-----------------------------------------------------------------------------
(* Request ids                                                             *)

\* A caller has an id from its acquire on, its ids are those its client has
\* given out, and no two callers of a client share one. Only requests that
\* have an id are on a connection, and each is on that of its own client.
Numbered ==
    /\ \A f \in Callers :
          /\ pc[f] \in {"idle", "acquire"} => reqID[f] = 0
          /\ pc[f] \in Holding => reqID[f] # 0
          /\ reqID[f] # 0 => via[f] \in Clients /\ reqID[f] <= nextID[via[f]]
    /\ \A f, g \in Callers :
          reqID[f] # 0 /\ reqID[f] = reqID[g] /\ via[f] = via[g] => f = g
    /\ \A c \in Clients : \A f \in written[c] : via[f] = c /\ reqID[f] # 0

\* The initial states satisfy Numbered.
LEMMA InitNumbered == Init => Numbered
BY DEF Init, Numbered, Holding

\* No step breaks Numbered.
LEMMA NextNumbered == Typed /\ Numbered /\ [Next]_vars => Numbered'
<1> SUFFICES ASSUME Typed, Numbered, [Next]_vars PROVE Numbered'
    OBVIOUS
<1> USE DEF Numbered, Holding
<1>0. /\ pc \in [Callers -> CallerStates]
      /\ via \in [Callers -> Clients \cup {None}]
      /\ reqID \in [Callers -> Nat]
      /\ nextID \in [Clients -> Nat]
      /\ written \in [Clients -> SUBSET Callers]
      /\ BoundHasClient
      BY DEF Typed, StateTypes
<1>1. ASSUME UNCHANGED <<pc, via, reqID, nextID, written>> PROVE Numbered'
      BY <1>1
<1>2. ASSUME NEW c \in Clients,
             \/ Handle(c) \/ CloseReplaced(c) \/ DropSocket(c)
             \/ SendResponse(c)
             \/ \E f, g \in Callers : TakePending(c, g, f)
      PROVE  UNCHANGED <<pc, via, reqID, nextID, written>>
      BY <1>2 DEF Handle, Teardown, Register, EvictOld, WakeOld,
         ServeStops, ReadFails, Unregister, CloseOwn, WakeOwn, HangUp,
         CloseReplaced, DropSocket, SendResponse, TakePending,
         callVars, flightVars
<1>3. ASSUME NEW f \in Callers, NEW e \in Endpoints, Lookup(f, e)
      PROVE Numbered'
      BY <1>0, <1>3 DEF Lookup, Goto, flightVars
<1>4. ASSUME NEW f \in Callers, Acquire(f) PROVE Numbered'
  <2>0. /\ pc[f] = "acquire" /\ via[f] \in Clients
        /\ pc' = [pc EXCEPT ![f] = "enroll"]
        /\ nextID' = [nextID EXCEPT ![via[f]] = nextID[via[f]] + 1]
        /\ reqID' = [reqID EXCEPT ![f] = nextID[via[f]] + 1]
        /\ UNCHANGED <<via, written>>
        BY <1>0, <1>4 DEF Acquire, NewID, Goto, BoundHasClient, Bound
  <2> QED BY <1>0, <2>0
<1>5. ASSUME NEW f \in Callers, Write(f) PROVE Numbered'
      BY <1>0, <1>5 DEF Write, Goto
<1>6. ASSUME NEW f \in Callers,
             \/ GiveUpQueued(f) \/ Refuse(f) \/ Enroll(f) \/ WriteFails(f)
             \/ ReceiveResponse(f) \/ SeeDone(f) \/ TimeOut(f) \/ Forget(f)
             \/ Release(f)
      PROVE Numbered'
      BY <1>0, <1>6 DEF GiveUpQueued, Refuse, Enroll, WriteFails,
         ReceiveResponse, SeeDone, TimeOut, Forget, Release, Goto, flightVars,
         AfterRefusal, AfterFailure
<1>7. ASSUME NEW f \in Callers, Expire(f) PROVE Numbered'
      BY <1>1, <1>7 DEF Expire, flightVars
<1>8. CASE UNCHANGED vars
      BY <1>1, <1>8 DEF vars, callVars, flightVars
<1> QED
    BY <1>1, <1>2, <1>3, <1>4, <1>5, <1>6, <1>7, <1>8
    DEF Next, Forward, Progress

-----------------------------------------------------------------------------
(* Responses                                                               *)

\* No response is under way to f, waiting for it or received by it.
Unanswered(f) == /\ chan[f] = None
                 /\ answer[f] = None
                 /\ \A c \in Clients : reader[c].to # f

\* A caller without an entry yet, or with one, is unanswered; the response in
\* the hands of a reader is for its own request, and the first for it.
Answered ==
    /\ PendingIsOwned
    /\ AnswersAreOwn
    /\ \A f \in Callers : pc[f] \in {"idle", "acquire", "enroll"} =>
                             Unanswered(f)
    /\ \A c \in Clients : \A f \in pending[c] : Unanswered(f)
    /\ \A c \in Clients : reader[c].to # None =>
          /\ reader[c].about = reader[c].to
          /\ via[reader[c].to] = c
          /\ chan[reader[c].to] = None
          /\ answer[reader[c].to] = None

\* The initial states satisfy Answered.
LEMMA InitAnswered == Init => Answered
BY HubAssumption DEF Init, Answered, Unanswered, PendingIsOwned,
   AnswersAreOwn, NoResponse, Outcomes

\* No step breaks Answered.
LEMMA NextAnswered == Typed /\ Numbered /\ Answered /\ [Next]_vars => Answered'
<1> SUFFICES ASSUME Typed, Numbered, Answered, [Next]_vars PROVE Answered'
    OBVIOUS
<1> USE HubAssumption DEF Answered, PendingIsOwned, AnswersAreOwn, Unanswered
<1>0. /\ pc \in [Callers -> CallerStates]
      /\ via \in [Callers -> Clients \cup {None}]
      /\ chan \in [Callers -> Callers \cup {None}]
      /\ answer \in [Callers -> Callers \cup {None}]
      /\ outcome \in [Callers -> Outcomes \cup {None}]
      /\ pending \in [Clients -> SUBSET Callers]
      /\ closed \in [Clients -> BOOLEAN]
      /\ reader \in [Clients -> [to : Callers \cup {None},
                                 about : Callers \cup {None}]]
      /\ BoundHasClient
      BY DEF Typed, StateTypes
<1>1. ASSUME NEW c \in Clients, EvictOld(c) PROVE Answered'
      BY <1>0, <1>1 DEF EvictOld, Close, callVars
<1>2. ASSUME NEW c \in Clients, CloseOwn(c) PROVE Answered'
      BY <1>0, <1>2 DEF CloseOwn, Close, callVars
<1>3. ASSUME NEW c \in Clients,
             \/ Register(c) \/ WakeOld(c) \/ ServeStops(c) \/ ReadFails(c)
             \/ Unregister(c) \/ WakeOwn(c) \/ HangUp(c) \/ CloseReplaced(c)
             \/ DropSocket(c)
      PROVE Answered'
      BY <1>3 DEF Register, WakeOld, ServeStops, ReadFails, Unregister,
         WakeOwn, HangUp, CloseReplaced, DropSocket, callVars, flightVars,
         connVars
<1>4. ASSUME NEW c \in Clients, SendResponse(c) PROVE Answered'
  <2>0. /\ reader[c].to # None /\ reader[c].to \in Callers
        /\ chan' = [chan EXCEPT ![reader[c].to] = reader[c].about]
        /\ reader' = [reader EXCEPT ![c] = NoResponse]
        /\ UNCHANGED <<closed, pending, pc, via, answer, outcome>>
        BY <1>0, <1>4 DEF SendResponse, connVars
  <2>1. NoResponse.to = None
        BY DEF NoResponse
  <2> QED BY <1>0, <2>0, <2>1
<1>5. ASSUME NEW c \in Clients, NEW g \in Callers, NEW f \in Callers,
             TakePending(c, g, f)
      PROVE Answered'
  <2>0. /\ reader' = [reader EXCEPT ![c] = [to |-> f, about |-> g]]
        /\ pending' = [pending EXCEPT ![c] = pending[c] \ {f}]
        /\ f \in pending[c] /\ g \in written[c] /\ reqID[f] = reqID[g]
        /\ UNCHANGED <<closed, pc, via, chan, answer, outcome>>
        BY <1>5 DEF TakePending, EntriesLeft, callVars, connVars
  <2>1. f = g
        BY <2>0 DEF Numbered
  <2>2. /\ pc[f] \in {"write", "wait", "forget"} /\ via[f] = c
        /\ Unanswered(f)
        BY <2>0
  <2> QED BY <1>0, <2>0, <2>1, <2>2
<1>6. ASSUME NEW f \in Callers, NEW e \in Endpoints, Lookup(f, e)
      PROVE Answered'
      BY <1>0, <1>6 DEF Lookup, Goto, Return, flightVars, connVars
<1>7. ASSUME NEW f \in Callers, Enroll(f) PROVE Answered'
  <2>0. /\ pc[f] = "enroll" /\ ~closed[via[f]] /\ via[f] \in Clients
        /\ pending' = [pending EXCEPT ![via[f]] =
                         OtherEntries(via[f], f) \cup {f}]
        /\ pc' = [pc EXCEPT ![f] = "write"]
        /\ UNCHANGED <<closed, reader, via, chan, answer, outcome>>
        BY <1>0, <1>7 DEF Enroll, Goto, connVars, BoundHasClient, Bound,
           Holding
  <2>1. OtherEntries(via[f], f) \subseteq pending[via[f]]
        BY DEF OtherEntries
  <2> QED BY <1>0, <2>0, <2>1
<1>8. ASSUME NEW f \in Callers, ReceiveResponse(f) PROVE Answered'
      BY <1>0, <1>8 DEF ReceiveResponse, Goto, Return, flightVars, connVars
<1>9. ASSUME NEW f \in Callers, Forget(f) PROVE Answered'
  <2>0. /\ pc[f] = "forget" /\ via[f] \in Clients
        /\ pending' = [pending EXCEPT ![via[f]] = OtherEntries(via[f], f)]
        /\ pc' = [pc EXCEPT ![f] = "release"]
        /\ UNCHANGED <<closed, reader, via, chan, answer, outcome>>
        BY <1>0, <1>9 DEF Forget, Goto, connVars, BoundHasClient, Bound,
           Holding
  <2>1. OtherEntries(via[f], f) \subseteq pending[via[f]] \ {f}
        BY DEF OtherEntries
  <2> QED BY <1>0, <2>0, <2>1
<1>10. ASSUME NEW f \in Callers, Acquire(f) \/ Write(f) \/ Release(f)
       PROVE Answered'
  <2>1. f \notin UNION {pending[c] : c \in Clients} \/ pc[f] = "write"
        BY <1>10 DEF Acquire, Write, Release
  <2> QED BY <1>0, <1>10, <2>1 DEF Acquire, Write, Release, Goto, connVars
<1>11. ASSUME NEW f \in Callers,
              \/ GiveUpQueued(f) \/ Refuse(f) \/ WriteFails(f) \/ SeeDone(f)
              \/ TimeOut(f)
       PROVE Answered'
  <2>1. CASE GiveUpQueued(f) \/ Refuse(f)
        BY <1>0, <2>1 DEF GiveUpQueued, Refuse, Goto, Return, AfterRefusal,
           connVars, flightVars
  <2>2. CASE WriteFails(f)
        BY <1>0, <2>2 DEF WriteFails, Goto, Return, AfterFailure, flightVars
  <2>3. CASE SeeDone(f) \/ TimeOut(f)
    <3>1. /\ pc[f] = "wait"
          /\ pc' = [pc EXCEPT ![f] = AfterFailure]
          /\ \E result \in {"disconnected", "timeout"} :
                outcome' = [outcome EXCEPT ![f] = result]
          /\ UNCHANGED <<closed, pending, reader, via, chan, answer>>
          BY <2>3 DEF SeeDone, TimeOut, Goto, Return, connVars, flightVars
    <3> QED BY <1>0, <3>1 DEF AfterFailure
  <2> QED BY <1>11, <2>1, <2>2, <2>3
<1>12. ASSUME NEW f \in Callers, Expire(f) PROVE Answered'
      BY <1>12 DEF Expire, connVars, flightVars
<1>13. CASE UNCHANGED vars
      BY <1>13 DEF vars, callVars, connVars, flightVars
<1> QED
    BY <1>1, <1>2, <1>3, <1>4, <1>5, <1>6, <1>7, <1>8, <1>9, <1>10, <1>11,
       <1>12, <1>13
    DEF Next, Handle, Teardown, Forward, Progress

-----------------------------------------------------------------------------
(* Waiting callers                                                         *)

\* The initial states satisfy Reachable.
LEMMA InitReachable == Init => WaiterIsReachable
BY DEF Init, WaiterIsReachable

\* No step leaves a waiter out of reach.
LEMMA NextReachable ==
    Typed /\ Numbered /\ Answered /\ WaiterIsReachable /\ [Next]_vars
        => WaiterIsReachable'
<1> SUFFICES ASSUME Typed, Numbered, Answered, WaiterIsReachable, [Next]_vars
             PROVE  WaiterIsReachable'
    OBVIOUS
<1> USE HubAssumption DEF WaiterIsReachable
<1>0. /\ pc \in [Callers -> CallerStates]
      /\ via \in [Callers -> Clients \cup {None}]
      /\ chan \in [Callers -> Callers \cup {None}]
      /\ pending \in [Clients -> SUBSET Callers]
      /\ closed \in [Clients -> BOOLEAN]
      /\ reader \in [Clients -> [to : Callers \cup {None},
                                 about : Callers \cup {None}]]
      /\ \A f \in Callers : pc[f] \in {"enroll", "write", "wait", "forget"} =>
                               via[f] \in Clients
      BY DEF Typed, StateTypes, BoundHasClient, Bound, Holding
<1>1. ASSUME NEW c \in Clients, EvictOld(c) PROVE WaiterIsReachable'
  <2>1. displaced[c] \in Clients
        BY <1>1 DEF EvictOld, Typed, EvictingHasOld
  <2> QED BY <1>0, <1>1, <2>1 DEF EvictOld, Close, callVars
<1>2. ASSUME NEW c \in Clients, CloseOwn(c) PROVE WaiterIsReachable'
      BY <1>0, <1>2 DEF CloseOwn, Close, callVars
<1>3. ASSUME NEW c \in Clients,
             \/ Register(c) \/ WakeOld(c) \/ ServeStops(c) \/ ReadFails(c)
             \/ Unregister(c) \/ WakeOwn(c) \/ HangUp(c) \/ CloseReplaced(c)
             \/ DropSocket(c)
      PROVE WaiterIsReachable'
      BY <1>3 DEF Register, WakeOld, ServeStops, ReadFails, Unregister,
         WakeOwn, HangUp, CloseReplaced, DropSocket, callVars, flightVars,
         connVars
<1>4. ASSUME NEW c \in Clients, SendResponse(c) PROVE WaiterIsReachable'
  <2>0. /\ reader[c].to # None /\ reader[c].to \in Callers
        /\ chan' = [chan EXCEPT ![reader[c].to] = reader[c].about]
        /\ reader' = [reader EXCEPT ![c] = NoResponse]
        /\ UNCHANGED <<closed, pending, pc, via>>
        BY <1>0, <1>4 DEF SendResponse, connVars
  <2>1. reader[c].about = reader[c].to
        BY <2>0 DEF Answered
  <2> QED BY <1>0, <2>0, <2>1
<1>5. ASSUME NEW c \in Clients, NEW g \in Callers, NEW f \in Callers,
             TakePending(c, g, f)
      PROVE WaiterIsReachable'
  <2>0. /\ reader[c] = NoResponse
        /\ reader' = [reader EXCEPT ![c] = [to |-> f, about |-> g]]
        /\ pending' = [pending EXCEPT ![c] = pending[c] \ {f}]
        /\ UNCHANGED <<closed, pc, via, chan>>
        BY <1>5 DEF TakePending, EntriesLeft, callVars, connVars
  <2>1. NoResponse.to = None
        BY DEF NoResponse
  <2> QED BY <1>0, <2>0, <2>1
<1>6. ASSUME NEW f \in Callers, NEW e \in Endpoints, Lookup(f, e)
      PROVE WaiterIsReachable'
      BY <1>0, <1>6 DEF Lookup, Goto, Return, flightVars, connVars
<1>7. ASSUME NEW f \in Callers, Enroll(f) \/ Forget(f)
      PROVE WaiterIsReachable'
  <2> DEFINE c == via[f]
  <2>0. /\ c \in Clients
        /\ pc' = [pc EXCEPT ![f] = "write"] \/ pc' = [pc EXCEPT ![f] = "release"]
        /\ UNCHANGED <<closed, reader, via, chan>>
        BY <1>0, <1>7 DEF Enroll, Forget, Goto, connVars
  <2>1. reqID[f] # 0
        BY <1>7 DEF Enroll, Forget, Numbered, Holding
  <2>2. \A g \in pending[c] : g # f => g \in OtherEntries(c, f)
        BY <1>0, <2>0, <2>1 DEF OtherEntries, Numbered, Answered,
           PendingIsOwned
  <2>3. /\ \A g \in pending[c] : g # f => g \in pending'[c]
        /\ \A d \in Clients : d # c => pending'[d] = pending[d]
        BY <1>0, <1>7, <2>0, <2>2 DEF Enroll, Forget
  <2>4. \A g \in Callers : g # f =>
           /\ pc'[g] = pc[g] /\ via'[g] = via[g]
           /\ g \in pending[via[g]] /\ via[g] \in Clients =>
                 g \in pending'[via[g]]
        BY <1>0, <2>0, <2>3
  <2>5. pc'[f] = "write" => f \in pending'[via[f]]
        BY <1>0, <1>7, <2>0 DEF Enroll, Forget, Goto
  <2> QED BY <1>0, <2>0, <2>4, <2>5
<1>8. ASSUME NEW f \in Callers,
             \/ Acquire(f) \/ Release(f) \/ ReceiveResponse(f)
             \/ GiveUpQueued(f) \/ Refuse(f) \/ WriteFails(f) \/ SeeDone(f)
             \/ TimeOut(f) \/ Write(f)
      PROVE WaiterIsReachable'
      BY <1>0, <1>8 DEF Acquire, Release, Write, ReceiveResponse,
         GiveUpQueued, Refuse, WriteFails, SeeDone, TimeOut,
         Goto, Return, AfterRefusal, AfterFailure, connVars, flightVars
<1>9. ASSUME NEW f \in Callers, Expire(f) PROVE WaiterIsReachable'
      BY <1>9 DEF Expire, connVars, flightVars
<1>10. CASE UNCHANGED vars
      BY <1>10 DEF vars, callVars, connVars, flightVars
<1> QED
    BY <1>1, <1>2, <1>3, <1>4, <1>5, <1>6, <1>7, <1>8, <1>9, <1>10
    DEF Next, Handle, Teardown, Forward, Progress

-----------------------------------------------------------------------------
(* The inductive invariant and what follows from it                        *)

IndInv == /\ Typed
          /\ Slotted
          /\ Registered
          /\ DoneClosedOnce
          /\ Numbered
          /\ Answered
          /\ WaiterIsReachable

\* The invariant holds initially and every step preserves it.
THEOREM Invariance == Spec => []IndInv
<1>1. Init => IndInv
      BY InitTyped, InitSlotted, InitRegistered, InitNumbered, InitAnswered,
         InitReachable DEF IndInv
<1>2. IndInv /\ [Next]_vars => IndInv'
      BY NextTyped, NextSlotted, NextRegistered, NextDoneClosedOnce,
         NextNumbered, NextAnswered, NextReachable DEF IndInv
<1> QED BY <1>1, <1>2, PTL DEF Spec

\* Types, with the semaphore's capacity: at most maxInFlightPerTunnel calls of
\* a tunnel are between acquire and release (semaphore.go).
THEOREM TypeCorrect == Spec => []TypeOK
<1>1. IndInv => TypeOK
      BY HeldIsFinite, HubAssumption
      DEF IndInv, Typed, Slotted, StateTypes, TypeOK
<1> QED BY <1>1, Invariance, PTL

\* No exit of client.send leaks a slot or releases one twice (hub.go:148-158).
THEOREM SlotsCorrect == Spec => []SlotsAreHeld
<1>1. IndInv => SlotsAreHeld
      BY DEF IndInv, Slotted, SlotsAreHeld, Held
<1> QED BY <1>1, Invariance, PTL

\* The map of a tunnel holds open calls of that tunnel only, and is empty once
\* the tunnel is closed (hub.go:172-185, 249-267).
THEOREM PendingCorrect == Spec => []PendingIsOwned
<1>1. IndInv => PendingIsOwned
      BY DEF IndInv, Answered
<1> QED BY <1>1, Invariance, PTL

\* A response reaches the call it answers and no other (hub.go:216-236).
THEOREM AnswersCorrect == Spec => []AnswersAreOwn
<1>1. IndInv => AnswersAreOwn
      BY DEF IndInv, Answered
<1> QED BY <1>1, Invariance, PTL

\* The send in client.deliver finds its buffer free (hub.go:163-170).
THEOREM ReaderCorrect == Spec => []ReaderNeverBlocks
<1>1. IndInv => ReaderNeverBlocks
      BY DEF IndInv, Answered, ReaderNeverBlocks
<1> QED BY <1>1, Invariance, PTL

\* No interleaving strands a call that waits on an open tunnel.
THEOREM WaitersCorrect == Spec => []WaiterIsReachable
<1>1. IndInv => WaiterIsReachable
      BY DEF IndInv
<1> QED BY <1>1, Invariance, PTL

\* What Forward finds in the registry is a tunnel that is open (hub.go:51-63).
THEOREM RegistryCorrect == Spec => []RegistryNamesOpen
<1>1. IndInv => RegistryNamesOpen
      BY DEF IndInv, Registered
<1> QED BY <1>1, Invariance, PTL

\* No cleanup of an older tunnel removes the one that won (hub.go:88-101).
THEOREM WinnerCorrect == Spec => []ServedIsRegistered
<1>1. IndInv => ServedIsRegistered
      BY DEF IndInv, Registered
<1> QED BY <1>1, Invariance, PTL

\* The channel done of a tunnel is closed once, whoever closes the tunnel and
\* however often (hub.go:249-267).
THEOREM DoneCorrect == Spec => []DoneClosedOnce
<1>1. IndInv => DoneClosedOnce
      BY DEF IndInv
<1> QED BY <1>1, Invariance, PTL

-----------------------------------------------------------------------------
(* Refinement                                                              *)

\* A call has no outcome before its send is over.
Undecided == \A f \in Callers :
                pc[f] \in {"idle", "acquire", "enroll", "write", "wait"} =>
                   outcome[f] = None

\* The initial states satisfy Undecided.
LEMMA InitUndecided == Init => Undecided
BY DEF Init, Undecided

\* No step breaks Undecided.
LEMMA NextUndecided == Typed /\ Undecided /\ [Next]_vars => Undecided'
<1> SUFFICES ASSUME Typed, Undecided, [Next]_vars PROVE Undecided'
    OBVIOUS
<1> USE DEF Undecided
<1>0. /\ pc \in [Callers -> CallerStates]
      /\ outcome \in [Callers -> Outcomes \cup {None}]
      BY DEF Typed, StateTypes
<1>1. ASSUME UNCHANGED <<pc, outcome>> PROVE Undecided'
      BY <1>1
<1>2. ASSUME NEW c \in Clients,
             \/ Handle(c) \/ CloseReplaced(c) \/ DropSocket(c)
             \/ SendResponse(c)
             \/ \E f, g \in Callers : TakePending(c, g, f)
      PROVE  UNCHANGED <<pc, outcome>>
      BY <1>2 DEF Handle, Teardown, Register, EvictOld, WakeOld,
         ServeStops, ReadFails, Unregister, CloseOwn, WakeOwn, HangUp,
         CloseReplaced, DropSocket, SendResponse, TakePending, callVars
<1>3. ASSUME NEW f \in Callers, Forward(f) PROVE Undecided'
      BY <1>0, <1>3 DEF Forward, Progress, Lookup, Acquire, GiveUpQueued,
         Refuse, Enroll, Write, WriteFails, ReceiveResponse, SeeDone, TimeOut,
         Forget, Release, Expire, AfterRefusal, AfterFailure, Goto, Return
<1>4. CASE UNCHANGED vars
      BY <1>1, <1>4 DEF vars, callVars
<1> QED BY <1>1, <1>2, <1>3, <1>4 DEF Next

\* The initial states map to those of the promise.
LEMMA InitPromise == Init => Promise!Init
<1> SUFFICES ASSUME Init PROVE Promise!Init
    OBVIOUS
<1>1. \A f \in Callers : PromisedStatus(f) = "idle"
      BY DEF Init, PromisedStatus
<1>2. PromisedAnswered = {}
      BY HubAssumption DEF Init, PromisedAnswered, NoResponse
<1>3. {c \in Clients : handler[c] # "ready"} = {}
      BY DEF Init
<1> QED BY <1>1, <1>2, <1>3 DEF Init, Promise!Init

\* A caller's status depends on its own state only.
LEMMA StatusStays ==
    ASSUME NEW f \in Callers, outcome'[f] = outcome[f],
           (pc'[f] = "idle") <=> (pc[f] = "idle")
    PROVE  PromisedStatus(f)' = PromisedStatus(f)
BY DEF PromisedStatus

\* A step that leaves the responses where they are answers nobody.
LEMMA AnsweredStays ==
    ASSUME UNCHANGED <<chan, answer, reader>>
    PROVE  PromisedAnswered' = PromisedAnswered
BY DEF PromisedAnswered

\* A step that ends call f with a result is a Finish of the promise.
LEMMA FinishStep ==
    ASSUME Typed, Undecided, NEW f \in Callers, NEW result \in Outcomes,
           result # "no_tunnel",
           result = "response" => f \in PromisedAnswered,
           pc[f] \in {"acquire", "enroll", "write", "wait"},
           outcome' = [outcome EXCEPT ![f] = result],
           \A g \in Callers \ {f} : pc'[g] = pc[g],
           PromisedAnswered' = PromisedAnswered,
           clients' = clients, handler' = handler
    PROVE  Promise!Finish(f, result)
<1>1. outcome[f] = None /\ PromisedStatus(f) = "open"
      BY DEF Undecided, PromisedStatus
<1>2. PromisedStatus(f)' = result
      BY HubAssumption DEF PromisedStatus, Typed, StateTypes
<1>3. \A g \in Callers \ {f} : PromisedStatus(g)' = PromisedStatus(g)
      BY DEF PromisedStatus, Typed, StateTypes
<1>4. [g \in Callers |-> PromisedStatus(g)'] =
         [[g \in Callers |-> PromisedStatus(g)] EXCEPT ![f] = result]
      BY <1>2, <1>3
<1> QED BY <1>1, <1>4 DEF Promise!Finish

\* Every step maps to a step of the promise or to a stutter.
LEMMA NextPromise ==
    IndInv /\ Undecided /\ [Next]_vars => [Promise!Next]_(Promise!promiseVars)
<1> SUFFICES ASSUME IndInv, Undecided, [Next]_vars
             PROVE  Promise!Next \/ UNCHANGED Promise!promiseVars
    OBVIOUS
<1>0. /\ Typed /\ Numbered /\ Answered
      /\ clients \in [Endpoints -> Clients \cup {None}]
      /\ handler \in [Clients -> HandlerStates]
      /\ pc \in [Callers -> CallerStates]
      /\ outcome \in [Callers -> Outcomes \cup {None}]
      /\ chan \in [Callers -> Callers \cup {None}]
      /\ answer \in [Callers -> Callers \cup {None}]
      /\ reader \in [Clients -> [to : Callers \cup {None},
                                 about : Callers \cup {None}]]
      BY DEF IndInv, Typed, StateTypes
<1>1. ASSUME UNCHANGED <<clients, handler, pc, chan, answer, reader, outcome>>
      PROVE  UNCHANGED Promise!promiseVars
  <2>1. \A f \in Callers : PromisedStatus(f)' = PromisedStatus(f)
        BY <1>1, StatusStays
  <2>2. PromisedAnswered' = PromisedAnswered
        BY <1>1, AnsweredStays
  <2> QED BY <1>1, <2>1, <2>2 DEF Promise!promiseVars
<1>2. ASSUME NEW c \in Clients, Register(c)
      PROVE  Promise!Attach(Inbox[c], c)
  <2>0. /\ handler[c] = "ready"
        /\ clients' = [clients EXCEPT ![Inbox[c]] = c]
        /\ handler'[c] # "ready"
        /\ \A d \in Clients : d # c => handler'[d] = handler[d]
        /\ UNCHANGED <<pc, chan, answer, reader, outcome>>
        BY <1>0, <1>2 DEF Register, callVars, flightVars
  <2>1. {d \in Clients : handler'[d] # "ready"} =
           {d \in Clients : handler[d] # "ready"} \cup {c}
        BY <2>0
  <2>2. \A f \in Callers : PromisedStatus(f)' = PromisedStatus(f)
        BY <2>0, StatusStays
  <2>3. PromisedAnswered' = PromisedAnswered
        BY <2>0, AnsweredStays
  <2> QED BY <2>0, <2>1, <2>2, <2>3 DEF Promise!Attach
<1>3. ASSUME NEW c \in Clients,
             \/ EvictOld(c) \/ WakeOld(c) \/ ServeStops(c) \/ ReadFails(c)
             \/ CloseOwn(c) \/ WakeOwn(c) \/ HangUp(c)
      PROVE  UNCHANGED Promise!promiseVars
  <2>0. /\ UNCHANGED <<clients, pc, chan, answer, reader, outcome>>
        /\ handler[c] # "ready" /\ handler'[c] # "ready"
        /\ \A d \in Clients : d # c => handler'[d] = handler[d]
        BY <1>0, <1>3 DEF EvictOld, WakeOld, ServeStops, ReadFails, CloseOwn,
           WakeOwn, HangUp, Close, AfterServe, callVars, flightVars
  <2>1. {d \in Clients : handler'[d] # "ready"} =
           {d \in Clients : handler[d] # "ready"}
        BY <2>0
  <2>2. \A f \in Callers : PromisedStatus(f)' = PromisedStatus(f)
        BY <2>0, StatusStays
  <2>3. PromisedAnswered' = PromisedAnswered
        BY <2>0, AnsweredStays
  <2> QED BY <2>0, <2>1, <2>2, <2>3 DEF Promise!promiseVars
<1>4. ASSUME NEW c \in Clients, Unregister(c)
      PROVE  Promise!Detach(Inbox[c]) \/ UNCHANGED Promise!promiseVars
  <2>0. /\ UNCHANGED <<pc, chan, answer, reader, outcome>>
        /\ handler[c] # "ready" /\ handler'[c] # "ready"
        /\ \A d \in Clients : d # c => handler'[d] = handler[d]
        /\ clients' = [clients EXCEPT ![Inbox[c]] = Vacated(c)]
        BY <1>0, <1>4 DEF Unregister, callVars, flightVars
  <2>1. {d \in Clients : handler'[d] # "ready"} =
           {d \in Clients : handler[d] # "ready"}
        BY <2>0
  <2>2. \A f \in Callers : PromisedStatus(f)' = PromisedStatus(f)
        BY <2>0, StatusStays
  <2>3. PromisedAnswered' = PromisedAnswered
        BY <2>0, AnsweredStays
  <2>4. CASE clients[Inbox[c]] = c
        BY <2>0, <2>1, <2>2, <2>3, <2>4, HubAssumption
        DEF Promise!Detach, Vacated
  <2>5. CASE clients[Inbox[c]] # c
    <3>1. clients' = clients
          BY <1>0, <2>0, <2>5, HubAssumption DEF Vacated
    <3> QED BY <3>1, <2>1, <2>2, <2>3 DEF Promise!promiseVars
  <2> QED BY <2>4, <2>5
<1>5. ASSUME NEW c \in Clients, SendResponse(c)
      PROVE  UNCHANGED Promise!promiseVars
  <2> DEFINE f == reader[c].to
  <2>0. /\ f \in Callers /\ reader[c] = [to |-> f, about |-> f]
        /\ chan[f] = None /\ chan' = [chan EXCEPT ![f] = f]
        /\ reader' = [reader EXCEPT ![c] = NoResponse]
        /\ UNCHANGED <<clients, handler, pc, answer, outcome>>
        BY <1>0, <1>5 DEF SendResponse, Answered, regVars
  <2>1. \A g \in Callers : NoResponse # [to |-> g, about |-> g]
        BY HubAssumption DEF NoResponse
  <2>2. \A g \in Callers : g \in PromisedAnswered' <=> g \in PromisedAnswered
    <3> TAKE g \in Callers
    <3>1. CASE g = f
          BY <1>0, <2>0, <3>1 DEF PromisedAnswered
    <3>2. CASE g # f
      <4>1. chan'[g] = chan[g]
            BY <1>0, <2>0, <3>2
      <4>2. \A d \in Clients : reader'[d] = [to |-> g, about |-> g] <=>
                                  reader[d] = [to |-> g, about |-> g]
            BY <1>0, <2>0, <2>1, <3>2
      <4> QED BY <2>0, <4>1, <4>2 DEF PromisedAnswered
    <3> QED BY <3>1, <3>2
  <2>3. PromisedAnswered' = PromisedAnswered
        BY <2>2 DEF PromisedAnswered
  <2>4. \A g \in Callers : PromisedStatus(g)' = PromisedStatus(g)
        BY <2>0, StatusStays
  <2> QED BY <2>0, <2>3, <2>4 DEF Promise!promiseVars
<1>6. ASSUME NEW c \in Clients, NEW g \in Callers, NEW f \in Callers,
             TakePending(c, g, f)
      PROVE  Promise!Answer(f)
  <2>a. /\ f \in pending[c] /\ reader[c] = NoResponse
        /\ g \in written[c] /\ reqID[f] = reqID[g]
        /\ reader' = [reader EXCEPT ![c] = [to |-> f, about |-> g]]
        /\ UNCHANGED <<clients, handler, pc, chan, answer, outcome>>
        BY <1>6 DEF TakePending, regVars, callVars
  <2>b. g = f
        BY <1>0, <2>a DEF Numbered, Answered, PendingIsOwned
  <2>0. /\ f \in pending[c] /\ reader[c] = NoResponse
        /\ reader' = [reader EXCEPT ![c] = [to |-> f, about |-> f]]
        /\ UNCHANGED <<clients, handler, pc, chan, answer, outcome>>
        BY <2>a, <2>b
  <2>1. /\ f \notin PromisedAnswered
        /\ pc[f] # "idle"
        BY <1>0, <2>0, HubAssumption DEF Answered, Unanswered,
           PromisedAnswered, PendingIsOwned
  <2>2. PromisedStatus(f) # "idle"
        BY <1>0, <2>1 DEF PromisedStatus, Outcomes
  <2>3. \A h \in Callers : h \in PromisedAnswered' <=>
                              h \in PromisedAnswered \cup {f}
    <3> TAKE h \in Callers
    <3>1. CASE h = f
          BY <1>0, <2>0, <3>1 DEF PromisedAnswered
    <3>2. CASE h # f
      <4>1. NoResponse # [to |-> h, about |-> h]
            BY HubAssumption DEF NoResponse
      <4>2. \A d \in Clients : reader'[d] = [to |-> h, about |-> h] <=>
                                  reader[d] = [to |-> h, about |-> h]
            BY <1>0, <2>0, <3>2, <4>1
      <4> QED BY <2>0, <3>2, <4>2 DEF PromisedAnswered
    <3> QED BY <3>1, <3>2
  <2>4. PromisedAnswered' = PromisedAnswered \cup {f}
        BY <2>3 DEF PromisedAnswered
  <2>5. \A h \in Callers : PromisedStatus(h)' = PromisedStatus(h)
        BY <2>0, StatusStays
  <2> QED BY <2>0, <2>1, <2>2, <2>4, <2>5 DEF Promise!Answer
<1>7. ASSUME NEW f \in Callers, NEW e \in Endpoints, Lookup(f, e)
      PROVE  Promise!Begin(f, e)
  <2>0. /\ pc[f] = "idle" /\ outcome[f] = None
        /\ UNCHANGED <<clients, handler, chan, answer, reader>>
        /\ \/ /\ clients[e] = None
              /\ pc' = [pc EXCEPT ![f] = "returned"]
              /\ outcome' = [outcome EXCEPT ![f] = "no_tunnel"]
           \/ /\ clients[e] # None
              /\ pc' = [pc EXCEPT ![f] = "acquire"]
              /\ outcome' = outcome
        BY <1>7 DEF Lookup, Goto, Return, regVars, flightVars, Undecided
  <2>1. PromisedStatus(f) = "idle"
        BY <2>0 DEF PromisedStatus
  <2>2. PromisedStatus(f)' = IF clients[e] = None THEN "no_tunnel" ELSE "open"
        BY <1>0, <2>0, HubAssumption DEF PromisedStatus, Outcomes
  <2>3. \A g \in Callers \ {f} : PromisedStatus(g)' = PromisedStatus(g)
        BY <1>0, <2>0 DEF PromisedStatus
  <2>4. [g \in Callers |-> PromisedStatus(g)'] =
           [[g \in Callers |-> PromisedStatus(g)] EXCEPT ![f] =
              IF clients[e] = None THEN "no_tunnel" ELSE "open"]
        BY <2>2, <2>3
  <2>5. PromisedAnswered' = PromisedAnswered
        BY <2>0, AnsweredStays
  <2> QED BY <2>0, <2>1, <2>4, <2>5 DEF Promise!Begin
<1>8. ASSUME NEW f \in Callers, ReceiveResponse(f)
      PROVE  Promise!Finish(f, "response")
  <2>0. /\ pc[f] = "wait" /\ chan[f] = f
        /\ chan' = [chan EXCEPT ![f] = None]
        /\ answer' = [answer EXCEPT ![f] = f]
        /\ outcome' = [outcome EXCEPT ![f] = "response"]
        /\ pc' = [pc EXCEPT ![f] = "forget"]
        /\ UNCHANGED <<clients, handler, reader>>
        BY <1>0, <1>8 DEF ReceiveResponse, Goto, Return, regVars, flightVars,
           Answered, AnswersAreOwn
  <2>1. f \in PromisedAnswered
        BY <2>0 DEF PromisedAnswered
  <2>2. \A g \in Callers : g \in PromisedAnswered' <=> g \in PromisedAnswered
    <3> TAKE g \in Callers
    <3>1. CASE g = f
          BY <1>0, <2>0, <3>1 DEF PromisedAnswered
    <3>2. CASE g # f
      <4>1. chan'[g] = chan[g] /\ answer'[g] = answer[g]
            BY <1>0, <2>0, <3>2
      <4> QED BY <2>0, <4>1 DEF PromisedAnswered
    <3> QED BY <3>1, <3>2
  <2>3. PromisedAnswered' = PromisedAnswered
        BY <2>2 DEF PromisedAnswered
  <2>4. \A g \in Callers \ {f} : pc'[g] = pc[g]
        BY <1>0, <2>0
  <2> QED BY <1>0, <2>0, <2>1, <2>3, <2>4, FinishStep DEF Outcomes
<1>9. ASSUME NEW f \in Callers,
             \/ GiveUpQueued(f) \/ Refuse(f) \/ WriteFails(f) \/ SeeDone(f)
             \/ TimeOut(f)
      PROVE  \E result \in Outcomes : Promise!Finish(f, result)
  <2>0. /\ pc[f] \in {"acquire", "enroll", "write", "wait"}
        /\ UNCHANGED <<clients, handler, chan, answer, reader>>
        /\ \A g \in Callers \ {f} : pc'[g] = pc[g]
        BY <1>0, <1>9 DEF GiveUpQueued, Refuse, WriteFails, SeeDone, TimeOut,
           Goto, regVars, flightVars
  <2>1. PICK result \in Outcomes \ {"response", "no_tunnel"} :
           outcome' = [outcome EXCEPT ![f] = result]
        BY <1>9 DEF GiveUpQueued, Refuse, WriteFails, SeeDone, TimeOut,
           Return, Outcomes
  <2>2. PromisedAnswered' = PromisedAnswered
        BY <2>0, AnsweredStays
  <2> QED BY <1>0, <2>0, <2>1, <2>2, FinishStep
<1>10. ASSUME NEW f \in Callers,
              \/ Acquire(f) \/ Enroll(f) \/ Write(f) \/ Forget(f)
              \/ Release(f) \/ Expire(f)
       PROVE  UNCHANGED Promise!promiseVars
  <2>0. /\ UNCHANGED <<clients, handler, chan, answer, reader, outcome>>
        /\ \A g \in Callers : pc'[g] = "idle" <=> pc[g] = "idle"
        BY <1>0, <1>10 DEF Acquire, Enroll, Write, Forget, Release, Expire,
           Goto, regVars, flightVars
  <2>1. \A g \in Callers : PromisedStatus(g)' = PromisedStatus(g)
        BY <2>0, StatusStays
  <2>2. PromisedAnswered' = PromisedAnswered
        BY <2>0, AnsweredStays
  <2> QED BY <2>0, <2>1, <2>2 DEF Promise!promiseVars
<1>11. ASSUME NEW c \in Clients, CloseReplaced(c) \/ DropSocket(c)
       PROVE  UNCHANGED Promise!promiseVars
      BY <1>1, <1>11 DEF CloseReplaced, DropSocket, regVars, flightVars,
         callVars
<1>12. CASE UNCHANGED vars
      BY <1>1, <1>12 DEF vars, regVars, flightVars, callVars
<1>13. ASSUME NEW c \in Clients, Handle(c)
       PROVE  Promise!Next \/ UNCHANGED Promise!promiseVars
  <2>1. Inbox[c] \in Endpoints
        BY HubAssumption
  <2> QED BY <1>2, <1>3, <1>4, <1>13, <2>1 DEF Handle, Teardown, Promise!Next
<1>14. ASSUME NEW f \in Callers, Forward(f)
       PROVE  Promise!Next \/ UNCHANGED Promise!promiseVars
  <2>1. "response" \in Outcomes
        BY DEF Outcomes
  <2> QED BY <1>7, <1>8, <1>9, <1>10, <1>14, <2>1
          DEF Forward, Progress, Promise!Next
<1>15. ASSUME NEW c \in Clients, NEW g \in Callers, NEW f \in Callers,
              TakePending(c, g, f)
       PROVE  Promise!Next
      BY <1>6, <1>15 DEF Promise!Next
<1> QED BY <1>5, <1>11, <1>12, <1>13, <1>14, <1>15 DEF Next

\* The hub implements the promise: one tunnel per inbox, newest first, and one
\* result per call, a response only for its own request (hub.go:51-246).
THEOREM Refinement == Spec => KeepsPromise
<1>1. Init => Typed /\ Undecided
      BY InitTyped, InitUndecided
<1>2. Typed /\ Undecided /\ [Next]_vars => (Typed /\ Undecided)'
      BY NextTyped, NextUndecided
<1>3. Spec => []Undecided
      BY <1>1, <1>2, PTL DEF Spec
<1>4. Init => Promise!Init
      BY InitPromise
<1>5. IndInv /\ Undecided /\ [Next]_vars =>
         [Promise!Next]_(Promise!promiseVars)
      BY NextPromise
<1> QED BY <1>3, <1>4, <1>5, Invariance, PTL
        DEF Spec, KeepsPromise, Promise!Spec

=============================================================================
