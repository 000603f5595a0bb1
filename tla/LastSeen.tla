------------------------------ MODULE LastSeen ------------------------------
(***************************************************************************)
(* The column last_seen_at of an inbox, which captures write at most once  *)
(* an interval (Handler.shouldTouch and EvictTouched of                    *)
(* internal/ingest/ingest.go, Store.TouchEndpoint). The mark is set before *)
(* the write; handlers overlap, a capture's time is the one at which it    *)
(* was received, and nothing bounds how long its insert and its update     *)
(* take.                                                                   *)
(***************************************************************************)
EXTENDS Clock

CONSTANTS
    Handlers,       \* captures of the inbox that may be in progress
    TouchInterval,  \* touchInterval
    TouchIdle       \* idle of EvictTouched

ASSUME LastSeenAssumption ==
    /\ TouchInterval \in Nat \ {0}
    /\ TouchIdle \in Nat

VARIABLES
    phase,     \* per handler: "idle", "store" until the row is in, "touch"
    received,  \* per handler, req.ReceivedAt
    touched,   \* the inbox's mark in Handler.touched: {} or {t}
    lastSeen,  \* the column: {}, null, or {t}
    delay,     \* history: how long after its receipt the capture in the column
               \* was written there
    latest,    \* history: the latest capture that came to shouldTouch
    failed     \* history: a write failed since the mark was last moved

lastSeenVars == <<now, phase, received, touched, lastSeen, delay, latest, failed>>

AtMostOne == {{}} \cup {{t} : t \in 0..MaxTime}

\* Every variable has its type.
LastSeenTypeOK ==
    /\ ClockTypeOK
    /\ phase \in [Handlers -> {"idle", "store", "touch"}]
    /\ received \in [Handlers -> 0..MaxTime]
    /\ touched \in AtMostOne
    /\ lastSeen \in AtMostOne
    /\ delay \in 0..MaxTime
    /\ latest \in AtMostOne
    /\ failed \in BOOLEAN

LastSeenInit ==
    /\ ClockInit
    /\ phase = [h \in Handlers |-> "idle"]
    /\ received = [h \in Handlers |-> 0]
    /\ touched = {}
    /\ lastSeen = {}
    /\ delay = 0
    /\ latest = {}
    /\ failed = FALSE

-----------------------------------------------------------------------------

Receive(h) ==
    /\ phase[h] = "idle"
    /\ phase' = [phase EXCEPT ![h] = "store"]
    /\ received' = [received EXCEPT ![h] = now]
    /\ UNCHANGED <<now, touched, lastSeen, delay, latest, failed>>

\* Mutant: each capture moves the mark.
AlwaysMarked(t) == {t}

\* The mark after shouldTouch has seen a capture of time t.
Marked(t) == IF \E m \in touched : t < m + TouchInterval THEN touched ELSE {t}

\* InsertRequest has returned; shouldTouch decides under its lock.
ShouldTouch(h) ==
    LET due == \A m \in touched : received[h] >= m + TouchInterval IN
    /\ phase[h] = "store"
    /\ touched' = Marked(received[h])
    /\ phase' = [phase EXCEPT ![h] = IF due THEN "touch" ELSE "idle"]
    /\ failed' = (failed /\ ~due)
    /\ latest' = IF \A t \in latest : t <= received[h] THEN {received[h]} ELSE latest
    /\ UNCHANGED <<now, received, lastSeen, delay>>

\* TouchEndpoint, which overwrites whatever is there. An error is logged.
TouchEndpoint(h) ==
    /\ phase[h] = "touch"
    /\ phase' = [phase EXCEPT ![h] = "idle"]
    /\ \/ /\ lastSeen' = {received[h]}
          /\ delay' = now - received[h]
          /\ UNCHANGED failed
       \/ /\ failed' = TRUE
          /\ UNCHANGED <<lastSeen, delay>>
    /\ UNCHANGED <<now, received, touched, latest>>

\* EvictTouched, from the sweeper's tick.
EvictTouched ==
    /\ touched' = {m \in touched : m + TouchIdle >= now}
    /\ UNCHANGED <<now, phase, received, lastSeen, delay, latest, failed>>

\* A capture may take as long as it likes.
LastSeenTick ==
    /\ Tick
    /\ UNCHANGED <<phase, received, touched, lastSeen, delay, latest, failed>>

LastSeenNext ==
    \/ \E h \in Handlers : Receive(h) \/ ShouldTouch(h) \/ TouchEndpoint(h)
    \/ EvictTouched
    \/ LastSeenTick

LastSeenSpec == LastSeenInit /\ [][LastSeenNext]_lastSeenVars

-----------------------------------------------------------------------------
(* Properties                                                              *)

AtRest == ~failed /\ \A h \in Handlers : phase[h] # "touch"

\* With no update under way, and unless one has failed, the column is behind the
\* captures by less than an interval and the delay with which it was written,
\* however captures and updates overlapped: an update that comes late and sets
\* the column back costs its own delay, and no capture is skipped (ingest.go:225)
\* for the sake of a mark that is newer than that. Without the delay it does not
\* hold, so touchInterval alone is not "how stale last_seen_at is allowed to get"
\* (ingest.go:89).
LagIsBounded ==
    AtRest => \A t \in latest : \E s \in lastSeen : t < s + delay + TouchInterval

=============================================================================
