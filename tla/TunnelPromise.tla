--------------------------- MODULE TunnelPromise ---------------------------
(***************************************************************************)
(* What the tunnel hub promises to the code that calls Hub.Forward, with   *)
(* no socket, map, channel or lock in sight:                               *)
(*   - an inbox has at most one tunnel, a new one takes the place of the   *)
(*     old one, and only the current one can vacate the place;             *)
(*   - a call ends exactly once; it ends with "no_tunnel" only on an inbox *)
(*     without a tunnel, and with a response only if its own request was   *)
(*     answered; a call is answered at most once.                          *)
(* TunnelHub implements it.                                                *)
(***************************************************************************)
CONSTANTS Endpoints, Clients, Callers, None, Outcomes

VARIABLES holder,    \* inbox -> its tunnel
          spent,     \* tunnels that have held an inbox
          status,    \* call -> "idle", "open" or the result it ended with
          answered   \* calls whose request was answered

promiseVars == <<holder, spent, status, answered>>

Init ==
    /\ holder = [e \in Endpoints |-> None]
    /\ spent = {}
    /\ status = [f \in Callers |-> "idle"]
    /\ answered = {}

\* A tunnel takes an inbox, once in its life.
Attach(e, c) ==
    /\ c \notin spent
    /\ holder' = [holder EXCEPT ![e] = c]
    /\ spent' = spent \cup {c}
    /\ UNCHANGED <<status, answered>>

\* The tunnel that holds an inbox leaves it.
Detach(e) ==
    /\ holder[e] # None
    /\ holder' = [holder EXCEPT ![e] = None]
    /\ UNCHANGED <<spent, status, answered>>

Begin(f, e) ==
    /\ status[f] = "idle"
    /\ status' = [status EXCEPT ![f] =
                    IF holder[e] = None THEN "no_tunnel" ELSE "open"]
    /\ UNCHANGED <<holder, spent, answered>>

\* The answer may come too late for the caller, but never twice.
Answer(f) ==
    /\ status[f] # "idle"
    /\ f \notin answered
    /\ answered' = answered \cup {f}
    /\ UNCHANGED <<holder, spent, status>>

Finish(f, result) ==
    /\ status[f] = "open"
    /\ result # "no_tunnel"
    /\ result = "response" => f \in answered
    /\ status' = [status EXCEPT ![f] = result]
    /\ UNCHANGED <<holder, spent, answered>>

Next ==
    \/ \E e \in Endpoints : Detach(e) \/ \E c \in Clients : Attach(e, c)
    \/ \E f \in Callers :
          \/ \E e \in Endpoints : Begin(f, e)
          \/ Answer(f)
          \/ \E result \in Outcomes : Finish(f, result)

Spec == Init /\ [][Next]_promiseVars

=============================================================================
