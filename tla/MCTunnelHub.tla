---------------------------- MODULE MCTunnelHub ----------------------------
(* Tunnels that compete for one inbox, and calls that share them.           *)
EXTENDS TunnelHub, TLC

CONSTANTS e1, c1, c2, f1, f2

MCEndpoints == {e1}
MCInbox == [c \in Clients |-> e1]

MCOneClient == {c1}
MCTwoClients == {c1, c2}
MCOneCaller == {f1}
MCTwoCallers == {f1, f2}

Symmetry == Permutations(Callers) \cup Permutations(Clients)

\* For liveness the graph of two tunnels and two calls is too large. Each
\* behaviour has two tunnels and one call, or one tunnel and two calls: what is
\* left out is a registration or a call, which nothing obliges to happen.
SmallScope == handler[c2] = "ready" \/ pc[f2] = "idle"

LiveSpec == Init /\ [][Next /\ SmallScope']_vars /\ Fairness

=============================================================================
