---------------------------- MODULE TunnelSession ----------------------------
(***************************************************************************)
(* One inbox's tunnel sessions from both ends: the server half of a        *)
(* connection (internal/tunnel/server.go: handshake, Handle, serve,        *)
(* closeWith) and the CLI half (client.go: Run, connectOnce, handshake,    *)
(* serve; protocol.go: CloseError.Permanent), joined by a network that     *)
(* may cut a connection, and by a server process that stops and is         *)
(* started again (main.go: serve).                                         *)
(*                                                                         *)
(* Forwarded requests are TunnelHub's subject; here a connection carries   *)
(* only hello, hello_ok and close. A connection record is used again when  *)
(* both ends have let go of it.                                            *)
(***************************************************************************)
EXTENDS Naturals, Sequences

CONSTANTS
    Clis,       \* CLI processes forwarding the same inbox
    Conns,      \* connection records
    None,       \* no connection, no code
    MaxFaults   \* bound on the faults of network, database and operator

ASSUME SessionAssumption == MaxFaults \in Nat /\ None \notin Conns

VARIABLES
    process,    \* the server process: "up", "stopping" (baseCtx is cancelled)
                \* or "exited"
    srv,        \* where the handler of a connection is
    owner,      \* the CLI that dialled a connection
    link,       \* what is left of the connection, see Links
    toCli,      \* frames the server has written and the CLI has not read
    evicting,   \* connections a detached closeWith(replaced) is about to close
    holder,     \* Hub.clients for the inbox: the registered connection
    cli,        \* where a CLI is
    conn,       \* the connection a CLI is using
    exit,       \* why a CLI stopped
    creds,      \* what a CLI presents: "good", "bad" token, or "old" version
    faults      \* faults so far

serverVars == <<process, srv, evicting, holder>>
netVars    == <<owner, link, toCli>>
cliVars    == <<cli, conn, exit, creds>>
vars       == <<serverVars, netVars, cliVars, faults>>

\* "hello": waiting for the first frame; "auth": the credentials are being
\* looked up; "ack": writing hello_ok; "ready": about to register; "serve":
\* in serve's select; "ping": waiting for a pong; "ending": serve has
\* returned; "gone": Handle has returned.
SrvStates == {"free", "hello", "auth", "ack", "ready", "serve", "ping",
              "ending", "gone"}

\* "up"; "cut": no packet passes but neither end knows; "half": the CLI has
\* closed its end; "lost": it has, and no packet told the server; "shut": the
\* server has closed its end, what it wrote can still be read; "down": closed at
\* both ends.
Links == {"up", "cut", "half", "lost", "shut", "down"}

Codes == {"unauthorized", "unsupported_version", "handshake_timeout",
          "replaced", "server_shutdown"}

Frames == Codes \cup {"hello_ok"}

CliStates == {"dial", "handshake", "serve", "backoff", "stopped"}

TypeOK ==
    /\ process \in {"up", "stopping", "exited"}
    /\ srv \in [Conns -> SrvStates]
    /\ owner \in [Conns -> Clis \cup {None}]
    /\ link \in [Conns -> Links]
    /\ toCli \in [Conns -> Seq(Frames)]
    /\ evicting \in SUBSET Conns
    /\ holder \in Conns \cup {None}
    /\ cli \in [Clis -> CliStates]
    /\ conn \in [Clis -> Conns \cup {None}]
    /\ exit \in [Clis -> Codes \cup {"interrupted", None}]
    /\ creds \in [Clis -> {"good", "bad", "old"}]
    /\ faults \in 0..MaxFaults
    /\ \A k \in Clis : conn[k] # None <=> cli[k] \in {"handshake", "serve"}

Init ==
    /\ process = "up"
    /\ srv = [n \in Conns |-> "free"]
    /\ owner = [n \in Conns |-> None]
    /\ link = [n \in Conns |-> "down"]
    /\ toCli = [n \in Conns |-> <<>>]
    /\ evicting = {}
    /\ holder = None
    /\ cli = [k \in Clis |-> "dial"]
    /\ conn = [k \in Clis |-> None]
    /\ exit = [k \in Clis |-> None]
    /\ creds \in [Clis -> {"good", "bad", "old"}]
    /\ faults = 0

Fault == faults < MaxFaults /\ faults' = faults + 1

-----------------------------------------------------------------------------
(* What one end of a connection does to it                                 *)

\* closeWith: an application close frame, then a graceful close. A peer that is
\* not there any more costs the frame.
CloseWith(n, code) ==
    /\ toCli' = [toCli EXCEPT ![n] = IF link[n] = "up" THEN Append(@, code)
                                                      ELSE @]
    /\ link' = [link EXCEPT ![n] = CASE @ = "up" -> "shut"
                                     [] @ \in {"cut", "half", "lost"} -> "down"
                                     [] OTHER -> @]

\* The deferred CloseNow of Handle, or the end of the process: the peer reads
\* an end of stream, after what was written before.
CloseNow(n) ==
    /\ link' = [link EXCEPT ![n] = CASE @ = "up" -> "shut"
                                     [] @ \in {"cut", "half", "lost"} -> "down"
                                     [] OTHER -> @]
    /\ UNCHANGED toCli

\* The CLI's deferred CloseNow.
CliCloses(n) ==
    link' = [link EXCEPT ![n] = CASE @ = "up" -> "half"
                                  [] @ = "cut" -> "lost"
                                  [] OTHER -> "down"]

SetSrv(n, state) == srv' = [srv EXCEPT ![n] = state]

-----------------------------------------------------------------------------
(* Server.handshake                                                        *)

\* The hello frame arrives. The version is checked before the credentials.
ReadHello(n) ==
    /\ srv[n] = "hello"
    /\ link[n] = "up"
    /\ \/ /\ creds[owner[n]] = "old"
          /\ CloseWith(n, "unsupported_version")
          /\ SetSrv(n, "gone")
       \/ /\ creds[owner[n]] # "old"
          /\ SetSrv(n, "auth")
          /\ UNCHANGED <<link, toCli>>
    /\ UNCHANGED <<process, evicting, holder, owner, cliVars, faults>>

\* The read of the hello fails: the peer hung up, or baseCtx was cancelled,
\* which makes the library close the connection. Nobody is told anything.
HelloLost(n) ==
    /\ srv[n] = "hello"
    /\ link[n] \in {"half", "down"} \/ process = "stopping"
    /\ CloseNow(n)
    /\ SetSrv(n, "gone")
    /\ UNCHANGED <<process, evicting, holder, owner, cliVars, faults>>

\* The handshake timer wins the race against the read. On a connection that is
\* up the hello is late, which is a fault.
HelloLate(n) ==
    /\ srv[n] = "hello"
    /\ CloseWith(n, "handshake_timeout")
    /\ SetSrv(n, "gone")
    /\ IF link[n] = "up" THEN Fault ELSE UNCHANGED faults
    /\ UNCHANGED <<process, evicting, holder, owner, cliVars>>

\* Mutant: only an error other than ErrUnauthorized refuses a client.
AuthenticatesAnyone(n) == TRUE

\* The AuthFunc: slug and token match.
Authenticates(n) == creds[owner[n]] = "good"

\* The lookup of slug and token says yes.
AuthOK(n) ==
    /\ srv[n] = "auth"
    /\ Authenticates(n)
    /\ SetSrv(n, "ack")
    /\ UNCHANGED <<process, evicting, holder, netVars, cliVars, faults>>

\* The lookup says no, or it fails: the database does not answer, or the
\* context of the query is cancelled because the process is stopping. The
\* client is told "unauthorized" in each case.
AuthRefused(n) ==
    /\ srv[n] = "auth"
    /\ \/ ~Authenticates(n) /\ UNCHANGED faults
       \/ process = "stopping" /\ UNCHANGED faults
       \/ Fault
    /\ CloseWith(n, "unauthorized")
    /\ SetSrv(n, "gone")
    /\ UNCHANGED <<process, evicting, holder, owner, cliVars>>

\* hello_ok is written. The peer may have gone without the server knowing: then
\* the frame is lost and the handshake goes on, or the write fails.
WriteAck(n) ==
    /\ srv[n] = "ack"
    /\ \/ /\ SetSrv(n, "ready")
          /\ toCli' = [toCli EXCEPT ![n] = IF link[n] = "up"
                                             THEN Append(@, "hello_ok") ELSE @]
          /\ UNCHANGED link
       \/ /\ link[n] # "up" \/ process = "stopping"
          /\ SetSrv(n, "gone")
          /\ CloseNow(n)
    /\ UNCHANGED <<process, evicting, holder, owner, cliVars, faults>>

-----------------------------------------------------------------------------
(* Server.Handle and serve                                                 *)

\* Mutant: a new tunnel takes the registry entry and leaves the old socket be.
DisplacesSilently == {}

\* The connection that register displaces, and that Handle has closed.
Displaced == IF holder = None THEN {} ELSE {holder}

\* hub.register: newest wins, and the displaced connection is closed by a
\* detached closeWith.
Register(n) ==
    /\ srv[n] = "ready"
    /\ holder' = n
    /\ evicting' = evicting \cup Displaced
    /\ SetSrv(n, "serve")
    /\ UNCHANGED <<process, netVars, cliVars, faults>>

CloseReplaced(n) ==
    /\ n \in evicting
    /\ evicting' = evicting \ {n}
    /\ CloseWith(n, "replaced")
    /\ UNCHANGED <<process, srv, holder, owner, cliVars, faults>>

\* ctx.Done in serve's select.
ServeShutdown(n) ==
    /\ srv[n] = "serve"
    /\ process = "stopping"
    /\ CloseWith(n, "server_shutdown")
    /\ SetSrv(n, "ending")
    /\ UNCHANGED <<process, evicting, holder, owner, cliVars, faults>>

\* readErr in serve's select: the read loop saw the connection end.
ServeReadFails(n) ==
    /\ srv[n] = "serve"
    /\ link[n] \in {"half", "shut", "down"}
    /\ SetSrv(n, "ending")
    /\ UNCHANGED <<process, evicting, holder, netVars, cliVars, faults>>

\* The ticker in serve's select: Ping waits for the pong, away from the select.
PingStart(n) ==
    /\ srv[n] = "serve"
    /\ SetSrv(n, "ping")
    /\ UNCHANGED <<process, evicting, holder, netVars, cliVars, faults>>

\* The CLI's read loop answers.
PingAnswered(n) ==
    /\ srv[n] = "ping"
    /\ link[n] = "up"
    /\ SetSrv(n, "serve")
    /\ UNCHANGED <<process, evicting, holder, netVars, cliVars, faults>>

\* Mutant: a ping without a timeout fails only when a packet says so.
PongUnbounded(n) == link[n] \in {"half", "shut", "down"}

\* The pong does not come within pongTimeout.
NoPong(n) == link[n] # "up"

\* No pong within pongTimeout, or the ping's context, derived from baseCtx, is
\* cancelled: serve returns without a word.
PingFails(n) ==
    /\ srv[n] = "ping"
    /\ NoPong(n) \/ process = "stopping"
    /\ SetSrv(n, "ending")
    /\ UNCHANGED <<process, evicting, holder, netVars, cliVars, faults>>

\* The deferred calls of Handle: unregister with its identity check, CloseNow.
End(n) ==
    /\ srv[n] = "ending"
    /\ holder' = IF holder = n THEN None ELSE holder
    /\ CloseNow(n)
    /\ SetSrv(n, "gone")
    /\ UNCHANGED <<process, evicting, owner, cliVars, faults>>

-----------------------------------------------------------------------------
(* The server process                                                      *)

\* The signal: baseCtx is cancelled.
Stop ==
    /\ process = "up"
    /\ Fault
    /\ process' = "stopping"
    /\ UNCHANGED <<srv, evicting, holder, netVars, cliVars>>

\* http.Server.Shutdown knows nothing of hijacked connections, so the process
\* may end while handlers are still saying goodbye.
Exit ==
    /\ process = "stopping"
    /\ process' = "exited"
    /\ srv' = [n \in Conns |-> IF srv[n] = "free" THEN "free" ELSE "gone"]
    /\ link' = [n \in Conns |-> CASE link[n] = "up" -> "shut"
                                  [] link[n] \in {"cut", "half", "lost"} -> "down"
                                  [] OTHER -> link[n]]
    /\ holder' = None
    /\ evicting' = {}
    /\ UNCHANGED <<owner, toCli, cliVars, faults>>

Restart ==
    /\ process = "exited"
    /\ process' = "up"
    /\ UNCHANGED <<srv, evicting, holder, netVars, cliVars, faults>>

-----------------------------------------------------------------------------
(* The network                                                             *)

Cut(n) ==
    /\ link[n] = "up"
    /\ Fault
    /\ link' = [link EXCEPT ![n] = "cut"]
    /\ toCli' = [toCli EXCEPT ![n] = <<>>]
    /\ UNCHANGED <<serverVars, owner, cliVars>>

-----------------------------------------------------------------------------
(* The CLI                                                                 *)

\* websocket.Dial and the hello frame.
Dial(k, n) ==
    /\ cli[k] = "dial"
    /\ process = "up"
    /\ srv[n] \in {"free", "gone"}
    /\ n \notin evicting
    /\ \A j \in Clis : conn[j] # n
    /\ cli' = [cli EXCEPT ![k] = "handshake"]
    /\ conn' = [conn EXCEPT ![k] = n]
    /\ SetSrv(n, "hello")
    /\ owner' = [owner EXCEPT ![n] = k]
    /\ link' = [link EXCEPT ![n] = "up"]
    /\ toCli' = [toCli EXCEPT ![n] = <<>>]
    /\ UNCHANGED <<process, evicting, holder, exit, creds, faults>>

DialFails(k) ==
    /\ cli[k] = "dial"
    /\ process # "up"
    /\ cli' = [cli EXCEPT ![k] = "backoff"]
    /\ UNCHANGED <<serverVars, netVars, conn, exit, creds, faults>>

\* Mutant: a replaced client reconnects.
ReplacedRetries == {"unauthorized", "unsupported_version"}

\* CloseError.Permanent.
Permanent == {"unauthorized", "unsupported_version", "replaced"}

\* Mutant: Run keeps the finished connection.
SessionLeavesConn(k, code) ==
    /\ cli' = [cli EXCEPT ![k] = IF code \in Permanent THEN "stopped"
                                                      ELSE "backoff"]
    /\ exit' = [exit EXCEPT ![k] = IF code \in Permanent THEN code ELSE @]
    /\ CliCloses(conn[k])
    /\ UNCHANGED <<conn, creds>>

\* connectOnce returns to Run, which stops on a permanent close code and backs
\* off on everything else.
SessionEnds(k, code) ==
    /\ cli' = [cli EXCEPT ![k] = IF code \in Permanent THEN "stopped"
                                                      ELSE "backoff"]
    /\ exit' = [exit EXCEPT ![k] = IF code \in Permanent THEN code ELSE @]
    /\ conn' = [conn EXCEPT ![k] = None]
    /\ CliCloses(conn[k])
    /\ UNCHANGED creds

\* A frame is read, by the CLI's handshake or by its serve loop.
ReadFrame(k) ==
    LET n == conn[k] IN
    /\ cli[k] \in {"handshake", "serve"}
    /\ link[n] \in {"up", "shut"}
    /\ toCli[n] # <<>>
    /\ toCli' = [toCli EXCEPT ![n] = Tail(@)]
    /\ IF Head(toCli[n]) = "hello_ok"
         THEN /\ cli' = [cli EXCEPT ![k] = "serve"]
              /\ UNCHANGED <<conn, exit, creds, link>>
         ELSE SessionEnds(k, Head(toCli[n]))
    /\ UNCHANGED <<serverVars, owner, faults>>

\* A read fails: the stream has ended, or the network has told the CLI.
ConnectionLost(k) ==
    LET n == conn[k] IN
    /\ cli[k] \in {"handshake", "serve"}
    /\ \/ link[n] \in {"cut", "down"}
       \/ link[n] = "shut" /\ toCli[n] = <<>>
    /\ SessionEnds(k, None)
    /\ UNCHANGED <<serverVars, owner, toCli, faults>>

\* The CLI's own 15 second handshake deadline passes on a live connection.
HandshakeGivesUp(k) ==
    /\ cli[k] = "handshake"
    /\ link[conn[k]] = "up"
    /\ Fault
    /\ SessionEnds(k, None)
    /\ UNCHANGED <<serverVars, owner, toCli>>

\* The backoff delay is over.
Retry(k) ==
    /\ cli[k] = "backoff"
    /\ cli' = [cli EXCEPT ![k] = "dial"]
    /\ UNCHANGED <<serverVars, netVars, conn, exit, creds, faults>>

\* ctrl-c: Run returns nil from wherever it is.
Interrupt(k) ==
    /\ cli[k] # "stopped"
    /\ Fault
    /\ cli' = [cli EXCEPT ![k] = "stopped"]
    /\ exit' = [exit EXCEPT ![k] = "interrupted"]
    /\ conn' = [conn EXCEPT ![k] = None]
    /\ IF conn[k] = None THEN UNCHANGED link ELSE CliCloses(conn[k])
    /\ UNCHANGED <<serverVars, owner, toCli, creds>>

-----------------------------------------------------------------------------

\* The steps a handler takes without waiting for more than its own timers.
Handshake(n) ==
    \/ ReadHello(n)
    \/ HelloLost(n)
    \/ AuthOK(n)
    \/ AuthRefused(n)
    \/ WriteAck(n)
    \/ Register(n)

Serve(n) ==
    \/ ServeShutdown(n)
    \/ ServeReadFails(n)
    \/ PingFails(n)
    \/ End(n)

Cli(k) ==
    \/ \E n \in Conns : Dial(k, n)
    \/ DialFails(k)
    \/ ReadFrame(k)
    \/ ConnectionLost(k)
    \/ Retry(k)

Next ==
    \/ \E n \in Conns :
          \/ Handshake(n)
          \/ HelloLate(n)
          \/ Serve(n)
          \/ PingStart(n)
          \/ PingAnswered(n)
          \/ CloseReplaced(n)
          \/ Cut(n)
    \/ \E k \in Clis : Cli(k) \/ HandshakeGivesUp(k) \/ Interrupt(k)
    \/ Stop
    \/ Exit
    \/ Restart

Spec == Init /\ [][Next]_vars

\* What the code's own scheduling and timers bring about: a handler that is not
\* waiting for its peer moves on, the handshake timer fires on a connection
\* that brings nothing, pings are sent and fail when nothing comes back, the
\* CLI reads, backs off and redials; a process that is told to stop exits and
\* is started again. No fault is fair.
Fairness ==
    /\ \A n \in Conns :
          /\ WF_vars(Handshake(n) \/ (HelloLate(n) /\ link[n] # "up"))
          /\ WF_vars(Serve(n))
          /\ WF_vars(PingStart(n))
          /\ WF_vars(CloseReplaced(n))
    /\ \A k \in Clis : WF_vars(Cli(k))
    /\ WF_vars(Exit)
    /\ WF_vars(Restart)

FairSpec == Spec /\ Fairness

-----------------------------------------------------------------------------
(* Safety                                                                  *)

\* A CLI that believes it is forwarding, on a connection that works, is the
\* registered tunnel, or is just about to be, or is about to be told that it
\* is not: nobody sits there believing it is live (hub.go:88-94,
\* server.go:199-218).
NoZombieCli ==
    \A k \in Clis :
        LET n == conn[k] IN
        (cli[k] = "serve" /\ link[n] = "up" /\ holder # n) =>
            srv[n] \in {"ready", "ending"} \/ n \in evicting

\* The inbox is only ever held by a connection whose CLI presented the right
\* version and the right token, however connections are recycled.
HolderIsAuthenticated ==
    holder # None => creds[owner[holder]] = "good"

\* protocol.go:159-167: the permanent codes "describe the CLIENT being wrong",
\* so a CLI with the right token does not stop with "unauthorized".
GivesUpOnlyWhenWrong ==
    \A k \in Clis : exit[k] = "unauthorized" => creds[k] = "bad"

\* protocol.go:182-185: with one CLI process the connection it displaces is "a
\* dead socket with nobody reading it", so a CLI that is alone is never told
\* that it was replaced.
LoneCliNotReplaced ==
    \A k \in Clis : Clis = {k} => exit[k] # "replaced"

\* server.go:368 and protocol.go:122-124, "Every close path in this package
\* supplies a reason": while the process is stopping, no session on a working
\* connection is closed without a close frame having been written.
ShutdownIsExplained ==
    [][\A n \in Conns :
          (/\ process' = "stopping"
           /\ srv[n] \in {"serve", "ending"}
           /\ link[n] = "up"
           /\ link'[n] # "up") => \/ toCli'[n] # toCli[n]
                                 \/ link'[n] \in {"cut", "half"}]_vars

-----------------------------------------------------------------------------
(* Liveness, under FairSpec                                                *)

\* A CLI is the live tunnel of the inbox.
Live(k) == cli[k] = "serve" /\ holder = conn[k]

\* Once faults cease, CLIs do not fight: each has stopped for good or is, for
\* good, the live tunnel (failure modes 5 and 6, protocol.go:173-189).
SessionsSettle == <>[](\A k \in Clis : cli[k] = "stopped" \/ Live(k))

\* Failure mode 7: the server notices every connection whose peer is gone, also
\* when no packet says so, and lets go of it.
DeadPeerIsNoticed ==
    \A n \in Conns :
        (srv[n] \in {"serve", "ping"} /\ link[n] \notin {"up", "shut"})
            ~> (srv[n] = "gone")

=============================================================================
