------------------------ MODULE TunnelSessionProofs ------------------------
(***************************************************************************)
(* Who holds an inbox has shown its token, and no CLI sits on a displaced  *)
(* connection unaware of it: for any number of CLIs and of connections,    *)
(* and any number of faults, stops and restarts.                           *)
(***************************************************************************)
EXTENDS TunnelSession, TLAPS

\* The handshake said yes.
Accepted == {"ack", "ready", "serve", "ping", "ending"}

\* hello_ok has been written and Handle has not returned.
InSession == {"ready", "serve", "ping", "ending"}

\* hello_ok is on its way.
Greets(s) == \E i \in 1..Len(s) : s[i] = "hello_ok"

\* Past the credentials they were good, and the holder is past them.
Authenticated ==
    /\ \A n \in Conns : srv[n] \in Accepted => creds[owner[n]] = "good"
    /\ holder # None => srv[holder] \in {"serve", "ping", "ending"}

\* A connection that works has a handler behind it, in a session when the CLI
\* has been or is about to be greeted.
Attended ==
    /\ \A n \in Conns : link[n] = "up" => srv[n] \notin {"free", "gone"}
    /\ \A n \in Conns : link[n] = "up" /\ Greets(toCli[n]) => srv[n] \in InSession
    /\ \A k \in Clis :
          cli[k] = "serve" /\ link[conn[k]] = "up" => srv[conn[k]] \in InSession

\* A session that works is registered, or has somebody who will close it.
Displaceable ==
    \A n \in Conns :
        srv[n] \in {"serve", "ping"} /\ link[n] = "up" => holder = n \/ n \in evicting

IndInv == TypeOK /\ Authenticated /\ Attended /\ Displaceable

-----------------------------------------------------------------------------
(* Frames                                                                  *)

\* Appending a frame other than hello_ok greets nobody anew.
LEMMA AppendGreets ==
    ASSUME NEW s \in Seq(Frames), NEW f \in Frames
    PROVE  /\ Append(s, f) \in Seq(Frames)
           /\ f # "hello_ok" /\ Greets(Append(s, f)) => Greets(s)
  <1>1. Append(s, f) \in Seq(Frames) /\ Len(Append(s, f)) = Len(s) + 1
    OBVIOUS
  <1>2. ASSUME f # "hello_ok", NEW i \in 1..Len(Append(s, f)),
               Append(s, f)[i] = "hello_ok"
        PROVE  i \in 1..Len(s) /\ s[i] = "hello_ok"
    BY <1>2
  <1> QED  BY <1>1, <1>2 DEF Greets

\* Reading a frame leaves a sequence of frames with no new greeting.
LEMMA TailGreets ==
    ASSUME NEW s \in Seq(Frames), s # <<>>
    PROVE  /\ Tail(s) \in Seq(Frames)
           /\ Head(s) \in Frames
           /\ Head(s) = "hello_ok" => Greets(s)
           /\ Greets(Tail(s)) => Greets(s)
  <1>1. Tail(s) \in Seq(Frames) /\ Len(s) \in Nat \ {0} /\ Len(Tail(s)) = Len(s) - 1
    OBVIOUS
  <1>2. Head(s) = s[1] /\ s[1] \in Frames /\ 1 \in 1..Len(s)
    BY <1>1
  <1>3. ASSUME NEW i \in 1..Len(Tail(s))
        PROVE  i + 1 \in 1..Len(s) /\ Tail(s)[i] = s[i + 1]
    BY <1>1
  <1> QED  BY <1>1, <1>2, <1>3 DEF Greets

\* The empty queue holds no frame and greets nobody.
LEMMA EmptyGreets == << >> \in Seq(Frames) /\ ~Greets(<< >>)
  BY DEF Greets

-----------------------------------------------------------------------------
(* What one end of a connection does to it                                 *)

\* A connection that n's end has let go of works no longer, the others are as
\* they were, and nobody is greeted by it.
Released(n) ==
    /\ link' \in [Conns -> Links]
    /\ toCli' \in [Conns -> Seq(Frames)]
    /\ link'[n] # "up"
    /\ \A m \in Conns \ {n} : link'[m] = link[m] /\ toCli'[m] = toCli[m]

\* A close frame and a close leave the connection not working and greet nobody.
LEMMA CloseWithReleases ==
    ASSUME TypeOK, NEW n \in Conns, NEW code \in Codes, CloseWith(n, code)
    PROVE  Released(n)
  <1>1. link' \in [Conns -> Links] /\ link'[n] # "up"
    BY DEF TypeOK, CloseWith, Links
  <1>2. toCli[n] \in Seq(Frames) /\ Append(toCli[n], code) \in Seq(Frames)
    BY AppendGreets DEF TypeOK, Frames
  <1>3. toCli' \in [Conns -> Seq(Frames)]
    BY <1>2 DEF TypeOK, CloseWith
  <1>4. \A m \in Conns \ {n} : link'[m] = link[m] /\ toCli'[m] = toCli[m]
    BY DEF TypeOK, CloseWith
  <1> QED  BY <1>1, <1>3, <1>4 DEF Released

\* So does the deferred CloseNow of Handle.
LEMMA CloseNowReleases ==
    ASSUME TypeOK, NEW n \in Conns, CloseNow(n)
    PROVE  Released(n)
  BY DEF TypeOK, CloseNow, Links, Released

\* So does the CLI that closes its end, having read a frame or not.
LEMMA CliReleases ==
    ASSUME TypeOK, NEW n \in Conns, CliCloses(n),
           toCli' = toCli \/ (toCli' = [toCli EXCEPT ![n] = Tail(@)] /\ toCli[n] # << >>)
    PROVE  Released(n)
  <1>1. link' \in [Conns -> Links] /\ link'[n] # "up"
    BY DEF TypeOK, CliCloses, Links
  <1>2. toCli' \in [Conns -> Seq(Frames)]
    <2>1. CASE toCli' = toCli
      BY <2>1 DEF TypeOK
    <2>2. CASE toCli' = [toCli EXCEPT ![n] = Tail(@)] /\ toCli[n] # << >>
      <3>1. Tail(toCli[n]) \in Seq(Frames)
        BY <2>2, TailGreets DEF TypeOK
      <3> QED  BY <2>2, <3>1 DEF TypeOK
    <2> QED  BY <2>1, <2>2
  <1>3. \A m \in Conns \ {n} : link'[m] = link[m]
    BY DEF TypeOK, CliCloses
  <1>4. \A m \in Conns \ {n} : toCli'[m] = toCli[m]
    BY DEF TypeOK
  <1> QED  BY <1>1, <1>2, <1>3, <1>4 DEF Released

-----------------------------------------------------------------------------

\* The invariant holds when nobody has dialled yet.
THEOREM InitInv == Init => IndInv
  <1> SUFFICES ASSUME Init PROVE IndInv
    OBVIOUS
  <1>1. TypeOK
    <2>1. toCli \in [Conns -> Seq(Frames)]
      BY EmptyGreets DEF Init
    <2>2. \A k \in Clis : conn[k] # None <=> cli[k] \in {"handshake", "serve"}
      BY DEF Init
    <2> QED
      BY <2>1, <2>2, SessionAssumption
         DEF Init, TypeOK, SessionAssumption, SrvStates, Links, CliStates
  <1>2. Authenticated /\ Attended /\ Displaceable
    BY DEF Init, Authenticated, Attended, Displaceable, Accepted
  <1> QED  BY <1>1, <1>2 DEF IndInv

\* Handle returns from a handler that never registered, with the connection closed.
LEMMA RefusalKeeps ==
    ASSUME IndInv, NEW n \in Conns, Released(n), SetSrv(n, "gone"),
           srv[n] \notin {"serve", "ping", "ending"}, faults' \in 0..MaxFaults,
           UNCHANGED <<process, evicting, holder, owner, cliVars>>
    PROVE  IndInv'
  <1> TypeOK
    BY DEF IndInv
  <1>1. TypeOK'
    BY DEF TypeOK, SetSrv, SrvStates, Released, cliVars
  <1>2. srv'[n] = "gone" /\ \A m \in Conns \ {n} : srv'[m] = srv[m]
    BY DEF TypeOK, SetSrv
  <1>3. Authenticated'
    BY <1>2 DEF IndInv, Authenticated, Accepted, TypeOK, cliVars
  <1>4. Attended'
    <2>1. \A k \in Clis : cli[k] = "serve" => conn[k] \in Conns
      BY DEF TypeOK
    <2> QED  BY <1>2, <2>1 DEF IndInv, Attended, Released, cliVars
  <1>5. Displaceable'
    BY <1>2 DEF IndInv, Displaceable, Released
  <1> QED  BY <1>1, <1>3, <1>4, <1>5 DEF IndInv

\* A connection is closed, or lost, and its handler has yet to notice.
LEMMA ReleaseKeeps ==
    ASSUME IndInv, NEW n \in Conns, Released(n), evicting \ {n} \subseteq evicting',
           evicting' \subseteq evicting, faults' \in 0..MaxFaults,
           UNCHANGED <<process, srv, holder, owner, creds>>,
           cli' \in [Clis -> CliStates], conn' \in [Clis -> Conns \cup {None}],
           exit' \in [Clis -> Codes \cup {"interrupted", None}],
           \A k \in Clis : conn'[k] # None <=> cli'[k] \in {"handshake", "serve"},
           \A k \in Clis : cli'[k] = "serve" => cli[k] = "serve" /\ conn'[k] = conn[k]
    PROVE  IndInv'
  <1> TypeOK
    BY DEF IndInv
  <1>1. TypeOK'
    BY DEF TypeOK, Released
  <1>2. Authenticated'
    BY DEF IndInv, Authenticated
  <1>3. Attended'
    <2>1. \A k \in Clis : cli[k] = "serve" => conn[k] \in Conns
      BY DEF TypeOK
    <2> QED  BY <2>1 DEF IndInv, Attended, Released
  <1>4. Displaceable'
    BY DEF IndInv, Displaceable, Released
  <1> QED  BY <1>1, <1>2, <1>3, <1>4 DEF IndInv

-----------------------------------------------------------------------------
(* The handler of a connection                                             *)

\* The handler moves on, nothing else changes but the greeting it may write.
LEMMA HandlerKeeps ==
    ASSUME IndInv, NEW n \in Conns, NEW state \in SrvStates \ {"free", "gone"},
           SetSrv(n, state), srv[n] \notin {"free", "gone"},
           state \in Accepted => creds[owner[n]] = "good",
           srv[n] \in InSession => state \in InSession,
           holder = n => state \in {"serve", "ping", "ending"},
           state \in {"serve", "ping"} => srv[n] \in {"serve", "ping"},
           toCli' \in [Conns -> Seq(Frames)],
           \A m \in Conns : m # n \/ state # "ready" => toCli'[m] = toCli[m],
           UNCHANGED <<process, evicting, holder, owner, link, cliVars, faults>>
    PROVE  IndInv'
  <1> TypeOK
    BY DEF IndInv
  <1>1. TypeOK'
    BY DEF TypeOK, SetSrv, cliVars
  <1>2. srv'[n] = state /\ \A m \in Conns \ {n} : srv'[m] = srv[m]
    BY DEF TypeOK, SetSrv
  <1>3. Authenticated'
    BY <1>2 DEF IndInv, Authenticated, TypeOK, cliVars
  <1>4. Attended'
    <2>1. \A k \in Clis : cli[k] = "serve" => conn[k] \in Conns
      BY DEF TypeOK
    <2>2. \A m \in Conns : link[m] = "up" => srv'[m] \notin {"free", "gone"}
      BY <1>2 DEF IndInv, Attended
    <2>3. \A m \in Conns : link[m] = "up" /\ Greets(toCli'[m]) => srv'[m] \in InSession
      BY <1>2 DEF IndInv, Attended, InSession
    <2>4. \A k \in Clis :
              cli[k] = "serve" /\ link[conn[k]] = "up" => srv'[conn[k]] \in InSession
      BY <1>2, <2>1 DEF IndInv, Attended
    <2> QED  BY <2>2, <2>3, <2>4 DEF Attended, cliVars
  <1>5. Displaceable'
    BY <1>2 DEF IndInv, Displaceable
  <1> QED  BY <1>1, <1>3, <1>4, <1>5 DEF IndInv

\* Handshake keeps the inductive invariant.
LEMMA HandshakeKeeps ==
    ASSUME IndInv, NEW n \in Conns, Handshake(n) \/ HelloLate(n)
    PROVE  IndInv'
  <1> TypeOK /\ faults \in 0..MaxFaults
    BY DEF IndInv, TypeOK
  <1> USE SessionAssumption DEF SessionAssumption
  <1>1. CASE ReadHello(n)
    <2>1. CASE CloseWith(n, "unsupported_version") /\ SetSrv(n, "gone")
      <3>1. Released(n)
        BY <2>1, CloseWithReleases DEF Codes
      <3> QED  BY <1>1, <2>1, <3>1, RefusalKeeps DEF ReadHello
    <2>2. CASE SetSrv(n, "auth") /\ UNCHANGED <<link, toCli>>
      BY <1>1, <2>2, HandlerKeeps
         DEF ReadHello, SrvStates, Accepted, InSession, IndInv, Authenticated, TypeOK
    <2> QED  BY <1>1, <2>1, <2>2 DEF ReadHello
  <1>2. CASE HelloLost(n)
    BY <1>2, CloseNowReleases, RefusalKeeps DEF HelloLost
  <1>3. CASE HelloLate(n)
    <2>1. Released(n)
      BY <1>3, CloseWithReleases DEF HelloLate, Codes
    <2>2. faults' \in 0..MaxFaults
      BY <1>3 DEF HelloLate, Fault
    <2> QED  BY <1>3, <2>1, <2>2, RefusalKeeps DEF HelloLate
  <1>4. CASE AuthOK(n)
    BY <1>4, HandlerKeeps
       DEF AuthOK, Authenticates, SrvStates, Accepted, InSession, IndInv, Authenticated,
           TypeOK, netVars
  <1>5. CASE AuthRefused(n)
    <2>1. Released(n)
      BY <1>5, CloseWithReleases DEF AuthRefused, Codes
    <2>2. faults' \in 0..MaxFaults
      BY <1>5 DEF AuthRefused, Fault
    <2> QED  BY <1>5, <2>1, <2>2, RefusalKeeps DEF AuthRefused
  <1>6. CASE WriteAck(n)
    <2>1. CASE SetSrv(n, "gone") /\ CloseNow(n)
      BY <1>6, <2>1, CloseNowReleases, RefusalKeeps DEF WriteAck
    <2>2. CASE /\ SetSrv(n, "ready")
               /\ toCli' = [toCli EXCEPT ![n] = IF link[n] = "up"
                                                  THEN Append(@, "hello_ok") ELSE @]
               /\ UNCHANGED link
      <3>1. Append(toCli[n], "hello_ok") \in Seq(Frames)
        BY AppendGreets DEF TypeOK, Frames
      <3>2. /\ toCli' \in [Conns -> Seq(Frames)]
            /\ \A m \in Conns \ {n} : toCli'[m] = toCli[m]
        BY <2>2, <3>1 DEF TypeOK
      <3>3. srv[n] = "ack" /\ creds[owner[n]] = "good" /\ holder # n
        BY <1>6 DEF WriteAck, IndInv, Authenticated, Accepted, TypeOK, SessionAssumption
      <3> QED
        BY <1>6, <2>2, <3>2, <3>3, HandlerKeeps
           DEF WriteAck, SrvStates, InSession
    <2> QED  BY <1>6, <2>1, <2>2 DEF WriteAck
  <1>7. CASE Register(n)
    <2>1. /\ srv[n] = "ready" /\ srv'[n] = "serve"
          /\ \A m \in Conns \ {n} : srv'[m] = srv[m]
          /\ holder' = n
          /\ evicting' = evicting \cup Displaced
          /\ UNCHANGED <<process, owner, link, toCli, cli, conn, exit, creds, faults>>
      BY <1>7 DEF Register, SetSrv, TypeOK, netVars, cliVars
    <2>2. TypeOK'
      BY <1>7, <2>1 DEF Register, SetSrv, SrvStates, Displaced, TypeOK
    <2>3. Authenticated'
      BY <2>1 DEF IndInv, Authenticated, Accepted
    <2>4. Attended'
      <3>1. \A k \in Clis : cli[k] = "serve" => conn[k] \in Conns
        BY DEF TypeOK
      <3> QED  BY <2>1, <3>1 DEF IndInv, Attended, InSession
    <2>5. Displaceable'
      BY <2>1 DEF IndInv, Displaceable, Displaced
    <2> QED  BY <2>2, <2>3, <2>4, <2>5 DEF IndInv
  <1> QED  BY <1>1, <1>2, <1>3, <1>4, <1>5, <1>6, <1>7 DEF Handshake

\* Serve keeps the inductive invariant.
LEMMA ServeKeeps ==
    ASSUME IndInv, NEW n \in Conns,
           Serve(n) \/ PingStart(n) \/ PingAnswered(n)
    PROVE  IndInv'
  <1> TypeOK /\ faults \in 0..MaxFaults
    BY DEF IndInv, TypeOK
  <1> USE SessionAssumption DEF SessionAssumption
  <1>1. ASSUME srv[n] \in {"serve", "ping"}, NEW state \in {"serve", "ping", "ending"},
               SetSrv(n, state),
               UNCHANGED <<process, evicting, holder, netVars, cliVars, faults>>
        PROVE  IndInv'
    BY <1>1, HandlerKeeps
       DEF SrvStates, Accepted, InSession, IndInv, Authenticated, TypeOK, netVars
  <1>2. CASE ServeShutdown(n)
    <2>1. Released(n)
      BY <1>2, CloseWithReleases DEF ServeShutdown, Codes
    <2>2. srv[n] = "serve" /\ srv'[n] = "ending" /\ \A m \in Conns \ {n} : srv'[m] = srv[m]
      BY <1>2 DEF ServeShutdown, SetSrv, TypeOK
    <2>3. TypeOK'
      BY <1>2, <2>1 DEF ServeShutdown, SetSrv, SrvStates, Released, TypeOK, cliVars
    <2>4. UNCHANGED <<evicting, holder, owner, cli, conn, creds>>
      BY <1>2 DEF ServeShutdown, cliVars
    <2>5. Authenticated'
      BY <2>2, <2>4 DEF IndInv, Authenticated, Accepted, TypeOK
    <2>6. Attended'
      <3>1. \A k \in Clis : cli[k] = "serve" => conn[k] \in Conns
        BY DEF TypeOK
      <3> QED  BY <2>1, <2>2, <2>4, <3>1 DEF IndInv, Attended, Released, InSession
    <2>7. Displaceable'
      BY <2>1, <2>2, <2>4 DEF IndInv, Displaceable, Released
    <2> QED  BY <2>3, <2>5, <2>6, <2>7 DEF IndInv
  <1>3. CASE ServeReadFails(n)
    BY <1>3, <1>1 DEF ServeReadFails
  <1>4. CASE PingFails(n)
    BY <1>4, <1>1 DEF PingFails
  <1>5. CASE PingStart(n)
    BY <1>5, <1>1 DEF PingStart
  <1>6. CASE PingAnswered(n)
    BY <1>6, <1>1 DEF PingAnswered
  <1>7. CASE End(n)
    <2>1. Released(n)
      BY <1>7, CloseNowReleases DEF End
    <2>2. srv[n] = "ending" /\ srv'[n] = "gone" /\ \A m \in Conns \ {n} : srv'[m] = srv[m]
      BY <1>7 DEF End, SetSrv, TypeOK
    <2>3. TypeOK'
      BY <1>7, <2>1 DEF End, SetSrv, SrvStates, Released, TypeOK, cliVars
    <2>4. /\ holder' = IF holder = n THEN None ELSE holder
          /\ UNCHANGED <<evicting, owner, cli, conn, creds>>
      BY <1>7 DEF End, cliVars
    <2>5. Authenticated'
      BY <2>2, <2>4 DEF IndInv, Authenticated, Accepted, TypeOK
    <2>6. Attended'
      <3>1. \A k \in Clis : cli[k] = "serve" => conn[k] \in Conns
        BY DEF TypeOK
      <3> QED  BY <2>1, <2>2, <2>4, <3>1 DEF IndInv, Attended, Released
    <2>7. Displaceable'
      BY <2>1, <2>2, <2>4 DEF IndInv, Displaceable, Released
    <2> QED  BY <2>3, <2>5, <2>6, <2>7 DEF IndInv
  <1> QED  BY <1>2, <1>3, <1>4, <1>5, <1>6, <1>7 DEF Serve

\* CloseReplaced keeps the inductive invariant.
LEMMA CloseReplacedKeeps ==
    ASSUME IndInv, NEW n \in Conns, CloseReplaced(n)
    PROVE  IndInv'
  <1>1. TypeOK
    BY DEF IndInv
  <1>2. Released(n)
    BY <1>1, CloseWithReleases DEF CloseReplaced, Codes
  <1> QED  BY <1>1, <1>2, ReleaseKeeps DEF CloseReplaced, TypeOK, cliVars

\* Cut keeps the inductive invariant.
LEMMA CutKeeps ==
    ASSUME IndInv, NEW n \in Conns, Cut(n)
    PROVE  IndInv'
  <1>1. TypeOK
    BY DEF IndInv
  <1>2. Released(n)
    BY <1>1, EmptyGreets DEF Cut, TypeOK, Links, Released
  <1>3. faults' \in 0..MaxFaults
    BY <1>1, SessionAssumption DEF Cut, Fault, TypeOK, SessionAssumption
  <1> QED  BY <1>1, <1>2, <1>3, ReleaseKeeps DEF Cut, TypeOK, serverVars, cliVars

-----------------------------------------------------------------------------
(* The server process                                                      *)

\* Process keeps the inductive invariant.
LEMMA ProcessKeeps ==
    ASSUME IndInv, Stop \/ Exit \/ Restart
    PROVE  IndInv'
  <1> TypeOK
    BY DEF IndInv
  <1>1. CASE Stop \/ Restart
    <2>1. /\ process' \in {"up", "stopping", "exited"}
          /\ faults' \in 0..MaxFaults
          /\ UNCHANGED <<srv, evicting, holder, owner, link, toCli, cli, conn, exit, creds>>
      BY <1>1, SessionAssumption
         DEF Stop, Restart, Fault, SessionAssumption, TypeOK, netVars, cliVars
    <2> QED
      BY <2>1 DEF IndInv, TypeOK, Authenticated, Attended, Displaceable
  <1>2. CASE Exit
    <2>1. /\ process' = "exited" /\ holder' = None /\ evicting' = {}
          /\ UNCHANGED <<owner, toCli, cli, conn, exit, creds, faults>>
      BY <1>2 DEF Exit, cliVars
    <2>2. srv' \in [Conns -> {"free", "gone"}]
      BY <1>2 DEF Exit
    <2>3. link' \in [Conns -> Links \ {"up"}]
      BY <1>2 DEF Exit, TypeOK, Links
    <2>4. TypeOK'
      BY <2>1, <2>2, <2>3 DEF TypeOK, SrvStates
    <2>5. Authenticated'
      BY <2>1, <2>2 DEF Authenticated, Accepted
    <2>6. Attended' /\ Displaceable'
      <3>1. \A k \in Clis : cli[k] = "serve" => conn[k] \in Conns
        BY DEF TypeOK
      <3> QED  BY <2>1, <2>3, <3>1 DEF Attended, Displaceable
    <2> QED  BY <2>4, <2>5, <2>6 DEF IndInv
  <1> QED  BY <1>1, <1>2

-----------------------------------------------------------------------------
(* The CLI                                                                 *)

\* SessionEnds keeps the inductive invariant.
LEMMA SessionEndsKeeps ==
    ASSUME IndInv, NEW k \in Clis, NEW code \in Codes \cup {None},
           SessionEnds(k, code), cli[k] \in {"handshake", "serve"},
           \/ toCli' = toCli
           \/ (toCli' = [toCli EXCEPT ![conn[k]] = Tail(@)] /\ toCli[conn[k]] # << >>),
           faults' \in 0..MaxFaults, UNCHANGED <<serverVars, owner>>
    PROVE  IndInv'
  <1> TypeOK
    BY DEF IndInv
  <1>1. conn[k] \in Conns
    BY DEF TypeOK
  <1>2. Released(conn[k])
    BY <1>1, CliReleases DEF SessionEnds
  <1>3. /\ cli' \in [Clis -> CliStates]
        /\ conn' \in [Clis -> Conns \cup {None}]
        /\ exit' \in [Clis -> Codes \cup {"interrupted", None}]
    BY DEF SessionEnds, TypeOK, CliStates
  <1>4. /\ cli'[k] \in {"stopped", "backoff"} /\ conn'[k] = None
        /\ \A j \in Clis \ {k} : cli'[j] = cli[j] /\ conn'[j] = conn[j]
    BY DEF SessionEnds, TypeOK
  <1>5. \A j \in Clis : conn'[j] # None <=> cli'[j] \in {"handshake", "serve"}
    BY <1>4 DEF TypeOK
  <1>6. \A j \in Clis : cli'[j] = "serve" => cli[j] = "serve" /\ conn'[j] = conn[j]
    BY <1>4
  <1> QED
    BY <1>1, <1>2, <1>3, <1>5, <1>6, ReleaseKeeps DEF SessionEnds, serverVars

\* Dial keeps the inductive invariant.
LEMMA DialKeeps ==
    ASSUME IndInv, NEW k \in Clis, NEW n \in Conns, Dial(k, n)
    PROVE  IndInv'
  <1> TypeOK
    BY DEF IndInv
  <1>1. /\ cli[k] = "dial" /\ srv[n] \in {"free", "gone"}
        /\ \A j \in Clis : conn[j] # n
        /\ cli' = [cli EXCEPT ![k] = "handshake"]
        /\ conn' = [conn EXCEPT ![k] = n]
        /\ srv' = [srv EXCEPT ![n] = "hello"]
        /\ owner' = [owner EXCEPT ![n] = k]
        /\ link' = [link EXCEPT ![n] = "up"]
        /\ toCli' = [toCli EXCEPT ![n] = << >>]
        /\ UNCHANGED <<process, evicting, holder, exit, creds, faults>>
    BY DEF Dial, SetSrv
  <1>2. TypeOK'
    <2>1. \A j \in Clis : conn'[j] # None <=> cli'[j] \in {"handshake", "serve"}
      BY <1>1, SessionAssumption DEF TypeOK, SessionAssumption
    <2> QED  BY <1>1, <2>1, EmptyGreets DEF TypeOK, SrvStates, Links, CliStates
  <1>3. Authenticated'
    BY <1>1 DEF IndInv, Authenticated, Accepted, TypeOK
  <1>4. Attended'
    <2>1. \A m \in Conns : link'[m] = "up" => srv'[m] \notin {"free", "gone"}
      BY <1>1 DEF IndInv, Attended, TypeOK
    <2>2. \A m \in Conns : link'[m] = "up" /\ Greets(toCli'[m]) => srv'[m] \in InSession
      BY <1>1, EmptyGreets DEF IndInv, Attended, TypeOK
    <2>3. \A j \in Clis :
              cli'[j] = "serve" /\ link'[conn'[j]] = "up" => srv'[conn'[j]] \in InSession
      <3> SUFFICES ASSUME NEW j \in Clis, cli'[j] = "serve", link'[conn'[j]] = "up"
                   PROVE  srv'[conn'[j]] \in InSession
        OBVIOUS
      <3>1. j # k /\ cli[j] = "serve" /\ conn'[j] = conn[j] /\ conn[j] \in Conns \ {n}
        BY <1>1 DEF TypeOK
      <3> QED  BY <1>1, <3>1 DEF IndInv, Attended, TypeOK
    <2> QED  BY <2>1, <2>2, <2>3 DEF Attended
  <1>5. Displaceable'
    BY <1>1 DEF IndInv, Displaceable, TypeOK
  <1> QED  BY <1>2, <1>3, <1>4, <1>5 DEF IndInv

\* A CLI that has no connection gets none by failing, waiting or being greeted.
LEMMA CliKeeps ==
    ASSUME IndInv, NEW k \in Clis, Cli(k) \/ HandshakeGivesUp(k) \/ Interrupt(k)
    PROVE  IndInv'
  <1> TypeOK /\ faults \in 0..MaxFaults
    BY DEF IndInv, TypeOK
  <1> USE SessionAssumption DEF SessionAssumption
  <1>1. CASE \E n \in Conns : Dial(k, n)
    BY <1>1, DialKeeps
  <1>2. CASE DialFails(k) \/ Retry(k)
    <2>1. /\ cli[k] \in {"dial", "backoff"}
          /\ cli' \in [Clis -> CliStates]
          /\ cli'[k] \in {"dial", "backoff"}
          /\ \A j \in Clis \ {k} : cli'[j] = cli[j]
          /\ UNCHANGED <<process, srv, evicting, holder, owner, link, toCli, conn, exit,
                         creds, faults>>
      BY <1>2 DEF DialFails, Retry, TypeOK, CliStates, serverVars, netVars
    <2>2. \A j \in Clis : conn[j] # None <=> cli'[j] \in {"handshake", "serve"}
      BY <2>1 DEF TypeOK
    <2> QED  BY <2>1, <2>2 DEF IndInv, TypeOK, Authenticated, Attended, Displaceable
  <1>3. CASE ReadFrame(k)
    <2>1. /\ cli[k] \in {"handshake", "serve"} /\ toCli[conn[k]] # << >>
          /\ conn[k] \in Conns
          /\ toCli' = [toCli EXCEPT ![conn[k]] = Tail(@)]
          /\ UNCHANGED <<serverVars, owner, faults>>
      BY <1>3 DEF ReadFrame, TypeOK
    <2>2. /\ Head(toCli[conn[k]]) \in Frames
          /\ Tail(toCli[conn[k]]) \in Seq(Frames)
          /\ Greets(Tail(toCli[conn[k]])) => Greets(toCli[conn[k]])
          /\ Head(toCli[conn[k]]) = "hello_ok" => Greets(toCli[conn[k]])
      BY <2>1, TailGreets DEF TypeOK
    <2>3. CASE Head(toCli[conn[k]]) # "hello_ok"
      <3>1. Head(toCli[conn[k]]) \in Codes /\ SessionEnds(k, Head(toCli[conn[k]]))
        BY <1>3, <2>2, <2>3 DEF ReadFrame, Frames
      <3> QED  BY <2>1, <3>1, SessionEndsKeeps
    <2>4. CASE Head(toCli[conn[k]]) = "hello_ok"
      <3>1. cli' = [cli EXCEPT ![k] = "serve"] /\ UNCHANGED <<conn, exit, creds, link>>
        BY <1>3, <2>4 DEF ReadFrame
      <3>2. \A n \in Conns : toCli'[n] \in Seq(Frames) /\ (Greets(toCli'[n]) => Greets(toCli[n]))
        BY <2>1, <2>2 DEF TypeOK
      <3>3. TypeOK'
        <4>1. toCli' \in [Conns -> Seq(Frames)]
          BY <2>1, <2>2 DEF TypeOK
        <4>2. \A j \in Clis : conn[j] # None <=> cli'[j] \in {"handshake", "serve"}
          BY <2>1, <3>1 DEF TypeOK
        <4> QED  BY <2>1, <3>1, <4>1, <4>2 DEF TypeOK, CliStates, serverVars
      <3>4. Authenticated' /\ Displaceable'
        BY <2>1, <3>1 DEF IndInv, Authenticated, Displaceable, serverVars
      <3>5. Attended'
        BY <2>1, <2>2, <2>4, <3>1, <3>2 DEF IndInv, Attended, TypeOK, serverVars
      <3> QED  BY <3>3, <3>4, <3>5 DEF IndInv
    <2> QED  BY <2>3, <2>4
  <1>4. CASE ConnectionLost(k)
    BY <1>4, SessionEndsKeeps DEF ConnectionLost
  <1>5. CASE HandshakeGivesUp(k)
    BY <1>5, SessionEndsKeeps DEF HandshakeGivesUp, Fault
  <1>6. CASE Interrupt(k)
    <2>1. /\ cli' = [cli EXCEPT ![k] = "stopped"]
          /\ exit' = [exit EXCEPT ![k] = "interrupted"]
          /\ conn' = [conn EXCEPT ![k] = None]
          /\ faults' \in 0..MaxFaults
          /\ UNCHANGED <<process, srv, evicting, holder, owner, toCli, creds>>
      BY <1>6 DEF Interrupt, Fault, serverVars
    <2>2. /\ cli' \in [Clis -> CliStates]
          /\ conn' \in [Clis -> Conns \cup {None}]
          /\ exit' \in [Clis -> Codes \cup {"interrupted", None}]
          /\ \A j \in Clis : conn'[j] # None <=> cli'[j] \in {"handshake", "serve"}
          /\ \A j \in Clis : cli'[j] = "serve" => cli[j] = "serve" /\ conn'[j] = conn[j]
      BY <2>1 DEF TypeOK, CliStates
    <2>3. CASE conn[k] = None
      <3>1. UNCHANGED link
        BY <1>6, <2>3 DEF Interrupt
      <3> QED  BY <2>1, <2>2, <3>1 DEF IndInv, TypeOK, Authenticated, Attended, Displaceable
    <2>4. CASE conn[k] # None
      <3>1. conn[k] \in Conns /\ CliCloses(conn[k])
        BY <1>6, <2>4 DEF Interrupt, TypeOK
      <3>2. Released(conn[k])
        BY <2>1, <3>1, CliReleases
      <3> QED  BY <2>1, <2>2, <3>1, <3>2, ReleaseKeeps
    <2> QED  BY <2>3, <2>4
  <1> QED  BY <1>1, <1>2, <1>3, <1>4, <1>5, <1>6 DEF Cli

-----------------------------------------------------------------------------

\* No step of a handler, of the process, the network or a CLI breaks it.
THEOREM NextInv == IndInv /\ [Next]_vars => IndInv'
  <1> SUFFICES ASSUME IndInv, [Next]_vars PROVE IndInv'
    OBVIOUS
  <1>1. CASE \E n \in Conns :
                 \/ Handshake(n)
                 \/ HelloLate(n)
                 \/ Serve(n)
                 \/ PingStart(n)
                 \/ PingAnswered(n)
                 \/ CloseReplaced(n)
                 \/ Cut(n)
    BY <1>1, HandshakeKeeps, ServeKeeps, CloseReplacedKeeps, CutKeeps
  <1>2. CASE \E k \in Clis : Cli(k) \/ HandshakeGivesUp(k) \/ Interrupt(k)
    BY <1>2, CliKeeps
  <1>3. CASE Stop \/ Exit \/ Restart
    BY <1>3, ProcessKeeps
  <1>4. CASE UNCHANGED vars
    BY <1>4 DEF IndInv, TypeOK, Authenticated, Attended, Displaceable, vars, serverVars,
                netVars, cliVars
  <1> QED  BY <1>1, <1>2, <1>3, <1>4 DEF Next

\* The invariant holds in every state of every behaviour.
THEOREM Invariance == Spec => []IndInv
  BY InitInv, NextInv, PTL DEF Spec

\* Types, and a CLI has a connection exactly while it shakes hands or serves.
THEOREM TypeCorrect == Spec => []TypeOK
  <1>1. IndInv => TypeOK
    BY DEF IndInv
  <1> QED  BY <1>1, Invariance, PTL

\* A CLI that believes it is forwarding on a working connection is registered,
\* about to be, or about to be told.
THEOREM NoZombies == Spec => []NoZombieCli
  <1>1. IndInv => NoZombieCli
    <2> SUFFICES ASSUME IndInv, NEW k \in Clis, cli[k] = "serve", link[conn[k]] = "up",
                        holder # conn[k]
                 PROVE  srv[conn[k]] \in {"ready", "ending"} \/ conn[k] \in evicting
      BY DEF NoZombieCli
    <2>1. conn[k] \in Conns
      BY DEF IndInv, TypeOK
    <2>2. srv[conn[k]] \in InSession
      BY DEF IndInv, Attended
    <2> QED  BY <2>1, <2>2 DEF IndInv, Displaceable, InSession
  <1> QED  BY <1>1, Invariance, PTL

\* Only a CLI with the right version and token holds the inbox.
THEOREM HoldersCorrect == Spec => []HolderIsAuthenticated
  <1>1. IndInv => HolderIsAuthenticated
    BY DEF IndInv, TypeOK, Authenticated, Accepted, HolderIsAuthenticated
  <1> QED  BY <1>1, Invariance, PTL
=============================================================================
