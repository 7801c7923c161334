---------------------------- MODULE TcpForwarder ----------------------------
(***************************************************************************)
(* The stream forwarder of src/go_code/tcpProxy/tcpProxy.go: the accept    *)
(* loop tcpServiceProxy, one tcpFwdConnToServ goroutine per accepted       *)
(* connection that dials the target, and the two byte pumps tcpFwdData     *)
(* (lConn -> rConn in its own goroutine, rConn -> lConn in the handler's). *)
(* When the rConn -> lConn pump returns, the handler returns and its       *)
(* deferred calls close rConn and lConn.                                   *)
(*                                                                         *)
(* Bytes are abstracted (module BytePump models them): a pump step reads   *)
(* whatever its peer has sent and writes it on.  Each connection has two   *)
(* sides: "l" (lConn, whose peer is the client) and "r" (rConn, whose peer *)
(* is the connection the target accepted).                                 *)
(***************************************************************************)
EXTENDS Naturals

CONSTANTS
    Conns,          \* client connections made to the listening endpoint
    ExternalClose   \* may something outside the program close the listener?

ASSUME ForwarderAssumption ==
    /\ Conns # {}
    /\ ExternalClose \in BOOLEAN

Sides == {"l", "r"}
Dirs == {"l2r", "r2l"}
Src(d) == IF d = "l2r" THEN "l" ELSE "r"     \* the socket pump d reads
Dst(d) == IF d = "l2r" THEN "r" ELSE "l"     \* the socket pump d writes
DirFrom(s) == IF s = "l" THEN "l2r" ELSE "r2l"

\* listen.Accept() on a closed listener returns a *net.OpError wrapping
\* net.ErrClosed, so the test err == syscall.EINVAL (line 86) is false.
AcceptErrIsEINVAL == FALSE

VARIABLES
    lsn,    \* the listener: "open" or "closed"
    loop,   \* the accept loop goroutine: "run" or "ended"
    hnd,    \* hnd[c]: tcpFwdConnToServ for c: "none", "dial", "relay", "ret"
    sock,   \* sock[c][s]: the proxy's socket on side s is open
    peer,   \* peer[c][s]: the remote end of side s: "none", "open", "closed"
    pend,   \* pend[c][d]: the source of direction d has sent unread bytes
    pump    \* pump[c][d]: tcpFwdData for d: "idle", "read", "write", "done"

vars == <<lsn, loop, hnd, sock, peer, pend, pump>>

TypeOK ==
    /\ lsn \in {"open", "closed"}
    /\ loop \in {"run", "ended"}
    /\ hnd \in [Conns -> {"none", "dial", "relay", "ret"}]
    /\ sock \in [Conns -> [Sides -> BOOLEAN]]
    /\ peer \in [Conns -> [Sides -> {"none", "open", "closed"}]]
    /\ pend \in [Conns -> [Dirs -> BOOLEAN]]
    /\ pump \in [Conns -> [Dirs -> {"idle", "read", "write", "done"}]]

Init ==
    /\ lsn = "open"
    /\ loop = "run"
    /\ hnd = [c \in Conns |-> "none"]
    /\ sock = [c \in Conns |-> [s \in Sides |-> FALSE]]
    /\ peer = [c \in Conns |-> [s \in Sides |-> "none"]]
    /\ pend = [c \in Conns |-> [d \in Dirs |-> FALSE]]
    /\ pump = [c \in Conns |-> [d \in Dirs |-> "idle"]]

-----------------------------------------------------------------------------
(* The environment: clients, the target's connections, and whoever may    *)
(* close the listener.                                                     *)

ClientConnect(c) ==
    /\ lsn = "open"
    /\ peer[c]["l"] = "none"
    /\ peer' = [peer EXCEPT ![c]["l"] = "open"]
    /\ UNCHANGED <<lsn, loop, hnd, sock, pend, pump>>

PeerSend(c, s) ==
    /\ peer[c][s] = "open"
    /\ pend' = [pend EXCEPT ![c][DirFrom(s)] = TRUE]
    /\ UNCHANGED <<lsn, loop, hnd, sock, peer, pump>>

PeerClose(c, s) ==
    /\ peer[c][s] = "open"
    /\ peer' = [peer EXCEPT ![c][s] = "closed"]
    /\ UNCHANGED <<lsn, loop, hnd, sock, pend, pump>>

CloseListener ==
    /\ ExternalClose
    /\ lsn = "open"
    /\ lsn' = "closed"
    /\ UNCHANGED <<loop, hnd, sock, peer, pend, pump>>

-----------------------------------------------------------------------------
(* tcpServiceProxy (lines 80-97)                                           *)

\* Mutant: tcpFwdConnToServ called without go: the loop accepts only once
\* the previous connection's handler has returned.
AcceptSync(c) ==
    /\ loop = "run"
    /\ lsn = "open"
    /\ peer[c]["l"] # "none"
    /\ hnd[c] = "none"
    /\ \A o \in Conns : hnd[o] \notin {"dial", "relay"}
    /\ hnd' = [hnd EXCEPT ![c] = "dial"]
    /\ sock' = [sock EXCEPT ![c]["l"] = TRUE]
    /\ UNCHANGED <<lsn, loop, peer, pend, pump>>

\* conn, err := listen.Accept() succeeds; go tcpFwdConnToServ(conn, ...).
Accept(c) ==
    /\ loop = "run"
    /\ lsn = "open"
    /\ peer[c]["l"] # "none"
    /\ hnd[c] = "none"
    /\ hnd' = [hnd EXCEPT ![c] = "dial"]
    /\ sock' = [sock EXCEPT ![c]["l"] = TRUE]
    /\ UNCHANGED <<lsn, loop, peer, pend, pump>>

\* Accept fails because the listener is closed: break if the error is
\* EINVAL (then the deferred listen.Close()), else log and continue.
AcceptFail ==
    /\ loop = "run"
    /\ lsn = "closed"
    /\ loop' = IF AcceptErrIsEINVAL THEN "ended" ELSE "run"
    /\ UNCHANGED <<lsn, hnd, sock, peer, pend, pump>>

-----------------------------------------------------------------------------
(* tcpFwdConnToServ (lines 56-77)                                          *)

\* ResolveTCPAddr and DialTCP succeed: the target accepts the connection,
\* and the two pumps start.
DialOK(c) ==
    /\ hnd[c] = "dial"
    /\ hnd' = [hnd EXCEPT ![c] = "relay"]
    /\ sock' = [sock EXCEPT ![c]["r"] = TRUE]
    /\ peer' = [peer EXCEPT ![c]["r"] = "open"]
    /\ pump' = [pump EXCEPT ![c] = [d \in Dirs |-> "read"]]
    /\ UNCHANGED <<lsn, loop, pend>>

\* Resolving or dialing the target fails: return; deferred lConn.Close().
DialFail(c) ==
    /\ hnd[c] = "dial"
    /\ hnd' = [hnd EXCEPT ![c] = "ret"]
    /\ sock' = [sock EXCEPT ![c]["l"] = FALSE]
    /\ UNCHANGED <<lsn, loop, peer, pend, pump>>

-----------------------------------------------------------------------------
(* tcpFwdData (lines 27-53), one instance per direction                    *)

\* Mutant: the handler lacks defer lConn.Close(): only rConn is closed.
StopNoLConnClose(c, d) ==
    /\ pump' = [pump EXCEPT ![c][d] = "done"]
    /\ IF d = "r2l"
          THEN /\ hnd' = [hnd EXCEPT ![c] = "ret"]
               /\ sock' = [sock EXCEPT ![c]["r"] = FALSE]
          ELSE UNCHANGED <<hnd, sock>>

\* Pump d returns.  The r2l pump runs in the handler's goroutine, so the
\* handler then returns and its deferred rConn.Close(), lConn.Close() run.
Stop(c, d) ==
    /\ pump' = [pump EXCEPT ![c][d] = "done"]
    /\ IF d = "r2l"
          THEN /\ hnd' = [hnd EXCEPT ![c] = "ret"]
               /\ sock' = [sock EXCEPT ![c] = [s \in Sides |-> FALSE]]
          ELSE UNCHANGED <<hnd, sock>>

\* src.Read returns the bytes the source's peer has sent.
PumpRead(c, d) ==
    /\ pump[c][d] = "read"
    /\ sock[c][Src(d)]
    /\ pend[c][d]
    /\ pend' = [pend EXCEPT ![c][d] = FALSE]
    /\ pump' = [pump EXCEPT ![c][d] = "write"]
    /\ UNCHANGED <<lsn, loop, hnd, sock, peer>>

\* src.Read fails: the socket was closed by the proxy, or the peer closed
\* and everything it sent has been read (EOF).
PumpReadFail(c, d) ==
    /\ pump[c][d] = "read"
    /\ \/ ~sock[c][Src(d)]
       \/ peer[c][Src(d)] = "closed" /\ ~pend[c][d]
    /\ Stop(c, d)
    /\ UNCHANGED <<lsn, loop, peer, pend>>

\* dst.Write succeeds.
PumpWrite(c, d) ==
    /\ pump[c][d] = "write"
    /\ sock[c][Dst(d)]
    /\ peer[c][Dst(d)] # "closed"
    /\ pump' = [pump EXCEPT ![c][d] = "read"]
    /\ UNCHANGED <<lsn, loop, hnd, sock, peer, pend>>

\* dst.Write fails: the socket was closed by the proxy, or the peer has
\* closed (it answers with a reset; the write is taken to fail at once,
\* so no behaviour writes forever into a closed connection).
PumpWriteFail(c, d) ==
    /\ pump[c][d] = "write"
    /\ \/ ~sock[c][Dst(d)]
       \/ peer[c][Dst(d)] = "closed"
    /\ Stop(c, d)
    /\ UNCHANGED <<lsn, loop, peer, pend>>

PumpStep(c, d) ==
    PumpRead(c, d) \/ PumpReadFail(c, d) \/ PumpWrite(c, d) \/ PumpWriteFail(c, d)

-----------------------------------------------------------------------------

Environment ==
    \/ \E c \in Conns : ClientConnect(c)
    \/ \E c \in Conns, s \in Sides : PeerSend(c, s) \/ PeerClose(c, s)
    \/ CloseListener

Proxy ==
    \/ \E c \in Conns : Accept(c) \/ DialOK(c) \/ DialFail(c)
    \/ AcceptFail
    \/ \E c \in Conns, d \in Dirs : PumpStep(c, d)

Next == Environment \/ Proxy

\* Every goroutine of the proxy that can take a step eventually does: the
\* Go scheduler runs every runnable goroutine.  The accept loop's fairness
\* covers both of its steps: after the listener is closed, Accept returns
\* at once with an error, so the loop keeps being scheduled.  Clients, the
\* target and the listener's closer get no fairness: they may stay silent
\* forever.
Fairness ==
    /\ WF_vars((\E c \in Conns : Accept(c)) \/ AcceptFail)
    /\ \A c \in Conns : WF_vars(DialOK(c) \/ DialFail(c))
    /\ \A c \in Conns, d \in Dirs : WF_vars(PumpStep(c, d))

Spec == Init /\ [][Next]_vars /\ Fairness

-----------------------------------------------------------------------------
(* Properties                                                              *)

\* Connection c is fully torn down: both proxy sockets closed and neither
\* pump goroutine still running.
TornDown(c) ==
    /\ ~sock[c]["l"]
    /\ ~sock[c]["r"]
    /\ \A d \in Dirs : pump[c][d] \in {"idle", "done"}

\* Teardown propagation from the target side: once the target closes its
\* end of connection c, the proxy eventually closes both sockets and both
\* pump goroutines end (the lConn -> rConn pump is unblocked by the
\* handler's deferred lConn.Close()).
TeardownOnTargetClose ==
    \A c \in Conns : peer[c]["r"] = "closed" ~> TornDown(c)

\* Fault containment (spec 8): every connection a client makes is
\* eventually accepted and handled unless the listener is closed first,
\* whatever happened to the dials and relays of the other connections.
AcceptProgress ==
    \A c \in Conns :
        peer[c]["l"] = "open" ~> (hnd[c] # "none" \/ lsn = "closed")

\* Teardown propagation from the client side (spec 8): once the client
\* closes its end of connection c, the outbound connection is eventually
\* closed.
TeardownOnClientClose ==
    \A c \in Conns : peer[c]["l"] = "closed" ~> TornDown(c)

\* Spec 4.2: closing the listener ends the accept loop cleanly.
ListenerCloseEndsLoop ==
    lsn = "closed" ~> loop = "ended"
=============================================================================
