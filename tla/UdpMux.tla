------------------------------- MODULE UdpMux -------------------------------
(***************************************************************************)
(* The datagram multiplexer of src/go_code/udpProxy/udpProxy.go: the       *)
(* receive loop udpServiceProxy reads datagrams from the shared socket     *)
(* lConn, keeps one connected socket rConn to the target per client        *)
(* address (client2RConn), forwards each datagram on its client's rConn,   *)
(* and starts per new client a goroutine udpFwdData(rConn, lConn, from)    *)
(* that writes the target's replies back to that client.                   *)
(*                                                                         *)
(* A datagram's payload is abstracted to its sender and a sequence number; *)
(* the target echoes the payload, so a reply names the client whose        *)
(* request caused it.  A connected UDP socket whose datagram reaches a     *)
(* closed target port gets an ICMP port-unreachable: the next Read or      *)
(* Write on that socket fails once with ECONNREFUSED (serr).               *)
(*                                                                         *)
(* The target is the echo server src/go_code/udpServer/udpServer.go, the   *)
(* one the proxy is tested with: a single loop that reads a datagram with  *)
(* ReadFrom and answers it with WriteTo to the address it came from.       *)
(***************************************************************************)
EXTENDS Naturals, FiniteSets

CONSTANTS
    Clients,    \* client addresses sending to the proxy
    MaxSends,   \* datagrams each client sends
    MaxSocks,   \* file descriptors available for outbound sockets
    None

ASSUME MuxAssumption ==
    /\ Clients # {}
    /\ MaxSends \in Nat
    /\ MaxSocks \in Nat
    /\ None \notin Clients
    /\ None \notin Nat        \* None is no socket either

Socks == 1..MaxSocks       \* outbound sockets, in the order they are dialed
NilConn == 0               \* a nil *net.UDPConn
Msgs == [c : Clients, n : 1..MaxSends]

VARIABLES
    sent,       \* sent[a]: datagrams client a has sent
    inbox,      \* datagrams in flight to lConn
    pc,         \* the receive loop: "recv" (in ReadFrom) or "write"
    from,       \* from: sender of the datagram the loop holds
    buf,        \* buf[:nBytes]: the datagram the loop holds
    rConn,      \* rConn: the socket the loop writes it on
    c2r,        \* client2RConn[a]: a's socket, or None
    used,       \* sockets dialed so far
    serr,       \* serr[i]: an ICMP error is pending on socket i
    tgtUp,      \* the target's port is open (its process is running)
    tsrv,       \* the target's loop: "read" (in ReadFrom) or "write"
    tFrom,      \* its from: the proxy socket the datagram came from
    tData,      \* its buf[:size]: the datagram it answers
    tgtIn,      \* datagrams in flight to the target: [s, c, n]
    replies,    \* replies in flight to outbound sockets: [s, c, n]
    rev,        \* rev[i]: udpFwdData on socket i: "none", "read", "write", "done"
    revTo,      \* revTo[i]: its dstAddr, the client it writes back to
    revBuf,     \* revBuf[i]: the reply it holds
    delivered   \* delivered[a]: payloads lConn.WriteTo sent to client a

vars == <<sent, inbox, pc, from, buf, rConn, c2r, used, serr, tgtUp, tsrv,
          tFrom, tData, tgtIn, replies, rev, revTo, revBuf, delivered>>

TypeOK ==
    /\ sent \in [Clients -> 0..MaxSends]
    /\ inbox \subseteq Msgs
    /\ pc \in {"recv", "write"}
    /\ from \in Clients \cup {None}
    /\ buf \in Msgs \cup {None}
    /\ rConn \in Socks \cup {NilConn, None}
    /\ c2r \in [Clients -> Socks \cup {None}]
    /\ used \in 0..MaxSocks
    /\ serr \in [Socks -> BOOLEAN]
    /\ tgtUp \in BOOLEAN
    /\ tsrv \in {"read", "write"}
    /\ tFrom \in Socks \cup {None}
    /\ tData \in Msgs \cup {None}
    /\ tgtIn \subseteq [s : Socks, c : Clients, n : 1..MaxSends]
    /\ replies \subseteq [s : Socks, c : Clients, n : 1..MaxSends]
    /\ rev \in [Socks -> {"none", "read", "write", "done"}]
    /\ revTo \in [Socks -> Clients \cup {None}]
    /\ revBuf \in [Socks -> Msgs \cup {None}]
    /\ delivered \in [Clients -> SUBSET Msgs]

Init ==
    /\ sent = [a \in Clients |-> 0]
    /\ inbox = {}
    /\ pc = "recv"
    /\ from = None
    /\ buf = None
    /\ rConn = None
    /\ c2r = [a \in Clients |-> None]
    /\ used = 0
    /\ serr = [i \in Socks |-> FALSE]
    /\ tgtUp = TRUE
    /\ tsrv = "read"
    /\ tFrom = None
    /\ tData = None
    /\ tgtIn = {}
    /\ replies = {}
    /\ rev = [i \in Socks |-> "none"]
    /\ revTo = [i \in Socks |-> None]
    /\ revBuf = [i \in Socks |-> None]
    /\ delivered = [a \in Clients |-> {}]

-----------------------------------------------------------------------------
(* The environment: clients and the target.                                *)

ClientSend(a) ==
    /\ sent[a] < MaxSends
    /\ sent' = [sent EXCEPT ![a] = @ + 1]
    /\ inbox' = inbox \cup {[c |-> a, n |-> sent[a] + 1]}
    /\ UNCHANGED <<pc, from, buf, rConn, c2r, used, serr, tgtUp, tsrv, tFrom,
                   tData, tgtIn, replies, rev, revTo, revBuf, delivered>>

\* The target's port is closed: the datagram from socket m.s is answered
\* by an ICMP port-unreachable, pending on that socket.
TargetRefuse(m) ==
    /\ ~tgtUp
    /\ tgtIn' = tgtIn \ {m}
    /\ serr' = [serr EXCEPT ![m.s] = TRUE]
    /\ UNCHANGED <<sent, inbox, pc, from, buf, rConn, c2r, used, tgtUp, tsrv,
                   tFrom, tData, replies, rev, revTo, revBuf, delivered>>

\* The target process stops, losing the datagram it holds, or is started
\* again (ResolveUDPAddr and ListenUDP succeed) and enters its loop.
TargetFlip ==
    /\ tgtUp' = ~tgtUp
    /\ tsrv' = "read"
    /\ UNCHANGED <<sent, inbox, pc, from, buf, rConn, c2r, used, serr, tFrom,
                   tData, tgtIn, replies, rev, revTo, revBuf, delivered>>

-----------------------------------------------------------------------------
(* The target: main of udpServer.go (lines 26-42).                         *)

\* Mutant: the reply address is kept from the first datagram, as if from
\* were captured once outside the loop.
TargetReadFirstFrom(m) ==
    /\ tgtUp
    /\ tsrv = "read"
    /\ tgtIn' = tgtIn \ {m}
    /\ tFrom' = IF tFrom = None THEN m.s ELSE tFrom
    /\ tData' = [c |-> m.c, n |-> m.n]
    /\ tsrv' = "write"
    /\ UNCHANGED <<sent, inbox, pc, from, buf, rConn, c2r, used, serr, tgtUp,
                   replies, rev, revTo, revBuf, delivered>>

\* size, from, err := conn.ReadFrom(buf) returns the datagram m, sent by
\* the proxy's socket m.s.
TargetRead(m) ==
    /\ tgtUp
    /\ tsrv = "read"
    /\ tgtIn' = tgtIn \ {m}
    /\ tFrom' = m.s
    /\ tData' = [c |-> m.c, n |-> m.n]
    /\ tsrv' = "write"
    /\ UNCHANGED <<sent, inbox, pc, from, buf, rConn, c2r, used, serr, tgtUp,
                   replies, rev, revTo, revBuf, delivered>>

\* conn.WriteTo(response, from): the reply, which carries the request,
\* goes to the socket the request came from.
TargetWrite ==
    /\ tgtUp
    /\ tsrv = "write"
    /\ replies' = replies \cup {[s |-> tFrom, c |-> tData.c, n |-> tData.n]}
    /\ tsrv' = "read"
    /\ UNCHANGED <<sent, inbox, pc, from, buf, rConn, c2r, used, serr, tgtUp,
                   tFrom, tData, tgtIn, rev, revTo, revBuf, delivered>>

\* conn.WriteTo fails: the error is printed and main returns, closing the
\* target's port.
TargetWriteFail ==
    /\ tgtUp
    /\ tsrv = "write"
    /\ tgtUp' = FALSE
    /\ tsrv' = "read"
    /\ UNCHANGED <<sent, inbox, pc, from, buf, rConn, c2r, used, serr, tFrom,
                   tData, tgtIn, replies, rev, revTo, revBuf, delivered>>

-----------------------------------------------------------------------------
(* udpServiceProxy (lines 68-141)                                          *)

\* Mutant: the new conn is not stored in client2RConn; every datagram of
\* the client dials a new socket and starts another reverse path.
NewSessionNoInsert(m) ==
    /\ used < MaxSocks
    /\ UNCHANGED c2r
    /\ used' = used + 1
    /\ rev' = [rev EXCEPT ![used + 1] = "read"]
    /\ revTo' = [revTo EXCEPT ![used + 1] = m.c]
    /\ rConn' = used + 1
    /\ pc' = "write"

\* First datagram from a client: rConn, err = net.DialUDP(...) succeeds;
\* client2RConn[from.String()] = rConn; go udpFwdData(rConn, lConn, from).
NewSession(m) ==
    /\ used < MaxSocks
    /\ c2r' = [c2r EXCEPT ![m.c] = used + 1]
    /\ used' = used + 1
    /\ rev' = [rev EXCEPT ![used + 1] = "read"]
    /\ revTo' = [revTo EXCEPT ![used + 1] = m.c]
    /\ rConn' = used + 1
    /\ pc' = "write"

\* Mutant: client2RConn[from] = rConn is done before the dial error is
\* checked, so the map keeps a nil conn for the client.
DialFailedStoresNil(m) ==
    /\ rConn' = NilConn
    /\ pc' = "recv"
    /\ c2r' = [c2r EXCEPT ![m.c] = NilConn]
    /\ UNCHANGED <<used, rev, revTo>>

\* net.DialUDP fails (always when no descriptor is left): rConn = nil;
\* log and continue, dropping this datagram.
DialFailed(m) ==
    /\ rConn' = NilConn
    /\ pc' = "recv"
    /\ UNCHANGED <<c2r, used, rev, revTo>>

\* nBytes, from, err = lConn.ReadFrom(buf), then the client2RConn lookup.
Recv(m) ==
    /\ pc = "recv"
    /\ m \in inbox
    /\ inbox' = inbox \ {m}
    /\ from' = m.c
    /\ buf' = m
    /\ IF c2r[m.c] # None
          THEN /\ rConn' = c2r[m.c]
               /\ pc' = "write"
               /\ UNCHANGED <<c2r, used, rev, revTo>>
          ELSE NewSession(m) \/ DialFailed(m)
    /\ UNCHANGED <<sent, serr, tgtUp, tsrv, tFrom, tData, tgtIn, replies,
                   revBuf, delivered>>

\* n, err = rConn.Write(data) succeeds: the datagram leaves for the target.
Forward ==
    /\ pc = "write"
    /\ rConn \in Socks
    /\ ~serr[rConn]
    /\ tgtIn' = tgtIn \cup {[s |-> rConn, c |-> buf.c, n |-> buf.n]}
    /\ pc' = "recv"
    /\ UNCHANGED <<sent, inbox, from, buf, rConn, c2r, used, serr, tgtUp,
                   tsrv, tFrom, tData, replies, rev, revTo, revBuf, delivered>>

\* rConn.Write fails (a pending ICMP error, which the failure consumes, or
\* EINVAL on a nil conn): log and continue, i.e. retry the same write.
ForwardFail ==
    /\ pc = "write"
    /\ IF rConn = NilConn THEN TRUE ELSE serr[rConn]
    /\ serr' = IF rConn = NilConn THEN serr ELSE [serr EXCEPT ![rConn] = FALSE]
    /\ UNCHANGED <<sent, inbox, pc, from, buf, rConn, c2r, used, tgtUp, tsrv,
                   tFrom, tData, tgtIn, replies, rev, revTo, revBuf, delivered>>

-----------------------------------------------------------------------------
(* udpFwdData(rConn, lConn, from) (lines 29-65), one per session           *)

\* nBytes, err = src.Read(buf) returns a reply from the target.
RevRead(i) ==
    /\ rev[i] = "read"
    /\ \E r \in replies :
          /\ r.s = i
          /\ replies' = replies \ {r}
          /\ revBuf' = [revBuf EXCEPT ![i] = [c |-> r.c, n |-> r.n]]
    /\ rev' = [rev EXCEPT ![i] = "write"]
    /\ UNCHANGED <<sent, inbox, pc, from, buf, rConn, c2r, used, serr, tgtUp,
                   tsrv, tFrom, tData, tgtIn, revTo, delivered>>

\* src.Read fails with the pending ICMP error: not EINVAL, so log and
\* return.  The session stays in client2RConn.
RevReadFail(i) ==
    /\ rev[i] = "read"
    /\ serr[i]
    /\ serr' = [serr EXCEPT ![i] = FALSE]
    /\ rev' = [rev EXCEPT ![i] = "done"]
    /\ UNCHANGED <<sent, inbox, pc, from, buf, rConn, c2r, used, tgtUp, tsrv,
                   tFrom, tData, tgtIn, replies, revTo, revBuf, delivered>>

\* Mutant: the reverse path is a closure reading the loop variable from,
\* so it writes to whoever sent the loop's latest datagram.
RevWriteToFrom(i) ==
    /\ rev[i] = "write"
    /\ delivered' = [delivered EXCEPT ![from] = @ \cup {revBuf[i]}]
    /\ rev' = [rev EXCEPT ![i] = "read"]
    /\ UNCHANGED <<sent, inbox, pc, from, buf, rConn, c2r, used, serr, tgtUp,
                   tsrv, tFrom, tData, tgtIn, replies, revTo, revBuf>>

\* dst.WriteTo(data, dstAddr) on lConn sends the reply to dstAddr.
RevWrite(i) ==
    /\ rev[i] = "write"
    /\ delivered' = [delivered EXCEPT ![revTo[i]] = @ \cup {revBuf[i]}]
    /\ rev' = [rev EXCEPT ![i] = "read"]
    /\ UNCHANGED <<sent, inbox, pc, from, buf, rConn, c2r, used, serr, tgtUp,
                   tsrv, tFrom, tData, tgtIn, replies, revTo, revBuf>>

RevStep(i) == RevRead(i) \/ RevReadFail(i) \/ RevWrite(i)

-----------------------------------------------------------------------------

Next ==
    \/ \E a \in Clients : ClientSend(a)
    \/ \E m \in tgtIn : TargetRefuse(m) \/ TargetRead(m)
    \/ TargetFlip
    \/ TargetWrite \/ TargetWriteFail
    \/ \E m \in Msgs : Recv(m)
    \/ Forward
    \/ ForwardFail
    \/ \E i \in Socks : RevStep(i)

\* The receive loop and every reverse-path goroutine run when they can;
\* clients and the target get no fairness.
Fairness ==
    /\ WF_vars(\E m \in Msgs : Recv(m))
    /\ WF_vars(Forward \/ ForwardFail)
    /\ \A i \in Socks : WF_vars(RevStep(i))

Spec == Init /\ [][Next]_vars /\ Fairness

-----------------------------------------------------------------------------
(* Properties                                                              *)

\* Session isolation (spec 8): every reply the proxy writes back to client
\* a answers a datagram a sent, never one of another client, however the
\* receive loop has moved on to other senders meanwhile.
SessionIsolation ==
    \A a \in Clients : \A r \in delivered[a] : r.c = a

\* One session per client (spec 3): at most one outbound socket (and one
\* reverse-path goroutine) is ever dialed for a client address.
OneSessionPerClient ==
    \A a \in Clients : Cardinality({i \in 1..used : revTo[i] = a}) <= 1

\* The receive loop never gets stuck on a datagram: whatever errors its
\* writes meet, it eventually returns to reading lConn, so one client's
\* failures do not starve the others (spec 4.4).
ForwardProgress ==
    pc = "write" ~> pc = "recv"

\* Spec 4.4: an I/O error other than a closed socket is logged and the loop
\* goes on, so every client with a session keeps a running reverse path.
SessionHasReversePath ==
    \A a \in Clients : c2r[a] \in Socks => rev[c2r[a]] \in {"read", "write"}
=============================================================================
