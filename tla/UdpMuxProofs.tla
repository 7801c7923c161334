---------------------------- MODULE UdpMuxProofs ----------------------------
(***************************************************************************)
(* Proofs about the datagram multiplexer udpServiceProxy / udpFwdData      *)
(* (module UdpMux) for every set of clients, number of datagrams and       *)
(* number of descriptors.                                                  *)
(***************************************************************************)
EXTENDS UdpMux, FiniteSetTheorems, TLAPS

(***************************************************************************)
(* The inductive invariant.  Session isolation is about what reaches a     *)
(* client, but what reaches it was decided several steps earlier, when the *)
(* receive loop chose the socket a datagram goes out on.  MuxInv follows a *)
(* payload through the proxy: the session table client2RConn and the       *)
(* reverse paths' dstAddr (revTo) are inverse to each other on the sockets *)
(* dialed so far, and the datagram the loop holds, the datagrams in flight *)
(* to and from the target, the one the target holds and the reply a       *)
(* reverse path holds all belong to the client of the socket they travel  *)
(* on.  Sockets not yet dialed have no client, so dialing one cannot      *)
(* relabel a payload already in flight.                                    *)
(***************************************************************************)
\* Sockets not dialed yet have no reverse path.
Undialed == \A i \in Socks : i > used => revTo[i] = None

\* client2RConn and the reverse paths' dstAddr are inverse on 1..used.
TableInverse ==
    /\ \A i \in 1..used : revTo[i] \in Clients /\ c2r[revTo[i]] = i
    /\ \A a \in Clients : c2r[a] \in Socks => c2r[a] <= used /\ revTo[c2r[a]] = a

\* The datagram the receive loop holds goes out on its sender's socket.
LoopOwned ==
    pc = "write" => buf \in Msgs /\ (rConn \in Socks => buf.c = revTo[rConn])

\* Datagrams to and from the target, and the one it holds, belong to the
\* client of the proxy socket they travel on.
TargetOwned ==
    /\ \A m \in tgtIn : m.c = revTo[m.s]
    /\ tsrv = "write" => tFrom \in Socks /\ tData \in Msgs
                        /\ tData.c = revTo[tFrom]
    /\ \A r \in replies : r.c = revTo[r.s]

\* The reply a reverse path holds belongs to its dstAddr.
RevOwned ==
    \A i \in Socks : rev[i] = "write" =>
                        revBuf[i] \in Msgs /\ revBuf[i].c = revTo[i]

MuxInv ==
    /\ TypeOK
    /\ Undialed
    /\ TableInverse
    /\ LoopOwned
    /\ TargetOwned
    /\ RevOwned
    /\ SessionIsolation

USE MuxAssumption

LEMMA InitMuxInv == Init => MuxInv
BY DEF Init, MuxInv, TypeOK, Undialed, TableInverse, LoopOwned, TargetOwned,
       RevOwned, SessionIsolation, Socks, Msgs, NilConn

\* One step of the proxy, its target or a client keeps MuxInv.
LEMMA NextMuxInv == MuxInv /\ [Next]_vars => MuxInv'
<1> SUFFICES ASSUME MuxInv, [Next]_vars PROVE MuxInv'
  OBVIOUS
<1> USE DEF MuxInv, TypeOK, Undialed, TableInverse, LoopOwned, TargetOwned,
           RevOwned, SessionIsolation, Socks, Msgs, NilConn
<1>1. ASSUME NEW a \in Clients, ClientSend(a) PROVE MuxInv'
  BY <1>1 DEF ClientSend
<1>2. ASSUME NEW m \in tgtIn, TargetRefuse(m) PROVE MuxInv'
  BY <1>2 DEF TargetRefuse
<1>3. ASSUME NEW m \in tgtIn, TargetRead(m) PROVE MuxInv'
  BY <1>3 DEF TargetRead
<1>4. CASE TargetFlip
  BY <1>4 DEF TargetFlip
<1>5. CASE TargetWrite
  BY <1>5 DEF TargetWrite
<1>6. CASE TargetWriteFail
  BY <1>6 DEF TargetWriteFail
<1>7. ASSUME NEW m \in Msgs, Recv(m) PROVE MuxInv'
  <2>1. CASE c2r[m.c] # None
    <3>1. /\ m \in inbox /\ inbox' = inbox \ {m} /\ from' = m.c /\ buf' = m
          /\ rConn' = c2r[m.c] /\ pc' = "write"
          /\ UNCHANGED <<c2r, used, rev, revTo, sent, serr, tgtUp, tsrv, tFrom,
                         tData, tgtIn, replies, revBuf, delivered>>
      BY <1>7, <2>1 DEF Recv
    \* The lookup hit returns a dialed socket whose dstAddr is the sender.
    <3>2. c2r[m.c] \in 1..used /\ revTo[c2r[m.c]] = m.c
      BY <2>1
    <3>3. TypeOK'
      BY <3>1, <3>2
    <3>4. LoopOwned'
      BY <3>1, <3>2
    <3>5. QED
      BY <3>1, <3>3, <3>4
  <2>2. CASE c2r[m.c] = None /\ NewSession(m)
    <3> DEFINE j == used + 1
    <3>1. /\ j \in Socks /\ used' = j /\ revTo[j] = None
          /\ c2r' = [c2r EXCEPT ![m.c] = j]
          /\ revTo' = [revTo EXCEPT ![j] = m.c]
          /\ rev' = [rev EXCEPT ![j] = "read"]
          /\ rConn' = j /\ pc' = "write" /\ buf' = m
          /\ UNCHANGED <<tgtIn, tsrv, tFrom, tData, replies, revBuf, delivered>>
      BY <1>7, <2>2 DEF Recv, NewSession
    <3>2. \A i \in 1..used : revTo[i] # m.c
      BY <2>2
    \* Every socket a payload is on has been dialed, so is not j.
    <3>3. \A i \in Socks : revTo[i] \in Clients => i # j /\ revTo'[i] = revTo[i]
      BY <3>1
    <3>4. TypeOK'
      BY <1>7, <3>1 DEF Recv
    <3>5. Undialed'
      BY <3>1
    <3>6. TableInverse'
      BY <3>1, <3>2
    <3>7. LoopOwned'
      BY <3>1
    <3>8. TargetOwned'
      BY <3>1, <3>3
    <3>9. RevOwned'
      BY <3>1, <3>3
    <3>10. QED
      BY <3>1, <3>4, <3>5, <3>6, <3>7, <3>8, <3>9
  <2>3. CASE c2r[m.c] = None /\ DialFailed(m)
    BY <1>7, <2>3 DEF Recv, DialFailed
  <2>4. QED
    BY <1>7, <2>1, <2>2, <2>3 DEF Recv
<1>8. CASE Forward
  BY <1>8 DEF Forward
<1>9. CASE ForwardFail
  BY <1>9 DEF ForwardFail
<1>10. ASSUME NEW i \in Socks, RevRead(i) PROVE MuxInv'
  <2>1. PICK r \in replies : /\ r.s = i
                             /\ replies' = replies \ {r}
                             /\ revBuf' = [revBuf EXCEPT ![i] = [c |-> r.c, n |-> r.n]]
    BY <1>10 DEF RevRead
  <2>2. /\ rev' = [rev EXCEPT ![i] = "write"]
        /\ UNCHANGED <<tgtIn, tsrv, tFrom, tData, revTo, delivered, used, c2r,
                       pc, buf, rConn>>
    BY <1>10 DEF RevRead
  <2>3. r \in [s : Socks, c : Clients, n : 1..MaxSends] /\ r.c = revTo[i]
    BY <2>1
  <2>4. TypeOK'
    BY <1>10, <2>1, <2>3 DEF RevRead
  <2>5. TargetOwned'
    BY <2>1, <2>2
  <2>6. RevOwned'
    BY <2>1, <2>2, <2>3
  <2>7. QED
    BY <2>2, <2>4, <2>5, <2>6
<1>11. ASSUME NEW i \in Socks, RevReadFail(i) PROVE MuxInv'
  <2>1. /\ serr' = [serr EXCEPT ![i] = FALSE]
        /\ rev' = [rev EXCEPT ![i] = "done"]
        /\ UNCHANGED <<sent, inbox, pc, from, buf, rConn, c2r, used, tgtUp, tsrv,
                       tFrom, tData, tgtIn, replies, revTo, revBuf, delivered>>
    BY <1>11 DEF RevReadFail
  <2>2. TypeOK'
    BY <2>1
  <2>3. RevOwned'
    BY <2>1
  <2>4. QED
    BY <2>1, <2>2, <2>3
<1>12. ASSUME NEW i \in Socks, RevWrite(i) PROVE MuxInv'
  BY <1>12 DEF RevWrite
<1>13. CASE UNCHANGED vars
  BY <1>13 DEF vars
<1>14. QED
  BY <1>1, <1>2, <1>3, <1>4, <1>5, <1>6, <1>7, <1>8, <1>9, <1>10, <1>11,
     <1>12, <1>13 DEF Next, RevStep

LEMMA SpecMuxInv == Spec => []MuxInv
BY InitMuxInv, NextMuxInv, PTL DEF Spec

\* Type correctness of the proxy, its target and its clients for every set
\* of clients, number of datagrams and number of descriptors: in particular
\* the socket counter never passes MaxSocks and every client2RConn entry
\* names a dialed socket or None.
THEOREM MuxTypeCorrect == Spec => []TypeOK
BY SpecMuxInv, PTL DEF MuxInv

\* Session isolation (spec 8), for every set of clients, number of
\* datagrams and number of descriptors: a client only ever receives
\* replies to its own datagrams, whatever the interleaving of the receive
\* loop, the reverse paths and the target's loop, and across target stops.
THEOREM Isolation == Spec => []SessionIsolation
BY SpecMuxInv, PTL DEF MuxInv

\* The sockets whose reverse path writes to client a are at most the one
\* client2RConn holds for a.
LEMMA SessionsOfClient ==
    ASSUME MuxInv, NEW a \in Clients
    PROVE  {i \in 1..used : revTo[i] = a} \subseteq {c2r[a]}
BY DEF MuxInv, TableInverse

\* One session per client (spec 3), for every instance: the receive loop
\* never dials a second outbound socket for a client address.
THEOREM OneSession == Spec => []OneSessionPerClient
<1>1. MuxInv => OneSessionPerClient
  <2> SUFFICES ASSUME MuxInv, NEW a \in Clients
               PROVE  Cardinality({i \in 1..used : revTo[i] = a}) <= 1
    BY DEF OneSessionPerClient
  <2>1. Cardinality({c2r[a]}) = 1
    BY FS_Singleton
  <2>2. IsFiniteSet({c2r[a]})
    BY FS_Singleton
  <2>3. QED
    BY <2>1, <2>2, SessionsOfClient, FS_Subset
<1>2. QED
  BY <1>1, SpecMuxInv, PTL
====
