--------------------------- MODULE RegistryProofs ---------------------------
(***************************************************************************)
(* Proofs about the forwarder registry serv2Fwd (module Registry) for      *)
(* every set of targets and ports and every number of calls, when one      *)
(* goroutine calls openXProxy, as main of both proxies does.  With two     *)
(* callers the lookup-then-insert race breaks OneListenerPerKey (run       *)
(* registry_race), so the single caller is a hypothesis of every theorem. *)
(***************************************************************************)
EXTENDS Registry, FiniteSetTheorems, TLAPS

\* One goroutine calls openXProxy.
SingleCaller == \E c : Callers = {c}

(***************************************************************************)
(* The inductive invariant.  None of the registry properties is inductive  *)
(* alone: they say nothing of a call between its lookup and its insert.    *)
(* RegInv adds that a call in flight looked up a key that has no entry,    *)
(* and that once it has bound, its port is owned by that key and has no    *)
(* running forwarder; that every bound port is either its owner's entry   *)
(* or the port of the call in flight; and that a port with no owner has no *)
(* forwarder starting or serving on it.                                    *)
(***************************************************************************)
InFlight ==
    \A p \in Callers :
        /\ pc[p] # "idle" => key[p] \in Targets /\ serv2Fwd[key[p]] = None
        /\ pc[p] = "bound" => /\ port[p] \in Ports
                              /\ owner[port[p]] = key[p]
                              /\ worker[port[p]] \in {"none", "ended"}

\* Every owned port is its owner's entry, or the call in flight's port.
OwnedIsEntry ==
    \A q \in Ports :
        owner[q] # None =>
            \/ serv2Fwd[owner[q]] = q
            \/ \E p \in Callers : pc[p] = "bound" /\ port[p] = q

\* No forwarder runs on a port with no owner.
FreeIdle ==
    \A q \in Ports : owner[q] = None => worker[q] \in {"none", "ended"}

RegInv ==
    /\ TypeOK
    /\ InFlight
    /\ OwnedIsEntry
    /\ FreeIdle
    /\ ReturnedIsEntry

USE RegistryAssumption

-----------------------------------------------------------------------------
(* Type correctness, for any number of callers.                           *)

\* TypeOK with what a call in flight holds.
TypeInv ==
    /\ TypeOK
    /\ \A p \in Callers :
          /\ pc[p] # "idle" => key[p] \in Targets
          /\ pc[p] = "bound" => port[p] \in Ports

LEMMA TypeInvStep == TypeInv /\ [Next]_vars => TypeInv'
<1> SUFFICES ASSUME TypeInv, [Next]_vars PROVE TypeInv'
  OBVIOUS
<1> USE DEF TypeInv, TypeOK
<1>1. ASSUME NEW p \in Callers, NEW t \in Targets, Lookup(p, t) PROVE TypeInv'
  BY <1>1 DEF Lookup
<1>2. ASSUME NEW p \in Callers, Bind(p) PROVE TypeInv'
  BY <1>2 DEF Bind, FreePorts
<1>3. ASSUME NEW p \in Callers, BindFail(p) PROVE TypeInv'
  BY <1>3 DEF BindFail
<1>4. ASSUME NEW p \in Callers, Insert(p) PROVE TypeInv'
  <2>1. key[p] \in Targets /\ port[p] \in Ports
    BY <1>4 DEF Insert
  <2>2. [t |-> key[p], a |-> port[p]] \in [t : Targets, a : Ports]
    BY <2>1
  <2>3. serv2Fwd' \in [Targets -> Ports \cup {None}]
    BY <1>4, <2>1 DEF Insert
  <2>4. ret' \in [Callers -> [t : Targets, a : Ports] \cup {None}]
    BY <1>4, <2>2 DEF Insert
  <2>5. QED
    BY <1>4, <2>3, <2>4 DEF Insert
<1>5. ASSUME NEW q \in Ports, WorkerStart(q) PROVE TypeInv'
  BY <1>5 DEF WorkerStart
<1>6. CASE UNCHANGED vars
  BY <1>6 DEF vars
<1>7. QED
  BY <1>1, <1>2, <1>3, <1>4, <1>5, <1>6 DEF Next

\* Type correctness of the registry, however many goroutines call
\* openXProxy concurrently: every map and every caller's state keeps its
\* type, in particular the map never stores a port that was not bound.
THEOREM RegistryTypeCorrect == Spec => []TypeOK
<1>1. Init => TypeInv
  BY DEF Init, TypeInv, TypeOK
<1>2. QED
  BY <1>1, TypeInvStep, PTL DEF Spec, TypeInv

-----------------------------------------------------------------------------
(* The registry with one caller.                                           *)

LEMMA InitRegInv == Init => RegInv
BY DEF Init, RegInv, TypeOK, InFlight, OwnedIsEntry, FreeIdle, ReturnedIsEntry

\* One step of the single caller or of a forwarder goroutine keeps RegInv.
LEMMA NextRegInv ==
    ASSUME SingleCaller, RegInv, [Next]_vars
    PROVE  RegInv'
<1>0. PICK c : Callers = {c}
  BY DEF SingleCaller
<1> USE DEF RegInv, TypeOK, InFlight, OwnedIsEntry, FreeIdle, ReturnedIsEntry
<1>1. ASSUME NEW p \in Callers, NEW t \in Targets, Lookup(p, t) PROVE RegInv'
  <2>1. CASE serv2Fwd[t] # None
    BY <1>0, <1>1, <2>1 DEF Lookup
  <2>2. CASE serv2Fwd[t] = None
    BY <1>0, <1>1, <2>2 DEF Lookup
  <2>3. QED
    BY <2>1, <2>2
<1>2. ASSUME NEW p \in Callers, Bind(p) PROVE RegInv'
  <2>1. PICK q \in FreePorts : /\ owner' = [owner EXCEPT ![q] = key[p]]
                              /\ port' = [port EXCEPT ![p] = q]
    BY <1>2 DEF Bind
  <2>2. q \in Ports /\ owner[q] = None /\ key[p] \in Targets
    BY <1>2, <2>1 DEF Bind, FreePorts
  <2>3. QED
    BY <1>0, <1>2, <2>1, <2>2 DEF Bind
<1>3. ASSUME NEW p \in Callers, BindFail(p) PROVE RegInv'
  BY <1>0, <1>3 DEF BindFail
<1>4. ASSUME NEW p \in Callers, Insert(p) PROVE RegInv'
  <2>1. /\ key[p] \in Targets /\ port[p] \in Ports
        /\ serv2Fwd[key[p]] = None /\ owner[port[p]] = key[p]
    BY <1>4 DEF Insert
  <2>2. TypeOK'
    BY <1>4, <2>1 DEF Insert
  <2>3. InFlight'
    BY <1>0, <1>4 DEF Insert
  <2>4. OwnedIsEntry'
    BY <1>0, <1>4, <2>1 DEF Insert
  <2>5. FreeIdle'
    BY <1>4, <2>1 DEF Insert
  <2>6. ReturnedIsEntry'
    BY <1>0, <1>4, <2>1 DEF Insert
  <2>7. QED
    BY <2>2, <2>3, <2>4, <2>5, <2>6
<1>5. ASSUME NEW q \in Ports, WorkerStart(q) PROVE RegInv'
  BY <1>0, <1>5 DEF WorkerStart
<1>6. CASE UNCHANGED vars
  BY <1>6 DEF vars
<1>7. QED
  BY <1>1, <1>2, <1>3, <1>4, <1>5, <1>6 DEF Next

LEMMA SpecRegInv ==
    ASSUME SingleCaller
    PROVE  Spec => []RegInv
BY InitRegInv, NextRegInv, PTL DEF Spec

\* Idempotence (spec 8) with one caller: the address any call returned for
\* a target is still that target's entry in serv2Fwd, for every set of
\* targets, ports and number of calls.
THEOREM ReturnsEntry ==
    ASSUME SingleCaller
    PROVE  Spec => []ReturnedIsEntry
BY SpecRegInv, PTL DEF RegInv

\* The ports bound for t are at most its entry, or, while t has none, the
\* port of the call in flight.
LEMMA OwnedPorts ==
    ASSUME RegInv, NEW c, Callers = {c}, NEW t \in Targets
    PROVE  {q \in Ports : owner[q] = t}
             \subseteq {IF serv2Fwd[t] # None THEN serv2Fwd[t] ELSE port[c]}
BY DEF RegInv, TypeOK, InFlight, OwnedIsEntry

\* At most one listener per key (spec 3, 4.1) when one goroutine calls
\* openXProxy: the lookup-then-insert sequence never binds a second port
\* for a target, for any number of targets, ports and calls.
THEOREM OneListener ==
    ASSUME SingleCaller
    PROVE  Spec => []OneListenerPerKey
<1>1. ASSUME RegInv PROVE OneListenerPerKey
  <2>1. PICK c : Callers = {c}
    BY DEF SingleCaller
  <2> SUFFICES ASSUME NEW t \in Targets
               PROVE  Cardinality({q \in Ports : owner[q] = t}) <= 1
    BY DEF OneListenerPerKey
  <2> DEFINE e == IF serv2Fwd[t] # None THEN serv2Fwd[t] ELSE port[c]
  <2>2. IsFiniteSet({e}) /\ Cardinality({e}) = 1
    BY FS_Singleton
  <2>3. QED
    BY <1>1, <2>1, <2>2, OwnedPorts, FS_Subset
<1>2. QED
  BY <1>1, SpecRegInv, PTL

\* The step form of ListenAddrStable: an existing entry keeps its address.
AddrKept == \A t \in Targets : serv2Fwd[t] # None => serv2Fwd'[t] = serv2Fwd[t]

LEMMA AddrKeptStep ==
    ASSUME SingleCaller, RegInv, [Next]_vars
    PROVE  [AddrKept]_vars
<1> USE DEF RegInv, TypeOK, InFlight, AddrKept
<1>1. ASSUME NEW p \in Callers, Insert(p) PROVE AddrKept
  BY <1>1 DEF Insert
<1>2. QED
  BY <1>1 DEF Next, Lookup, Bind, BindFail, WorkerStart, vars

\* An entry's listen address never changes once assigned (spec 3), when
\* one goroutine calls openXProxy: the insert only ever fills a key the
\* same call found empty.
THEOREM AddrStable ==
    ASSUME SingleCaller
    PROVE  Spec => ListenAddrStable
BY SpecRegInv, AddrKeptStep, PTL DEF Spec, ListenAddrStable, AddrKept

\* No forwarder goroutine gives up its listener on its own: the stream
\* proxy's never does, the datagram proxy's only for a target that does
\* not resolve.
KeepsListeners == Transport = "tcp" \/ BadTargets = {}

LEMMA EntryLiveStep ==
    ASSUME SingleCaller, KeepsListeners, RegInv, EntryLive, [Next]_vars
    PROVE  EntryLive'
<1> USE DEF RegInv, TypeOK, InFlight, EntryLive
<1>1. ASSUME NEW p \in Callers, NEW t \in Targets, Lookup(p, t) PROVE EntryLive'
  BY <1>1 DEF Lookup
<1>2. ASSUME NEW p \in Callers, Bind(p) PROVE EntryLive'
  BY <1>2 DEF Bind, FreePorts
<1>3. ASSUME NEW p \in Callers, BindFail(p) PROVE EntryLive'
  BY <1>3 DEF BindFail
<1>4. ASSUME NEW p \in Callers, Insert(p) PROVE EntryLive'
  BY <1>4 DEF Insert
<1>5. ASSUME NEW q \in Ports, WorkerStart(q) PROVE EntryLive'
  BY <1>5 DEF WorkerStart, KeepsListeners
<1>6. CASE UNCHANGED vars
  BY <1>6 DEF vars
<1>7. QED
  BY <1>1, <1>2, <1>3, <1>4, <1>5, <1>6 DEF Next

\* Every entry names a listener that is bound for its target and served
\* (spec 4.1), for a single caller and a forwarder that keeps its
\* listener: always for the stream proxy, and for the datagram proxy when
\* every target resolves (run registry_udp_bad_target shows the other case).
THEOREM Live ==
    ASSUME SingleCaller, KeepsListeners
    PROVE  Spec => []EntryLive
<1>1. Init => EntryLive
  BY DEF Init, EntryLive
<1>2. QED
  BY <1>1, InitRegInv, NextRegInv, EntryLiveStep, PTL DEF Spec
====
