------------------------------ MODULE Registry ------------------------------
(***************************************************************************)
(* The forwarder registry serv2Fwd of src/go_code/tcpProxy/tcpProxy.go and *)
(* src/go_code/udpProxy/udpProxy.go: openTCPProxy / openUDPProxy look the  *)
(* key Transport://target up in a package-level map, and on a miss bind a  *)
(* listening socket on an ephemeral port of ctrlHost, store the entry and  *)
(* start the forwarder goroutine.  Each program has its own map and one    *)
(* transport; the module is instantiated once per program (Transport).     *)
(*                                                                         *)
(* The map is accessed without a lock.  Each caller's lookup and insert    *)
(* are separate steps, so calls from several goroutines interleave.        *)
(***************************************************************************)
EXTENDS Naturals, FiniteSets

CONSTANTS
    Transport,    \* "tcp" (openTCPProxy) or "udp" (openUDPProxy)
    Targets,      \* target addresses (serviceAddr) callers ask for
    BadTargets,   \* the targets that do not resolve as host:port
    Ports,        \* the ephemeral ports the OS may hand out on ctrlHost
    Callers,      \* goroutines calling openXProxy
    MaxCalls,     \* bound on the calls each caller makes
    None          \* no entry / no port / no result

ASSUME RegistryAssumption ==
    /\ Transport \in {"tcp", "udp"}
    /\ BadTargets \subseteq Targets
    /\ IsFiniteSet(Ports)
    /\ Callers # {}
    /\ MaxCalls \in Nat
    /\ None \notin Targets \cup Ports

VARIABLES
    serv2Fwd,  \* serv2Fwd[t]: ListenAddr of the entry for target t, or None
    owner,     \* owner[q]: the target whose listener is bound to port q
    worker,    \* worker[q]: forwarder goroutine on port q: "none", "start",
               \* "serve", "ended"
    pc,        \* pc[p]: "idle", "miss" (lookup found nothing), "bound"
    key,       \* key[p]: the target of p's current call
    port,      \* port[p]: the port p bound
    ret,       \* ret[p]: [t |-> target, a |-> port] p last returned, or None
    calls      \* calls[p]: calls p has made

vars == <<serv2Fwd, owner, worker, pc, key, port, ret, calls>>

TypeOK ==
    /\ serv2Fwd \in [Targets -> Ports \cup {None}]
    /\ owner \in [Ports -> Targets \cup {None}]
    /\ worker \in [Ports -> {"none", "start", "serve", "ended"}]
    /\ pc \in [Callers -> {"idle", "miss", "bound"}]
    /\ key \in [Callers -> Targets \cup {None}]
    /\ port \in [Callers -> Ports \cup {None}]
    /\ ret \in [Callers -> [t : Targets, a : Ports] \cup {None}]
    /\ calls \in [Callers -> 0..MaxCalls]

Init ==
    /\ serv2Fwd = [t \in Targets |-> None]
    /\ owner = [q \in Ports |-> None]
    /\ worker = [q \in Ports |-> "none"]
    /\ pc = [p \in Callers |-> "idle"]
    /\ key = [p \in Callers |-> None]
    /\ port = [p \in Callers |-> None]
    /\ ret = [p \in Callers |-> None]
    /\ calls = [p \in Callers |-> 0]

FreePorts == {q \in Ports : owner[q] = None}

-----------------------------------------------------------------------------
(* openXProxy(serviceAddr)                                                 *)

\* Mutant: the exists test is dropped; every call binds a new listener.
LookupNoCheck(p, t) ==
    /\ pc[p] = "idle"
    /\ calls[p] < MaxCalls
    /\ calls' = [calls EXCEPT ![p] = @ + 1]
    /\ key' = [key EXCEPT ![p] = t]
    /\ pc' = [pc EXCEPT ![p] = "miss"]
    /\ UNCHANGED <<serv2Fwd, owner, worker, port, ret>>

\* serviceKey := Transport + "://" + t; _, exists := serv2Fwd[serviceKey].
\* On a hit, return serv2Fwd[serviceKey].ListenAddr.
Lookup(p, t) ==
    /\ pc[p] = "idle"
    /\ calls[p] < MaxCalls
    /\ calls' = [calls EXCEPT ![p] = @ + 1]
    /\ key' = [key EXCEPT ![p] = t]
    /\ IF serv2Fwd[t] # None
          THEN /\ ret' = [ret EXCEPT ![p] = [t |-> t, a |-> serv2Fwd[t]]]
               /\ UNCHANGED pc
          ELSE /\ pc' = [pc EXCEPT ![p] = "miss"]
               /\ UNCHANGED ret
    /\ UNCHANGED <<serv2Fwd, owner, worker, port>>

\* net.Listen / net.ListenUDP on ctrlHost+":" binds a free ephemeral port.
Bind(p) ==
    /\ pc[p] = "miss"
    /\ \E q \in FreePorts :
          /\ owner' = [owner EXCEPT ![q] = key[p]]
          /\ port' = [port EXCEPT ![p] = q]
    /\ pc' = [pc EXCEPT ![p] = "bound"]
    /\ UNCHANGED <<serv2Fwd, worker, key, ret, calls>>

\* Mutant: the Listen error is not checked; the call goes on to store and
\* return an entry with no listener behind it.
BindFailNoReturn(p) ==
    /\ pc[p] = "miss"
    /\ FreePorts = {}
    /\ pc' = [pc EXCEPT ![p] = "bound"]
    /\ port' = [port EXCEPT ![p] = None]
    /\ UNCHANGED <<serv2Fwd, owner, worker, key, ret, calls>>

\* No port can be bound: return "", error (BindError).
BindFail(p) ==
    /\ pc[p] = "miss"
    /\ FreePorts = {}
    /\ pc' = [pc EXCEPT ![p] = "idle"]
    /\ UNCHANGED <<serv2Fwd, owner, worker, key, port, ret, calls>>

\* Mutant: the entry is never stored in serv2Fwd.
InsertNoStore(p) ==
    /\ pc[p] = "bound"
    /\ worker' = [worker EXCEPT ![port[p]] = "start"]
    /\ ret' = [ret EXCEPT ![p] = [t |-> key[p], a |-> port[p]]]
    /\ pc' = [pc EXCEPT ![p] = "idle"]
    /\ UNCHANGED <<serv2Fwd, owner, key, port, calls>>

\* serv2Fwd[serviceKey] = Forwarder{ListenAddr: listenAddr, ...};
\* go serv2Fwd[serviceKey].xxxWorker(...); return listenAddr, nil.
Insert(p) ==
    /\ pc[p] = "bound"
    /\ serv2Fwd' = [serv2Fwd EXCEPT ![key[p]] = port[p]]
    /\ worker' = [worker EXCEPT ![port[p]] = "start"]
    /\ ret' = [ret EXCEPT ![p] = [t |-> key[p], a |-> port[p]]]
    /\ pc' = [pc EXCEPT ![p] = "idle"]
    /\ UNCHANGED <<owner, key, port, calls>>

-----------------------------------------------------------------------------
(* The forwarder goroutine's first step.  tcpServiceProxy goes straight to *)
(* its accept loop and resolves the target only per connection;            *)
(* udpServiceProxy resolves the target first and on failure returns,       *)
(* running its deferred lConn.Close().                                     *)

\* Mutant: the TCP worker resolves the target up front as the UDP one does.
WorkerStartResolves(q) ==
    /\ worker[q] = "start"
    /\ IF owner[q] \in BadTargets
          THEN /\ worker' = [worker EXCEPT ![q] = "ended"]
               /\ owner' = [owner EXCEPT ![q] = None]
          ELSE /\ worker' = [worker EXCEPT ![q] = "serve"]
               /\ UNCHANGED owner
    /\ UNCHANGED <<serv2Fwd, pc, key, port, ret, calls>>

WorkerStart(q) ==
    /\ worker[q] = "start"
    /\ IF Transport = "udp" /\ owner[q] \in BadTargets
          THEN /\ worker' = [worker EXCEPT ![q] = "ended"]
               /\ owner' = [owner EXCEPT ![q] = None]
          ELSE /\ worker' = [worker EXCEPT ![q] = "serve"]
               /\ UNCHANGED owner
    /\ UNCHANGED <<serv2Fwd, pc, key, port, ret, calls>>

Next ==
    \/ \E p \in Callers : \/ \E t \in Targets : Lookup(p, t)
                          \/ Bind(p) \/ BindFail(p) \/ Insert(p)
    \/ \E q \in Ports : WorkerStart(q)

Spec == Init /\ [][Next]_vars

-----------------------------------------------------------------------------
(* Properties                                                              *)

\* At most one listener per key (spec 3, 4.1): no two open listening
\* sockets are bound for the same target.
OneListenerPerKey ==
    \A t \in Targets : Cardinality({q \in Ports : owner[q] = t}) <= 1

\* Idempotence (spec 8): the address a call returned for a target is still
\* the target's entry, so every call for it returns the same address.
ReturnedIsEntry ==
    \A p \in Callers :
        ret[p] # None => serv2Fwd[ret[p].t] = ret[p].a

\* Every entry of the registry names a listening socket that is open and
\* bound for that entry's target, so the address handed out is served.
EntryLive ==
    \A t \in Targets : serv2Fwd[t] # None => owner[serv2Fwd[t]] = t

\* Spec 3: an entry's listenAddress never changes once assigned.
ListenAddrStable ==
    [][\A t \in Targets : serv2Fwd[t] # None => serv2Fwd'[t] = serv2Fwd[t]]_vars
=============================================================================
