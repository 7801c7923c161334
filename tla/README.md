# Verification of the TCP/UDP forwarding proxies

This directory holds TLA+ models of the forwarding proxies in
`src/go_code/tcpProxy/tcpProxy.go` and `src/go_code/udpProxy/udpProxy.go`
(the datagram proxy together with its test target `udpServer`), and of the
interrupt handler of `ipfs-test/server.go`. It also holds TLC configurations
that model-check those models on small instances, and TLAPS proofs, for every
value of the constants, of the byte pump's correctness, of its refinement of
an abstract relay, and of the datagram proxy's session isolation.
The programs that are not modelled are listed at the end, with the reason.

## 1. The system

Each proxy program takes a target `host:port`, binds an ephemeral port on
`ctrlHost` and relays everything from that port to the target and back. The
code has four parts that interact.

* **Forwarder registry.** This is `serv2Fwd`, `openTCPProxy` and
  `openUDPProxy`, in `tcpProxy.go:12-23,108-128` and `udpProxy.go:144-169`. It
  is a global map from target address to `Forwarder` (the listen address).
  `openXProxy(t)` does these steps in order:
  1. Look `t` up in the map and return the stored address on a hit.
  2. Otherwise `Listen` on port 0 of `ctrlHost`. If that fails, return the
     error.
  3. Store the entry.
  4. Start the service goroutine on the new listener.
  5. Return the address.

  The map has no lock.
* **Stream connection forwarder.** This is `tcpServiceProxy` and
  `tcpFwdConnToServ`, in `tcpProxy.go:56-97`. The service goroutine loops on
  `Accept`, and it breaks only when the error `== syscall.EINVAL`. For each
  connection it starts `tcpFwdConnToServ`, which does these steps in order:
  1. Resolve and dial the target. On failure it closes the client connection
     and returns.
  2. Defer the closes of both sockets.
  3. Start `tcpFwdData(lConn, rConn)` in a goroutine.
  4. Run `tcpFwdData(rConn, lConn)` itself.
  5. Return, which closes both sockets.
* **Byte pump.** This is `tcpFwdData`, in `tcpProxy.go:27-53`. It reads up to
  64 KiB and then writes the chunk until `nBytesW == nBytes`. It returns on the
  first read or write error. A short write is retried with `Write(data)`, which
  writes the whole chunk again.
* **Datagram multiplexer.** This is `udpServiceProxy` and `udpFwdData`, in
  `udpProxy.go:29-141`. A single receive loop reads a datagram and looks up
  the sender in `client2RConn`. On a miss it does `DialUDP` to the target:
  * On success it stores the socket and starts the reverse path
    `udpFwdData(rConn, lConn, from)`.
  * On failure it drops the datagram.

  The loop then writes the datagram on the session socket until it is
  accepted, and an error `continue`s the write loop. The reverse path reads
  replies and writes them to `lConn` addressed to the captured client. It
  returns on the first read error.

How the parts interact:
* The registry starts forwarder goroutines.
* Each stream connection runs two byte pumps that share the socket pair.
* Each UDP session runs one reverse-path pump, and the receive loop writes on
  the same sockets.
* The datagram proxy is tested against `udpServer/udpServer.go`. It reads a
  datagram with `ReadFrom` and echoes it with `WriteTo` to the address it
  came from, which is the session's outbound socket. It returns on a write
  error.

Apart from the proxies, `ipfs-test/server.go` has an interrupt handler,
`IntrHandler`, with three goroutines:
* `Handle` registers `ih.sig` with `signal.Notify`. Its goroutine ranges over
  the channel and calls `handlerFunc` with a running count. When the channel
  is closed, it calls `signal.Stop` and then `wg.Done`.
* On the first interrupt, `handlerFunc` adds to the WaitGroup and starts a
  goroutine that cancels the context. Any later interrupt calls
  `os.Exit(-1)`.
* `main` polls until the context is done and returns. Its deferred
  `intrh.Close()` closes `ih.sig` and waits on the WaitGroup. A panic in the
  node setup runs the same deferred `Close`.

## 2. Modules and how they correspond to the code

| Module | Models | State (code) | Actions (code) |
|---|---|---|---|
| `BytePump` | `tcpFwdData` on one direction, with bytes as their stream positions 1..N | `rd` (bytes read), `data` (`buf[:nBytes]`), `nW` (`nBytesW`), `out` (what dst received), `pc`, `why` (return cause) | `Read`, `ReadFail` (EOF or error, lines 36-40), `Write` (a write loop iteration, 43-51), `WriteFail` (44-48) |
| `Relay` | the byte-pump contract of spec 4.3, with no buffer or write loop | `rd` (read so far), `out` (delivered), `why` | `Take` (read more), `Pass` (deliver more of what was read), `Finish` (stop at EOF with everything delivered), `Fail` |
| `BytePumpProofs` | theorems about `BytePump`, the refinement of `Relay` included | | |
| `TcpForwarder` | the accept loop, per-connection handlers and their two pumps, with clients and targets as environment | `lsn`, `loop`, `hnd[c]`, `sock[c][side]`, `peer[c][side]`, `pend[c][dir]`, `pump[c][dir]` | `Accept`, `AcceptFail`, `DialOK`, `DialFail`, `PumpStep` (= `PumpRead`/`PumpReadFail`/`PumpWrite`/`PumpWriteFail`), `Stop` (a pump returns; for the r2l pump the handler returns and its deferred closes run) |
| `Registry` | concurrent calls of `openTCPProxy` / `openUDPProxy`, and the UDP worker's resolution step | `serv2Fwd`, `owner[port]`, `worker[port]`, each caller's `pc`, `key`, `port`, `ret` | `Lookup`, `Bind`, `BindFail`, `Insert` (the map store, `go` and return), `WorkerStart` |
| `RegistryProofs` | theorems about `Registry` | | |
| `IntrHandler` | `ipfs-test/server.go:28-139`: `IntrHandler`, `Handle`'s range goroutine, `handlerFunc` and its cancel goroutine, `Close`, `main`'s setup, polling loop and deferred shutdown | `notified` (registered with `signal.Notify`), `sigBuf` (the 1-slot `ih.sig`), `sigClosed`, `count`, `wg` (the WaitGroup counter), `hpc`, `cpc`, `ctxDone`, `mpc`, `failed` (main unwinding a panic), `exit` | `HandleSignal` (a receive, `count++`, `handler`), `HandlerExit` (range ends, `signal.Stop`, `wg.Done`), `Cancel`, `NodeSetupFail`, `NodeSetupOK`, `MainReturn`, `CloseSig` (`close(ih.sig)`), `WaitReturn` (`wg.Wait` returns) |
| `UdpMux` | `udpServiceProxy`'s receive loop and the reverse paths; the target is `udpServer/udpServer.go`'s loop, which may stop and restart; ICMP errors on connected sockets | `c2r` (`client2RConn`), `pc`, `from`, `buf`, `rConn`, `used` (sockets dialed), `serr`, `rev[i]`, `revTo[i]`, `delivered[a]`; the target's `tgtUp`, `tsrv`, `tFrom` (its `from`), `tData` | `Recv` (= `NewSession` / `DialFailed` / the lookup hit), `Forward`, `ForwardFail`, `RevStep` (= `RevRead` / `RevReadFail` / `RevWrite`); target: `TargetRead` (`ReadFrom`), `TargetWrite` (`WriteTo` to `from`), `TargetWriteFail` (main returns), `TargetFlip` (the process stops, or starts: resolve and listen) |
| `IntrHandlerProofs` | theorems about `IntrHandler` | | |
| `UdpMuxProofs` | theorems about `UdpMux` | | |

Data is abstracted to what the properties tell apart:
* a byte is its position in the stream;
* a TCP direction only records whether unread bytes are pending;
* a datagram is `[c: client, n: index]`;
* a target address is a model value, and `BadTargets` marks those that do not
  resolve.

The environment actions are what clients, targets and the operating system do,
not program code, so they are not in the `map`. They are `ClientConnect`,
`PeerSend`, `PeerClose`, `CloseListener`, `ClientSend`, `TargetRefuse`
(the kernel's ICMP answer while the target's port is closed), and
`IntrHandler`'s `Raise`: an interrupt delivered by os/signal, which does a
non-blocking send on each registered channel (dropped when the buffer is
full, a panic when the channel is closed) and kills the process by the
default action once no channel is registered.

Every model also has a mutant action: an operator defined just before the
action it mutates, modelling a plausible bug in that code. PROJECT.json lists
each pair; TLC finds the property violated when the mutant replaces the
action.

## 3. Runs

| Run | Config | Checks | Bounds / why enough |
|---|---|---|---|
| bytepump (pass) | `MC_BytePump.cfg` | `TypeOK`, `ByteExact`, `NoLossAtEOF` | N=10, BufSize=3: full and short chunks, a short last chunk after a longer one. |
| bytepump_short_writes (violation) | `MC_BytePumpShortWrites.cfg` | `ByteExact` | N=4, BufSize=3, ShortWrites=TRUE: a destination that accepts part of a chunk without error. |
| tcp_forwarder (pass) | `MC_TcpForwarder.cfg` | `TeardownOnTargetClose`, `AcceptProgress` | Two connections: one can fail its dial or tear down while the other is accepted or relaying. The listener may be closed. |
| tcp_client_close (violation) | `MC_TcpClientClose.cfg` | `TeardownOnClientClose` | One connection and a target that never sends. |
| tcp_listener_close (violation) | `MC_TcpListenerClose.cfg` | `ListenerCloseEndsLoop` | One connection and an external listener close. The accept loop is fair, so the violation comes from the `EINVAL` comparison alone: with `AcceptErrIsEINVAL == TRUE` the same configuration passes. |
| registry (pass) | `MC_Registry.cfg` | `TypeOK`, `OneListenerPerKey`, `ReturnedIsEntry`, `EntryLive`, `ListenAddrStable` | TCP, one caller, 4 calls, targets t1 and t2 and an unresolvable one. Two ports, so binds run out and fail. |
| registry_race (violation) | `MC_RegistryRace.cfg` | `OneListenerPerKey` | Two callers, one target. |
| registry_udp_bad_target (violation) | `MC_RegistryUdpBadTarget.cfg` | `EntryLive` | UDP, an unresolvable target. |
| udp_mux (pass) | `MC_UdpMux.cfg` | `TypeOK`, `SessionIsolation`, `OneSessionPerClient`, `ForwardProgress` | Two clients with 2 datagrams each and 3 sockets. Dial failure is reachable because sockets run out. The target (the echo server) interleaves the two clients' datagrams, may fail a write, stop and restart. |
| udp_reverse_path (violation) | `MC_UdpReversePath.cfg` | `SessionHasReversePath` | One client and one socket. |
| bytepump, again | `MC_BytePump.cfg` | `RelaySpec` | The same instance: every pump step is a `Relay` step or a stutter under the identity mapping of `rd`, `out`, `why`. |
| intr_handler (pass) | `MC_IntrHandler.cfg` | `TypeOK`, `CloseWaitsForHandlers`, `ShutdownOnInterrupt` | 3 interrupts (a first that cancels, a second that exits, a third that hits the channel after the handler stopped) and a node setup that may panic. |
| intr_handler_closed_send (violation) | `MC_IntrHandlerClosedSend.cfg` | `NoSendOnClosedSig` | 2 interrupts, node setup succeeds. |

What the properties say:
* `TypeOK` (BytePump, Registry, UdpMux): the type invariants. In `UdpMux`
  it also says that `client2RConn` never holds a nil conn. In `Registry` it
  says that a returned address is always a port, never `None`. That is
  what a missing `return` after a failed `Listen` breaks.
  `TcpForwarder.TypeOK` is not in a run. Its state is all enumerations, and
  no plausible change of the code leaves them.
* `ByteExact`: the destination's bytes are always an exact prefix of the
  stream, and no longer than what was read.
* `NoLossAtEOF`: when the pump stops at EOF, the destination holds the whole
  stream.
* `TeardownOnTargetClose`: a target close leads to both sockets closed and
  both pumps returned.
* `AcceptProgress`: every connecting client is handed to a handler unless the
  listener was closed. One slow or failed dial must not block the others.
* `OneListenerPerKey`: at most one listener exists per target.
* `ReturnedIsEntry`: the address a call returned is the stored entry.
* `EntryLive`: a stored entry's listener is bound and served.
* `ListenAddrStable`: an entry never changes. This is an action property.
* `SessionIsolation`: a client only receives replies to its own datagrams.
* `OneSessionPerClient`: a client never gets two outbound sockets.
* `ForwardProgress`: the receive loop, once it holds a datagram, gets back to
  reading.
* `RelaySpec`: `tcpFwdData` implements `Relay`, the contract of spec 4.3.
  Each read moves into the stream, each write delivers more of what was read
  and nothing else, and the pump stops at EOF only with everything delivered.
* `CloseWaitsForHandlers`: when the process ends normally, or by the setup
  panic, the handler goroutine has left its loop and unregistered the channel,
  and the cancel goroutine is not still running.
* `ShutdownOnInterrupt`: once an interrupt was counted, the process ends.
* `TypeOK` of `IntrHandler` bounds the WaitGroup counter to 0..2; a missing
  `wg.Add(1)` drives it negative, which panics in Go.

The violation runs are the findings in PROJECT.json:
* a short write duplicates bytes (latent, because `net.Conn` obeys the
  io.Writer contract);
* a client close never reaches the target;
* the `EINVAL` comparison is dead code, so the accept loop spins on a closed
  listener;
* concurrent opens create two listeners;
* a UDP proxy for an unresolvable target leaves a dead entry;
* one ICMP error permanently kills a session's reverse path;
* `Close` of `IntrHandler` closes `ih.sig` before the handler goroutine calls
  `signal.Stop`, so an interrupt in that window panics inside os/signal.

### Fairness

* `TcpForwarder` has weak fairness on the accept loop (both `Accept` and
  `AcceptFail`: after the listener is closed, `Accept` returns an error at
  once, so the loop stays runnable), on each handler's dial step and on each
  pump step. Every such step is a goroutine that the Go
  scheduler runs whenever it is runnable, and its I/O completes while its
  condition holds. The environment gets no fairness: clients and targets may
  stay silent forever.
* `UdpMux` has weak fairness on the receive loop and on each reverse path, for
  the same reason.
* `IntrHandler` has weak fairness on every goroutine step: the handler's
  receive and exit, the cancel goroutine, and main's steps. The operating
  system gets none: interrupts need not come.
* The UDP target's steps get no fairness: a target may stop for good, and
  `ForwardProgress` must hold all the same.
* Writes to an open peer are assumed to complete. Backpressure from a peer
  that never reads is not modelled; it is a hazard in PROJECT.json.

## 4. Proofs

`BytePumpProofs` proves three theorems with TLAPS, for every `N \in Nat`,
`BufSize \in Nat \ {0}` and `ShortWrites \in BOOLEAN`:

* `TypeCorrect`: `Spec => []TypeOK`. The step lemma `TypeStep` has one case
  per action. It rests on lemmas about `Chunk` and about the appended prefix
  of a sequence, which come from `SequenceTheorems`.
* `ByteExactness`: under `ShortWrites = FALSE` (the io.Writer contract),
  `Spec => [](ByteExact /\ NoLossAtEOF)`.

`ByteExact` alone is not inductive. It says nothing about the chunk being
written, so a step could write any bytes. The inductive invariant `IInv` adds
these conjuncts:
* `out = Stream(Len(out))`;
* in `read`, the pump has written all it read: `Len(out) = rd`;
* in `write`, the chunk is the next `Len(data)` bytes of the stream, the pump
  has read exactly the bytes written plus the chunk, and `nW = 0`. `nW = 0`
  holds because, without short writes, one write takes the whole chunk;
* `why = "eof"` implies the whole stream was written;
* `why = "none"` holds exactly while the pump runs.

The key lemma is `StreamExtend`:
`Stream(L) \o Chunk(L, m) = Stream(L + m)`. The proof has three parts:
`Init => IInv` (`InitIInv`), `IInv /\ [Next]_vars => IInv'` (`NextIInv`, one
step per action) and `IInv => ByteExact /\ NoLossAtEOF` (`IInvSafe`).

* `ImplementsRelay`: under `ShortWrites = FALSE`, `Spec => RelaySpec`, where
  `RelaySpec` is `Relay!Spec` under the identity mapping. `Init` maps to
  `Relay!Init`. `StepRefines` shows `IInv /\ [Next]_vars => [Relay!Next]_v`,
  one case per action: `Read` is a `Take`, `Write` is a `Pass` (by the lemma
  `WriteExtends`: under `IInv`, a write delivers exactly the stream up to
  `rd`, and `Len(out) < rd` before it), `ReadFail` is `Finish` at EOF and
  `Fail` on an error, and `WriteFail` is `Fail`. `IInv` is needed because a
  write is a `Pass` only if the chunk is the next bytes of the stream.

`UdpMuxProofs` proves three theorems for every set of clients, `MaxSends`
and `MaxSocks` (assumption `MuxAssumption`, where `None` is neither a client
nor a socket number):

* `MuxTypeCorrect`: `Spec => []TypeOK`.
* `Isolation`: `Spec => []SessionIsolation`.
* `OneSession`: `Spec => []OneSessionPerClient`.

`SessionIsolation` is not inductive. A reply's recipient is decided by the
socket the receive loop chose several steps earlier, and the target's echo
preserves it. The inductive invariant `MuxInv` follows a payload through the
proxy:
* `Undialed`: sockets above `used` have no reverse path yet;
* `TableInverse`: `client2RConn` and the reverse paths' `dstAddr` are
  inverse to each other on the dialed sockets;
* `LoopOwned`, `TargetOwned`, `RevOwned`: the datagram the loop holds, those
  in flight to and from the target, the one the target holds, and a reverse
  path's reply all belong to the client of the socket they travel on.

`Undialed` is what makes `NewSession` safe: no payload can be on the new
socket, so labelling it with its client relabels nothing. `TableInverse`
makes the lookup hit route a datagram to its own sender's socket, and it
bounds the sockets of a client by the singleton `{c2r[a]}`. That bound gives
`OneSession` with `FS_Subset` and `FS_Singleton` of `FiniteSetTheorems`. TLC
checked `MuxInv` as an invariant of the udp_mux instance before it was proved.

`RegistryProofs` proves five theorems about the forwarder registry, for every
transport, set of targets (resolvable or not) and finite set of ports
(assumption `RegistryAssumption`):

* `RegistryTypeCorrect`: `Spec => []TypeOK`, for any number of callers.
* `ReturnsEntry`, `OneListener`, `AddrStable` (an action property) and `Live`
  state `ReturnedIsEntry`, `OneListenerPerKey`, `ListenAddrStable` and
  `EntryLive` under the hypothesis `SingleCaller`: `Callers` is one
  goroutine. This is how the code is used. `main` of tcpProxy and udpProxy
  calls `openTCPProxy`/`openUDPProxy` once per target, from one goroutine.
  The hypothesis is needed: the run registry_race shows two callers binding
  two listeners for one target, because `serv2Fwd` is read and written
  without a lock.
* `Live` also assumes `KeepsListeners`: the transport is TCP, or no target
  fails to resolve. The run registry_udp_bad_target shows the other case.
  There, `udpServiceProxy` returns on a bad target and leaves a stale
  `serv2Fwd` entry.

The inductive invariant `RegInv` adds three facts to `TypeOK` and
`ReturnedIsEntry`:
* `InFlight`: a caller between lookup and insert works on a target with no
  entry yet, and once bound it holds a port owned by that target whose
  worker has not started;
* `OwnedIsEntry`: every owned port is the target's entry, or the port the
  caller is about to insert;
* `FreeIdle`: a free port has no running worker.

The lemma `OwnedPorts` bounds a target's ports by a singleton. That bound
gives `OneListener` with `FS_Subset` and `FS_Singleton`. TLC checked `RegInv`
on the registry instance and on UDP instances with a bad target before it
was proved.

`IntrHandlerProofs` proves two theorems for every `MaxSignals` and
`NodeFails`:

* `IntrTypeCorrect`: `Spec => []TypeOK`. In particular, the WaitGroup
  counter never goes negative.
* `CloseWaits`: `Spec => []CloseWaitsForHandlers`.

`CloseWaitsForHandlers` speaks of the state after `ih.wg.Wait()` returned.
It is not inductive, because it says nothing about what the counter counts.
The inductive invariant `IntrInv` states that bookkeeping:
* `WgCounts`: `wg` is the number of goroutines still running that called
  `ih.wg.Add`: the handler while it ranges, and the cancel goroutine while it
  runs;
* `CancelStarted`: the cancel goroutine exists exactly once an interrupt has
  been counted;
* `Registered`: `ih.sig` is registered exactly while the handler ranges;
* `EndsAfterWait`: a normal end follows a `Wait` that saw zero.

Zenon proves the Boolean flags and SMT the counters. The SMT encoding of
TLAPS 1.4.5 fails on a Boolean variable that is both a guard and
`UNCHANGED`, and on `CASE`, so `TypeOK` is split into `FlagsOK` and `DataOK`
and `Raise` gets one case per arm of its `CASE`. TLC checked `IntrInv` with
3 and with 5 interrupts before it was proved.

Only model-checked:
* all liveness properties (`TeardownOnTargetClose`, `AcceptProgress`,
  `ForwardProgress`, `ShutdownOnInterrupt`). TLAPS does not handle fairness
  or ENABLED;
* the violation runs. A counterexample is a fact about one instance, and TLC
  produces it.

## 5. Not modelled

* **`main` of both proxies.** It makes one call to `openXProxy`, panics on
  error, prints and blocks. The registry run with one caller covers that call.
* **`tcpServer`.** This echo server is a test fixture outside the core
  (spec 1). `TcpForwarder` uses an abstract target that may send, read or
  close. Reading the code shows one hazard, listed in PROJECT.json: a failed
  `Accept` still starts `connHandler` with a nil connection, whose deferred
  `Close` panics.
* **`validateEndpoint`.** This is a pure string check outside the core, with
  no state or concurrency. Its hazard is listed in PROJECT.json:
  `strconv.Atoi` accepts a sign, so `:+80` is reported valid.
* **`signal-handling/main.go`.** One goroutine ranges over a channel on which
  only `os.Interrupt` is registered, then sleeps and exits. The signal
  delivery it relies on is the one modelled in `IntrHandler`.
* **`httpEcho`, `prom_server`, `rand_string`, the ipfs swarm printing.** These
  are sequential I/O and formatting with no shared state or coordination.
* **`IntrHandler`'s ctx-print goroutine and the polling loop body.** They only
  print.
* **`udpServer`'s `ReadFrom` error.** It happens only on a closed socket, and
  the program never closes it while the loop runs.
* **Closing the UDP proxy's `lConn`.** The program never closes it.

## 6. Plan

Next steps:

1. **A composed model.** Put the TCP forwarder's pumps at `BytePump` level,
   with byte-exactness end to end over a connection pair.
2. **Proofs for `TcpForwarder`.** Prove a type invariant and the
   per-connection invariants behind the teardown properties.
3. **Registry with several callers.** `TypeOK` is proved for any number of
   callers. Next, state and prove what survives the race, for example that
   `serv2Fwd` always names some bound listener.
