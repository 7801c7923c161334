---------------------------- MODULE IntrHandler ----------------------------
(***************************************************************************)
(* The interrupt handler of src/go_code/ipfs-test/server.go and the        *)
(* shutdown of the program's main around it.                                *)
(*                                                                         *)
(* Goroutines: main; the handler goroutine started by Handle, ranging over *)
(* ih.sig; the goroutine the first interrupt starts to call cancelFunc.    *)
(* The operating system raises signals, which os/signal delivers to ih.sig *)
(* with a non-blocking send while the channel is registered by             *)
(* signal.Notify; a send on a closed channel panics, and once signal.Stop  *)
(* has run an interrupt takes its default action and kills the process.    *)
(* The goroutine that only prints on ctx.Done() and the printing loop body *)
(* of main are left out: they change no state.                             *)
(***************************************************************************)
EXTENDS Naturals

CONSTANTS
    MaxSignals,   \* interrupts the operating system raises
    NodeFails     \* may fsrepo.Open / core.NewNode fail (and main panic)?

ASSUME IntrAssumption ==
    /\ MaxSignals \in Nat
    /\ NodeFails \in BOOLEAN

VARIABLES
    notified,   \* ih.sig is registered with signal.Notify
    sigBuf,     \* signals buffered in ih.sig (capacity 1)
    sigClosed,  \* close(ih.sig) has run
    count,      \* the handler goroutine's count
    wg,         \* the counter of ih.wg
    hpc,        \* the handler goroutine: "range" or "done"
    cpc,        \* the cancel goroutine: "none", "run" or "done"
    ctxDone,    \* cancelFunc has been called
    mpc,        \* main: "init", "loop", "close", "wait" or "exited"
    failed,     \* main is unwinding a panic from the node setup
    sent,       \* interrupts raised so far
    exit        \* how the process ended: "none", "clean", "panic" (node
                \* setup), "exit-1" (os.Exit(-1)), "killed" (default
                \* action of an unhandled interrupt), "crash" (send on the
                \* closed ih.sig)

vars == <<notified, sigBuf, sigClosed, count, wg, hpc, cpc, ctxDone, mpc,
          failed, sent, exit>>

TypeOK ==
    /\ notified \in BOOLEAN
    /\ sigBuf \in 0..1
    /\ sigClosed \in BOOLEAN
    /\ count \in Nat
    /\ wg \in 0..2
    /\ hpc \in {"range", "done"}
    /\ cpc \in {"none", "run", "done"}
    /\ ctxDone \in BOOLEAN
    /\ mpc \in {"init", "loop", "close", "wait", "exited"}
    /\ failed \in BOOLEAN
    /\ sent \in 0..MaxSignals
    /\ exit \in {"none", "clean", "panic", "exit-1", "killed", "crash"}

\* main has run setupInterruptHandler: NewIntrHandler makes ih.sig with
\* capacity 1, Handle calls signal.Notify, ih.wg.Add(1) and starts the
\* handler goroutine.
Init ==
    /\ notified = TRUE
    /\ sigBuf = 0
    /\ sigClosed = FALSE
    /\ count = 0
    /\ wg = 1
    /\ hpc = "range"
    /\ cpc = "none"
    /\ ctxDone = FALSE
    /\ mpc = "init"
    /\ failed = FALSE
    /\ sent = 0
    /\ exit = "none"

Running == exit = "none"

-----------------------------------------------------------------------------
(* The operating system.                                                   *)

\* An interrupt: os/signal does select { case c <- sig: default: } on every
\* registered channel, dropping it when the buffer is full and panicking
\* when the channel is closed; unregistered, the interrupt kills the process.
Raise ==
    /\ Running
    /\ sent < MaxSignals
    /\ sent' = sent + 1
    /\ CASE ~notified -> exit' = "killed" /\ UNCHANGED sigBuf
         [] sigClosed -> exit' = "crash" /\ UNCHANGED sigBuf
         [] OTHER     -> sigBuf' = 1 /\ UNCHANGED exit
    /\ UNCHANGED <<notified, sigClosed, count, wg, hpc, cpc, ctxDone, mpc,
                   failed>>

-----------------------------------------------------------------------------
(* The handler goroutine (Handle, lines 55-63) running handlerFunc of      *)
(* setupInterruptHandler (lines 70-85).                                    *)

\* Mutant: handlerFunc starts the cancel goroutine without ih.wg.Add(1).
HandleSignalNoAdd ==
    /\ Running
    /\ hpc = "range"
    /\ sigBuf = 1
    /\ sigBuf' = 0
    /\ count' = count + 1
    /\ IF count = 0
          THEN /\ cpc' = "run"
               /\ UNCHANGED <<wg, exit>>
          ELSE /\ exit' = "exit-1"
               /\ UNCHANGED <<wg, cpc>>
    /\ UNCHANGED <<notified, sigClosed, hpc, ctxDone, mpc, failed, sent>>

\* Mutant: the first interrupt only prints; cancelFunc is never called.
HandleSignalNoCancel ==
    /\ Running
    /\ hpc = "range"
    /\ sigBuf = 1
    /\ sigBuf' = 0
    /\ count' = count + 1
    /\ IF count = 0
          THEN UNCHANGED <<wg, cpc, exit>>
          ELSE /\ exit' = "exit-1"
               /\ UNCHANGED <<wg, cpc>>
    /\ UNCHANGED <<notified, sigClosed, hpc, ctxDone, mpc, failed, sent>>

\* for range ih.sig receives a signal: count++; handler(count, ih).  The
\* first starts a goroutine (after ih.wg.Add(1)) that calls cancelFunc;
\* any later one calls os.Exit(-1).
HandleSignal ==
    /\ Running
    /\ hpc = "range"
    /\ sigBuf = 1
    /\ sigBuf' = 0
    /\ count' = count + 1
    /\ IF count = 0
          THEN /\ wg' = wg + 1
               /\ cpc' = "run"
               /\ UNCHANGED exit
          ELSE /\ exit' = "exit-1"
               /\ UNCHANGED <<wg, cpc>>
    /\ UNCHANGED <<notified, sigClosed, hpc, ctxDone, mpc, failed, sent>>

\* ih.sig is closed and drained: the range ends, signal.Stop(ih.sig) runs,
\* and the deferred ih.wg.Done().
HandlerExit ==
    /\ Running
    /\ hpc = "range"
    /\ sigBuf = 0
    /\ sigClosed
    /\ notified' = FALSE
    /\ hpc' = "done"
    /\ wg' = wg - 1
    /\ UNCHANGED <<sigBuf, sigClosed, count, cpc, ctxDone, mpc, failed, sent,
                   exit>>

\* The goroutine of handlerFunc's case 1: cancelFunc(), then ih.wg.Done().
Cancel ==
    /\ Running
    /\ cpc = "run"
    /\ ctxDone' = TRUE
    /\ cpc' = "done"
    /\ wg' = wg - 1
    /\ UNCHANGED <<notified, sigBuf, sigClosed, count, hpc, mpc, failed,
                   sent, exit>>

-----------------------------------------------------------------------------
(* main (lines 92-139) and IntrHandler.Close (lines 41-45), run by main's  *)
(* deferred intrh.Close().                                                 *)

\* fsrepo.Open or core.NewNode fails: panic(err); the deferred
\* intrh.Close() runs while the panic unwinds.
NodeSetupFail ==
    /\ Running
    /\ NodeFails
    /\ mpc = "init"
    /\ failed' = TRUE
    /\ mpc' = "close"
    /\ UNCHANGED <<notified, sigBuf, sigClosed, count, wg, hpc, cpc, ctxDone,
                   sent, exit>>

\* The node is up; main enters its polling loop.
NodeSetupOK ==
    /\ Running
    /\ mpc = "init"
    /\ mpc' = "loop"
    /\ UNCHANGED <<notified, sigBuf, sigClosed, count, wg, hpc, cpc, ctxDone,
                   failed, sent, exit>>

\* The select sees <-ctx.Done(): main returns; the deferred node.Close()
\* runs, then the deferred intrh.Close().
MainReturn ==
    /\ Running
    /\ mpc = "loop"
    /\ ctxDone
    /\ mpc' = "close"
    /\ UNCHANGED <<notified, sigBuf, sigClosed, count, wg, hpc, cpc, ctxDone,
                   failed, sent, exit>>

\* Close: close(ih.sig).
CloseSig ==
    /\ Running
    /\ mpc = "close"
    /\ sigClosed' = TRUE
    /\ mpc' = "wait"
    /\ UNCHANGED <<notified, sigBuf, count, wg, hpc, cpc, ctxDone, failed,
                   sent, exit>>

\* Mutant: Close returns without ih.wg.Wait().
WaitReturnNoWait ==
    /\ Running
    /\ mpc = "wait"
    /\ mpc' = "exited"
    /\ exit' = IF failed THEN "panic" ELSE "clean"
    /\ UNCHANGED <<notified, sigBuf, sigClosed, count, wg, hpc, cpc, ctxDone,
                   failed, sent>>

\* Close: ih.wg.Wait() returns; main's return (or the panic) ends the
\* process.
WaitReturn ==
    /\ Running
    /\ mpc = "wait"
    /\ wg = 0
    /\ mpc' = "exited"
    /\ exit' = IF failed THEN "panic" ELSE "clean"
    /\ UNCHANGED <<notified, sigBuf, sigClosed, count, wg, hpc, cpc, ctxDone,
                   failed, sent>>

-----------------------------------------------------------------------------

Next ==
    \/ Raise
    \/ HandleSignal \/ HandlerExit \/ Cancel
    \/ NodeSetupFail \/ NodeSetupOK \/ MainReturn \/ CloseSig \/ WaitReturn

\* Every goroutine of the program runs when it can; the operating system
\* need not raise a signal.
Fairness ==
    /\ WF_vars(HandleSignal) /\ WF_vars(HandlerExit) /\ WF_vars(Cancel)
    /\ WF_vars(NodeSetupFail \/ NodeSetupOK) /\ WF_vars(MainReturn)
    /\ WF_vars(CloseSig) /\ WF_vars(WaitReturn)

Spec == Init /\ [][Next]_vars /\ Fairness

-----------------------------------------------------------------------------
(* Properties                                                              *)

\* Close is a clean shutdown: when main's deferred intrh.Close() has
\* returned and the process ends normally or by the setup panic, the
\* handler goroutine has left its range loop and unregistered ih.sig, and
\* the cancel goroutine, if the first interrupt started one, has finished.
CloseWaitsForHandlers ==
    exit \in {"clean", "panic"} =>
        /\ hpc = "done"
        /\ ~notified
        /\ cpc # "run"

\* The first interrupt shuts the program down: once the handler goroutine
\* has counted an interrupt, the process eventually ends, through the
\* cancelled context, main's return and Close, or through a later interrupt.
ShutdownOnInterrupt ==
    count >= 1 ~> exit # "none"

\* The comment on IntrHandler: it "can be cleanly shut down through the
\* io.Closer interface": no interrupt ever reaches the channel Close has
\* closed, which would panic inside os/signal.
NoSendOnClosedSig ==
    exit # "crash"
=============================================================================
