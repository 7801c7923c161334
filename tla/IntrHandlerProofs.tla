------------------------- MODULE IntrHandlerProofs -------------------------
(***************************************************************************)
(* Proofs about the interrupt handler of ipfs-test/server.go (module       *)
(* IntrHandler), for every number of interrupts and whether or not the     *)
(* node setup fails.                                                       *)
(***************************************************************************)
EXTENDS IntrHandler, TLAPS

(***************************************************************************)
(* The inductive invariant.  CloseWaitsForHandlers speaks of the state     *)
(* after ih.wg.Wait() returned; it holds because the WaitGroup counts      *)
(* exactly the goroutines Close must wait for.  IntrInv states that        *)
(* bookkeeping: the counter is the number of running goroutines that       *)
(* called ih.wg.Add (the handler goroutine while it ranges over ih.sig,    *)
(* the cancel goroutine while it runs); the cancel goroutine exists once   *)
(* an interrupt has been counted; ih.sig is registered exactly while the   *)
(* handler ranges; and a normal end follows a Wait that saw zero.          *)
(***************************************************************************)
\* The goroutines ih.wg is counting.
Counted ==
    (IF hpc = "range" THEN 1 ELSE 0) + (IF cpc = "run" THEN 1 ELSE 0)

\* ih.wg's counter is the number of goroutines it still waits for.
WgCounts == wg = Counted

\* The cancel goroutine exists exactly once an interrupt has been counted.
CancelStarted == count = 0 <=> cpc = "none"

\* ih.sig is registered exactly while the handler goroutine ranges over it.
Registered == notified <=> hpc = "range"

\* A normal end, or the setup panic, follows a Wait that saw zero.
EndsAfterWait == exit \in {"clean", "panic"} => mpc = "exited" /\ wg = 0

\* TypeOK, split into the flags and the counters and control points; the
\* provers handle the two kinds of fact with different backends.
FlagsOK ==
    /\ notified \in BOOLEAN
    /\ sigClosed \in BOOLEAN
    /\ ctxDone \in BOOLEAN
    /\ failed \in BOOLEAN

DataOK ==
    /\ sigBuf \in 0..1
    /\ count \in Nat
    /\ wg \in 0..2
    /\ hpc \in {"range", "done"}
    /\ cpc \in {"none", "run", "done"}
    /\ mpc \in {"init", "loop", "close", "wait", "exited"}
    /\ sent \in 0..MaxSignals
    /\ exit \in {"none", "clean", "panic", "exit-1", "killed", "crash"}

IntrInv ==
    /\ FlagsOK
    /\ DataOK
    /\ WgCounts
    /\ CancelStarted
    /\ Registered
    /\ EndsAfterWait

USE IntrAssumption

LEMMA InvTypeOK == IntrInv => TypeOK
BY Zenon DEF IntrInv, FlagsOK, DataOK, TypeOK

LEMMA InitIntrInv == Init => IntrInv
<1> SUFFICES ASSUME Init PROVE IntrInv
  OBVIOUS
<1>1. FlagsOK /\ Registered
  BY Zenon DEF Init, FlagsOK, Registered
<1>2. DataOK /\ WgCounts /\ CancelStarted /\ EndsAfterWait
  BY DEF Init, DataOK, WgCounts, Counted, CancelStarted, EndsAfterWait
<1>3. QED
  BY <1>1, <1>2 DEF IntrInv

\* Every step of the operating system, the handler goroutine, the cancel
\* goroutine or main keeps IntrInv.  In each, Zenon carries the flags and
\* the SMT solver the counters.
LEMMA NextIntrInv == IntrInv /\ [Next]_vars => IntrInv'
<1> SUFFICES ASSUME IntrInv, [Next]_vars PROVE IntrInv'
  OBVIOUS
<1> DEFINE Flags == FlagsOK /\ Registered
           Data  == DataOK /\ WgCounts /\ CancelStarted /\ EndsAfterWait
<1>0. Flags /\ Data
  BY DEF IntrInv
<1> HIDE DEF IntrInv
<1> USE DEF FlagsOK, Registered, DataOK, WgCounts, Counted, CancelStarted,
           EndsAfterWait, Running
<1> SUFFICES Flags' /\ Data'
  BY DEF IntrInv
<1>1. CASE Raise
  <2>1. Flags'
    BY <1>0, <1>1, Zenon DEF Raise
  <2>2. CASE ~notified
    BY <1>0, <1>1, <2>2 DEF Raise
  <2>3. CASE notified /\ sigClosed
    BY <1>0, <1>1, <2>3 DEF Raise
  <2>4. CASE notified /\ ~sigClosed
    BY <1>0, <1>1, <2>4 DEF Raise
  <2>5. QED
    BY <2>1, <2>2, <2>3, <2>4
<1>2. CASE HandleSignal
  <2>1. Flags'
    BY <1>0, <1>2, Zenon DEF HandleSignal
  <2>2. CASE count = 0
    BY <1>0, <1>2, <2>2 DEF HandleSignal
  <2>3. CASE count # 0
    BY <1>0, <1>2, <2>3 DEF HandleSignal
  <2>4. QED
    BY <2>1, <2>2, <2>3
<1>3. CASE HandlerExit
  <2>1. Flags'
    BY <1>0, <1>3, Zenon DEF HandlerExit
  <2>2. Data'
    BY <1>0, <1>3 DEF HandlerExit
  <2>3. QED
    BY <2>1, <2>2
<1>4. CASE Cancel
  <2>1. Flags'
    BY <1>0, <1>4, Zenon DEF Cancel
  <2>2. Data'
    BY <1>0, <1>4 DEF Cancel
  <2>3. QED
    BY <2>1, <2>2
<1>5. CASE NodeSetupFail
  <2>1. Flags'
    BY <1>0, <1>5, Zenon DEF NodeSetupFail
  <2>2. Data'
    BY <1>0, <1>5 DEF NodeSetupFail
  <2>3. QED
    BY <2>1, <2>2
<1>6. CASE NodeSetupOK
  BY <1>0, <1>6 DEF NodeSetupOK
<1>7. CASE MainReturn
  BY <1>0, <1>7 DEF MainReturn
<1>8. CASE CloseSig
  <2>1. Flags'
    BY <1>0, <1>8, Zenon DEF CloseSig
  <2>2. Data'
    BY <1>0, <1>8 DEF CloseSig
  <2>3. QED
    BY <2>1, <2>2
<1>9. CASE WaitReturn
  BY <1>0, <1>9 DEF WaitReturn
<1>10. CASE UNCHANGED vars
  BY <1>0, <1>10 DEF vars
<1>11. QED
  BY <1>1, <1>2, <1>3, <1>4, <1>5, <1>6, <1>7, <1>8, <1>9, <1>10 DEF Next

LEMMA SpecIntrInv == Spec => []IntrInv
BY InitIntrInv, NextIntrInv, PTL DEF Spec

\* Type correctness of the handler's state for every number of interrupts;
\* in particular ih.wg's counter stays within 0..2 and never goes negative,
\* which would make sync.WaitGroup panic.
THEOREM IntrTypeCorrect == Spec => []TypeOK
BY SpecIntrInv, InvTypeOK, PTL

\* Close waits for the handlers (the io.Closer promise of IntrHandler), for
\* every number of interrupts: when the process ends normally or by the
\* setup panic, the handler goroutine has unregistered ih.sig and left its
\* range loop, and no cancel goroutine is still running.
THEOREM CloseWaits == Spec => []CloseWaitsForHandlers
<1>1. IntrInv => CloseWaitsForHandlers
  BY DEF IntrInv, DataOK, WgCounts, Counted, Registered, EndsAfterWait,
         CloseWaitsForHandlers
<1>2. QED
  BY <1>1, SpecIntrInv, PTL
====
