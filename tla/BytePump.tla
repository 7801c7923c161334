------------------------------ MODULE BytePump ------------------------------
(***************************************************************************)
(* The byte pump tcpFwdData(src, dst) of src/go_code/tcpProxy/tcpProxy.go: *)
(* a loop that reads a chunk of at most BufSize bytes from src and writes  *)
(* it to dst, looping on the write until the chunk is accepted, and that   *)
(* returns on the first read or write error.                               *)
(*                                                                         *)
(* Data abstraction: the source delivers the bytes 1, 2, ..., N in order   *)
(* (the k-th byte of the stream has the value k), so a duplicated, lost or *)
(* reordered byte shows up in the destination's sequence.  The pump never  *)
(* inspects a byte, so no behaviour depends on the values.                 *)
(***************************************************************************)
EXTENDS Naturals, Sequences

CONSTANTS
    N,            \* length of the byte stream the source delivers before EOF
    BufSize,      \* size of buf (0xffff in the code)
    ShortWrites   \* may dst.Write accept fewer bytes than asked without error?

ASSUME PumpAssumption ==
    /\ N \in Nat
    /\ BufSize \in Nat \ {0}
    /\ ShortWrites \in BOOLEAN

VARIABLES
    rd,     \* number of source bytes consumed by src.Read so far
    data,   \* data = buf[:nBytes], the chunk being written
    nW,     \* nBytesW, bytes of the chunk reported written
    out,    \* bytes the destination has accepted, in order
    pc,     \* "read" (at src.Read), "write" (in the write loop), "done"
    why     \* why the pump returned: "none", "eof", "rerr", "werr"

vars == <<rd, data, nW, out, pc, why>>

Stream(k) == [i \in 1..k |-> i]          \* the first k bytes of the source
Chunk(from, k) == [i \in 1..k |-> from + i]
MinOf(a, b) == IF a <= b THEN a ELSE b

\* The byte counts a successful dst.Write(data) may report.  net.Conn obeys
\* the io.Writer contract (n < len(p) only with an error); a destination
\* that accepts short writes is the case spec section 4.3 describes.
Accepted(d) == IF ShortWrites THEN 1..Len(d) ELSE {Len(d)}

TypeOK ==
    /\ rd \in 0..N
    /\ data \in Seq(1..N)
    /\ nW \in Nat
    /\ out \in Seq(1..N)
    /\ pc \in {"read", "write", "done"}
    /\ why \in {"none", "eof", "rerr", "werr"}

Init ==
    /\ rd = 0
    /\ data = <<>>
    /\ nW = 0
    /\ out = <<>>
    /\ pc = "read"
    /\ why = "none"

\* Mutant: an off-by-one in the read size lets a read return one byte past
\* the end of the source (k up to N - rd + 1).
ReadPastEnd ==
    /\ pc = "read"
    /\ rd < N
    /\ \E k \in 1..MinOf(BufSize, N - rd + 1) :
          /\ data' = Chunk(rd, k)
          /\ rd' = rd + k
    /\ nW' = 0
    /\ pc' = "write"
    /\ UNCHANGED <<out, why>>

\* Mutant: data := buf instead of buf[:nBytes]; the bytes of an earlier,
\* longer chunk still in buf are written after the new ones.
ReadWholeBuf ==
    /\ pc = "read"
    /\ rd < N
    /\ \E k \in 1..MinOf(BufSize, N - rd) :
          /\ data' = [i \in 1..MinOf(BufSize, k + Len(data)) |->
                        IF i <= k THEN rd + i
                        ELSE IF i <= Len(data) THEN data[i] ELSE rd + i]
          /\ rd' = rd + k
    /\ nW' = 0
    /\ pc' = "write"
    /\ UNCHANGED <<out, why>>

\* Mutant: nBytesW is not reset before the read, so the write loop's test
\* nBytesW < nBytes can skip a chunk.
ReadNoReset ==
    /\ pc = "read"
    /\ rd < N
    /\ \E k \in 1..MinOf(BufSize, N - rd) :
          /\ data' = Chunk(rd, k)
          /\ rd' = rd + k
          /\ pc' = IF nW < k THEN "write" ELSE "read"
    /\ UNCHANGED <<nW, out, why>>

\* nBytesW = 0; nBytes, err = src.Read(buf) returning 1..BufSize bytes.
Read ==
    /\ pc = "read"
    /\ rd < N
    /\ \E k \in 1..MinOf(BufSize, N - rd) :
          /\ data' = Chunk(rd, k)
          /\ rd' = rd + k
    /\ nW' = 0
    /\ pc' = "write"
    /\ UNCHANGED <<out, why>>

\* src.Read fails: EOF once the stream is exhausted, or a reset at any time.
ReadFail ==
    /\ pc = "read"
    /\ pc' = "done"
    /\ why' = IF rd = N THEN "eof" ELSE "rerr"
    /\ UNCHANGED <<rd, data, nW, out>>

\* n, err = dst.Write(data) succeeds: dst takes the first n bytes of data
\* (always from the start of the chunk), nBytesW += n, and the loop
\* repeats while nBytesW < nBytes.
Write ==
    /\ pc = "write"
    /\ \E n \in Accepted(data) :
          /\ out' = out \o SubSeq(data, 1, n)
          /\ nW' = nW + n
          /\ pc' = IF nW + n < Len(data) THEN "write" ELSE "read"
    /\ UNCHANGED <<rd, data, why>>

\* dst.Write fails: the pump returns.
WriteFail ==
    /\ pc = "write"
    /\ pc' = "done"
    /\ why' = "werr"
    /\ UNCHANGED <<rd, data, nW, out>>

\* Once pc = "done" the goroutine has returned and no step is enabled.
Next == Read \/ ReadFail \/ Write \/ WriteFail

Spec == Init /\ [][Next]_vars

-----------------------------------------------------------------------------
(* Properties                                                              *)

\* Byte-exactness (spec 4.3, 8): what the destination has received is the
\* source stream's prefix, in order, with no byte duplicated or skipped,
\* and never ahead of what was read.  A retry of a partly accepted chunk
\* or a chunk skipped by the write loop breaks it.
ByteExact ==
    /\ out = Stream(Len(out))
    /\ Len(out) <= rd

\* No loss at end of stream: when the pump stops because the source hit
\* EOF, the destination has received the whole stream.
NoLossAtEOF ==
    why = "eof" => out = Stream(N)

-----------------------------------------------------------------------------
(* Refinement: the pump's source count, destination and stop reason are   *)
(* those of the abstract relay; the chunk, the write count and the program *)
(* counter are hidden.                                                     *)

R == INSTANCE Relay WITH rd <- rd, out <- out, why <- why

\* tcpFwdData implements the byte-pump contract of spec 4.3: every step is
\* a step of Relay (consume, deliver a longer prefix, stop) or leaves the
\* relay's view unchanged.
RelaySpec == R!Spec
=============================================================================
