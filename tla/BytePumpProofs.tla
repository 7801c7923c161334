--------------------------- MODULE BytePumpProofs ---------------------------
(***************************************************************************)
(* Proofs about the byte pump tcpFwdData (module BytePump) for every       *)
(* stream length N and buffer size BufSize.                                *)
(***************************************************************************)
EXTENDS BytePump, SequenceTheorems, TLAPS

(***************************************************************************)
(* The inductive invariant.  ByteExact alone is not inductive: it says     *)
(* nothing of the chunk held between src.Read and dst.Write.  IInv adds    *)
(* that in the write loop the chunk is the next bytes of the stream right  *)
(* after what the destination holds and none of it is written yet, and     *)
(* that at src.Read everything read has been written.                      *)
(***************************************************************************)
IInv ==
    /\ TypeOK
    /\ out = Stream(Len(out))
    /\ pc = "read" => Len(out) = rd
    /\ pc = "write" => /\ Len(data) \in 1..BufSize
                       /\ data = Chunk(Len(out), Len(data))
                       /\ rd = Len(out) + Len(data)
                       /\ nW = 0
    /\ pc = "done" => Len(out) <= rd
    /\ why = "eof" => Len(out) = N
    /\ why = "none" <=> pc # "done"

USE PumpAssumption

\* The chunk src.Read hands to the write loop is a sequence of stream bytes.
LEMMA ChunkType ==
    ASSUME NEW r \in Nat, NEW k \in Nat, r + k <= N
    PROVE  Chunk(r, k) \in Seq(1..N)
BY IsASeq DEF Chunk

\* What one successful dst.Write appends keeps out a sequence of bytes.
LEMMA AppendChunkType ==
    ASSUME NEW o \in Seq(1..N), NEW d \in Seq(1..N), NEW n \in 0..Len(d)
    PROVE  o \o SubSeq(d, 1, n) \in Seq(1..N)
<1>1. SubSeq(d, 1, n) \in Seq(1..N)
  BY SubSeqProperties
<1>2. QED
  BY <1>1, ConcatProperties

\* Type correctness of the pump, whatever ShortWrites is: one step.
LEMMA TypeStep == TypeOK /\ [Next]_vars => TypeOK'
  <2> SUFFICES ASSUME TypeOK, [Next]_vars PROVE TypeOK'
    OBVIOUS
  <2>1. CASE Read
    <3>1. PICK k \in 1..MinOf(BufSize, N - rd) :
                 data' = Chunk(rd, k) /\ rd' = rd + k
      BY <2>1 DEF Read
    <3>2. rd + k <= N
      BY <3>1 DEF MinOf, TypeOK
    <3>3. data' \in Seq(1..N)
      BY <3>1, <3>2, ChunkType DEF TypeOK
    <3>4. QED
      BY <2>1, <3>1, <3>2, <3>3 DEF Read, TypeOK
  <2>2. CASE ReadFail
    BY <2>2 DEF ReadFail, TypeOK
  <2>3. CASE Write
    <3>1. PICK n \in Accepted(data) :
                 /\ out' = out \o SubSeq(data, 1, n)
                 /\ nW' = nW + n
                 /\ pc' = IF nW + n < Len(data) THEN "write" ELSE "read"
      BY <2>3 DEF Write
    <3>2. n \in 0..Len(data)
      BY <3>1 DEF Accepted, TypeOK
    <3>3. out' \in Seq(1..N)
      BY <3>1, <3>2, AppendChunkType DEF TypeOK
    <3>4. QED
      BY <2>3, <3>1, <3>2, <3>3 DEF Write, TypeOK
  <2>4. CASE WriteFail
    BY <2>4 DEF WriteFail, TypeOK
  <2>5. CASE UNCHANGED vars
    BY <2>5 DEF vars, TypeOK
  <2>6. QED
    BY <2>1, <2>2, <2>3, <2>4, <2>5 DEF Next

\* Type correctness of the pump (every variable keeps its type in every
\* reachable state), whatever ShortWrites is.
THEOREM TypeCorrect == Spec => []TypeOK
<1>1. Init => TypeOK
  BY DEF Init, TypeOK
<1>2. QED
  BY <1>1, TypeStep, PTL DEF Spec

-----------------------------------------------------------------------------
(* Byte-exactness *)

LEMMA StreamType ==
    ASSUME NEW k \in Nat
    PROVE  Stream(k) \in Seq(1..k)
BY IsASeq DEF Stream

LEMMA ChunkLen ==
    ASSUME NEW r \in Nat, NEW k \in Nat
    PROVE  Len(Chunk(r, k)) = k
<1>1. Chunk(r, k) \in Seq(Nat)
  BY IsASeq DEF Chunk
<1>2. DOMAIN Chunk(r, k) = 1..k
  BY DEF Chunk
<1>3. QED
  BY <1>1, <1>2, LenProperties

LEMMA StreamLen ==
    ASSUME NEW k \in Nat
    PROVE  Len(Stream(k)) = k
<1>1. DOMAIN Stream(k) = 1..k
  BY DEF Stream
<1>2. QED
  BY <1>1, StreamType, LenProperties

\* ConcatProperties at one index, for sequences of naturals.
LEMMA ConcatAt ==
    ASSUME NEW s1 \in Seq(Nat), NEW s2 \in Seq(Nat),
           NEW i \in 1..Len(s1) + Len(s2)
    PROVE  (s1 \o s2)[i] = IF i <= Len(s1) THEN s1[i] ELSE s2[i - Len(s1)]
BY ConcatProperties

\* A chunk holding the bytes that follow the first L extends the stream
\* prefix of length L to the prefix of length L + m.
LEMMA StreamExtend ==
    ASSUME NEW L \in Nat, NEW m \in Nat
    PROVE  Stream(L) \o Chunk(L, m) = Stream(L + m)
<1>1. Stream(L) \in Seq(Nat) /\ Chunk(L, m) \in Seq(Nat) /\ Stream(L + m) \in Seq(Nat)
  BY StreamType, IsASeq, SeqMonotonic DEF Chunk
<1>2. Len(Stream(L)) = L /\ Len(Chunk(L, m)) = m /\ Len(Stream(L + m)) = L + m
  BY StreamLen, ChunkLen
<1>3. Stream(L) \o Chunk(L, m) \in Seq(Nat)
      /\ Len(Stream(L) \o Chunk(L, m)) = L + m
  BY <1>1, <1>2, ConcatProperties
<1>4. \A i \in 1..L + m : (Stream(L) \o Chunk(L, m))[i] = Stream(L + m)[i]
  <2> TAKE i \in 1..L + m
  <2>0. i \in 1..Len(Stream(L)) + Len(Chunk(L, m))
    BY <1>2
  <2>1. (Stream(L) \o Chunk(L, m))[i] =
            IF i <= Len(Stream(L)) THEN Stream(L)[i]
            ELSE Chunk(L, m)[i - Len(Stream(L))]
    BY <1>1, <2>0, ConcatAt
  <2>2. QED
    BY <2>1, <1>2 DEF Stream, Chunk
<1>5. QED
  BY <1>1, <1>2, <1>3, <1>4, SeqEqual

\* A whole-chunk write extends the destination's prefix to all that was
\* read, and sends the loop back to src.Read.
LEMMA WriteExtends ==
    ASSUME ShortWrites = FALSE, IInv, Write
    PROVE  /\ out' = Stream(rd)
           /\ Len(out') = rd
           /\ Len(out) < rd
           /\ pc' = "read"
<1>0. TypeOK
  BY DEF IInv
<1>1. /\ Len(data) \in 1..BufSize
      /\ data = Chunk(Len(out), Len(data))
      /\ rd = Len(out) + Len(data)
      /\ nW = 0
  BY DEF Write, IInv
<1>2. /\ out' = out \o SubSeq(data, 1, Len(data))
      /\ nW' = nW + Len(data)
      /\ pc' = IF nW + Len(data) < Len(data) THEN "write" ELSE "read"
  BY DEF Write, Accepted
<1>3. SubSeq(data, 1, Len(data)) = data
  BY <1>0, SubSeqFull DEF TypeOK
<1>4. out' = Stream(Len(out)) \o Chunk(Len(out), Len(data))
  BY <1>1, <1>2, <1>3 DEF IInv
<1>5. Len(out) \in Nat /\ Len(data) \in Nat
  BY <1>0, LenProperties DEF TypeOK
<1>6. out' = Stream(rd)
  BY <1>1, <1>4, <1>5, StreamExtend
<1>7. Len(out') = rd
  BY <1>6, <1>0, StreamLen DEF TypeOK
<1>8. QED
  BY <1>1, <1>2, <1>5, <1>6, <1>7

\* The inductive invariant holds initially ...
LEMMA InitIInv == Init => IInv
BY StreamLen DEF Init, IInv, TypeOK, Stream

\* ... and every step of a pump whose destination takes whole chunks
\* preserves it.
LEMMA NextIInv ==
    ASSUME ShortWrites = FALSE
    PROVE  IInv /\ [Next]_vars => IInv'
<1> SUFFICES ASSUME IInv, [Next]_vars PROVE IInv'
  OBVIOUS
<1>1. TypeOK'
  BY TypeStep DEF IInv
<1>0. TypeOK
  BY DEF IInv
<1>2. CASE Read
  <2>1. PICK k \in 1..MinOf(BufSize, N - rd) :
               data' = Chunk(rd, k) /\ rd' = rd + k
    BY <1>2 DEF Read
  <2>2. Len(data') = k /\ k \in 1..BufSize
    BY <2>1, <1>0, ChunkLen DEF MinOf, TypeOK
  <2>3. Len(out) = rd
    BY <1>2 DEF Read, IInv
  <2>4. QED
    BY <1>1, <1>2, <2>1, <2>2, <2>3 DEF Read, IInv
<1>3. CASE ReadFail
  BY <1>1, <1>3 DEF ReadFail, IInv
<1>4. CASE Write
  <2>1. out' = Stream(rd) /\ Len(out') = rd
    BY <1>4, WriteExtends
  <2>2. pc' = "read"
    BY <1>4, WriteExtends
  <2>3. QED
    BY <1>1, <1>4, <2>1, <2>2 DEF Write, IInv
<1>5. CASE WriteFail
  BY <1>1, <1>5 DEF WriteFail, IInv
<1>6. CASE UNCHANGED vars
  BY <1>1, <1>6 DEF vars, IInv
<1>7. QED
  BY <1>2, <1>3, <1>4, <1>5, <1>6 DEF Next

LEMMA IInvSafe == IInv => ByteExact /\ NoLossAtEOF
BY DEF IInv, ByteExact, NoLossAtEOF, TypeOK

\* Byte-exactness of tcpFwdData for every N and BufSize, for destinations
\* that obey the io.Writer contract (net.Conn does): the destination only
\* ever holds an in-order, gap-free, duplicate-free prefix of what the pump
\* read, and holds the whole stream when the pump stops at EOF.
THEOREM ByteExactness ==
    ASSUME ShortWrites = FALSE
    PROVE  Spec => [](ByteExact /\ NoLossAtEOF)
<1>1. Spec => []IInv
  BY InitIInv, NextIInv, PTL DEF Spec
<1>2. QED
  BY <1>1, IInvSafe, PTL
-----------------------------------------------------------------------------
(* Refinement of the byte-pump contract (module Relay) *)

LEMMA SpecIInv ==
    ASSUME ShortWrites = FALSE
    PROVE  Spec => []IInv
BY InitIInv, NextIInv, PTL DEF Spec

\* Every step of the pump is a step of the contract or leaves rd, out and
\* why unchanged.
LEMMA StepRefines ==
    ASSUME ShortWrites = FALSE
    PROVE  IInv /\ [Next]_vars => [R!Next]_<<rd, out, why>>
<1> SUFFICES ASSUME IInv, [Next]_vars PROVE [R!Next]_<<rd, out, why>>
  OBVIOUS
<1>0. TypeOK
  BY DEF IInv
<1>1. CASE Read
  <2>1. PICK k \in 1..MinOf(BufSize, N - rd) : rd' = rd + k
    BY <1>1 DEF Read
  <2>2. rd' \in rd + 1..N
    BY <2>1, <1>0 DEF MinOf, TypeOK
  <2>3. why = "none"
    BY <1>1 DEF Read, IInv
  <2>4. R!Take
    BY <1>1, <2>2, <2>3 DEF Read, R!Take
  <2>5. QED
    BY <2>4 DEF R!Next
<1>2. CASE ReadFail
  <2>1. why = "none" /\ Len(out) = rd /\ out = Stream(Len(out))
    BY <1>2 DEF ReadFail, IInv
  <2>2. CASE rd = N
    <3>1. R!Finish
      BY <1>2, <2>1, <2>2 DEF ReadFail, R!Finish, Stream, R!Stream
    <3>2. QED
      BY <3>1 DEF R!Next
  <2>3. CASE rd # N
    <3>1. R!Fail
      BY <1>2, <2>1, <2>3 DEF ReadFail, R!Fail
    <3>2. QED
      BY <3>1 DEF R!Next
  <2>4. QED
    BY <2>2, <2>3
<1>3. CASE Write
  <2>1. out' = Stream(rd) /\ Len(out) < rd
    BY <1>3, WriteExtends
  <2>2. why = "none" /\ rd' = rd /\ why' = why
    BY <1>3 DEF Write, IInv
  <2>3. rd \in Len(out) + 1..rd
    BY <2>1, <1>0, LenProperties DEF TypeOK
  <2>4. R!Pass
    BY <2>1, <2>2, <2>3 DEF R!Pass, Stream, R!Stream
  <2>5. QED
    BY <2>4 DEF R!Next
<1>4. CASE WriteFail
  <2>1. R!Fail
    BY <1>4 DEF WriteFail, IInv, R!Fail
  <2>2. QED
    BY <2>1 DEF R!Next
<1>5. CASE UNCHANGED vars
  BY <1>5 DEF vars
<1>6. QED
  BY <1>1, <1>2, <1>3, <1>4, <1>5 DEF Next

\* tcpFwdData implements the byte-pump contract for every N and BufSize
\* when its destination obeys the io.Writer contract: the pump's initial
\* state is the contract's, and every pump step is a contract step
\* (consume, deliver a longer prefix, stop) or invisible to it.
THEOREM ImplementsRelay ==
    ASSUME ShortWrites = FALSE
    PROVE  Spec => RelaySpec
<1>1. Init => R!Init
  BY DEF Init, R!Init
<1>2. QED
  BY <1>1, SpecIInv, StepRefines, PTL DEF Spec, RelaySpec, R!Spec
=============================================================================
