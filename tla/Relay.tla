-------------------------------- MODULE Relay --------------------------------
(***************************************************************************)
(* What a byte pump promises (spec 4.3): it consumes the source stream     *)
(* 1..N in order, hands the destination ever longer prefixes of what it   *)
(* has consumed, and stops at most once: at EOF only when the destination *)
(* holds the whole stream, or at any time on a read or write error.  How  *)
(* the bytes are chunked and how the writes are looped is left open.      *)
(***************************************************************************)
EXTENDS Naturals, Sequences

CONSTANT N      \* length of the source stream

VARIABLES
    rd,     \* bytes consumed from the source
    out,    \* bytes the destination holds, in order
    why     \* "none" while relaying, else why it stopped: "eof", "rerr", "werr"

Stream(k) == [i \in 1..k |-> i]

Init ==
    /\ rd = 0
    /\ out = <<>>
    /\ why = "none"

\* Consume more of the source.
Take ==
    /\ why = "none"
    /\ \E k \in rd + 1..N : rd' = k
    /\ UNCHANGED <<out, why>>

\* Hand the destination a longer prefix of what has been consumed.
Pass ==
    /\ why = "none"
    /\ \E k \in Len(out) + 1..rd : out' = Stream(k)
    /\ UNCHANGED <<rd, why>>

\* Stop at EOF, with the whole stream delivered.
Finish ==
    /\ why = "none"
    /\ rd = N
    /\ out = Stream(N)
    /\ why' = "eof"
    /\ UNCHANGED <<rd, out>>

\* Stop on an I/O error, whatever has been delivered.
Fail ==
    /\ why = "none"
    /\ why' \in {"rerr", "werr"}
    /\ UNCHANGED <<rd, out>>

Next == Take \/ Pass \/ Finish \/ Fail

Spec == Init /\ [][Next]_<<rd, out, why>>
=============================================================================
