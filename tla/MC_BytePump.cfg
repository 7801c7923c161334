\* Pump over a stream of 10 bytes with a 3-byte buffer: several chunks,
\* short final chunks, and every failure point.  The pump returns (pc =
\* "done") after its first error, so behaviours end there.
CONSTANTS
    N = 10
    BufSize = 3
    ShortWrites = FALSE
SPECIFICATION Spec
CHECK_DEADLOCK FALSE
INVARIANTS
    TypeOK
    ByteExact
    NoLossAtEOF
PROPERTIES
    RelaySpec
