\* The destination may accept part of a chunk without an error (spec 4.3).
CONSTANTS
    N = 4
    BufSize = 3
    ShortWrites = TRUE
SPECIFICATION Spec
CHECK_DEADLOCK FALSE
INVARIANTS
    ByteExact
