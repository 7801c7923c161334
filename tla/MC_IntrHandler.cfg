\* Three interrupts, and a node setup that may fail.  Once the process has
\* ended no step is enabled, and without an interrupt main polls forever:
\* both are states the program really stops in.
CONSTANTS
    MaxSignals = 3
    NodeFails = TRUE
SPECIFICATION Spec
CHECK_DEADLOCK FALSE
INVARIANTS
    TypeOK
    CloseWaitsForHandlers
PROPERTIES
    ShutdownOnInterrupt
