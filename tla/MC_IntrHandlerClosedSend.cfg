\* Two interrupts and a node setup that succeeds: the second interrupt may
\* arrive after Close has closed ih.sig and before the handler goroutine
\* has called signal.Stop.
CONSTANTS
    MaxSignals = 2
    NodeFails = FALSE
SPECIFICATION Spec
CHECK_DEADLOCK FALSE
INVARIANT
    NoSendOnClosedSig
