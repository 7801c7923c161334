\* Two client connections, and a listener that may be closed from outside
\* at any point.  Once every connection is served the accept loop blocks
\* in Accept (or spins on a closed listener) forever, so a state with no
\* enabled step is the program's normal idle state.
CONSTANTS
    Conns = {c1, c2}
    ExternalClose = TRUE
SPECIFICATION Spec
CHECK_DEADLOCK FALSE
PROPERTIES
    TeardownOnTargetClose
    AcceptProgress
