\* One connection slot; the listener is closed from outside.
CONSTANTS
    Conns = {c1}
    ExternalClose = TRUE
SPECIFICATION Spec
CHECK_DEADLOCK FALSE
PROPERTIES
    ListenerCloseEndsLoop
