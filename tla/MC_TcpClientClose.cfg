\* One connection: does a client's close reach the target?
CONSTANTS
    Conns = {c1}
    ExternalClose = FALSE
SPECIFICATION Spec
CHECK_DEADLOCK FALSE
PROPERTIES
    TeardownOnClientClose
