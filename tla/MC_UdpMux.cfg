\* Two clients sending two datagrams each; a target that may stop and
\* restart; one descriptor more than the clients need.
CONSTANTS
    Clients = {a1, a2}
    MaxSends = 2
    MaxSocks = 3
    None = None
SPECIFICATION Spec
INVARIANTS
    TypeOK
    SessionIsolation
    OneSessionPerClient
PROPERTIES
    ForwardProgress
