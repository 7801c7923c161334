\* The stream proxy's registry called by one goroutine at a time (main
\* calls openTCPProxy once; repeated calls are the idempotence case):
\* three targets, one of them unresolvable, and two ports, so a bind fails.
CONSTANTS
    Transport = "tcp"
    Targets = {t1, t2, bad}
    BadTargets = {bad}
    Ports = {q1, q2}
    Callers = {p1}
    MaxCalls = 4
    None = None
SPECIFICATION Spec
CHECK_DEADLOCK FALSE
INVARIANTS
    TypeOK
    OneListenerPerKey
    ReturnedIsEntry
    EntryLive
PROPERTIES
    ListenAddrStable
