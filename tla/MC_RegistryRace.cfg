\* Two goroutines call openTCPProxy for the same target (spec 4.1, 9).
CONSTANTS
    Transport = "tcp"
    Targets = {t1}
    BadTargets = {}
    Ports = {q1, q2}
    Callers = {p1, p2}
    MaxCalls = 1
    None = None
SPECIFICATION Spec
CHECK_DEADLOCK FALSE
INVARIANTS
    OneListenerPerKey
