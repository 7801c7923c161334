\* openUDPProxy for a target that does not resolve (spec 4.1, 7).
CONSTANTS
    Transport = "udp"
    Targets = {t1, bad}
    BadTargets = {bad}
    Ports = {q1, q2}
    Callers = {p1}
    MaxCalls = 2
    None = None
SPECIFICATION Spec
CHECK_DEADLOCK FALSE
INVARIANTS
    EntryLive
