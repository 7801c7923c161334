\* One client, a target that may stop and restart.
CONSTANTS
    Clients = {a1}
    MaxSends = 2
    MaxSocks = 1
    None = None
SPECIFICATION Spec
INVARIANTS
    SessionHasReversePath
