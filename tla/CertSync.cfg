SPECIFICATION Spec
CONSTANTS
    Requests = {r1}
    Attempts = 3
    MaxCerts = 1
INVARIANT SyncAccepts
CHECK_DEADLOCK FALSE
