SPECIFICATION ChatSpec
CONSTANTS
    Requests = {r1, r2}
    None = None
    Faults = {}
    MaxFaults = 0
CHECK_DEADLOCK FALSE
INVARIANTS
    Abortable
