SPECIFICATION Spec
CONSTANTS
    Runs = {r1, r2}
    Callers = {a, b}
    Workers = {w1, w2}
    Payloads = {p, q}
    Limit = 1
    Faults = {"crash", "no_reply", "late", "unavailable", "expiry"}
    MaxFaults = 1
    MaxCalls = 3
INVARIANTS TypeOK CountersMatch EndedWasFinalized AckedIsSettled EventsOnce
SYMMETRY Symmetry
CHECK_DEADLOCK FALSE
