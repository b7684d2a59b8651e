SPECIFICATION SubmissionSpec
CONSTANTS
    Runs = {r1, r2}
    Callers = {a, b}
    Workers = {w1}
    Payloads = {p}
    Keys = {k, l}
    Limit = 1
    Faults = {"crash", "no_reply", "late", "unavailable", "key_expiry"}
    MaxFaults = 2
    MaxCalls = 3
INVARIANTS OneRunPerKey StoredResultStands AcceptedIsComplete
PROPERTIES RunSettles
CHECK_DEADLOCK FALSE
