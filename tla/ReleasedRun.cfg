SPECIFICATION Spec
CONSTANTS
    Runs = {r1, r2}
    Callers = {a, b}
    Workers = {w1}
    Payloads = {p, q}
    Limit = 1
    Faults = {}
    MaxFaults = 0
    MaxCalls = 2
INVARIANTS ReleaseProvesAbsence
SYMMETRY Symmetry
CHECK_DEADLOCK FALSE
