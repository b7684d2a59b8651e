CONSTANTS
    a = a  b = b  c = c  w1 = w1  w2 = w2
    Tasks = {a, b, c}
    Workers = {w1, w2}
    Schedulers = {1, 2}
    Recoverers = {1, 2}
    Children <- Join
    MaxRequeue = 1
    NoOne = NoOne
SPECIFICATION Spec
CONSTRAINT Bound
SYMMETRY WorkerSymmetry
INVARIANTS TypeOK ClaimEpochUnique ClaimBudget IndexesAgree DependencyOrder
PROPERTIES TerminalStable ReservationIntact
CHECK_DEADLOCK FALSE
