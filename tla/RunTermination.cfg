SPECIFICATION FinFairSpec
CONSTANTS
    a = a  b = b
    Tasks = {a, b}
    Workers = {w1}
    Schedulers = {1}
    Recoverers = {1}
    Children <- Chain
    MaxRequeue = 0
    NoOne = NoOne
INVARIANTS PublishedOutcomeHolds FinalizerRemains
PROPERTIES EndedTasksEndRun ReadyTaskEnds
CHECK_DEADLOCK FALSE
