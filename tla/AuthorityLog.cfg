CONSTANTS
    c1 = c1  c2 = c2  t1 = t1  t2 = t2
    Run = run
    NoTask = no_task
    Tasks = {t1}
    Workers = {w1}
    Times = {1}
    RequireRoot = TRUE
    Clients = {c1, c2}
    May <- EveryOp
    Roots = {t1, no_task}
    Admissions = {"ready"}
    MaxAttempts = 2
    MaxCalls = 7
SPECIFICATION FairSpec
INVARIANTS TypeOK RunEndsAsRoot AnswersAreDurable
PROPERTIES KeepsLog CallsReturn
CHECK_DEADLOCK FALSE
