SPECIFICATION FairSpec
CONSTANTS
    w1 = w1  w2 = w2  g1 = g1  g2 = g2
    Workers = {w1, w2}
    Groups = {g1, g2}
    Grouping <- OneOrTwoGroups
    MaxRequeue = 1
    MaxFaults = 2
    NoOne = NoOne
INVARIANTS TypeOK ServingIsFenced
PROPERTIES OwnerIsMapped MessageReachesOwner
CHECK_DEADLOCK FALSE
