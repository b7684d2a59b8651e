CONSTANTS
    Instances = {i1, i2}
    MaxLapses = 2
    MaxFaults = 2
    NoOne = NoOne
SPECIFICATION FairSpec
INVARIANTS TypeOK EpochExclusive SingleLeader
PROPERTY LeaderElected
