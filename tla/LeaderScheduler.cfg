CONSTANTS
    Instances = {i1, i2}
    MaxLapses = 0
    MaxFaults = 1
    NoOne = NoOne
SPECIFICATION FairSpec
PROPERTY SchedulerComesBack
