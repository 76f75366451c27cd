SPECIFICATION FairSpec
CONSTANTS
    Jobs = {t1, t2}
    NoOwner = NoOwner
    Owners <- MCOwners
    Cap = 1
    Pods = {p1}
    MaxBoot = 1
    MaxProcs = 2
    MaxStarts = 2
    Features = {"spawn-failure"}
PROPERTY QueuedEventuallyLeaves
CHECK_DEADLOCK FALSE
