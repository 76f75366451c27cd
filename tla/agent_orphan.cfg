SPECIFICATION FairSpec
CONSTANTS
    Jobs = {t1, t2}
    NoOwner = NoOwner
    Owners <- MCOwners
    Cap = 1
    Pods = {p1, p2}
    MaxBoot = 2
    MaxProcs = 2
    MaxStarts = 2
    Features = {"crash", "scale-in"}
PROPERTY OrphanEventuallyFreed
CHECK_DEADLOCK FALSE
