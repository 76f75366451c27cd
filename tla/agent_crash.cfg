SPECIFICATION Spec
CONSTANTS
    Jobs = {t1, t2}
    NoOwner = NoOwner
    Owners <- MCOwners
    Cap = 1
    Pods = {p1, p2}
    MaxBoot = 2
    MaxProcs = 2
    MaxStarts = 3
    Features = {"failover", "spawn-failure", "crash", "scale-in"}
SYMMETRY Symmetry
 
 
 
 
PROPERTY ReaperSparesOwner
CHECK_DEADLOCK FALSE
