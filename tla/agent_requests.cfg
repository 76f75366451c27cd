SPECIFICATION Spec
CONSTANTS
    Jobs = {t1, t2}
    NoOwner = NoOwner
    Owners <- MCOwners
    Cap = 1
    Pods = {p1}
    MaxBoot = 2
    MaxProcs = 2
    MaxStarts = 2
    Features = {"spec", "stop", "failover"}
SYMMETRY Symmetry
INVARIANT AgentTypeOK
PROPERTY ImplementsStore
CHECK_DEADLOCK FALSE
