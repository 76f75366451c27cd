SPECIFICATION Spec
CONSTANTS
    Jobs = {j1, j2}
    Owners = {}
    NoOwner = NoOwner
    Cap = 1
    Creds = {c1}
    NoCred = NoCred
    Pods = {p1}
    JobName <- OwnNames
    SweepDeletes = TRUE
    MaxStarts = 2
    MaxFaults = 1
    Features = {"store-error", "api-error", "crash", "pool-reset"}
INVARIANT StoreTypeOK
INVARIANT KubeTypeOK
INVARIANT PoolCountsHolders
 
PROPERTY LiveBuildStaysKnown
PROPERTY SweepListsOnlyOrphans
SYMMETRY Symmetry
CHECK_DEADLOCK FALSE
