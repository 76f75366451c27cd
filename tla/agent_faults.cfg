SPECIFICATION Spec
CONSTANTS
    Jobs = {t1, t2}
    NoOwner = NoOwner
    Owners <- MCOwners
    Cap = 1
    Pods = {p1}
    MaxBoot = 1
    MaxProcs = 2
    MaxStarts = 3
    Features = {"spec", "spawn-failure", "monitor-error"}
SYMMETRY Symmetry
INVARIANT AdmissionCap
 
PROPERTY ClaimNeverReopened
CHECK_DEADLOCK FALSE
