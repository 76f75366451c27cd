SPECIFICATION Spec
CONSTANTS
    Jobs = {j1, j2}
    Owners = {}
    NoOwner = NoOwner
    Cap = 1
    Creds = {c1, c2}
    NoCred = NoCred
    Pods = {p1}
    JobName <- OwnNames
    SweepDeletes = TRUE
    MaxStarts = 2
    MaxFaults = 0
    Features = {}
PROPERTY ReaperSparesLaunch
CHECK_DEADLOCK FALSE
