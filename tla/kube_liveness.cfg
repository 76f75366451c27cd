SPECIFICATION FairSpec
CONSTANTS
    Jobs = {j1}
    Owners = {}
    NoOwner = NoOwner
    Cap = 1
    Creds = {c1}
    NoCred = NoCred
    Pods = {p1}
    JobName <- OwnNames
    SweepDeletes = FALSE
    MaxStarts = 2
    MaxFaults = 1
    Features = {"stop", "store-error", "api-error", "crash"}
 
PROPERTY SlotGivenBack
PROPERTY CredentialReturned
CHECK_DEADLOCK FALSE
