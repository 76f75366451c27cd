SPECIFICATION FairSpec
CONSTANTS
    Events = {e1, e2, e3}
    Rejected = {e1, e2}
    MaxBatch = 2
    MaxAttempts = 2
    BackoffCap = 2
    AbandonDelay = 4
    Interval = 1
    PostTimeout = 1
    MaxFaults = 1
INVARIANT OutboxTypeOK
INVARIANT DeliveredWasReceived
PROPERTY StampedNeverResent
PROPERTY ImplementsChannel
CHECK_DEADLOCK FALSE
