SPECIFICATION FairSpec
CHECK_DEADLOCK FALSE
CONSTANTS
    Settings <- MCSettings
    AutoMerge = {TRUE}
    MaxHead = 3
    MaxPolls = 2
    MaxFix = 1
    MaxConflict = 1
    MaxReviews = 2
    MaxFaults = 1
INVARIANTS EndgameTypeOK MergedWasVerified PersonApprovedMerge
PROPERTIES HandbackHolds  EndgameEnds
