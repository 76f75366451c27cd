CONSTANTS
    Issues = {i1}
    Workers = {w1, w2}
    Slots = {s1, s2}
    MaxFaults = 3
    Features = {"provider", "storage", "timeout", "start-error", "crash", "wipe", "lose-spec"}
SPECIFICATION FairSpec
INVARIANTS IntakeTypeOK OneBuildPerIssue MarkedWasLanded
PROPERTIES EventuallyHandled
