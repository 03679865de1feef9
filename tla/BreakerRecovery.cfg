CONSTANTS
    Calls = {c1, c2, c3}
    FailureThreshold = 3
    RecoveryTimeout = 2
SPECIFICATION FairSpec
INVARIANTS
    OpenIsEarned
PROPERTIES
    Recovers
