SPECIFICATION Spec
CONSTANTS
    Readers = {r1, r2}
    TTL = 2
    ClientTTL = 2
    LockTime = 1
    PollTime = 1
    Delay = 1
    MaxWriters = 1
INVARIANTS
    TypeOK
    StalenessIsBounded
    StaleIsExplained
    LockIsKept
PROPERTIES
    CallsEnd
