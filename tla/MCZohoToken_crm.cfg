SPECIFICATION FairSpec
CONSTANTS
    Callers = {c1, c2}
    Validity = 8
    Buffer = 6
    LockTtl = 2
    RefreshMax = 4
    PollWindow = 2
    MaxAttempts = 3
    RetriesWrites = FALSE
    MaxFaults = 3
INVARIANTS CachedTokenAlive OneRefresher CarriedOnce
PROPERTIES TimeoutOnlyInTrouble CallersServed LockIsLease
