SPECIFICATION FollowSpec
CONSTANTS
    c1 = c1
    c2 = c2
    Convs <- MCConvs
    Steps = 1
    MaxPerRun = 2
    DailyLimit = 1
    MaxTurns = 2
    MaxMishaps = 1
SYMMETRY Interchangeable
INVARIANTS FollowTypeOK DailyLimitHolds RemindedIsDelivered
CHECK_DEADLOCK FALSE
