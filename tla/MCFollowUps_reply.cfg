SPECIFICATION FollowSpec
CONSTANTS
    c1 = c1
    c2 = c2
    Convs <- MCConvs
    Steps = 2
    MaxPerRun = 2
    DailyLimit = 1
    MaxTurns = 3
    MaxMishaps = 1
SYMMETRY Interchangeable
PROPERTIES ReplyStopsChain
CHECK_DEADLOCK FALSE
