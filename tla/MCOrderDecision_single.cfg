SPECIFICATION FairSpec
CONSTANTS
    Handlers = {h1, h2}
    MaxOrders = 1
    MaxTaps = 3
    MaxFaults = 3
INVARIANTS ResolvedOnlyAfterSend
PROPERTY TapIsAnswered
CHECK_DEADLOCK FALSE
