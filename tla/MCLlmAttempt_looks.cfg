SPECIFICATION FairSpec
CONSTANTS
    Runners = {r1, r2}
    MaxAttempts = 2
    MaxFaults = 2
INVARIANTS OneEvaluation AlertedOnlyIfSaved
PROPERTIES AttemptEnds SuccessIsFollowedUp
CHECK_DEADLOCK FALSE
