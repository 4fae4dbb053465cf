SPECIFICATION Spec
CONSTANTS
    Callers = {c1, c2, c3}
    MaxRetries = 3
    MaxCalls = 2
    MaxFaults = 4
INVARIANTS OneRequestAtATime SkippedOnlyIfAccepted AskedAgainOnlyAfterFault
PROPERTIES ImplementsSendContract
SYMMETRY CallerSymmetry
CHECK_DEADLOCK FALSE
