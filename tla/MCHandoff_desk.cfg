SPECIFICATION Spec
CONSTANTS
    c1 = c1
    h1 = h1
    h2 = h2
    None = None
    Convs <- MCConvs
    Handlers <- MCHandlers
    MaxTexts = 2
    MaxPresses = 1
    MaxRows = 2
    MaxAdmin = 1
    MaxFaults = 2
SYMMETRY Interchangeable
INVARIANTS SentIsDelivered ResolvedIsAnswered LateReplyIsNotSwallowed OneLateReply
PROPERTIES WaitingIsNotReconciled
CHECK_DEADLOCK FALSE
