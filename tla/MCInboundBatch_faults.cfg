SPECIFICATION Spec
CONSTANTS
    Content = {c1, c2}
    MaxArrivals = 2
    MaxTries = 2
    JobTimeout = 1
    InProgressTtl = 2
    LockTtl = 3
    WorkerSlots = 2
    Prompt = FALSE
    Budgets <- Hostile
INVARIANTS OneOwner ImmutableBatch NothingLost AtMostOnce QuarantineHoldsCopy
PROPERTIES AnswersInOrder ImplementsContract
SYMMETRY Payloads
