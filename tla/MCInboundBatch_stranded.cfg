SPECIFICATION Spec
CONSTANTS
    Content = {c1}
    MaxArrivals = 2
    MaxTries = 3
    JobTimeout = 1
    InProgressTtl = 2
    LockTtl = 3
    WorkerSlots = 2
    Prompt = TRUE
    Budgets <- Quiet
INVARIANT NoMessageStranded
