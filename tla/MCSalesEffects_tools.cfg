SPECIFICATION Spec
CONSTANTS
    followup = followup
    decision = decision
    MaxRetries = 2
    Outsiders = {followup, decision}
    MaxReopened = 1
    MaxTurns = 2
    MaxCalls = 2
    MaxFaults = 2
CHECK_DEADLOCK FALSE
INVARIANTS
    OneDeal
    DeliveredIsJournaled
    TruthIsTold
PROPERTIES KnownOrderIsResumed ImplementsEffectContract
SYMMETRY AlikeWriters
