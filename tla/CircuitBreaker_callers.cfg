SPECIFICATION MCSpec
CONSTANTS
    c1 = c1
    c2 = c2
    Callers <- TwoCallers
    Calls <- AllCalls
    FailureThreshold = 2
    SuccessThreshold = 3
    Timeout = 2
INVARIANTS
    ThresholdHasOwner
    CountersMatchState
PROPERTIES
    ImplementsProtocol
    OpenIsProbed
