SPECIFICATION FairSpec
CONSTANTS
    Workers = {w1, w2}
    Requests = {r1, r2}
    Kinds <- AllKinds
    Flaky = {w1}
    DpAware = {w2}
    MaxRetries = 2
    FailureThreshold = 2
    SuccessThreshold = 1
    Timeout = 1
    MaxTroubles = 1
    None = None
INVARIANTS LoadMatchesGuards OneOutcomeEach
PROPERTIES RequestEnds OpenIsGivenAChance
