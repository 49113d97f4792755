SPECIFICATION FairSpec
CONSTANTS
    Urls = {"u1", "u2"}
    Configured <- TwoUrls
    Tokenizers = {"t1"}
    Startup = "startup"
    Producers = {1}
    MaxJobs = 1
    JobIds = {11, 12}
    Capacity = 1
    Permits = 1
    None = None
INVARIANTS StatusTellsJob
PROPERTIES LeftoverIsSwept ImplementsPool
CHECK_DEADLOCK FALSE
