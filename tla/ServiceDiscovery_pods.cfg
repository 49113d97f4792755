SPECIFICATION FairSpec
CONSTANTS
    Pods = {1, 2}
    Urls = {"url"}
    Name <- OneName
    Url <- OneUrl
    MaxBreaks = 1
    MaxJobs = 2
INVARIANTS OnePodPerName
PROPERTIES GoneIsForgotten ReadyIsTracked ReadyIsServed
