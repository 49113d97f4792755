SPECIFICATION FairSpec
CONSTANTS
    Steps <- FourSteps
    DependsOn <- MixedDependsOn
    DependsOnAny <- MixedDependsOnAny
    Delayed = {"d"}
    Conditional = {"b"}
    OnFailure <- MixedOnFailure
    MaxAttempts <- MixedMaxAttempts
    MayPanic = {"a"}
    MayCancel = TRUE
CHECK_DEADLOCK FALSE
INVARIANTS
    TypeOK
    LaunchedOnce
    ChannelNeverFull
    DependenciesRespected
    CompletedMeansAllDone
PROPERTY WorkflowEnds
