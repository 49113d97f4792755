SPECIFICATION Spec
CONSTANTS
    Steps <- FourSteps
    DependsOn <- JoinDependsOn
    DependsOnAny <- NoDependsOnAny
    Delayed = {}
    Conditional = {}
    OnFailure <- JoinOnFailure
    MaxAttempts <- JoinMaxAttempts
    MayPanic = {}
    MayCancel = FALSE
CHECK_DEADLOCK FALSE
INVARIANTS
    BlockedOnlyAfterFailure
