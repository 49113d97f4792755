CONSTANTS
    Requests = {r1, r2, r3}
    Capacity = 1
    Unit = 1
    QueueTimeout = 2
    Configs <- AllConfigs
    MeshMayReject = TRUE
SPECIFICATION FairSpec
INVARIANTS TokensConserved OneAnswerEach
PROPERTIES QueuedIsAnswered ImplementsAdmission
