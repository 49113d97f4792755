CONSTANTS
  Urls = {u1}
  Models = {m1, m2}
  NumWorkers = 2
  MaxIds = 2
  EventCapacity = 2
  Removals = {removal}
  JobKinds = {"add", "update", "mesh"}
  SuccessThreshold = 1
  FailureThreshold = 1
  LivenessFactor = 1
  PendingFactor = 1
  RemoveUnhealthy = TRUE
  Requests = {q1}
SPECIFICATION Spec
INVARIANTS
  OneWorkerPerUrl
  NeverFailedIsProbed
  IndexAgrees
  LoadSurvivesReplace
  ProbeHitsItsWorker
CONSTRAINT UpToARace
SYMMETRY ModelSymmetry
CHECK_DEADLOCK FALSE
