CONSTANTS
  e1 = e1  e2 = e2  r1 = r1  r2 = r2  shared = shared
  Executions = {e1, e2}
  MaxTries = 1
  Requests = {r1, r2}
  WorkerIds <- SharedWorkerIds
  WorkerOf <- SharedWorkerOf
  NoWorker = NoWorker
SPECIFICATION Spec
SYMMETRY Symmetry
INVARIANTS
  EvidenceMatchesStatus
  RetiredNeverExecuted
  CancellationHasExecution
  SingleLeaseHolder
PROPERTIES
  ImplementsContract
  LatestClaimerDecides
CHECK_DEADLOCK FALSE
