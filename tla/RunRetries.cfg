CONSTANTS
  e1 = e1  e2 = e2  r1 = r1  r2 = r2  shared = shared
  Executions = {e1}
  MaxTries = 3
  Requests = {r1}
  WorkerIds <- OwnWorkerIds
  WorkerOf <- OwnWorkerOf
  NoWorker = NoWorker
SPECIFICATION FairSpec
INVARIANTS
  ExitZeroMeansTerminal
PROPERTIES
  StartedRunSettles
CHECK_DEADLOCK FALSE
