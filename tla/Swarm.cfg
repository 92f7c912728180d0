SPECIFICATION Spec
CONSTANTS
  Tasks <- MCTasks
  InitialPlan <- MCInitialPlan
  DependsOn <- MCDependsOn
  AllowPartial = {1}
  Yields <- MCYields
  Scope <- MCScope
  Value <- MCValue
  Grounding <- MCGrounding
  Authoritative = {3}
  BatchSize = 1
  WorkerCalls = {2}
  MaxActive = 2
  MaxReplans = 1
  MaxTasks = 5
  MaxCalls = 19
  MaxCrashes = 1
INVARIANTS
  CompletedNeverRunAgain
  CompleteMeansVerified
  ShownClaimsAgree
PROPERTIES
  CorrectionClosedForGood
  EngineTerminates
CHECK_DEADLOCK FALSE
