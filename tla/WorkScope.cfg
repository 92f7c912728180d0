SPECIFICATION Spec
CONSTANTS
  Editors = {e1, e2}
  Clicks = {q1, q2}
  BatchRuns = {1, 2}
  Callers = {c1, c2}
  Executions = {1, 2}
  MaxRevisions = 3
  MaxBatches = 2
  MaxPauses = 1
  MaxAttempts = 2
INVARIANTS
  BatchesInOrder
  OfferedIsAccepted
  ViewAgreesWithDatabase
CHECK_DEADLOCK FALSE
PROPERTIES
  PreparationAnswered
