SPECIFICATION Spec
CONSTANTS
  Prepares = {p}
  Captures = {c}
  PageCount = 2
  MaxVersions = 2
INVARIANTS
  UnchangedMeansCurrent
  ActiveIsWhole
  PendingCanBeAdopted
  PayloadRecoverable
  BatchHasItsRows
CHECK_DEADLOCK FALSE
