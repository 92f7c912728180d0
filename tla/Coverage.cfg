SPECIFICATION Spec
CONSTANTS
  old = old  first = first  second = second
  Runs = {old, first, second}
  NoRun = NoRun
  Candidates <- MCCandidates
  KeyOf <- MCKeyOf
  ContentOf <- MCContentOf
  Snapshot <- MCSnapshot
  Batch <- MCBatch
  Includes = {second}
  Promotes = {first}
  MaxTries <- MCMaxTries
  Outcomes <- MCOutcomes
INVARIANTS
  PaidAlone
  PaidOnce
  NoPromotionStranded
CHECK_DEADLOCK FALSE
