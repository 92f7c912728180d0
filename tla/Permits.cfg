CONSTANTS
  p1 = p1  p2 = p2  q1 = q1  q2 = q2  q3 = q3
  Processes = {p1, p2}
  Requests = {q1, q2, q3}
  ProcessOf <- TwoProcesses
  LeaseIds = {l1, l2, l3}
  NoLease = NoLease
  MaxConcurrency = 2
  LocalSlots = 2
  TimedReclaim = TRUE
SPECIFICATION FairSpec
INVARIANTS
  ProviderLoadWithinCeiling
  LiveRequestsHoldTheirLease
  SlotsBalanced
PROPERTIES
  RequestsEnd
CHECK_DEADLOCK FALSE
