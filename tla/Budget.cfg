CONSTANTS
  r1 = r1  r2 = r2  c1 = c1  c2 = c2  c3 = c3
  Runs = {r1, r2}
  Threads = {c1, c2, c3}
  ThreadsOf <- MCThreadsOf
  NoThread = NoThread
  Caps = {2}
  MinAnswer = 1
  MaxModelCalls <- MCMaxModelCalls
  MaxOutputTokens = 3
  MaxCostPerRun = 3
  DailyBudget = 3
  MaxCrashes <- MCMaxCrashes
SPECIFICATION BudgetSpec
INVARIANTS
  RunCeilings
  ReservationServesOneRequest
  DailySpendBounded
  CallsBoundedAcrossRestarts
SYMMETRY Symmetry
CHECK_DEADLOCK FALSE
