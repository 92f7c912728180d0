CONSTANTS
  Callers = {c1, c2}
  Kinds = {"inference", "search"}
  Weights = {2}
  MaxRpm = 2
  MaxTpm = 3
  Window = 4
  Interval = 3
  Pauses = {4, 5}
  MinPause = 4
  MaxLag = 1
  MaxSkew = 1
  MaxTime = 6
SPECIFICATION WindowsSpec
SYMMETRY Symmetry
INVARIANTS
  RollingCeilings
  ShortestPauseHonoured
CHECK_DEADLOCK FALSE
