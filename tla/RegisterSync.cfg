SPECIFICATION SyncSpec
CONSTANTS
  MaxBacklog = 1
  MaxResumes = 1
  MaxManual = 1
  MaxDeaths = 1
INVARIANTS
  SyncAlone
PROPERTIES
  OnlyResumeLeavesAPause
  RegisterCompletes
