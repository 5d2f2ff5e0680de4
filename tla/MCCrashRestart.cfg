SPECIFICATION FairSpec
CONSTANTS
  MaxGenerations = 2
  MaxUpdates = 1
INVARIANTS
  TypeOK
  RestartingHasOwner
PROPERTIES
  StopOutlastsDelay
  CrashIsAnswered
CHECK_DEADLOCK FALSE
