SPECIFICATION MCFairSpec
CONSTANTS
  MaxHandles = 2
  MaxRelaxations = 2
INVARIANTS
  TypeOK
  StoppedMeansGone
  ShutdownIsFinal
PROPERTIES
  NoSpawnUnderGuard
  StopEndsWorker
  ImplementsWorkers
CHECK_DEADLOCK FALSE
