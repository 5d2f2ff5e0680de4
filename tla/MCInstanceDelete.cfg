SPECIFICATION FairSpec
CONSTANTS
  MaxHandles = 1
  Closers = {"delete"}
  Guards = {}
INVARIANT DeletedHasNoWorker
PROPERTIES
  OperationsEnd
  DeadWorkerLeavesReady
CHECK_DEADLOCK FALSE
