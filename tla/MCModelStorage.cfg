SPECIFICATION FairSpec
CONSTANTS
  j1 = j1
  j2 = j2
  Jobs <- MCJobs
  Pieces = {1, 2}
  Faults = {"crash", "io"}
INVARIANTS TypeOK PublishedIsKept StagingHasOwner
PROPERTIES OperationsEnd
CHECK_DEADLOCK FALSE
