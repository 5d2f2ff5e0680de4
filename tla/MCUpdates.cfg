SPECIFICATION FairSpec
CONSTANTS
  Releases <- MCReleases
  MaxEntries = 2
  Faults = {"interrupt", "kill", "io"}
INVARIANTS TypeOK CurrentIsInstalled RollbackTargetKept GoodVersionKept
PROPERTIES FailedBuildStaysOut WorkingVersionRuns
CHECK_DEADLOCK FALSE
