SPECIFICATION FairSpec
CONSTANTS
  Requests = {r1, r2, r3}
  Limit <- MCLimit
INVARIANTS
  TypeOK
  SlotsAccounted
  WaitersAreListed
  DrainSeesLeases
  GateIsBounded
PROPERTY WaitersAreServed
CHECK_DEADLOCK FALSE
