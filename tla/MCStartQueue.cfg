SPECIFICATION FairSpec
CONSTANTS
  Ops = {o1, o2, o3}
  Names = {"high", "low"}
  GuardStates = {"normal", "warning"}
  NoOp = NoOp
INVARIANTS
  TypeOK
  SlotOwned
  NoStrandedEntry
PROPERTIES
  PriorityOrder
  ImplementsSlot
  UnpausedQueueDrains
CHECK_DEADLOCK FALSE
