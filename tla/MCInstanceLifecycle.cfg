SPECIFICATION Spec
CONSTANTS
  MaxHandles = 2
  Closers = {"stop"}
  Guards = {"guard"}
CONSTRAINT Bounded
INVARIANTS
  TypeOK
  ReadyIsRouted
  TransientHasOwner
PROPERTIES
  ReplacementSurvivesReaper
  ImplementsRouting
