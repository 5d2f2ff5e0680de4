SPECIFICATION Spec
CONSTANTS
  Ops = {o1}
  Names = {"high"}
  GuardStates = {"normal", "warning"}
  NoOp = NoOp
INVARIANT PausedUnderGuard
CHECK_DEADLOCK FALSE
