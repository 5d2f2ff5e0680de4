SPECIFICATION Spec
CONSTANTS
  MaxHandles = 1
  Closers = {"stop"}
  Guards = {}
PROPERTY UnconfirmedStopHoldsResources
CHECK_DEADLOCK FALSE
