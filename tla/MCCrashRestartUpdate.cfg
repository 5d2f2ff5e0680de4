SPECIFICATION Spec
CONSTANTS
  MaxGenerations = 1
  MaxUpdates = 1
PROPERTY UpdateTakesPrecedence
CHECK_DEADLOCK FALSE
