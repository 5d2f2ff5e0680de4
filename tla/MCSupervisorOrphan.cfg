SPECIFICATION MCSpec
CONSTANTS
  MaxHandles = 1
  MaxRelaxations = 1
INVARIANT EmergencyStopIsConfirmed
CHECK_DEADLOCK FALSE
