SPECIFICATION Spec
CONSTANTS
  MaxCallbacks = 1
  MaxPolls = 1
  MaxCancels = 1
  MaxLost = 0
PROPERTIES
  SuccessIsLeftToPolling
CHECK_DEADLOCK FALSE
