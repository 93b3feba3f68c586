SPECIFICATION FairSpec
CONSTANTS
  MaxCallbacks = 1
  MaxPolls = 2
  MaxCancels = 1
  MaxLost = 1
INVARIANTS
  TypeOK
  WaitingPopupHasTimers
  OpenWindowHasCloser
PROPERTIES
  RefusedSessionNeverSucceeds
  AuthorizationEnds
  PollingStops
  WindowIsClosed
CHECK_DEADLOCK FALSE
