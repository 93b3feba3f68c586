SPECIFICATION FairSpec
CONSTANTS
  MaxSessions = 2
  MaxCalls = 2
  None = none
  MaxFaults = 1
INVARIANTS
  TypeOK
  ReadersAgreeOnSession
PROPERTIES
  ShownUserIsSessionsUser
  DeadSessionIsLeft
  TabSettles
  LateRefusalIsUndone
CHECK_DEADLOCK FALSE
