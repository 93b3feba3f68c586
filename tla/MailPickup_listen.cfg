SPECIFICATION FairSpec
CONSTANTS
  Addr = {a1, a2}
  a1 = a1
  a2 = a2
  k1 = k1
  k2 = k2
  Accounts = {k1, k2}
  AccountOf <- SmallAccountOf
  First = k1
  Limit = 1
  None = none
  MaxIds = 2
  MaxMounts = 2
  MaxStarts = 2
  Bounds <- SmallBounds
INVARIANTS
  TypeOK
  OneMailboxPerAddress
  SavedListHasSelection
PROPERTIES
  ListeningIsPolled
  PollingEnds
  MailIsReceived
  HandOverIsShown
CHECK_DEADLOCK FALSE
