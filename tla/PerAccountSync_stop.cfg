SPECIFICATION FairSpec
CONSTANTS
  Accounts = {a1}
  Syncers = {s1}
  Callers = {c1}
  Handler = handler
  Intervals = {i1}
  DefaultInterval = i1
  Limit = 1
  Requests <- StopRequests
  NoRow = noRow
  NoSyncer = noSyncer
  NoAccount = noAccount
  NoCaller = noCaller
  NoEntry = noEntry
PROPERTIES
  CancelledSyncersEnd
  AccountLockIsReleased
  StopReturns
CHECK_DEADLOCK FALSE
