SPECIFICATION Spec
CONSTANTS
  Accounts = {a1}
  Syncers = {s1}
  Callers = {c1}
  Handler = handler
  Intervals = {i1, i2}
  DefaultInterval = i1
  Limit = 1
  Requests <- UpdateRequests
  NoRow = noRow
  NoSyncer = noSyncer
  NoAccount = noAccount
  NoCaller = noCaller
  NoEntry = noEntry
INVARIANTS
  UpdateConfigComesBack
CHECK_DEADLOCK FALSE
