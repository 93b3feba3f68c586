SPECIFICATION Spec
CONSTANTS
  Accounts = {a1}
  Syncers = {s1}
  Callers = {c1, c2}
  Handler = handler
  Intervals = {i1, i2}
  DefaultInterval = i1
  Limit = 1
  Requests <- WedgeRequests
  NoRow = noRow
  NoSyncer = noSyncer
  NoAccount = noAccount
  NoCaller = noCaller
  NoEntry = noEntry
INVARIANTS
  ManagerFreezesOnlyOnWedge
  LostMuHasNoHolder
  LockGuardsEdits
SYMMETRY RequestSymmetry
CHECK_DEADLOCK FALSE
