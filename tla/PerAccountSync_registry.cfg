SPECIFICATION Spec
CONSTANTS
  Accounts = {a1}
  Syncers = {s1, s2}
  Callers = {c1}
  Handler = handler
  Intervals = {i1}
  DefaultInterval = i1
  Limit = 1
  Requests <- RegistryRequests
  NoRow = noRow
  NoSyncer = noSyncer
  NoAccount = noAccount
  NoCaller = noCaller
  NoEntry = noEntry
INVARIANTS
  TypeOK
  OneLoopPerAccount
  ActiveSyncersCountsMap
  PermitsMatchHolders
  OnlyAutoDisableLeavesEntry
PROPERTIES
  EntriesEndCancelled
  ImplementsRegistry
SYMMETRY SyncerSymmetry
