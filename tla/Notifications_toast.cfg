SPECIFICATION FairSpec
CONSTANTS
  Conns = {c1, c2}
  Notes = {n1, n2}
  Close = close
  ChanCap = 1
  MaxHistory = 2
  Recent = 1
  MaxDrops = 1
  MaxCasts = 1
  AttemptsMayFail = TRUE
  MaxShown = 1
  NoConn = noConn
INVARIANTS
  TypeOK
  BroadcastFindsOpenChannels
  ConnectedCountsClients
  OneLiveSocket
PROPERTIES
  NotificationsGoAway
  EveryNotificationIsShown
  ImplementsService
CHECK_DEADLOCK FALSE
