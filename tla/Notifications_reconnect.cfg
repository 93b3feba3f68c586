SPECIFICATION FairSpec
CONSTANTS
  Conns = {c1, c2}
  Notes = {n1}
  Close = close
  ChanCap = 2
  MaxHistory = 2
  Recent = 2
  MaxDrops = 2
  MaxCasts = 1
  AttemptsMayFail = TRUE
  MaxShown = 2
  NoConn = noConn
PROPERTY
  LostConnectionIsRetried
CHECK_DEADLOCK FALSE
