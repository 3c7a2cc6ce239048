CONSTANTS
  u1 = u1  u2 = u2  c1 = c1  c2 = c2
  None = None
  Users = {u1, u2}
  Closers = {c1}
  MaxConn = 2
SPECIFICATION FairSpec
CHECK_DEADLOCK FALSE
INVARIANTS
  NoConnectionLeaked
  PoolOnCurrentConnection
  IntentionalCloseSilent
PROPERTIES LossAnnounced
