CONSTANTS
  g1 = g1  g2 = g2  g3 = g3  u1 = u1  r1 = r1
  None = None
  Getters = {g1, g2}
  Asks <- Forms
  UserTabs = {u1}
  Renderers = {r1}
  MaxRecreate = 1
  MaxReconnect = 1
SPECIFICATION Spec
CHECK_DEADLOCK FALSE
INVARIANTS
  DefaultJarIsolated
  PrivateStaysPrivate
  NoContextLeaked
  JarAsAsked
SYMMETRY GetterSymmetry
