CONSTANTS
  g1 = g1  g2 = g2  g3 = g3  c1 = c1  o1 = o1  t1 = t1  a = a  b = b
  None = None
  Getters = {g1, g2}
  Closers = {c1}
  Operators = {}
  Sessions = {a}
  OldTabs = {}
  Asks <- OneSession
  IsDefault = TRUE
  Serial = FALSE
  MaxSuffix = 2
  MaxGen = 1
SPECIFICATION FairSpec
CHECK_DEADLOCK FALSE
INVARIANTS
  TypeOK
  ReadyEntriesUsable
  StaleOnlyByAdoption
  SuccessHasPage
 
