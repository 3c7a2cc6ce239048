CONSTANTS
  x1 = x1  x2 = x2  x3 = x3  c1 = c1  c2 = c2
  None = None
  Renders = {x1, x2, x3}
  Closers = {c1}
  Size = 2
  MaxLaunch = 2
SPECIFICATION FairSpec
CHECK_DEADLOCK FALSE
INVARIANTS
  SlotsBalance
  OneServingChromium
PROPERTIES EveryRenderReturns
