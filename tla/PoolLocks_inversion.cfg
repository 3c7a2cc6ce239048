CONSTANTS
  x1 = x1  x2 = x2  x3 = x3  def = def  prv = prv
  None = None
  Threads = {x1, x2}
  Contexts = {def, prv}
  Default = def
  Operations <- Everything
SPECIFICATION Spec
INVARIANTS
  DeadlockFree
SYMMETRY ThreadSymmetry
