CONSTANTS
  r1 = r1  r2 = r2  pageLoop = pageLoop
  None = None
  Requests = {r1, r2}
  Destroying = {r1}
  Loops = {r1, r2, pageLoop}
  Page = pageLoop
  Limit = 2
  MaxSent = 3
  MaxInbox = 1
  MaxPages = 1
  MaxActions = 1
SPECIFICATION FairSpec
CHECK_DEADLOCK FALSE
INVARIANTS
  WindowOfHistory
  EachEventOnce
  ListenerWhileActing
PROPERTIES
  
  EphemeralReclaimed
