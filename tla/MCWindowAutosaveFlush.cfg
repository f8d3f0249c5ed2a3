SPECIFICATION Spec
CONSTANTS
  k1 = k1
  k2 = k2
  w1 = w1
  w2 = w2
  o1 = o1
  o2 = o2
  o3 = o3
  None = None
  Drain = Drain
  Windows = {k1, k2}
  Workspaces = {w1, w2}
  Trashed = {}
  Ops = {o1, o2}
  Menu <- MCFlushMenu
  GuardFlush = FALSE
  MaxEdits = 2
  MaxCrashes = 0
PROPERTIES NoStaleOverwrite
CHECK_DEADLOCK FALSE
