SPECIFICATION Spec
CONSTANTS
  k1 = k1
  k2 = k2
  w1 = w1
  w2 = w2
  o1 = o1
  o2 = o2
  o3 = o3
  None = None
  Drain = Drain
  Windows = {k1}
  Workspaces = {w1}
  Trashed = {}
  Ops = {o1, o2, o3}
  Menu <- MCReloadMenu
  GuardFlush = TRUE
  MaxEdits = 3
  MaxCrashes = 0
SYMMETRY Alike
PROPERTIES NoStaleOverwrite
CHECK_DEADLOCK FALSE
