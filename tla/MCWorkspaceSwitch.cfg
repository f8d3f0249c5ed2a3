SPECIFICATION Spec
CONSTANTS
  r1 = r1
  r2 = r2
  k1 = k1
  w1 = w1
  w2 = w2
  None = None
  Requests = {r1, r2}
  Windows = {k1}
  Workspaces = {w1, w2}
  Blank = {}
  InitLoading = {k1}
  MaxEdits = 1
  MaxRemovals = 1
  MaxAborts = 1
  MaxDiscards = 1
  MaxUnbinds = 1
  MaxInterventions = 1
  MaxCloses = 1
  MaxFaults = 1
  MaxRecoveryFaults = 1
  MaxCrashes = 1
CONSTRAINT Explored
SYMMETRY Alike
INVARIANTS WindowsMatch RequestOrder
PROPERTIES BoundToLive NoTabsAreLost SwitchIsAtomic
CHECK_DEADLOCK FALSE
