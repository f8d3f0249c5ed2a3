SPECIFICATION PartsSpec
CONSTANTS
  workspaces = workspaces
  layouts = layouts
  settings = settings
  legacy = legacy
  switchState = switchState
  r1 = r1
  r2 = r2
  k1 = k1
  w1 = w1
  None = None
  LocalKeys = {workspaces, layouts}
  SyncKeys = {settings, legacy}
  Removed = {layouts, legacy}
  Ungated = {}
  WorkspacesKey = workspaces
  GuardRollback = TRUE
  MaxRestores = 2
  MaxWrites = 2
  MaxElsewhere = 0
  MaxFaults = 2
  MaxCrashes = 2
INVARIANTS JobMatchesStorage FollowersFollow
PROPERTIES RestoreIsAtomic ElsewhereSettles RequestsAreSettled
