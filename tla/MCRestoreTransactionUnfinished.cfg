SPECIFICATION Spec
CONSTANTS
  workspaces = workspaces
  layouts = layouts
  settings = settings
  legacy = legacy
  switchState = switchState
  None = None
  LocalKeys = {workspaces, layouts}
  SyncKeys = {settings, legacy}
  Removed = {layouts, legacy}
  Ungated = {}
  WorkspacesKey = workspaces
  GuardRollback = FALSE
  MaxRestores = 1
  MaxWrites = 2
  MaxElsewhere = 0
  MaxFaults = 2
  MaxCrashes = 1
PROPERTIES NewerWritesStay
