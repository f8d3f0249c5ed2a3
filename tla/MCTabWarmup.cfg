SPECIFICATION Spec
CONSTANTS
  Tabs = {t1}
  Workspaces = {w1}
  None = None
  MaxSwitches = 1
  MaxEvents = 1
  GuardDrops = FALSE
PROPERTIES WarmupEnds
CHECK_DEADLOCK FALSE
