SPECIFICATION ServicesSpec
CONSTANTS
  None = None
  Drain = Drain
  LoadingTabs = {t1, t2}
  GuardDrops = TRUE
  Conns = {1, 2}
  Requests = {1, 2}
  Hosts = {h1, h2}
  Clients = {c1, c2}
  Pages = {p1, p2}
  OnePage = {p1}
  Runs = {1, 2}
  Edits = {o1, o2}
  Workspaces = {w1}
  Both = {w1, w2}
  MaxSwitches = 2
  MaxEvents = 2
  MaxDisturbances = 2
  MaxTexts = 2
  MaxDocumentTexts = 1
  MaxFaults = 1
  MaxUser = 2
  MaxEdits = 2
  deletion = deletion
  switch = switch
  command = command
  restore = restore
  export = export
  recovery = recovery
  delete = delete
  scheduleRemoval = scheduleRemoval
  removeState = removeState
  saveWorkspace = saveWorkspace
  onboarding = onboarding
  flush = flush
  b1 = b1
  b2 = b2
  b3 = b3
  cleanup = cleanup
  Writes <- MCWrites
  Queues <- MCQueues
  QueueOf <- MCQueueOf
  Caller <- MCCaller
  Normal = {deletion, switch, command}
  Exclusive = {restore, export, recovery}
  Barriers = {b1, b2, b3}
  Script <- MCScript
  BarrierOf <- MCBarrierOf
  Cleanups = {}
  Spare = {command, recovery, export}
INVARIANTS
  GateIsExact MaintenanceSeesWhole
  NobodyIsLeftBehind StatusAndLinesAreTrue DraftsAreKept GuidesAreFew OldCopiesAreStale
PROPERTIES
  Admission GateIsExclusiveAccess EveryCallEnds EveryOperationEnds
   EditedStaysShown HolderCompletes
  WarmupEnds AgentCallsEnd DeletedIsRemoved SeedingEnds EditsAreSaved
CHECK_DEADLOCK FALSE
