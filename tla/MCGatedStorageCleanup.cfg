SPECIFICATION GatedFairSpec
CONSTANTS
  deletion = deletion
  switch = switch
  command = command
  restore = restore
  export = export
  recovery = recovery
  delete = delete
  scheduleRemoval = scheduleRemoval
  removeState = removeState
  saveWorkspace = saveWorkspace
  onboarding = onboarding
  flush = flush
  b1 = b1
  b2 = b2
  b3 = b3
  cleanup = cleanup
  None = None
  Writes <- MCWrites
  Queues <- MCQueues
  QueueOf <- MCQueueOf
  Caller <- MCCaller
  Normal = {deletion}
  Exclusive = {restore}
  Barriers = {b1, cleanup}
  Script <- MCCleanupScript
  BarrierOf <- MCCleanupBarrierOf
  Cleanups = {cleanup}
PROPERTIES CleanupEnds
CHECK_DEADLOCK FALSE
