SPECIFICATION Together
CONSTANTS
  save = save
  delete = delete
  schedule = schedule
  onboarding = onboarding
  settings = settings
  Writes <- MCWrites
  Queues <- MCQueues
  QueueOf <- MCQueueOf
  Caller <- MCCaller
  Barriers = {b1, b2}
  None = None
  Pages = {"p1", "p2"}
  groupG = groupG
  groupH = groupH
  WindowsMet <- MCWindowsMet
  TargetLists <- MCTargetLists
  GroupKeys = {groupG, groupH}
  LastTabId = 10
  MaxClicks = 1
  MaxTabFaults = 2
  Both = {w1, w2}
  Bad = Bad
  Gone = Gone
  SafeUrls = {"p1", "p2", "q1"}
  OriginOf <- MCOriginOf
  CapturedLists <- MCCapturedLists
  HistorySize = 1
  MaxUpdates = 2
  Unknown = Unknown
  tabP = tabP
  tabQ = tabQ
  tabU = tabU
  slotV = slotV
  OldTabs = {tabP, tabQ, tabU}
  GoodTabs = {tabP, tabQ}
  VirtualIds = {slotV}
  OpenWindows = {1, 2}
  OldWorkspaces <- MCOldWorkspaces
  OldStates <- MCOldStates
  OldJournals <- MCOldJournals
  MaxCuts = 2
  Failed = Failed
  Raw = Raw
  Own = Own
  Other = Other
  MaxPageWrites = 2
  MaxPageFaults = 1
  TouchedKeys <- MCTouchedKeys
INVARIANTS
  OrderedWrites SwitchOutcome AcceptedIsHandled BackupsArePortable PageShowsStorage
PROPERTIES
  QueuesKeepArrivalOrder UserPagesStay UpdatesKeepTabs MigrationKeepsData
CHECK_DEADLOCK FALSE
