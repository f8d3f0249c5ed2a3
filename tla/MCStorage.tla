------------------------------ MODULE MCStorage ------------------------------
(***************************************************************************)
(* What is stored, and how: the write queues, the tabs of a window and     *)
(* what a workspace takes over of them, the updates of a workspace, the    *)
(* migration of old data, backup files, and what a page makes of it all.   *)
(* The components do not interact here: a behaviour is about one of them,  *)
(* by `part', while the others rest in an initial state.                   *)
(***************************************************************************)
EXTENDS StorageQueues, Naturals, Sequences, TLC

VARIABLE part  \* the component that runs

(* Two workspaces writes, one of them a deletion that hands over a nested    *)
(* auxiliary write, another auxiliary write and a settings write.            *)
CONSTANTS save, delete, schedule, onboarding, settings

MCQueues == {"workspaces", "settings", "auxiliary"}
MCWrites == {save, delete, schedule, onboarding, settings}
MCQueueOf ==
  [w \in MCWrites |->
     CASE w \in {save, delete} -> "workspaces"
       [] w \in {schedule, onboarding} -> "auxiliary"
       [] OTHER -> "settings"]
MCCaller == [w \in MCWrites |-> IF w = schedule THEN delete ELSE None]

(* Windows with a home, a duplicate, a group, a pinned tab, a loading tab and *)
(* tabs that are no pages; lists of tabs with and without groups.            *)
CONSTANTS Pages, groupG, groupH
CONSTANTS WindowsMet, TargetLists, GroupKeys, LastTabId, MaxClicks, MaxTabFaults

Tab(id, url) == [id |-> id, url |-> url, busy |-> FALSE, pinned |-> FALSE, group |-> 0]
Grouped(id, url) == [Tab(id, url) EXCEPT !.group = 1]
MCWindowsMet ==
  {<<Tab(1, "home"), Tab(2, "p1"), Tab(3, "p1")>>,
   <<[Tab(1, "home") EXCEPT !.pinned = TRUE], Grouped(2, "p2"), Grouped(3, "p1")>>,
   <<[Tab(1, "p1") EXCEPT !.pinned = TRUE], [Tab(2, "p1") EXCEPT !.busy = TRUE],
     Tab(3, "blank"), Tab(4, "internal")>>,
   <<Tab(1, "placeholder"), Tab(2, "p2")>>}
Wish(url, group) == [url |-> url, group |-> group]
MCTargetLists ==
  {<<>>, <<Wish("p1", None), Wish("p1", groupG)>>, <<Wish("p1", groupG), Wish("p2", groupG)>>,
   <<Wish("p2", None), Wish("p1", groupG), Wish("p2", groupH)>>}

VARIABLES
  windowWindow, windowPc, windowPlan, windowMade, windowSeen, windowTouched,
  windowBroken, windowLeft
windowVars ==
  <<windowWindow, windowPc, windowPlan, windowMade, windowSeen,
    windowTouched, windowBroken, windowLeft>>
Browser == INSTANCE WindowTabs WITH
  Windows <- WindowsMet, Targets <- TargetLists, LastId <- LastTabId, MaxUser <- MaxClicks,
  MaxFaults <- MaxTabFaults, Keys <- GroupKeys, window <- windowWindow,
  pc <- windowPc, plan <- windowPlan, made <- windowMade, seen <- windowSeen,
  touched <- windowTouched, broken <- windowBroken, left <- windowLeft

(* The tabs of a window have ids, each its own; what is listed are pages.    *)
ASSUME WindowsKnown ==
  /\ \A w \in WindowsMet :
       /\ w \in Seq([id : 1 .. LastTabId, url : Pages \cup {"home", "placeholder", "internal", "blank"},
                    busy : BOOLEAN, pinned : BOOLEAN, group : Nat])
       /\ \A i, j \in DOMAIN w : w[i].id = w[j].id => i = j
  /\ TargetLists \subseteq Seq([url : Pages, group : GroupKeys \cup {None}]) /\ None \notin GroupKeys
  /\ Pages \cap {"home", "placeholder", "internal", "blank"} = {} /\ {MaxClicks, LastTabId} \subseteq Nat

(* Two workspaces, pages of two origins, and a page that cannot be stored.   *)
CONSTANTS Both, Bad, Gone, SafeUrls, OriginOf, CapturedLists, HistorySize, MaxUpdates

MCOriginOf == [p1 |-> "p", p2 |-> "p", q1 |-> "q"]
Captured(url) == [url |-> url, excluded |-> FALSE]
MCCapturedLists ==
  {<<Captured("p1"), Captured("q1")>>,
   <<[Captured("p2") EXCEPT !.excluded = TRUE], Captured("unsafe")>>}

VARIABLES
  updateWs, updateBusy, updateUndo, updateInbox, updatePage, updateLeft
updateVars ==
  <<updateWs, updateBusy, updateUndo, updateInbox, updatePage, updateLeft>>
Updates == INSTANCE WorkspaceUpdates WITH
  Ids <- Both, Urls <- SafeUrls, Origin <- OriginOf, Lists <- CapturedLists, MaxOps <- MaxUpdates, ws <- updateWs,
  busy <- updateBusy, undo <- updateUndo, inbox <- updateInbox,
  page <- updatePage, left <- updateLeft

(* A workspace is told from none and from a deleted one; what is captured is *)
(* a list of tabs, stored or not; a snapshot is kept.                        *)
ASSUME UpdatesApart ==
  /\ None # Gone /\ {None, Gone} \cap Updates!Workspace = {}
  /\ HistorySize \in Nat \ {0} /\ MaxUpdates \in Nat
  /\ \A tabs \in CapturedLists : tabs \in Seq([url : SafeUrls \cup {"unsafe"}, excluded : BOOLEAN])

(* Workspaces with tabs alone, with contexts, and with layouts and entries of *)
(* their own; states and journals with and without a window.                 *)
CONSTANTS Unknown, tabP, tabQ, tabU, slotV
CONSTANTS OldTabs, GoodTabs, VirtualIds, OpenWindows, OldWorkspaces, OldStates, OldJournals, MaxCuts

Context(order, id, tabs) == [order |-> order, vid |-> id, tabs |-> tabs]
OldWorkspace(slots, tabs, rev, layouts, entries) ==
  [raw |-> [slots |-> slots, tabs |-> tabs, rev |-> rev], layouts |-> layouts, entries |-> entries]
MCOldWorkspaces ==
  {OldWorkspace(<<>>, <<tabP, tabU, tabQ>>, 1, <<>>, <<>>),
   OldWorkspace(<<Context(2, None, <<tabP>>), Context(None, slotV, <<tabU>>), Context(1, None, <<tabQ>>)>>, <<tabP>>, 0, <<>>, <<>>),
   OldWorkspace(<<>>, <<tabP>>, 0, <<Context(None, slotV, <<tabP>>), Context(None, None, <<tabQ>>)>>,
                <<[vid |-> slotV, order |-> 3], [vid |-> None, order |-> None]>>),
   [raw |-> None, layouts |-> <<>>, entries |-> <<>>]}
Seen(focused) == {[win |-> 1, focused |-> focused], [win |-> 2, focused |-> FALSE]}
OldJournal(window, sources, slots, tabs) ==
  [win |-> window, sources |-> sources, slots |-> slots, tabs |-> tabs, phase |-> "opening"]
MCOldJournals ==
  {None,
   OldJournal(None, Seen(FALSE), <<Context(1, None, <<tabP>>), Context(0, None, <<tabU, tabQ>>)>>, <<>>),
   OldJournal(None, Seen(TRUE), <<>>, <<>>)}
OldState(window, windows, journal) ==
  [notes |-> {}, win |-> window, windows |-> windows, journal |-> journal]
MCOldStates ==
  {None, OldState(2, {}, None),
   OldState(None, Seen(TRUE), OldJournal(None, {}, <<>>, <<tabQ>>))}

VARIABLES
  legacyLocal, legacyRemote, legacyAt, legacyRead, legacySaid, legacyLeft
legacyVars ==
  <<legacyLocal, legacyRemote, legacyAt, legacyRead, legacySaid, legacyLeft>>
Migration == INSTANCE LegacyMigration WITH
  Tabs <- OldTabs, Recordable <- GoodTabs, Windows <- OpenWindows, MaxSteps <- MaxCuts,
  LegacyWorkspaces <- OldWorkspaces, LegacyStates <- OldStates,
  LegacyJournals <- OldJournals, local <- legacyLocal,
  remote <- legacyRemote, at <- legacyAt, read <- legacyRead,
  said <- legacySaid, left <- legacyLeft

(* The old data has its shapes; what is none is no window and no data; and   *)
(* layouts lie beside a workspace that has no contexts of its own.           *)
ASSUME OldDataKnown ==
  /\ GoodTabs \subseteq OldTabs
  /\ None # Unknown /\ {None, Unknown} \cap OpenWindows = {}
  /\ None \notin Migration!RawWorkspaces \cup Migration!Journals \cup Migration!States
  /\ OldStates \subseteq Migration!States \cup {None}
  /\ OldJournals \subseteq Migration!Journals \cup {None}
  /\ \A w \in OldWorkspaces :
        /\ w.raw \in Migration!RawWorkspaces \cup {None}
        /\ w.layouts \in Migration!Containers /\ w.entries \in Migration!VirtualWindows
        /\ w.layouts # <<>> => w.raw # None /\ w.raw.slots = <<>>

(* A store with contexts of workspaces there are and there are not, and one  *)
(* nearly empty; files of every version, damaged, and beyond the limits.     *)
SavedTab(url) == [url |-> url, pinned |-> FALSE, excluded |-> FALSE, rest |-> "ok"]
Excluded(url) == [SavedTab(url) EXCEPT !.excluded = TRUE]
Past(id, tabs) == [id |-> id, kind |-> "flat-v1", at |-> "ok", tabs |-> tabs]
Workspace(id, name, tabs, history) ==
  [id |-> id, name |-> name, meta |-> "ok", tabs |-> tabs, slots |-> <<>>, history |-> history, rev |-> 0]
A == <<1>>
B == <<1, 1>>
C == <<1, 2>>
MCStores ==
  {[workspaces |-> <<Workspace(A, A, <<SavedTab("p"), Excluded("q")>>, <<Past(A, <<SavedTab("q")>>)>>),
                     Workspace(B, B, <<>>, <<>>)>>,
    notes |-> (A :> <<7>> @@ C :> <<8>>), links |-> (B :> <<[url |-> "p", at |-> "ok"]>>),
    preview |-> {A}, active |-> A, settings |-> "dark", agent |-> TRUE],
   [workspaces |-> <<Workspace(A, <<>>, <<SavedTab("p")>>, <<>>)>>, notes |-> <<>>, links |-> <<>>,
    preview |-> {}, active |-> "none", settings |-> "dark", agent |-> FALSE]}
File(version, intact, workspaces, contexts) ==
  [schema |-> "tabplex-backup", version |-> version, intact |-> intact,
   payload |-> [workspaces |-> workspaces, contexts |-> contexts, settings |-> "light"]]
About(id, note, links) == [ws |-> id, note |-> note, links |-> links]
Slotted ==
  [Workspace(A, A, <<>>, <<Past(C, <<Excluded("p"), SavedTab("unsafe")>>)>>) EXCEPT !.slots =
     <<[order |-> 2, tabs |-> <<SavedTab("p")>>],
       [order |-> 1, tabs |-> <<SavedTab("none"), SavedTab("q")>>]>>]
Links == <<[url |-> "p", at |-> "ok"], [url |-> "unsafe", at |-> "ok"], [url |-> "p", at |-> "ok"]>>
MCForeign ==
  {File(1, FALSE, <<Slotted, Workspace(B, A, <<SavedTab("q")>>, <<>>)>>, <<>>),
   File(2, TRUE, <<Slotted>>, <<About(A, <<9>>, Links), About(C, <<>>, <<>>)>>),
   File(3, TRUE, <<Workspace(A, A, <<SavedTab("q")>>, <<>>), Workspace(B, B, <<SavedTab("p")>>, <<>>)>>,
        <<About(B, <<6>>, Links), About(A, <<5>>, <<>>)>>),
   File(3, TRUE, <<Workspace(A, B, <<SavedTab("q")>>, <<>>)>>, <<>>),
   File(3, FALSE, <<Workspace(A, B, <<SavedTab("q")>>, <<>>)>>, <<About(A, <<5>>, <<>>)>>),
   File(3, TRUE, <<Workspace(A, B, <<SavedTab("long")>>, <<>>)>>, <<About(A, <<5>>, <<>>)>>)}

VARIABLES
  backupStore, backupFiles, backupDid, backupLeft
backupVars == <<backupStore, backupFiles, backupDid, backupLeft>>
Backups == INSTANCE BackupFormat WITH
  Urls <- {"p", "q"}, MaxTabs <- 10, MaxHistory <- 2, MaxText <- 2,
  MaxOps <- 3, Stores <- MCStores, Foreign <- MCForeign,
  store <- backupStore, files <- backupFiles, did <- backupDid,
  left <- backupLeft

(* The keys that are written together, by a behaviour.                       *)
CONSTANTS Failed, Raw, Own, Other, MaxPageWrites, MaxPageFaults, TouchedKeys

MCTouchedKeys ==
  {{"workspaces", "tags"}, {"local", "sync"}, {"main", "switch"}, {"switch", "bindings"}, {"jobs"}}

VARIABLES
  pageStore, pageSaving, pageBindQueue, pageBindRead, pageMeant, pageEvents,
  pageWaiting, pageGot, pageRefreshes, pagePage, pageTouched, pageMade,
  pageFaults
pageVars ==
  <<pageStore, pageSaving, pageBindQueue, pageBindRead, pageMeant,
    pageEvents, pageWaiting, pageGot, pageRefreshes, pagePage, pageTouched,
    pageMade, pageFaults>>
Page == INSTANCE PageData WITH
  MaxWrites <- MaxPageWrites, MaxFaults <- MaxPageFaults, Touched <- TouchedKeys, store <- pageStore,
  saving <- pageSaving, bindQueue <- pageBindQueue, bindRead <- pageBindRead,
  meant <- pageMeant, events <- pageEvents, waiting <- pageWaiting,
  got <- pageGot, refreshes <- pageRefreshes, page <- pagePage,
  touched <- pageTouched, made <- pageMade, faults <- pageFaults

(* Nothing that is stored is taken for none at all, or for a failed read.    *)
ASSUME ValuesApart ==
  /\ None \notin Nat \cup BOOLEAN \cup [{Own, Other} -> BOOLEAN]
  /\ Failed \notin Nat \cup {None} \cup (Nat \X {None, Own, Other})

------------------------------------------------------------------------------
allVars == <<part, vars, windowVars, updateVars, legacyVars, backupVars, pageVars>>

(* Those with several initial states rest in one of them.                    *)
AllInit ==
  /\ part \in {"queues", "windows", "updates", "migration", "backups", "page"}
  /\ Init
  /\ Browser!Init /\ (part # "windows" => Len(windowWindow) = 2)
  /\ Updates!Init /\ (part # "updates" =>
                       /\ \E i \in Both : updateWs[i] = None
                       /\ \A i \in Both : updateWs[i] # None => updateWs[i].tabs[1].url = "p1")
  /\ Migration!Init /\ (part # "migration" => legacyLocal = Migration!Empty /\ legacyRemote = Migration!Empty)
  /\ Backups!Init /\ (part # "backups" => Len(backupStore.workspaces) = 1)
  /\ Page!Init /\ (part # "page" => pageTouched = {"jobs"})

Only(one) ==
  /\ part = one /\ UNCHANGED part
  /\ one # "queues" => UNCHANGED vars
  /\ one # "windows" => UNCHANGED windowVars
  /\ one # "updates" => UNCHANGED updateVars
  /\ one # "migration" => UNCHANGED legacyVars
  /\ one # "backups" => UNCHANGED backupVars
  /\ one # "page" => UNCHANGED pageVars

AllNext ==
  \/ Only("queues") /\ Next
  \/ Only("windows") /\ Browser!Next
  \/ Only("updates") /\ Updates!Next
  \/ Only("migration") /\ Migration!Next
  \/ Only("backups") /\ Backups!Next
  \/ Only("page") /\ Page!Next

Together == AllInit /\ [][AllNext]_allVars

------------------------------------------------------------------------------
(* A switch that succeeds shows its list, one that fails keeps the window's  *)
(* pages, and the capture of a window finds what a switch made of it         *)
(* (TabOrchestrator.ts, windowTabs.ts).                                      *)
SwitchOutcome ==
  part = "windows" =>
    /\ Browser!TypeOK /\ Browser!SwitchShowsTarget
    /\ Browser!FailedSwitchKeepsSource /\ Browser!CaptureFindsTarget

(* No switch takes a page away that the user has opened or changed meanwhile *)
(* (TabOrchestrator.ts).                                                     *)
UserPagesStay == Browser!UserPagesStay

(* A request that the checks of a page or of the agent's host let through is *)
(* one the background can serve (agentControlProtocol.ts, requests.ts).      *)
AcceptedIsHandled ==
  part = "updates" => Updates!TypeOK /\ Updates!AcceptedIsHandled

(* A revision names one list for good, a page's request is about the tabs    *)
(* the user saw, a tab leaves a workspace for its history or by choice, and  *)
(* the undo of a failed operation takes back all that this operation wrote,  *)
(* or nothing, and nothing else, whatever was written meanwhile              *)
(* (workspaceLogic.ts, workspacesApply.ts, workspaceRollback.ts,             *)
(* useDragAndDrop.ts).                                                       *)
UpdatesKeepTabs ==
  /\ Updates!RevisionNamesList /\ Updates!ChosenTabsOnly
  /\ Updates!DroppedTabsAreKept /\ Updates!UndoneAsOne

(* No step of the migration, cut short or repeated, loses old data, and what *)
(* was saved since is what is loaded (core/storage, lib/migration).          *)
MigrationKeepsData ==
  /\ [](part = "migration" => Migration!TypeOK /\ Migration!SavedIsLoaded)
  /\ [][part = "migration" => Migration!StepKeepsData]_legacyVars

(* An export can be imported again, every plan passes the checks of a        *)
(* backup, and a merge takes nothing away (backupRestoreModel.ts).           *)
BackupsArePortable ==
  part = "backups" =>
    Backups!ExportRestores /\ Backups!PlansAreValid /\ Backups!MergeAddsOnly

(* A page that has heard and read everything shows what is stored, and the   *)
(* bindings are what all updates together mean (useWorkspaceData.ts).        *)
PageShowsStorage ==
  part = "page" => Page!PageShowsStorage /\ Page!BindingsAreMeant
==============================================================================
