----------------------------- MODULE MCServices -----------------------------
(***************************************************************************)
(* What the services of the background, the native host and the pages have *)
(* begun comes to an end, and nothing is lost meanwhile.  The components   *)
(* do not interact: a behaviour is about one of them, by `part', while the *)
(* others rest in their initial states.  Where a component has a module of *)
(* proofs, the instance is of that one: it adds theorems and the names of  *)
(* invariants, nothing to the behaviour.  The operation gate is extended,  *)
(* not instantiated: alone in the part "gate", over the storage queues in  *)
(* the part "gated", where the calls in Spare are not made.                *)
(***************************************************************************)
EXTENDS MCGatedStorage, Naturals, TLC

CONSTANTS Drain,
          LoadingTabs, GuardDrops, Conns, Requests, Hosts, Clients,
          Pages, OnePage, Runs, Edits,
          Workspaces, Both,  \* one workspace, and two with it
          MaxSwitches, MaxEvents, MaxDisturbances,  \* of a warmup; of the agent channel
          MaxTexts, MaxDocumentTexts, MaxFaults,    \* typed; failures of each kind
          MaxUser, MaxEdits,                        \* acts in the first run; changes of windows
          Spare                                     \* calls of the gate alone

VARIABLE part  \* the component that runs

(* Tab warmup: two tabs, two switches, two disturbances.                     *)
VARIABLES
  warmupTab, warmupBound, warmupJob, warmupAlarm, warmupQueue, warmupWanted,
  warmupPhase, warmupTaken, warmupGivenUp, warmupLeft
warmupVars ==
  <<warmupTab, warmupBound, warmupJob, warmupAlarm, warmupQueue,
    warmupWanted, warmupPhase, warmupTaken, warmupGivenUp, warmupLeft>>
Warmup == INSTANCE TabWarmup WITH
  Tabs <- LoadingTabs,
  tab <- warmupTab, bound <- warmupBound, job <- warmupJob,
  alarm <- warmupAlarm, queue <- warmupQueue, wanted <- warmupWanted,
  phase <- warmupPhase, taken <- warmupTaken, givenUp <- warmupGivenUp,
  left <- warmupLeft

(* The agent channel in the worker: two connections, two requests.           *)
VARIABLES
  controlSetting, controlPermission, controlPage, controlHeard,
  controlRevoked, controlSync, controlStartup, controlCtl, controlHosts,
  controlAsked, controlLine, controlLeft
controlVars ==
  <<controlSetting, controlPermission, controlPage, controlHeard,
    controlRevoked, controlSync, controlStartup, controlCtl, controlHosts,
    controlAsked, controlLine, controlLeft>>
Control == INSTANCE AgentControl WITH
  MaxEvents <- MaxDisturbances,
  setting <- controlSetting, permission <- controlPermission,
  page <- controlPage, heard <- controlHeard, revoked <- controlRevoked,
  sync <- controlSync, startup <- controlStartup, ctl <- controlCtl,
  hosts <- controlHosts, asked <- controlAsked, line <- controlLine,
  left <- controlLeft

(* The host processes and their clients, two of each.                        *)
VARIABLES
  processHost, processSocket, processFile, processClient, processPeer,
  processPending, processAsked, processGot
processVars ==
  <<processHost, processSocket, processFile, processClient, processPeer,
    processPending, processAsked, processGot>>
Host == INSTANCE NativeHost WITH
  host <- processHost, socket <- processSocket, file <- processFile,
  client <- processClient, peer <- processPeer, pending <- processPending,
  asked <- processAsked, got <- processGot

(* Two editors of one note; then two documents, between which the editors    *)
(* change, and one of which is deleted.                                      *)
VARIABLES
  noteRecord, notePending, noteNote, noteTomb, noteJournal, noteQueue,
  noteRemoval, noteEditor, noteUnsaved, noteEdits, noteFaults
noteVars ==
  <<noteRecord, notePending, noteNote, noteTomb, noteJournal, noteQueue,
    noteRemoval, noteEditor, noteUnsaved, noteEdits, noteFaults>>
Notes == INSTANCE NoteDrafts_proofs WITH
  Editors <- Pages, Deletable <- Workspaces, MaxEdits <- MaxTexts,
  record <- noteRecord, pending <- notePending, note <- noteNote,
  tomb <- noteTomb, journal <- noteJournal, queue <- noteQueue,
  removal <- noteRemoval, editor <- noteEditor, unsaved <- noteUnsaved,
  edits <- noteEdits, faults <- noteFaults

VARIABLES
  documentRecord, documentPending, documentNote, documentTomb,
  documentJournal, documentQueue, documentRemoval, documentEditor,
  documentUnsaved, documentEdits, documentFaults
documentVars ==
  <<documentRecord, documentPending, documentNote, documentTomb,
    documentJournal, documentQueue, documentRemoval, documentEditor,
    documentUnsaved, documentEdits, documentFaults>>
Documents == INSTANCE NoteDrafts_proofs WITH
  Editors <- Pages, Workspaces <- Both, Deletable <- Workspaces,
  MaxEdits <- MaxDocumentTexts, record <- documentRecord,
  pending <- documentPending, note <- documentNote, tomb <- documentTomb,
  journal <- documentJournal, queue <- documentQueue,
  removal <- documentRemoval, editor <- documentEditor,
  unsaved <- documentUnsaved, edits <- documentEdits,
  faults <- documentFaults

(* The first run of two pages; then of one page with a user who dismisses,   *)
(* resets and creates workspaces.                                            *)
VARIABLES
  guideStored, guideMade, guidePage, guideRun, guideOld, guideFaults,
  guideActs
guideVars ==
  <<guideStored, guideMade, guidePage, guideRun, guideOld, guideFaults,
    guideActs>>
Guide == INSTANCE Onboarding_proofs WITH
  MaxUser <- 0, stored <- guideStored,
  made <- guideMade, page <- guidePage, run <- guideRun, old <- guideOld,
  faults <- guideFaults, acts <- guideActs

VARIABLES
  resetStored, resetMade, resetPage, resetRun, resetOld, resetFaults,
  resetActs
resetVars ==
  <<resetStored, resetMade, resetPage, resetRun, resetOld, resetFaults,
    resetActs>>
Reset == INSTANCE Onboarding_proofs WITH
  Pages <- OnePage, stored <- resetStored, made <- resetMade, page <- resetPage,
  run <- resetRun, old <- resetOld, faults <- resetFaults, acts <- resetActs

(* Two windows whose workspaces are changed from elsewhere, with the trash.  *)
DataMenu == [kind : {"edit", "trash", "restore"}, window : {None}, ws : Workspaces]
VARIABLES
  copyCanon, copyJournal, copyBinding, copyLive, copyLoading, copyRequested,
  copySuppressed, copyDirty, copyMutated, copyDrain, copyFlush, copyOp,
  copyRestored, copyWsLine, copyBindLine, copyEdits, copyRetracted,
  copyCrashes, copyInterrupted
copyVars ==
  <<copyCanon, copyJournal, copyBinding, copyLive, copyLoading,
    copyRequested, copySuppressed, copyDirty, copyMutated, copyDrain,
    copyFlush, copyOp, copyRestored, copyWsLine, copyBindLine, copyEdits,
    copyRetracted, copyCrashes, copyInterrupted>>
Copies == INSTANCE WindowAutosave_proofs WITH
  Windows <- Pages, Workspaces <- Both, Ops <- Edits, Menu <- DataMenu,
  Trashed <- Both \ Workspaces, GuardFlush <- TRUE,
  MaxCrashes <- 0, canon <- copyCanon, journal <- copyJournal,
  binding <- copyBinding, live <- copyLive, loading <- copyLoading,
  requested <- copyRequested, suppressed <- copySuppressed,
  dirty <- copyDirty, mutated <- copyMutated, drain <- copyDrain,
  flush <- copyFlush, op <- copyOp, restored <- copyRestored,
  wsLine <- copyWsLine, bindLine <- copyBindLine, edits <- copyEdits,
  retracted <- copyRetracted, crashes <- copyCrashes,
  interrupted <- copyInterrupted

-----------------------------------------------------------------------------
servicesVars == <<part, gatedVars, warmupVars, controlVars, processVars, noteVars, documentVars, guideVars, resetVars, copyVars>>

(* Those with several initial states rest in one of them.                    *)
ServicesInit ==
  /\ part \in {"gate", "gated", "warmup", "control", "host", "notes", "documents", "guide", "reset", "copies"}
  /\ GatedInit
  /\ Warmup!Init /\ Control!Init /\ Host!Init /\ Notes!Init /\ Documents!Init /\ Guide!Init /\ Reset!Init /\ Copies!Init
  /\ part # "control" => ~controlSetting /\ ~controlPermission
  /\ part # "guide" => guideMade = {}
  /\ part # "reset" => resetMade = {}
  /\ part # "copies" => \A k \in Pages : copyBinding[k] = None

Only(p) ==
  /\ part = p /\ UNCHANGED part
  /\ p \notin {"gate", "gated"} => UNCHANGED gatedVars
  /\ p # "warmup" => UNCHANGED warmupVars
  /\ p # "control" => UNCHANGED controlVars
  /\ p # "host" => UNCHANGED processVars
  /\ p # "notes" => UNCHANGED noteVars
  /\ p # "documents" => UNCHANGED documentVars
  /\ p # "guide" => UNCHANGED guideVars
  /\ p # "reset" => UNCHANGED resetVars
  /\ p # "copies" => UNCHANGED copyVars

ServicesNext ==
  \/ Only("gate") /\ GateNext /\ UNCHANGED vars
  \/ Only("gated") /\ GatedNext /\ \A op \in Spare : gateStatus'[op] = "idle"
  \/ Only("warmup") /\ Warmup!Next
  \/ Only("control") /\ Control!Next
  \/ Only("host") /\ Host!Next
  \/ Only("notes") /\ Notes!Next
  \/ Only("documents") /\ Documents!Next
  \/ Only("guide") /\ Guide!Next
  \/ Only("reset") /\ Reset!Next
  \/ Only("copies") /\ Copies!Next

(* The fairness of each component, as its own specification states it; that  *)
(* of the gated storage is that of the gate when nothing is written.         *)
WarmupFairness ==
  /\ WF_warmupVars(part = "warmup" /\ (Warmup!Process \/ Warmup!EndLoads \/ Warmup!Start \/ Warmup!Cancel))
  /\ WF_warmupVars(part = "warmup" /\ Warmup!SlotLate)
  /\ WF_warmupVars(part = "warmup" /\ Warmup!RetryDue)
  /\ WF_warmupVars(part = "warmup" /\ Warmup!Ring)
  /\ \A t \in LoadingTabs :
       /\ WF_warmupVars(part = "warmup" /\ Warmup!Load(t))
       /\ WF_warmupVars(part = "warmup" /\ Warmup!CommitPage(t))
       /\ WF_warmupVars(part = "warmup" /\ Warmup!CompletePage(t))

ControlFairness ==
  /\ WF_controlVars(part = "control" /\ Control!Changed)
  /\ WF_controlVars(part = "control" /\ Control!ApplySetting)
  /\ WF_controlVars(part = "control" /\ Control!TimesOut)
  /\ WF_controlVars(part = "control" /\ Control!CheckSetting)
  /\ WF_controlVars(part = "control" /\ Control!RunCommand)
  /\ \A r \in Requests :
       /\ WF_controlVars(part = "control" /\ Control!Enter(r))

HostFairness ==
  /\ \A c \in Clients :
       /\ WF_processVars(part = "host" /\ Host!ReadConnection(c))
       /\ WF_processVars(part = "host" /\ Host!Dial(c))
       /\ WF_processVars(part = "host" /\ Host!Send(c))
       /\ WF_processVars(part = "host" /\ Host!End(c))
  /\ \A h \in Hosts :
       /\ WF_processVars(part = "host" /\ Host!Exit(h))
  /\ \A h \in Hosts, c \in Clients :
       WF_processVars(part = "host" /\ Host!RequestTimesOut(h, c))

NotesFairness ==
  /\ WF_noteVars(part = "notes" /\ Notes!Serve)
  /\ WF_noteVars(part = "notes" /\ Notes!RemoveStep)
  /\ WF_noteVars(part = "notes" /\ Notes!Retry)
  /\ \A e \in Pages :
       /\ WF_noteVars(part = "notes" /\ Notes!PersistDraft(e))
       /\ WF_noteVars(part = "notes" /\ Notes!TimerEnds(e))
       /\ WF_noteVars(part = "notes" /\ Notes!Send(e))

DocumentsFairness ==
  /\ WF_documentVars(part = "documents" /\ Documents!Serve)
  /\ WF_documentVars(part = "documents" /\ Documents!RemoveStep)
  /\ WF_documentVars(part = "documents" /\ Documents!Retry)
  /\ \A e \in Pages :
       /\ WF_documentVars(part = "documents" /\ Documents!PersistDraft(e))
       /\ WF_documentVars(part = "documents" /\ Documents!TimerEnds(e))
       /\ WF_documentVars(part = "documents" /\ Documents!Send(e))

GuideFairness ==
  /\ \A r \in Runs :
       /\ WF_guideVars(part = "guide" /\ Guide!Claim(r))
       /\ WF_guideVars(part = "guide" /\ Guide!Complete(r))
       /\ WF_guideVars(part = "guide" /\ Guide!Create(r))
  /\ \A p \in Pages :
       /\ WF_guideVars(part = "guide" /\ Guide!MarkExistingUserReady(p))
       /\ WF_guideVars(part = "guide" /\ Guide!Hear(p))

ResetFairness ==
  /\ \A r \in Runs :
       /\ WF_resetVars(part = "reset" /\ Reset!Claim(r))
       /\ WF_resetVars(part = "reset" /\ Reset!Complete(r))
       /\ WF_resetVars(part = "reset" /\ Reset!Create(r))
  /\ \A p \in OnePage :
       /\ WF_resetVars(part = "reset" /\ Reset!MarkExistingUserReady(p))
       /\ WF_resetVars(part = "reset" /\ Reset!Hear(p))

CopiesFairness ==
  /\ WF_copyVars(part = "copies" /\ Copies!DrainStep)
  /\ WF_copyVars(part = "copies" /\ Copies!RecoverTabs)
  /\ WF_copyVars(part = "copies" /\ Copies!RecoverBinding)
  /\ \A c \in Copies!Flushers :
       /\ WF_copyVars(part = "copies" /\ Copies!FlushStep(c))
  /\ \A o \in Edits :
       /\ WF_copyVars(part = "copies" /\ Copies!OpStep(o))
       /\ WF_copyVars(part = "copies" /\ Copies!SwitchStep(o))
  /\ \A k \in Pages :
       /\ WF_copyVars(part = "copies" /\ Copies!TabsLoaded(k))

ServicesSpec == ServicesInit /\ [][ServicesNext]_servicesVars
        /\ GatedFairness
        /\ WarmupFairness
        /\ ControlFairness
        /\ HostFairness
        /\ NotesFairness
        /\ DocumentsFairness
        /\ GuideFairness
        /\ ResetFairness
        /\ CopiesFairness

-----------------------------------------------------------------------------
(* No tab of a switch stays on its placeholder with nobody to load it, unless*)
(* its warmup was cancelled or given up (workspaceTabWarmup.ts).             *)
NobodyIsLeftBehind == Warmup!TypeOK /\ Warmup!NoneLeftBehind

(* The status shown is true to the port, and a client is written one line    *)
(* (agentControlNativePort.ts, tabplex-native-host.mjs).                     *)
StatusAndLinesAreTrue == Control!TypeOK /\ Host!TypeOK /\ Host!OneLine

(* What was typed is in the storage, in the journal or in an editor, and     *)
(* what is left of a deleted workspace is still to be removed                *)
(* (useNoteLogic.ts, noteDraftJournal.ts, storageQueues.ts).                 *)
DraftsAreKept == Notes!DraftsAreKept /\ Documents!DraftsAreKept

(* Few guides are made, whoever claims the first run                         *)
(* (onboardingCoordinator.ts).                                               *)
GuidesAreFew == Guide!GuidesAreFew /\ Reset!GuidesAreFew

(* A copy behind its workspace is marked as stale once nobody is at work     *)
(* (workspaceAutosave.ts).                                                   *)
OldCopiesAreStale == Copies!OldCopiesAreStale

(* No page is loaded a second time, nor for a workspace that the window is   *)
(* no longer bound to (workspaceTabWarmup.ts).                               *)
LoadedOnce == Warmup!LoadedOnce

(* A text the user edits is not replaced under his hands (useNoteLogic.ts).  *)
EditedStaysShown == Notes!EditedStaysShown /\ Documents!EditedStaysShown

(* Only the run that holds the seeding completes it                          *)
(* (onboardingCoordinator.ts).                                               *)
HolderCompletes == Guide!HolderCompletes /\ Reset!HolderCompletes

(* Every warmup ends, if no navigation is dropped after its slot has run out *)
(* (GuardDrops; the run warmup_dropped is without it; workspaceTabWarmup.ts).*)
WarmupEnds == Warmup!WarmupEnds

(* No connection stays "connecting", and no request or client waits for ever *)
(* (agentControlNativePort.ts, tabplex-native-host.mjs).                     *)
AgentCallsEnd == []<>(Control!Settled /\ Host!NobodyWaits)

(* What belonged to a deleted workspace is removed (storageQueues.ts).       *)
DeletedIsRemoved == []<>(Notes!AllRemoved /\ Documents!AllRemoved)

(* A seeding that was claimed ends (onboardingCoordinator.ts).               *)
SeedingEnds == []<>(Guide!NobodySeeds /\ Reset!NobodySeeds)

(* A change in a window that may save reaches its workspace                  *)
(* (workspaceAutosave.ts).                                                   *)
EditsAreSaved == Copies!EditsAreSaved

=============================================================================
