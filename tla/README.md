# TabPlex: a verification project

TLA+ modules for the background service worker of the TabPlex browser extension, the TLC
configurations that check them on small instances, and TLAPS proofs of what matters most for
every size. Paths such as `src/background/...` and `lib/...` are those of the repository.
`PROJECT.json` gives, for every definition, the lines it models.

Contents: 1 the system, 2 what is hard about it, 3 the modules, 4 the runs, 5 fairness,
6 the proofs, 7 where the code departs from its word, 8 what is not modelled, 9 the plan.

## 1. The system

TabPlex keeps *workspaces* (lists of tabs, with notes and linked resources) and shows one of
them in a browser window. Everything that changes shared state is done by one background worker
(Manifest V3: the browser may stop it whenever it likes, and starts it again for the next
event). Pages (Home, popup, settings) send it messages; a native host sends it requests of local
agents. The worker is single threaded, so what interleaves are the continuations between two
`await`s, the listeners of browser events, timers and alarms.

| component | state it keeps | operations |
|---|---|---|
| operation gate (`workspaceOperationGate.ts`) | active normal operations, outstanding maintenance, waiting operations, drain waiters | `runNormal`, `runExclusive` |
| storage write queues (`lib/storageQueues.ts`, `workspacesQueue.ts`) | four promise chains, one global barrier | `enqueue...`, `with...WriteLock`, `withGlobalStorageWriteBarrier` |
| controller (`workspaceController.ts`, `index.ts`) | initialisation promise, listeners | data operation, switch request, maintenance, tab and window events |
| window autosave (`workspaceAutosave.ts`) | requested, suppressed and dirty windows, generations, drain promise | note a mutation, flush, suppress, resume |
| workspace switch (`workspaceSwitchService.ts`) | request ids, intents, the queue; the journal (`switchState`); a timeout alarm per run | request, abort, recover, discard, clear a binding |
| tab orchestrator and capture (`TabOrchestrator.ts`, `workspaceWindowTabs.ts`, ...) | none of its own; the tabs of the browser | prepare, commit, capture |
| busy guard, rollback (`workspaceBusyGuard.ts`, `workspaceRollback.ts`) | none | refuse a deletion; put a window back |
| backup restore (`backupRestoreService.ts`, `restoreJournal.ts`, `backupRestoreCleanup.ts`, `startupRecoveryGate.ts`) | journal in IndexedDB, cleanup alarm, startup gate | restore, recover, clean up |
| workspace operations (`workspacesApply.ts`, `workspaceLogic.ts`) | the list of workspaces: tabs, revision, history, trash | create, rename, trash, move, remove, exclude, restore, undo |
| stored data (`core/storage`) | keys of local, sync and session storage, some in older forms | load, save, patch, migrate |
| backup files (`features/backup`, `backupRestoreModel.ts`) | none of its own | export, check, sanitise, plan, apply |
| tab warmup (`workspaceTabWarmup.ts`) | a persisted job per window | start, cancel, resume, load, settle |
| context removal, note drafts (`storageQueues.ts`, `noteDraft*.ts`) | list of pending removals; drafts and tombstones in `localStorage` | remove, retry, journal, recover |
| onboarding (`onboardingCoordinator.ts`) | one record: who seeds, what was made | claim, complete, dismiss, reset |
| pending action, home tab, shortcuts | one action; the home tab of a window | set and take; open |
| agent control (`agentControl*.ts`) | setting and permission; port, timer, active requests, lock | connect, answer, disconnect |
| native host (`scripts/native-host`) | socket and connection file; requests that wait | start, take over, relay, time out, end |
| pages (`useWorkspaceData`, `useNoteLogic`, `useDragAndDrop`, ...) | what is shown, what is selected, debounced saves | load, hear, edit, ask |

How they interact. A switch or a data operation passes through the gate as a *normal* operation,
export and restore as *maintenance*. Inside the gate an operation writes through the four queues;
maintenance raises the barrier. A switch suppresses the autosave of its window, flushes it,
journals what the window was, replaces its tabs, binds the window, and clears the journal. The
binding of a window (`chrome.storage.session`) holds a workspace and the revision of its tab list
that the window last saved or loaded; a flush may overwrite the workspace only at that revision.

What makes each component correct:

- gate: maintenance is alone; nobody is left waiting; waiting operations keep their order;
- queues: conflicting writes never overlap, and run in the order of their calls; no deadlock;
- autosave: no window overwrites newer data with an older copy; a change is saved in the end;
- switch: tabs and binding change together or not at all; the latest click wins; every request
  is answered; no journal is dropped while it holds the only copy of a window;
- restore: all the keys change together or none; a rollback undoes nobody else's write; bindings
  and note drafts follow the content; every journal is finished in the end;
- tab orchestrator: a switch shows its list or keeps the pages there were, and never closes what
  the user has opened meanwhile;
- workspace operations: a revision names one list for good, a request is about the tabs its
  author saw, a tab leaves a workspace for its history or by choice;
- stored data: a migration cut anywhere loses nothing; files that are exported can be imported;
- warmup: every created tab is loaded once, for the workspace it was made for, and every job ends;
- notes: what was typed is stored, in the journal or in an editor; what belonged to a deleted
  workspace goes;
- onboarding: few guides, completed by the run that holds the claim; a claim ends;
- agent control: the status shown is true, every request and client comes to an end, and what
  the protocol accepts can be served;
- pages: once everything has arrived, a page shows what is stored.

## 2. What is hard

`PROJECT.json` lists the hazards, each at its line. In short: continuations that use what was
read before an `await` (autosave captures tabs before it enters a write queue; a switch compares
its target before it commits; a page asks about a list it has shown); stops of the worker between
journal, tabs, binding and clearing, between the two halves of a migration, between the steps of a
removal; a failing browser or storage call in the middle of a switch, of a restore, and of the
recovery of either; alarms and timers that ring late; requests answered in another order than they
were made; reads answered after newer events; locks taken in a nested way (gate, chains, barrier)
and one path that takes them in another order; writers that no lock reaches (a synced device, a
timeout alarm, a second page, a second host process).

## 3. The modules

| module | models | shown to implement |
|---|---|---|
| `OperationGate` | the gate, every promise callback a step | `ExclusiveAccess` |
| `StorageQueues` | the chains and the barrier | `ArrivalOrder` |
| `GatedStorage` | both extended: operations that write inside the gate | `StorageQueues`, `OperationGate` |
| `WindowAutosave` | flush, drain, bindings, data operations, a switch seen from outside | |
| `WorkspaceSwitch` | requests, journal, recovery, alarm, abort, discard, unbinding | `AtomicSwitch` |
| `RestoreTransaction` | restore, rollback, startup recovery, cleanup alarm | `AtomicRestore` |
| `WindowTabs` | a switch of the tabs of one window, browser call by browser call; the capture | |
| `AgentCommands`, `WorkspaceUpdates` | what agents may ask; the operations on workspaces, pages and agents that ask for them | |
| `Lists` | what is left of a list when some of it is chosen, a record with fields set: without recursion, for the proofs | |
| `LegacyMigration` | every older form of the stored data and its migration | |
| `BackupFormat` | export, versions, sanitising, plans, application | |
| `PageData` | the first reads of a page against writers and events | |
| `TabWarmup` | the job that loads the tabs of a switch | |
| `NoteDrafts` | note editors, draft journal, state queue, removal of a workspace's context | |
| `Onboarding` | the first run, claimed by several pages | |
| `AgentControl`, `NativeHost` | the worker's end and the host's end of the agent channel | |
| `*_proofs` | theorems about the module of that name; `Storage_proofs` about the gate, the queues, the gate over them, a page's copy and the updates of workspaces; `MCStorage_proofs` about the tabs of a window and the migration of older data; `MCServices_proofs` about the services together. Lemmas on lists that both storage modules need (`Least`, `Ranked`, `Chosen`) stand in each | |
| `MC*` | model values, menus, symmetry and compositions for TLC | |

A definition named `Action_Variant` is the same action with a plausible mistake. No next-state
relation uses it; putting it in place of `Action` must break the property that `PROJECT.json`
pairs it with, which shows that the property depends on that line of code.

**OperationGate.** `gateStatus` says where each call is; `activeNormal`, `pendingExclusive`,
`pendingNormal` are the counters and the list of the code; `exclusiveTail` is the promise chain
as a sequence. `RunNormal` is `runNormal` up to its first await, `RunExclusive` closes admission
in the turn of the call, `BeginExclusive`, `WaitUntilDrained`, `StartExclusiveTask`,
`SettleExclusive`, `FinishExclusive` are the continuations of `runExclusive`, `AdmitNext` one turn
of the admission loop: each task it starts runs its synchronous prefix inside the loop.

**StorageQueues.** A chain is its tail; `awaits[t]` are the promises a task awaits, fixed in the
turn of the call. A task may hand over another write and await it (`Caller`), as a deletion does
inside the workspaces lock.

**GatedStorage.** Extends the queues and the gate; no state is added. `Script` gives the writes of an
operation, `BarrierOf` the barrier of maintenance. Ungated writers and the cleanup alarm are
actions of their own.

**WindowAutosave.** A list of tabs is the set of changes it embodies, so that losing tabs is a
change that leaves a set. `FlushBegin`, `FlushSnapshot`, `FlushCapture`, `FlushCommit`, `FlushSave`,
`FlushRebind`, `FlushMarkOthers`, `FlushFlag` are the awaits of a flush; `DrainPass`, `DrainNext`,
`DrainFlushed`, `DrainEnd` the background loop; `Op...` an explicit data operation (flush of the
page's window, change under the lock, materialisation in the windows that show the workspace,
rollback); `Switch...` the steps of a switch that autosave can see. `GuardFlush` excludes data
operations called for the window that is being switched (section 7).

**WorkspaceSwitch.** A list of tabs is `[owner, stamp]`. `Call` and `Resolve` are the two halves of a
request (the window is looked up in between); the head of `queue` runs `BeginSwitch`, `Reserve`,
`FlushSource`, `Own`, `Prepare`, `Commit`, `Swap`, `Bind`, `Complete`, `Settle`, or the recovery
`BeginRecovery`, `Preserve`, `Forget`, `CheckWindow`, `Restore`, `Rebind`, `ClearJournal`, each call of which
may reject (`PreserveThrows`, `RestoreFails`, `RebindFails`). `Abort`,
`Alarm`, `Discard`, `Unbind` are messages and alarms; `Edit`, `Loaded`, `CloseWindow`, `AutoSave`,
`DataEdit`, `Remove` the surroundings; `Crash` a restart. `spoilt` is a history variable, which no action reads:
it is set when a window that a failed recovery or a restart has left behind is saved, or the journal of an unfinished switch
discarded (`Spoils`), and the properties about contents promise nothing from then on (section 7).

**RestoreTransaction.** `data` is local and sync storage by key, `journal` the record in IndexedDB;
a value is `[from, stamp]`, the restore it derives from and the write that made it. The steps of
`job` are the awaits of `runRestoreTransaction` and of the recovery: `CheckJournal`, `TakeSnapshot`,
`WritePrepared`, `WriteWriting`, `ApplyMutation` (one step per storage call), `WriteWritten`,
`Readback`, `ClearBindings`, `Commit`, `AllowDrafts`, `UnlistRemovals`, `ClearJournal`; backwards
`MarkRollingBack`, `RestoreSnapshot`, `VerifyRollback`, `DropJournal`. `Fail` is any call that
rejects, `Crash` a stop in the middle of a job. `Write` and `Bind` are the rest of the program under
the queues, `WriteElsewhere` what no lock stops. `GuardRollback` excludes writes while a rollback
that failed is unfinished (section 7).

**WindowTabs.** `window` is the sequence of tabs Chrome shows, `plan` what was queried, `made` the
tabs and groups the switch has created, `pc` the browser call it is at: `Query`, `CreateTab`,
`Created`, `EnsureHome`, `Check`, `Validate` (or `ValidateBlind` when the second query fails),
`Close`, `CloseSome`, `Group`; `Fail` is any of them that rejects, `Rollback` and `Restore` the
compensation before and after the commit; the closing of either may fail (`RollbackFails`, `RestoreFails`). The user navigates, opens and closes tabs between any
two calls, also between the check of what is to be closed and its closing, which a rollback has too
(`VerifyMade`, `Rollback`). `Captured` is what a capture records of a window.

**AgentCommands, WorkspaceUpdates.** `Accepts` is the parser of agent requests, `Operation` the
operation a command becomes, `Handled` what the handler of that operation requires.
`WorkspaceUpdates` keeps the list `ws`; `Applied` is the updater of each operation, `Apply` the
handler (refusal while busy, revision check, update). `ApplyButFail` is an operation whose write to a window
fails; until `Undo` rolls it back other operations and the autosave may write, and fail too, so `undo` is a set of rollbacks. One
puts back (`PutBack`) every workspace of its operation if all of them are as the operation left them (`Owns`), and none otherwise. A page shows a copy (`Show`), the user picks, drags and asks
(`Pick`, `Drag`, `MoveTo`, `RemoveTab`); the request is applied later, after whatever came first.

**LegacyMigration.** `local` and `remote` hold a value or nothing under each key. `Loaded` is what the
application reads of them in any form, `ReadWorkspaces` to `RemoveLegacy` the awaits of the
migration; `Fails`, `Restart` and `RemoteWrites` come between any two of them.

**BackupFormat.** A sanitiser is three operators: when it throws, what it drops, what it returns.
`Backup` is the export, `Readable` the import checks by version, `MergePlan` and `ReplacePlan` the plans,
`Materialize` the storage that results; `RestoreTransaction` is how that storage is written.

**PageData.** `events` are storage changes on their way to the page, `waiting` and `got` its reads; an
answer is what was stored at its own moment. A read whose keys nobody touches in the behaviour is
answered at once, since its answer is the same at any time.

**TabWarmup.** `job` is the persisted record, `queue` the serialised callers of the window's processing,
`phase` where the worker is with each navigation. `Rest` decides whether a job is finished, waits for
a slot or keeps an alarm. `SwitchTo` is a further switch, `CommitPage`, `CompletePage` and so on
are the browser, and the user takes a tab over, closes or activates it at any moment. `ProcessBlind` is a pass that cannot query
the window and removes the job, `CancelFails` a cancellation that leaves it, `Rejects` a tab call that rejects; `givenUp`
remembers that a job was removed before its work was done.

**NoteDrafts.** An editor is one page's; `journal` and `tomb` are `localStorage`, `queue` the state
queue of the worker, `removal` the deletion it is at. `Type`, `PersistDraft`, `TimerEnds`, `Send`,
`Leave` are the editor's callbacks, `Serve` the worker, `RemoveStep` one storage of a removal, `Stop`
a restart and `Retry` the startup that takes up what is pending.

**Onboarding.** A run is one claim of one page; it may grow `old` and be taken over. `Claim`,
`Create`, `Complete` are the page's calls, `MarkExistingUserReady`, `Dismiss`, `ResetForDeveloper` the
other messages, `Hear` the storage event, `Close` the page going away at any step.

**AgentControl, NativeHost.** In the worker: the setting, the permission and the change of either on
its way (`heard`, `revoked`), the controller `ctl`, requests in the agent lock. In the host: processes
that bind the one socket and name themselves in the one connection file, clients that read the file,
connect, ask once and wait for one line.

## 4. The runs

Passing runs explore everything within their bounds; `CHECK_DEADLOCK FALSE` stands where the
calls are a finite set and the system stops when they are made.

| run | question | bounds, and why they are enough |
|---|---|---|
| `autosave` | no window overwrites newer data; a window that may save shows all that it may overwrite | 2 windows, 2 workspaces, 2 operations (an edit from a window, a switch, an exclusion from elsewhere, which tells no copy), 2 changes, a restart at any step: a reader, a writer between its awaits |
| `switch` | `AtomicSwitch`; mismatch is journaled, own tabs only, bound to live workspaces, rollback keeps tabs, the only copy of a window is kept; the latest click wins, only older ones are superseded | 2 requests whose lookups end in any order, 1 window that still loads at the start, 2 workspaces; one each of edit, removal, closing, fault, failing recovery, restart, and one of abort, unbinding or discard: up to four of them (edits not counted) in one behaviour, which ends where `spoilt` waives the rest |
| `restore` | `AtomicRestore`, journal discipline, bindings, drafts; where writers are outside the barrier, keys settle as backup, as before, or newer, and every journal is finished; every request for a switch is answered, an interrupted switch resolved | 4 keys (set or removed, local or sync), 2 restores, 2 writes, 2 faults, 2 stops: a fault in the transaction and one in its rollback; then 3 keys with 2 writes from elsewhere; then the switch with 2 requests for an empty workspace, an abort, an unbinding or a discard, fault, failing recovery, restart |
| `services` | the services and pages that start something finish it and lose nothing (the properties by component follow) | below |
| `storage` | what is stored and how (the properties by component follow) | below |

`MCServices`, `MCStorage` and `MCRestores` put several components into one run, because each is
small. They do not interact there: the variable `part`, fixed in the initial state, says which
one a behaviour is about, and the others rest in one of their initial states. An invariant of a
component is guarded with its `part` where evaluating it costs time; a resting component satisfies
it anyhow, by the behaviours that begin there. Fairness is each component's own, of steps taken
while it is selected. `[]<>P` of a resting component holds from the start.

| component in `services` | properties | bounds |
|---|---|---|
| gate | `GateIsExact` (exclusion, nobody stranded, no lost drain, counters), `Admission`, `GateIsExclusiveAccess`, `EveryCallEnds` | 3 normal and 3 exclusive calls: one running, one waiting, one newer; a chain of three |
| gate over queues | `MaintenanceSeesWhole`, `EveryOperationEnds` | a deletion that nests a write, a switch, a restore, an export, an ungated write |
| warmup | `NobodyIsLeftBehind`, `LoadedOnce`, `WarmupEnds` | 2 tabs, 2 switches (the second also while the first one's job is there), 2 disturbances (acts of the user, lost bindings, failing calls, crashes), late slots: the first tab in its slot while the second waits |
| agent channel (`control`) | `StatusAndLinesAreTrue`, `AgentCallsEnd` | 2 connections, 2 requests, 3 events: an old request, a new connection |
| native host (`host`) | the same two | 2 hosts, one leaving while the next comes, 2 clients |
| notes, documents | `DraftsAreKept`, `EditedStaysShown`, `DeletedIsRemoved` | 2 editors of one note; 2 editors changing between 2 documents, one of them deleted |
| guide, reset | `GuidesAreFew`, `HolderCompletes`, `SeedingEnds` | 2 runs of 2 pages; 2 runs of 1 page with a user who dismisses, resets, creates |
| copies (the autosave) | `OldCopiesAreStale`, `EditsAreSaved` | edit, trash and restoration from elsewhere against 2 windows |

| component in `storage` | properties | bounds |
|---|---|---|
| queues | `OrderedWrites`, `QueuesKeepArrivalOrder` | 5 writes on 3 chains, one nested, 2 barriers: every pair of kinds meets |
| windows | `SwitchOutcome`, `UserPagesStay` | 4 windows (home, duplicates, groups, pinned, loading, internal and blank tabs), 4 lists, 1 act of the user, 2 faults: one in the switch, one in its compensation |
| updates | `AcceptedIsHandled`, `UpdatesKeepTabs` | 2 workspaces, 2 lists that differ in origin, 2 requests, both of which may fail: one asked, one that comes between it and its rollback |
| migration | `MigrationKeepsData` | 4 workspaces, 3 states and 3 journals of older forms, 2 disturbances: a cut and a second one |
| backups | `BackupsArePortable` | 2 stores, 6 files of 3 versions, 3 operations: export, import, export |
| page | `PageShowsStorage` | 5 groups of keys written together, 3 writes, 1 failing read: an event before, between and after two reads |

The other runs (`expect: violation`) are the subject of section 7.

Bounds are constants (`MaxEdits`, `MaxFaults`, `MaxCrashes`, ...), guards of the actions they bound,
and never part of what a step does. Symmetry is used in `switch`,
`switch_recovery` and `autosave_reload`, which have no liveness property.

## 5. Fairness

Weak fairness is put on continuations only: a promise callback that is ready runs, a task that
was started settles (`FinishNormal`, `End`), the head of a queue proceeds, the lookup of a window is
answered, a timer or an alarm that is set rings. The user, new calls, restarts and failures are never fair; neither is the
agent's host, nor the answer of the extension to it. In `WindowAutosave` and `TabWarmup` a loading
tab ends loading (the browser gives up in the end too); `WarmupEnds` needs one thing more of the browser, that a navigation whose
slot has run out does not come to nothing afterwards (`GuardDrops`): the code relies on it (section 7), and `warmup_dropped`
shows what happens otherwise. `RestoreTransaction` adds two facts of
Manifest V3: a set alarm rings while the worker is up, and an idle worker is suspended, to be
started by the next event; `Suspend` is strongly fair because a busy worker may interrupt its
idleness for ever. Storage calls fail finitely often (`MaxFaults`): a disk that fails for ever
settles nothing.

## 6. The proofs

*Gate* (`Storage_proofs`). The inductive invariant adds to the types: the counters are
cardinalities, the head of the chain is the only call past "queued", the call whose drain is over
has no active operation, `pendingNormal` lists exactly the waiting calls, each once. Exclusion alone is not
inductive: a step that starts a task has to know that the active count it found at zero is still zero, which holds
because admission has been closed since the call. From it follow `MaintenanceIsExclusive`,
`NobodyStranded`, `CountersAndDrain` and with them `GateExactness`; `AdmissionClosed` and
`AdmissionInOrder`, together `AdmissionIsFair`; and `GateRefinesExclusiveAccess`. Assumption: the two kinds of call are disjoint; there may be infinitely many of either.

*Queues, gate over queues* (`Storage_proofs`). A task awaits two or a few promises, yet must come after all
earlier tasks it conflicts with. The invariant says that what it awaits *covers* them: each earlier
conflicting task is done, or awaited, or before something awaited. `WritesNeverOverlap`
and `WritesInOrderOfArrival` (together `WritesAreOrdered`) and `QueuesRefineArrivalOrder` follow for any chains,
writes, nesting and barriers. Every step of `GatedStorage` is a step of the gate, of the queues, or of both at once, so
both invariants hold in it (`GatedStorageImplementsQueues`, `GatedStorageImplementsGate`). What neither knows is
`WorkIsGated`: an operation is running in the gate as long as anything it has handed to the queues is unfinished, because it
returns only then. With the exclusion of the gate it gives `GatedInvariant` and `MaintenanceSeesStorageWhole`.

*A page's copy* (`Storage_proofs`). `PageShowsStorage` speaks of the moment when everything has arrived; the invariant is about
every moment before. `EventsEndStored`: of the events under way, the last that brings a key brings what is stored. `Known`, as long as no
read has failed: unless an event about a key is still to come, what the page shows of it is what is stored, and so is what it has read
and not yet looked at; of two refreshes of the settings only the newer one counts. `BindInv` is the same for the serialised
updates of the window's binding. `PagesShowWhatIsStored` has no hypothesis: that the marks for "none" and "failed" are no
values is the assumption `ValuesApart` of `MCStorage`, which TLC evaluates in the run.

*Updates of workspaces* (`Storage_proofs`). The askers name tabs by their index in a list they saw. `WasSeen` says what that is worth: the
revision seen is an earlier one, or the list is still the list of the workspace. It is claimed of every request on its way (`InboxInv`) and of the
page (`ViewInv`); it stays true because a list that changes gets a later revision, an undone write one later still, and a
deleted workspace does not come back (`GoesOn`). `WsInv`: every workspace is `Kept`, whose snapshots are few and numbered below the next; `UndoInv`: what each pending
rollback will put back is an earlier state of its workspaces, so that it does not matter how many are pending or what was
written since. Under each operation lies one lemma, `...Follows`: the revision does not fall, rises if the list changes, and
pages that leave are in the newest snapshot (`Changed`). The hard case is a replacement that takes no snapshot: then the counts by origin are equal, so no page is missed.
It gives `WorkspacesKeepTabs`. The part of `RequestsAreServed` about the
protocol needs no state: it goes through the commands and relates the two tests a request passes, for any payload, not only those the
run tries. Assumption `UpdatesApart` of `MCStorage`, which TLC evaluates in the run: "none" and "gone" are no workspaces,
and what is captured are lists of tabs.

*The tabs of a window* (`MCStorage_proofs`). `WindowInv` has a part for each thing a later call relies on. Until the commit, what was
queried is there or was clicked (`SourceThere`, `CloseFits`); what is verified still shows what it did, unless it was clicked in the
moment of `"close"` (`Verified`); the tabs of the targets are there, distinct, at their pages or placeholders, and those with one URL stand in the order of
the targets (`ShowsTarget`, `InOrder`); every grouped tab is known to the plan until the groups are made (`GroupsFit`). `InOrder` is what the capture
needs: it finds the key of a tab by its rank among the tabs with its URL, so the window may be ordered in any way but this
(`MatchesRank`, `DoneMatches`). What the user does between two calls is one lemma, `DriftKeeps`: every step
that only clicks, loads or warms tabs keeps the invariant. For a switch that failed, the pages that are opened again are counted against
those that are left (`ReopenedMakeUp`). It gives `UserPagesAreKept` and `SwitchHasItsOutcome`, for any windows, lists of tabs, keys, clicks and faults. Assumption
`WindowsKnown` of `MCStorage`, which TLC evaluates in the run: ids are distinct numbers up to `LastTabId`, which the browser does not give again;
listed tabs are pages; a page is none of the marks for Home, placeholders and the rest.

*Migration of older data* (`MCStorage_proofs`). What is claimed relates two reads that a cut may separate, so `MigrationInv` says of every
moment between two writes that what a read would give is what the first read gave. Two things make it inductive. What has been
written is read back as itself: a workspace is `Clean` once normalised (`NormalizedIsClean`), a journal is `Settled` (`JournalSettles`,
`SettledStays`), a state is flat. And a half is not mistaken for another: the new area is written before the old one is
removed, so what is found is old data that nothing has touched, or old data that what is written takes precedence over (`Rewritten`,
`FlatArea`). `NeverGuessed`, that a window open now does not decide what old data means, compares two stores that
differ in their windows only (`Twins`). It gives `OldDataIsKept`. The containers of old data are ordered by a sort; the module says of it only that
each container comes once and in the order of its rank (`RankedBy`), which is what the code's sort ensures and needs no recursion. Assumption `OldDataKnown` of
`MCStorage`, which TLC evaluates in the run: the shapes of older data, "none" is no window and no data, and layouts lie only beside a
workspace without contexts of its own; section 7 ("Stored data") says what happens otherwise.

*Restore* (`RestoreTransaction_proofs`). `IInv` is `TypeOK`, `JobHasJournal` (storage changes only
under a durable journal that is not committed), `JobKnowsData` (what a job read of the protected
keys is still true when it relies on it: the snapshot before the journal, the backup at the commit,
the snapshot after the rollback) and `FollowContent` (bindings and drafts follow what storage is
worth). `TypeCorrectness` and `JobAndStorageMatch` need no assumption about the environment; `FollowersAreCurrent` and
`Atomicity` assume `GuardRollback`, which section 7 shows to be needed. `Atomicity` is the
refinement of `AtomicRestore`: a write is a write, the commit is the restore, everything else
leaves the *worth* of storage (the journal's snapshot while it is uncommitted) alone.

*Switch* (`WorkspaceSwitch_proofs`). A window that shows another workspace's tabs must have the journal; what
makes this inductive is who else may act on that window meanwhile. `QueueMatches`: the head of the queue is a
request that waits or a recovery, each request is in the queue once, and the stage fits the head.
`JournalMatches`: there is no journal before it is written; from then until it is cleared it is that of the
running switch, whose window is suppressed, and a journal whose switch has ended belongs to an answered request.
So an autosave never meets a window that does not match (`AutoSaved`), unless it is one left behind, which `spoilt` then says. `StageMatches`: at the
binding, the completion and the end of a recovery the window shows the plan's or the journal's tabs. From
these: `NoWorkspaceIsOverwritten` and `RemovalsAndSwitchesExclude`. A second part, `LInv`, says
what the switch remembers of the window (`SourceKnown`), and that a loading window outside a switch that is bound is bound
to a workspace there is (`LoadingBound`), so that its journal has no tabs only if the window has no workspace. It gives
`SwitchesLoseNoTabs` and `SwitchesAreAtomic`, the refinement of `AtomicSwitch`: only the writing of the journal, the
completion and the clearing of the journal change what a window durably is. The only assumption is `NoneIsApart`: the value
for "none" is no record. Users may unbind and discard, recoveries fail, windows load at the start; what is waived is what follows a
step that sets `spoilt`, and `switch_recovery` shows that it has to be.

*Order of requests* (`WorkspaceSwitch_proofs`). `OrderInv` is about the numbers that requests get: those of a window wait in the queue
in the order of their calls (`QueuedInOrder`), and only the head is at work (`HeadAtWork`). `LatestIsKnown`: `latestId` and `intent`
name the latest request whose window has been found, and one whose window is still being looked up is later than those, or will give up. `Succeeded`: a
request that succeeded is older than all that wait, and while it is the latest its window is bound to its target, unless the user
unbinds. To keep that, the binding has to be known through the last stages of a switch (`AboutToSucceed`), and no journal of an
older one may be left for its window. It gives `RequestsInOrder`, whatever fails, restarts, is aborted or discarded; assumption `NoneIsOnlyNone`.

*Autosave* (`WindowAutosave_proofs`). A flush is let in by a revision; the invariant says what a revision is
worth. `Current(w, r, T)`: if `r` is still the revision of `w`, then `T` holds all that `w` holds. It is
claimed of every place that keeps a revision: the binding and the tabs of its window (`WindowShows`), a flush
and what it captured (`FlushCarries`), the plan of a switch (`SwitchCarries`), its journal (`JournalCarries`)
and an edit that may be rolled back (`EditKnows`). `Revisions`: no kept revision is ahead of its workspace, so
a write makes the others worthless at once, and most steps are *calm* (`CalmKnown`). What is left are the steps
of a switch between the window's tabs and its binding, when they say different things (`Displaced`):
`SwitchMeets` is what the window's flushes may still do then, and `Passed` that a flush will not match the
binding again. `OneSwitch`: there is one switch, and the journal is its own or that of one a restart has cut
(`CutIsKnown`). It gives `TypeCorrectness`, `OwnedCopies` and `NoChangeIsLost`. Assumptions:
`SwitchesRespected` (`GuardFlush`, a switch is of some window, the value for "none" is no record) and, for the
last two, `FlushesServed`: no flush that has captured a window still waits for the queue when a switch
replaces the tabs of that window. The code does not ensure it; `autosave_reload` shows a behaviour
in which it fails and a change is lost, so the two theorems say what the compare of revisions is worth outside that case. Workspaces of
a switch that a restart has cut (`interrupted`) are exempt, section 7.

*Old copies* (the same module). A copy that may save and is behind its workspace must be marked before it saves. `CopiesAreTold`: it is on
somebody's list, since the flush or the edit that made the present revision has still to mark it or to bind it again;
`SavesFromCurrent`: the window of a flush that is about to save is not behind. What it takes is `ToldInTime`: the worker is not stopped
between a write and its marks, no tab is excluded (that operation tells no copy, section 7), and the workspace of a switch does not change
between its tabs and its binding. All three, and `FlushesServed`, hold by themselves where the copies are edited, trashed and
brought back from elsewhere, as in the run (`ElsewhereInTime`): `OldCopiesAreShown` (`MCServices_proofs`), for any windows, workspaces,
edits and changes. Nothing is claimed of the other operations.

*Notes* (`NoteDrafts_proofs`). What a text survives on is split over the page, its journal, the
worker's queue and two storages, so the invariant has three parts. `Follows`: what is unsaved is
dirty, is the draft, and is shown when its document is (from it `EditingIsNotDisturbed`). `Kept`: what is unsaved
is in the journal or is the write the editor is in the middle of; an answer clears
a draft only of the text it stored (`TypedTextsAreKept`). `Listed`: only the head of the queue is
under way; a removal in it is the one the worker waits for and is on the list; a workspace that is
neither there nor on the list is marked, has no note, and no save of it has passed its check
(`NothingIsForgotten`). Assumption `NoneIsApart`: the value for "nothing" is no workspace, text, draft or removal.

*First run* (`Onboarding_proofs`). Each guide is charged to its maker: the holder, a run old enough to be taken
over, or an act of the user. The invariant keeps the makers that are still to come apart from those
that have been counted: `NewUsersGetOneGuide`, `HolderCompletesIt`. Assumption `RunNumbers`: the numbers of the runs.

*Services* (`MCServices_proofs`). The invariants and the action properties of the run `services`, for every value of its constants.
Each component keeps an invariant of its own, since a step is one of that component or leaves it alone (`EachIsOneOfItsOwn`). `FewGuidesAreMade`,
`HoldersComplete`, `EveryDraftIsKept` and `EditedTextsStayShown` are the theorems of the two modules above, for the instances of
the run. Three components have their invariant here. *Warmup*, `WarmupInv`: a job is of the workspace that is bound and covers every tab
(`JobCovers`), or knows none of the tabs of a switch that is about to replace it; without a job, or one to come, no tab is at its placeholder unless the job was given up (`SettledAreLoaded`); a tab that is about to be navigated is not yet
where it goes (`NavigatesToNew`). From it `NoTabIsLeftBehind` and `TabsAreLoadedOnce`. *Agent channel*, `ControlInv`: status,
port, timer and active requests go together at every step (`Sound`). *Native host*, `HostInv`: a client to which no line was written
has not asked yet, or waits in the table of the host it is connected to (`LinesAreOwed`). Both together are `ChannelTellsTheTruth`. Assumptions: the
values for "none" are apart from the others, the runs of the first run have their numbers, and in the autosave the loop is no edit (`CopiesConstants`).

*Only model-checked*. Liveness (`EveryCallEnds`, `EveryOperationEnds`, `RequestsAreSettled`, `ElsewhereSettles`, `WarmupEnds`, `AgentCallsEnd`,
`DeletedIsRemoved`, `SeedingEnds`, `EditsAreSaved`) needs ENABLED, which the prover does not have. `BackupsArePortable`
is about recursive sanitisers and needs
induction over the data, as would anything about `SelectSeq`, `SortSeq` or `@@`, whose definitions are recursive (`Lists` says what
`WindowTabs`, `WorkspaceUpdates`, `LegacyMigration` and `PageData` need of them without). A least counterexample of a set of numbers is within reach (`Least`), and serves where an index is
looked for.

## 7. Where the code departs from its word

Seven runs show one each; the entry under "findings" has the lines.

- `gated_storage_cleanup`: the cleanup alarm of a committed restore raises the storage barrier
  outside the gate and meets a deletion that nests a write: each waits for the other for ever.
- `autosave_flush`: a data operation flushes the window of its page although a switch owns that
  window; a half-replaced window is saved into the source. `autosave` takes `GuardFlush`.
- `restore_unfinished`: a failed rollback lets the writers go on and undoes their writes at the
  next start. The passing restore run takes `GuardRollback`.
- `page_state`: an event about one of two keys makes an opening page drop its first read of both
  (`useWorkspaceData.ts:173, 297`); `PageShowsStorage` is about the other keys.
- `switch_recovery`: the recovery of a failed switch fails too, and `runSwitch` resumes the autosave
  (`workspaceSwitchService.ts:494`) of a window that shows other tabs than those of the workspace it is bound to: they are
  saved over it. An unbinding saves such a window as well, and discarding the journal (577; the user confirms it)
  leaves it bound for the next autosave. In `switch` all this sets `spoilt`.
- `autosave_reload`: a commit compares binding and revision (`workspaceAutosave.ts:109-127`), not how often the window was
  bound. An edit from elsewhere marks a copy stale that is at the newest revision (the window has been reloaded between the
  write and the mark); the user asks for the same workspace again, and the switch binds it at the same revision while a
  drained flush that had captured the old tabs waits in the queue: it saves tabs the window no longer shows, and
  the next flush drops them. The menu of `autosave` has no reload of the workspace a window has.
- `warmup_dropped`: when the slot of a tab has timed out and its navigation comes to nothing afterwards, the tab
  stays on the placeholder; nobody loads it again, it never counts as settled, and the alarm rings for ever
  (`workspaceTabWarmup.ts:329`). `services` takes `GuardDrops`.

More appear when a constant or a menu of a passing run is changed, or a property that is defined
beside the model is checked:

- An "exclude" from elsewhere in `DataMenu` of `MCServices` breaks `OldCopiesAreStale`: `exclude-tab`
  raises the revision, but `getMaterializedWorkspaceIds` (`workspacesApply.ts:527`) does not list it.
- `NoStaleOverwrite` without `\ interrupted'` is broken by a restart: the recovery
  (`workspaceSwitchService.ts:228`) runs without suppressing autosave, which saves the tabs of the
  source into the target when the worker stopped after the binding was set. `CopiesAreOwned` exempts the same workspaces;
  in `WorkspaceSwitch` such a save sets `spoilt`.
- `TakenOverStays` (`TabWarmup`): between the check of a tab and its navigation the user may take it
  over; it is navigated all the same (`workspaceTabWarmup.ts:311`).
- `OffDisconnects` (`AgentControl`): a setting read before an await and applied after a newer one
  leaves the port up while the setting is off (`agentControl.ts:76`; SECURITY.md:36).
- `ReadyIsReachable` (`NativeHost`): two hosts start at once, the one that fails to bind ends and
  removes the socket of the other, which has said it is ready (against the comment at
  `tabplex-native-host.mjs:83`).

Seen while modelling, and not wrong or not said otherwise anywhere:

- *Autosave, switch, restore.* Two flushes of one window at a time can report a spurious "stale". A
  window bound to a revision that another window raised in the last moment is found stale by its
  next flush only. A superseded request is answered with success even if its successor fails.
  The bindings that a restore clears before its commit are not put back by its rollback.
- *Windows without a workspace.* The journal of a window that is still loading has no tabs
  (`workspaceSwitchService.ts:286`); if no workspace is bound to it, a failed switch leaves it without them. The code says that it
  restores a loading window from the saved copy; this one has none, and `RollbackKeepsTabs` says so.
- *Tabs of a window.* A tab that is reused keeps its place, so the order may differ from the list's.
  When the query before the closing fails, every source tab is kept and the switch goes on. A
  created tab that the user closes makes the grouping fail and the switch roll back. The
  compensation puts tabs back, not their groups.
- *Stored data.* A workspace that has contexts of its own and older layouts that differ reads as the
  layouts when the migration is cut between its first write and the removal. Such a workspace in `OldWorkspaces` of
  `MCStorage` breaks `MigrationKeepsData`; `OldDataKnown` leaves it out.
- *Backups.* A merge starts the revisions of what it renames at 0. A title, address, name or note
  over its limit makes every export fail.
- *Notes.* Typing while everything is being flushed ends in "note-save-failed". A patch of previews
  or links does not ask whether the workspace exists (`storageQueues.ts:150`); the retried removal
  takes it away again.
- *Onboarding.* A page that was open while another one died in the seeding does not take over by
  itself; the one that does makes a second guide if the first had got that far, and forgets that
  the guide was dismissed.
- *Agent control.* The check at startup may take back a permission that is being granted. A
  connection that became unavailable is not tried again until the setting is toggled.

## 8. Not modelled

- *Pending action, home tab, shortcuts*: a lookup in front of one call. Two callers that find no
  Home both create one (`homeTabService.ts:84`); nothing in the code promises otherwise.
- *Rendering, styles, translations, logging, release scripts*: no shared state. The forms of the
  settings send messages that are modelled where they arrive.
- *Bytes*: the canonical text of a backup and the digest over it are one bit, the framing of the
  native channel is a line, the quota is a call that may fail, a journal has the shape it was
  written with.
- *Closing windows*: the browser closes the tabs of a window one by one, and the code relies on the
  flag that comes with the event (`workspaceController.ts:81`); the autosave models what a list
  records, not the way it shrinks. A run about it would check that flag against itself.
- *Steps abstracted between modules*: in `WorkspaceSwitch` a flush is one step (its steps are in
  `WindowAutosave`) and the replacement of the tabs is one step that may leave any part of a list
  (its calls are in `WindowTabs`); the user does not edit a window that is in a switch (edits
  noted meanwhile are dropped by the code, too). The bindings that a removal clears are in
  `WindowAutosave`, not in `NoteDrafts`. The workspace that the first run makes of the current tabs is left out,
  as is the dead path behind `discardCreatedTabs`.
- *Menus instead of all values*: in the runs, lists of tabs, older data and backup files come from sets chosen so
  that every branch is taken; the theorems of section 6 are for any lists and any older data of their shapes, but
  nothing is proved about backup files; what a recursive sanitiser returns for every document is not
  claimed.

## 9. Plan

Done: the modules of section 3. What would add most next: weaker forms of `FlushesServed` and `ToldInTime`; a
composition of `WindowTabs` with `WorkspaceSwitch` in place of its one-step replacement.
