---------------------------- MODULE WorkspaceSwitch ----------------------------
(***************************************************************************)
(* The switch of a window to a workspace                                   *)
(* (src/background/services/workspaceSwitchService.ts): requests and the   *)
(* intents that supersede each other, the queue of switch tasks, the       *)
(* journal and the recovery it drives, the timeout alarm, abort, discard,  *)
(* the clearing of a binding, and restarts of the worker at any step.      *)
(*                                                                         *)
(* A list of tabs is a record [owner, stamp]: the workspace or the unbound *)
(* window it belongs to and the last change made to it.  A flush of the    *)
(* autosave is one step here; WindowAutosave has its steps.                *)
(*                                                                         *)
(* A failed recovery leaves its journal, and the autosave of the window    *)
(* goes on.  The variable spoilt remembers that such a window was saved,   *)
(* or that the journal of an unfinished switch was discarded: from then on *)
(* what a workspace holds and what a window shows may not match.           *)
(***************************************************************************)
EXTENDS Integers, Sequences, FiniteSets

CONSTANTS
  Requests, Windows, Workspaces,
  Blank,         \* workspaces without tabs: nothing is loaded for them
  InitLoading,   \* windows that have loading tabs at the start
  MaxEdits, MaxRemovals, MaxAborts, MaxDiscards, MaxUnbinds, MaxCloses,
  MaxInterventions,              \* bound: aborts, discards and unbindings together
  MaxFaults, MaxRecoveryFaults,  \* bounds: calls of the browser that fail
  MaxCrashes,                    \* bound: restarts of the worker
  None

ASSUME SwitchConstants ==
  /\ None \notin Windows \cup Workspaces \cup Requests
  /\ Blank \subseteq Workspaces /\ InitLoading \subseteq Windows
  /\ {MaxEdits, MaxRemovals, MaxAborts, MaxDiscards, MaxUnbinds, MaxCloses,
      MaxInterventions, MaxFaults, MaxRecoveryFaults, MaxCrashes} \subseteq Nat

VARIABLES
  canon,      \* local storage: [tabs, rev, status] of each workspace
  ledger,     \* local storage: lists kept in a history or an orphan workspace
  journal,    \* local storage: switchState
  binding,    \* session storage
  alarms,     \* chrome.alarms: the runs whose timeout is set
  open,       \* browser: the windows that are open
  shows,      \* browser: the list of tabs of each window
  loading,    \* browser: windows with placeholders or loading pages
  req,        \* the requests
  latestId,   \* latestSwitchRequestIdByWindow
  intent,     \* latestSwitchIntentByWindow
  queue,      \* switchQueue
  run,        \* the locals of the task at the head of the queue
  suppressed, \* windows whose autosave is suppressed
  started,    \* initWorkspaceController has recovered
  spent,      \* how often each bounded event has happened
  spoilt      \* for the properties: see Spoils

stored == <<canon, ledger, journal, binding, alarms>>
browser == <<open, shows, loading>>
intents == <<req, latestId, intent>>
vars == <<stored, browser, intents, queue, run, suppressed, started, spent, spoilt>>
code == <<stored, browser, intents, queue, run, suppressed, started, spent>>

List == [owner : Windows \cup Workspaces \cup {None}, stamp : 0 .. MaxEdits]
Nothing == [owner |-> None, stamp |-> 0]   \* no tabs, or an arbitrary part of a list
NoRequest == [pc |-> "idle", id |-> 0, window |-> None, target |-> None,
              reason |-> None, result |-> "none"]
NoRun == [stage |-> "idle", after |-> "end", source |-> None, reserved |-> FALSE,
          plan |-> None, before |-> Nothing]
Limit == [edit |-> MaxEdits, removal |-> MaxRemovals, abort |-> MaxAborts,
          discard |-> MaxDiscards, unbind |-> MaxUnbinds, close |-> MaxCloses,
          fault |-> MaxFaults, recovery |-> MaxRecoveryFaults, crash |-> MaxCrashes]

Task(kind, who) == [kind |-> kind, who |-> who]
RecoverTask == Task("recover", None)

Init ==
  /\ canon = [w \in Workspaces |-> [tabs |-> [owner |-> w, stamp |-> 0], rev |-> 0,
                                    status |-> "live"]]
  /\ ledger = {} /\ journal = None /\ alarms = {}
  /\ binding \in [Windows -> {None} \cup [ws : Workspaces, rev : {0}, stale : {FALSE}]]
  /\ open = Windows
  /\ shows = [k \in Windows |-> [owner |-> IF binding[k] = None THEN k ELSE binding[k].ws,
                                 stamp |-> 0]]
  /\ loading = InitLoading
  /\ req = [r \in Requests |-> NoRequest]
  /\ latestId = [k \in Windows |-> 0]
  /\ intent = [k \in Windows |-> None]
  /\ queue = <<>> /\ run = NoRun /\ suppressed = {} /\ started = TRUE
  /\ spent = [e \in DOMAIN Limit |-> 0]
  /\ spoilt = FALSE

----------------------------------------------------------------------------
Spend(event) == spent[event] < Limit[event] /\ spent' = [spent EXCEPT ![event] = @ + 1]
Intervene(event) ==
  spent.abort + spent.discard + spent.unbind < MaxInterventions /\ Spend(event)

IsHead(kind) == queue # <<>> /\ Head(queue).kind = kind
Running == IsHead("switch") /\ run.stage # "idle"
Active == Head(queue).who                \* the request of the running switch
RunWindow == req[Active].window
Cancelled(r) == req[r].reason # None
Calls == Cardinality({r \in Requests : req[r].id > 0})

(* cancelSwitchIntent: the first reason stays.                              *)
CancelAll(rs, reason) ==
  [r \in Requests |-> IF r \in rs /\ req[r].reason = None
                      THEN [req[r] EXCEPT !.reason = reason] ELSE req[r]]

(* loadBusyWorkspaceIds: reservations and the journal.                      *)
Busy ==
  (IF Running /\ run.reserved
   THEN {req[Active].target} \cup (IF run.source = None THEN {} ELSE {run.source.ws})
   ELSE {})
  \cup (IF journal = None THEN {} ELSE {journal.target, journal.source})
  \cup {binding[k].ws : k \in {x \in loading \cap open : binding[x] # None}}

----------------------------------------------------------------------------
(* requestCurrentWindowWorkspaceSwitch                                      *)
Call(r) ==
  /\ started /\ req[r].pc = "idle"
  /\ \E k \in open, w \in Workspaces :
       req' = [req EXCEPT ![r] = [NoRequest EXCEPT !.pc = "resolving", !.id = Calls + 1,
                                                   !.window = k, !.target = w]]
  /\ UNCHANGED <<stored, browser, latestId, intent, queue, run, suppressed, started, spent>>

Answered(request, result) == [request EXCEPT !.pc = "done", !.result = result]

(* Faulty variant: whoever finds its window last is the latest request.     *)
Resolve_LastResolvedWins(r) ==
  LET k == req[r].window IN
  /\ req[r].pc = "resolving"
  /\ IF k \notin open
     THEN req' = [req EXCEPT ![r] = Answered(@, "failed")]
          /\ UNCHANGED <<latestId, intent, queue>>
     ELSE /\ latestId' = [latestId EXCEPT ![k] = req[r].id]
          /\ intent' = [intent EXCEPT ![k] = r]
          /\ req' = [CancelAll({intent[k]}, "superseded") EXCEPT ![r].pc = "waiting"]
          /\ queue' = Append(queue, Task("switch", r))
  /\ UNCHANGED <<stored, browser, run, suppressed, started, spent>>

(* The window has been found: an older request than the latest gives up,    *)
(* otherwise it supersedes the request that has the window.                 *)
Resolve(r) ==
  LET k == req[r].window IN
  /\ req[r].pc = "resolving"
  /\ IF k \notin open
     THEN req' = [req EXCEPT ![r] = Answered(@, "failed")]
          /\ UNCHANGED <<latestId, intent, queue>>
     ELSE IF req[r].id < latestId[k]
     THEN req' = [req EXCEPT ![r] = Answered(@, "superseded")]
          /\ UNCHANGED <<latestId, intent, queue>>
     ELSE /\ latestId' = [latestId EXCEPT ![k] = req[r].id]
          /\ intent' = [intent EXCEPT ![k] = r]
          /\ req' = [CancelAll({intent[k]}, "superseded") EXCEPT ![r].pc = "waiting"]
          /\ queue' = Append(queue, Task("switch", r))
  /\ UNCHANGED <<stored, browser, run, suppressed, started, spent>>

(* The task settles: its answer, the next task, the end of suppression.     *)
Finish(result) ==
  LET r == Active IN
  /\ req' = [req EXCEPT ![r] = Answered(@, result)]
  /\ intent' = [k \in Windows |-> IF intent[k] = r THEN None ELSE intent[k]]
  /\ queue' = Tail(queue) /\ run' = NoRun
  /\ suppressed' = suppressed \ {RunWindow}
  /\ UNCHANGED <<latestId, started>>

FinishCancelled ==
  Finish(IF req[Active].reason = "superseded" THEN "superseded" ELSE "failed")

Stage(stage) == run.stage = stage /\ queue # <<>>
Enter(stage) == run' = [run EXCEPT !.stage = stage]
SameTask == UNCHANGED <<intents, queue, suppressed, started>>

(* Faulty variant: the autosave of the window goes on.                      *)
BeginSwitch_NotSuppressed ==
  /\ IsHead("switch") /\ run.stage \in {"idle", "recheck"}
  /\ IF Cancelled(Active) \/ intent[RunWindow] # Active
     THEN FinishCancelled
     ELSE IF run.stage = "idle" /\ journal # None
     THEN run' = [NoRun EXCEPT !.stage = "recover", !.after = "recheck"] /\ SameTask
     ELSE /\ run' = [NoRun EXCEPT !.stage = "reserve", !.source = binding[RunWindow],
                                  !.before = shows[RunWindow]]
          /\ SameTask
  /\ UNCHANGED <<stored, browser, spent>>

(* The start of a switch task, and again after a recovery that it ran.      *)
BeginSwitch ==
  /\ IsHead("switch") /\ run.stage \in {"idle", "recheck"}
  /\ IF Cancelled(Active) \/ intent[RunWindow] # Active
     THEN FinishCancelled
     ELSE IF run.stage = "idle" /\ journal # None
     THEN run' = [NoRun EXCEPT !.stage = "recover", !.after = "recheck"] /\ SameTask
     ELSE /\ run' = [NoRun EXCEPT !.stage = "reserve", !.source = binding[RunWindow],
                                  !.before = shows[RunWindow]]
          /\ suppressed' = suppressed \cup {RunWindow}
          /\ UNCHANGED <<intents, queue, started>>
  /\ UNCHANGED <<stored, browser, spent>>

(* An error before the journal exists ends the switch at once, later it     *)
(* starts the recovery.                                                     *)
FailEarly ==
  Finish(IF req[Active].reason = "superseded" THEN "superseded" ELSE "failed")
FailLate == run' = [run EXCEPT !.stage = "recover", !.after = "answer"] /\ SameTask

Reserve ==
  /\ Stage("reserve")
  /\ IF Cancelled(Active) \/ canon[req[Active].target].status # "live"
     THEN FailEarly
     ELSE run' = [run EXCEPT !.stage = "flush", !.reserved = TRUE] /\ SameTask
  /\ UNCHANGED <<stored, browser, spent>>

(* flushWorkspaceWindowAutosave in one step.  A loading window is not saved. *)
Saves(k) == binding[k] # None /\ (binding[k] # None => ~binding[k].stale)
SaveWindow(k) ==
  LET b == binding[k] IN
  IF ~Saves(k) THEN UNCHANGED <<canon, binding>>
  ELSE IF canon[b.ws].status # "live" \/ (k \notin loading /\ canon[b.ws].rev # b.rev)
  THEN binding' = [binding EXCEPT ![k].stale = TRUE] /\ UNCHANGED canon
  ELSE IF k \in loading \/ canon[b.ws].tabs = shows[k] THEN UNCHANGED <<canon, binding>>
  ELSE /\ canon' = [canon EXCEPT ![b.ws].tabs = shows[k], ![b.ws].rev = @ + 1]
       /\ binding' = [x \in Windows |->
                        IF x = k THEN [b EXCEPT !.rev = @ + 1]
                        ELSE IF binding[x] # None /\ binding[x].ws = b.ws
                        THEN [binding[x] EXCEPT !.stale = TRUE] ELSE binding[x]]

(* The source is saved; what a stale window shows goes into the history.    *)
FlushSource ==
  LET k == RunWindow IN
  /\ Stage("flush")
  /\ IF Cancelled(Active)
     THEN FailEarly /\ UNCHANGED <<canon, ledger, binding>>
     ELSE /\ SaveWindow(k)
          /\ ledger' = IF binding'[k] # None /\ binding'[k].stale /\ k \notin loading
                       THEN ledger \cup {shows[k]} ELSE ledger
          /\ run' = [run EXCEPT !.stage = "own", !.source = binding'[k]]
          /\ SameTask
  /\ UNCHANGED <<journal, alarms, browser, spent>>

(* captureSourceSnapshot: a loading window is journaled with the saved copy *)
(* of its workspace, an unbound one with no tabs at all.                    *)
Snapshot(k, source) ==
  IF k \notin loading THEN shows[k]
  ELSE IF source # None THEN canon[source].tabs ELSE Nothing

Own ==
  LET r == Active  k == RunWindow  w == req[r].target  b == run.source
      source == IF b # None /\ (b # None => canon[b.ws].status # "gone") THEN b.ws ELSE None
  IN
  /\ Stage("own")
  /\ IF Cancelled(r) \/ canon[w].status # "live"
     THEN FailEarly /\ UNCHANGED <<journal, alarms>>
     ELSE IF b = [ws |-> w, rev |-> canon[w].rev, stale |-> FALSE]
     THEN Finish("ok") /\ UNCHANGED <<journal, alarms>>
     ELSE /\ journal' = [run |-> r, window |-> k, target |-> w, source |-> source,
                         rev |-> IF b = None THEN 0 ELSE b.rev,
                         tabs |-> Snapshot(k, source), failed |-> FALSE]
          /\ alarms' = alarms \cup {r}
          /\ run' = [run EXCEPT !.stage = "prepare",
                                !.plan = [tabs |-> canon[w].tabs, rev |-> canon[w].rev]]
          /\ SameTask
  /\ UNCHANGED <<canon, ledger, binding, browser, spent>>

(* TabOrchestrator.switchWorkspace: shells are opened, ...                  *)
Prepare ==
  /\ Stage("prepare")
  /\ IF Cancelled(Active) \/ RunWindow \notin open
     THEN FailLate /\ UNCHANGED <<browser, spent>>
     ELSE \/ /\ loading' = IF req[Active].target \in Blank THEN loading
                           ELSE loading \cup {RunWindow}
             /\ Enter("commit") /\ SameTask
             /\ UNCHANGED <<open, shows, spent>>
          \/ Spend("fault") /\ FailLate /\ UNCHANGED browser
  /\ UNCHANGED stored

(* ... onBeforeCommit compares the target again, ...                        *)
Commit ==
  LET w == req[Active].target IN
  /\ Stage("commit")
  /\ IF Cancelled(Active) \/ canon[w].status # "live" \/ canon[w].rev # run.plan.rev
     THEN FailLate
     ELSE Enter("swap") /\ SameTask
  /\ UNCHANGED <<stored, browser, spent>>

(* ... and the tabs of the source are closed.  A failure may leave the      *)
(* source, the target or a part of either.                                  *)
Swap ==
  LET k == RunWindow IN
  /\ Stage("swap")
  /\ IF Cancelled(Active) \/ k \notin open
     THEN FailLate /\ UNCHANGED <<shows, spent>>
     ELSE \/ /\ shows' = [shows EXCEPT ![k] = run.plan.tabs]
             /\ Enter("bind") /\ SameTask /\ UNCHANGED spent
          \/ /\ Spend("fault")
             /\ \E left \in {shows[k], run.plan.tabs, Nothing} :
                  shows' = [shows EXCEPT ![k] = left]
             /\ FailLate
  /\ UNCHANGED <<stored, open, loading>>

Bind ==
  LET k == RunWindow IN
  /\ Stage("bind")
  /\ IF Cancelled(Active)
     THEN FailLate /\ UNCHANGED binding
     ELSE /\ binding' = [binding EXCEPT ![k] = [ws |-> req[Active].target,
                                                rev |-> run.plan.rev, stale |-> FALSE]]
          /\ Enter("complete") /\ SameTask
  /\ UNCHANGED <<canon, ledger, journal, alarms, browser, spent>>

(* lastUsedAt, the warmup of the new tabs, then the journal is cleared.     *)
Complete ==
  /\ Stage("complete")
  /\ \/ journal' = None /\ Enter("settle") /\ UNCHANGED spent
     \/ Spend("fault") /\ FailLate /\ UNCHANGED journal
  /\ SameTask
  /\ UNCHANGED <<canon, ledger, binding, alarms, browser>>

Settle ==
  /\ Stage("settle")
  /\ alarms' = alarms \ {Active}
  /\ Finish("ok")
  /\ UNCHANGED <<canon, ledger, journal, binding, browser, spent>>

----------------------------------------------------------------------------
(* recoverSwitchJournal, within a task of the queue.  What follows it is    *)
(* run.after: "recheck" (a new switch), "answer" (the failed switch), "end".*)
Recovered(result) ==
  CASE run.after = "recheck" -> IF result THEN Enter("recheck") /\ SameTask
                                ELSE Finish("recovery_required")
    [] run.after = "answer" ->
         Finish(IF ~result THEN "recovery_required"
                ELSE IF req[Active].reason = "superseded" THEN "superseded" ELSE "failed")
    [] OTHER -> /\ queue' = Tail(queue) /\ run' = NoRun /\ started' = TRUE
                /\ UNCHANGED <<intents, suppressed>>

(* Faulty variant: the snapshot of an unbound window is not kept.           *)
Preserve_BoundOnly ==
  /\ Stage("recover") /\ journal.window \notin open
  /\ ledger' = IF journal.source # None THEN ledger \cup {journal.tabs} ELSE ledger
  /\ Enter("forget") /\ SameTask
  /\ UNCHANGED <<canon, journal, binding, alarms, browser, spent>>

(* The window is gone: the snapshot is preserved, the journal given up.     *)
Preserve ==
  /\ Stage("recover") /\ journal.window \notin open
  /\ ledger' = ledger \cup ({journal.tabs} \ {Nothing})
  /\ Enter("forget") /\ SameTask
  /\ UNCHANGED <<canon, journal, binding, alarms, browser, spent>>

Forget ==
  /\ Stage("forget")
  /\ binding' = [binding EXCEPT ![journal.window] = None]
  /\ journal' = None
  /\ alarms' = alarms \ {journal.run}
  /\ Recovered(TRUE)
  /\ UNCHANGED <<canon, ledger, browser, spent>>

(* Either of these is rejected, and nothing catches it: the task throws.    *)
(* After a start that has thrown, the next call starts again.               *)
PreserveThrows ==
  /\ (Stage("recover") /\ journal.window \notin open) \/ Stage("forget")
  /\ Spend("recovery")
  /\ binding' = binding
       \/ (run.stage = "forget" /\ binding' = [binding EXCEPT ![journal.window] = None])
  /\ IF run.after = "end"
     THEN queue' = Tail(queue) /\ run' = NoRun /\ UNCHANGED <<intents, suppressed, started>>
     ELSE Finish("failed")
  /\ UNCHANGED <<canon, ledger, journal, alarms, browser>>

StartAgain ==
  /\ ~started /\ RecoverTask \notin {queue[i] : i \in DOMAIN queue}
  /\ queue' = Append(queue, RecoverTask)
  /\ UNCHANGED <<stored, browser, intents, run, suppressed, started, spent>>

CheckWindow ==
  /\ Stage("recover") /\ journal.window \in open
  /\ Enter("restore") /\ SameTask
  /\ UNCHANGED <<stored, browser, spent>>

(* The tabs of the source are put back, or they cannot be.                  *)
Restore ==
  LET k == journal.window IN
  /\ Stage("restore") /\ k \in open
  /\ shows' = [shows EXCEPT ![k] = journal.tabs]
  /\ loading' = loading \ {k}
  /\ Enter("rebind") /\ SameTask
  /\ UNCHANGED <<stored, open, spent>>

RestoreFails ==
  LET k == journal.window IN
  /\ Stage("restore")
  /\ IF k \notin open THEN UNCHANGED <<shows, spent>>
     ELSE /\ Spend("recovery")
          /\ \E left \in {shows[k], Nothing} : shows' = [shows EXCEPT ![k] = left]
  /\ journal' = [journal EXCEPT !.failed = TRUE]
  /\ Recovered(FALSE)
  /\ UNCHANGED <<canon, ledger, binding, alarms, open, loading>>

(* Faulty variant: a source in the trash is bound again.                    *)
Rebind_Trashed ==
  LET k == journal.window  w == journal.source IN
  /\ Stage("rebind")
  /\ IF w # None
     THEN /\ binding' = [binding EXCEPT ![k] = [ws |-> w, rev |-> journal.rev,
                                                stale |-> journal.rev # canon[w].rev]]
          /\ UNCHANGED ledger
     ELSE /\ binding' = [binding EXCEPT ![k] = None]
          /\ UNCHANGED ledger
  /\ Enter("clear") /\ SameTask
  /\ UNCHANGED <<canon, journal, alarms, browser, spent>>

(* Faulty variant: the window keeps the binding it has.                     *)
Rebind_KeepsBinding ==
  /\ Stage("rebind")
  /\ Enter("clear") /\ SameTask
  /\ UNCHANGED <<stored, browser, spent>>

(* The binding of the source, at the revision the window had; a source in   *)
(* the trash keeps the snapshot in its history.                             *)
Rebind ==
  LET k == journal.window  w == journal.source IN
  /\ Stage("rebind")
  /\ IF w # None /\ (w # None => canon[w].status = "live")
     THEN /\ binding' = [binding EXCEPT ![k] = [ws |-> w, rev |-> journal.rev,
                                                stale |-> journal.rev # canon[w].rev]]
          /\ UNCHANGED ledger
     ELSE /\ binding' = [binding EXCEPT ![k] = None]
          /\ ledger' = IF w = None THEN ledger ELSE ledger \cup ({journal.tabs} \ {Nothing})
  /\ Enter("clear") /\ SameTask
  /\ UNCHANGED <<canon, journal, alarms, browser, spent>>

(* A call of the storage is rejected: the recovery has failed.  A snapshot  *)
(* that was to be kept may be in the history by then.                       *)
RebindFails ==
  LET w == journal.source IN
  /\ Stage("rebind") \/ Stage("clear")
  /\ Spend("recovery")
  /\ ledger' = ledger \/ (run.stage = "rebind" /\ w # None /\ (w # None => canon[w].status # "live")
                            /\ ledger' = ledger \cup ({journal.tabs} \ {Nothing}))
  /\ journal' = [journal EXCEPT !.failed = TRUE]
  /\ Recovered(FALSE)
  /\ UNCHANGED <<canon, binding, alarms, browser>>

ClearJournal ==
  /\ Stage("clear")
  /\ journal' = None /\ alarms' = alarms \ {journal.run}
  /\ Recovered(TRUE)
  /\ UNCHANGED <<canon, ledger, binding, browser, spent>>

----------------------------------------------------------------------------
(* The other tasks of the queue.                                            *)
Pop == queue' = Tail(queue) /\ run' = NoRun
          /\ UNCHANGED <<intents, suppressed>>

BeginRecovery ==
  /\ IsHead("recover") /\ run.stage = "idle"
  /\ IF journal = None
     THEN Pop /\ started' = TRUE
     ELSE run' = [NoRun EXCEPT !.stage = "recover"] /\ SameTask
  /\ UNCHANGED <<stored, browser, spent>>

(* discardPendingWorkspaceSwitch                                            *)
DiscardJournal ==
  /\ IsHead("discard")
  /\ journal' = None
  /\ alarms' = IF journal = None THEN alarms ELSE alarms \ {journal.run}
  /\ Pop
  /\ UNCHANGED <<canon, ledger, binding, browser, started, spent>>

(* clearCurrentWindowWorkspaceBinding: the window is saved, then unbound;   *)
(* the flush of a loading window throws.                                    *)
FlushUnbound ==
  LET k == Head(queue).who IN
  /\ IsHead("unbind") /\ run.stage = "idle"
  /\ IF k \notin open
        \/ (Saves(k) /\ k \in loading /\ canon[binding[k].ws].status = "live")
     THEN Pop /\ UNCHANGED <<canon, binding>>
     ELSE SaveWindow(k) /\ Enter("remove") /\ UNCHANGED <<intents, queue, suppressed>>
  /\ UNCHANGED <<ledger, journal, alarms, browser, started, spent>>

RemoveBinding ==
  /\ IsHead("unbind") /\ Stage("remove")
  /\ binding' = [binding EXCEPT ![Head(queue).who] = None]
  /\ Pop
  /\ UNCHANGED <<canon, ledger, journal, alarms, browser, started, spent>>

----------------------------------------------------------------------------
Enqueue(task) == queue' = Append(queue, task)

(* abortCurrentWorkspaceSwitch                                              *)
Abort ==
  /\ Intervene("abort")
  /\ req' = CancelAll({intent[k] : k \in Windows} \cup (IF Running THEN {Active} ELSE {}),
                      "aborted")
  /\ UNCHANGED <<stored, browser, latestId, intent, queue, run, suppressed, started>>

(* handleWorkspaceSwitchTimeoutAlarm: the running switch is cancelled; the  *)
(* alarm of another run asks for a recovery.                                *)
Alarm(x) ==
  /\ x \in alarms /\ alarms' = alarms \ {x}
  /\ IF Running /\ Active = x /\ run.after # "recheck"
     THEN req' = CancelAll({x}, "timeout") /\ UNCHANGED queue
     ELSE Enqueue(RecoverTask) /\ UNCHANGED req
  /\ UNCHANGED <<canon, ledger, journal, binding, browser, latestId, intent, run,
                 suppressed, started, spent>>

Discard ==
  /\ journal # None /\ (journal # None => journal.failed)
  /\ Intervene("discard") /\ Enqueue(Task("discard", None))
  /\ UNCHANGED <<stored, browser, intents, run, suppressed, started>>

Unbind(k) ==
  /\ started /\ Intervene("unbind") /\ Enqueue(Task("unbind", k))
  /\ UNCHANGED <<stored, browser, intents, run, suppressed, started>>

(* The user and the other parts of the extension.                           *)
Journaled(k) == journal # None /\ journal.window = k
InSwitch(k) == (Running /\ RunWindow = k) \/ Journaled(k)
LeftBehind(k) == Journaled(k) /\ ~(Running /\ journal.run = Active)

Edit(k) ==
  /\ k \in open /\ ~InSwitch(k) /\ Spend("edit")
  /\ shows' = [shows EXCEPT ![k].stamp = spent'.edit]
  /\ UNCHANGED <<stored, open, loading, intents, queue, run, suppressed, started>>

Loaded(k) ==
  /\ k \in loading \cap open /\ ~InSwitch(k)
  /\ loading' = loading \ {k}
  /\ UNCHANGED <<stored, open, shows, intents, queue, run, suppressed, started, spent>>

(* The windows.onRemoved listener drops the binding.                        *)
CloseWindow(k) ==
  /\ k \in open /\ Spend("close")
  /\ open' = open \ {k} /\ loading' = loading \ {k}
  /\ binding' = [binding EXCEPT ![k] = None]
  /\ UNCHANGED <<canon, ledger, journal, alarms, shows, intents, queue, run, suppressed,
                 started>>

AutoSave(k) ==
  /\ k \in open \ suppressed
  /\ SaveWindow(k)
  /\ UNCHANGED <<ledger, journal, alarms, browser, intents, queue, run, suppressed,
                 started, spent>>

DataEdit(w) ==
  /\ canon[w].status = "live" /\ Spend("edit")
  /\ canon' = [canon EXCEPT ![w].tabs.stamp = spent'.edit, ![w].rev = @ + 1]
  /\ binding' = [k \in Windows |-> IF binding[k] # None /\ binding[k].ws = w
                                   THEN [binding[k] EXCEPT !.stale = TRUE] ELSE binding[k]]
  /\ UNCHANGED <<ledger, journal, alarms, browser, intents, queue, run, suppressed, started>>

(* trash and then delete, each refused while the workspace is busy.         *)
Remove(w) ==
  /\ w \notin Busy /\ canon[w].status # "gone" /\ Spend("removal")
  /\ canon' = [canon EXCEPT ![w].status = IF @ = "live" THEN "trashed" ELSE "gone"]
  /\ UNCHANGED <<ledger, journal, binding, alarms, browser, intents, queue, run,
                 suppressed, started>>

(* Faulty variant: the new worker does not look for a journal.              *)
Crash_NoRecovery ==
  /\ Spend("crash")
  /\ req' = [r \in Requests |-> IF req[r].pc \in {"resolving", "waiting"}
                                THEN Answered(req[r], "lost") ELSE req[r]]
  /\ latestId' = [k \in Windows |-> 0]
  /\ intent' = [k \in Windows |-> None]
  /\ queue' = <<>> /\ run' = NoRun /\ suppressed' = {} /\ started' = FALSE
  /\ UNCHANGED <<stored, browser>>

(* The worker stops and starts again.                                       *)
Crash ==
  /\ Spend("crash")
  /\ req' = [r \in Requests |-> IF req[r].pc \in {"resolving", "waiting"}
                                THEN Answered(req[r], "lost") ELSE req[r]]
  /\ latestId' = [k \in Windows |-> 0]
  /\ intent' = [k \in Windows |-> None]
  /\ queue' = <<RecoverTask>> /\ run' = NoRun /\ suppressed' = {} /\ started' = FALSE
  /\ UNCHANGED <<stored, browser>>

----------------------------------------------------------------------------
SwitchStep ==
  \/ BeginSwitch \/ Reserve \/ FlushSource \/ Own \/ Prepare \/ Commit \/ Swap \/ Bind
  \/ Complete \/ Settle
RecoveryStep ==
  \/ BeginRecovery \/ Preserve \/ Forget \/ PreserveThrows \/ CheckWindow \/ Restore
  \/ RestoreFails \/ Rebind \/ RebindFails \/ ClearJournal
QueueStep == SwitchStep \/ RecoveryStep \/ DiscardJournal \/ FlushUnbound \/ RemoveBinding

Step ==
  \/ \E r \in Requests : Call(r) \/ Resolve(r) \/ Alarm(r)
  \/ QueueStep
  \/ Abort \/ Discard \/ StartAgain \/ Crash
  \/ \E k \in Windows : Unbind(k) \/ Edit(k) \/ Loaded(k) \/ CloseWindow(k) \/ AutoSave(k)
  \/ \E w \in Workspaces : DataEdit(w) \/ Remove(w)

(* A window that was left behind is saved, or a journal is discarded.       *)
Spoils ==
  \/ \E k \in Windows : /\ LeftBehind(k) /\ canon' # canon
                         /\ (AutoSave(k) \/ (FlushUnbound /\ Head(queue).who = k))
  \/ DiscardJournal /\ journal # None
Next == Step /\ spoilt' = (spoilt \/ Spoils)

Spec == Init /\ [][Next]_vars
FairSpec == Spec /\ WF_code(QueueStep) /\ \A r \in Requests : WF_code(Resolve(r))

----------------------------------------------------------------------------
\* Shape of the state.
TypeOK ==
  /\ canon \in [Workspaces -> [tabs : List, rev : Nat,
                              status : {"live", "trashed", "gone"}]]
  /\ ledger \subseteq List
  /\ journal = None \/ journal \in [run : Requests, window : Windows, target : Workspaces,
                                   source : Workspaces \cup {None}, rev : Nat, tabs : List,
                                   failed : BOOLEAN]
  /\ binding \in [Windows -> [ws : Workspaces, rev : Nat, stale : BOOLEAN] \cup {None}]
  /\ alarms \subseteq Requests /\ open \subseteq Windows /\ loading \subseteq open
  /\ shows \in [Windows -> List]
  /\ intent \in [Windows -> Requests \cup {None}]
  /\ suppressed \subseteq Windows
  /\ run.stage \in {"recover", "forget", "restore", "rebind", "clear"} => journal # None
  /\ run.stage # "idle" => queue # <<>>
  /\ spoilt \in BOOLEAN

\* A window that may save always shows tabs of the workspace it is bound to, or
\* the journal of its switch says what it was: no step of a switch or a recovery,
\* no failure and no restart leaves a window that saves tabs of another workspace
\* without the record that puts it right.
MismatchIsJournaled ==
  \A k \in open :
    Saves(k) /\ shows[k].owner # binding[k].ws => journal # None /\ journal.window = k

\* No workspace is ever overwritten with the tabs of another.
OwnTabsOnly == \A w \in Workspaces : canon[w].tabs.owner = w

\* Windows, bindings, journal and workspaces match, or the journal says why not,
\* until a window that a failed recovery has left behind is saved or its journal
\* is discarded.
WindowsMatch == TypeOK /\ (spoilt \/ (MismatchIsJournaled /\ OwnTabsOnly))

\* A window is never bound to a workspace in the trash or deleted: a deletion and
\* a switch of any window, or the recovery after a restart, exclude each other.
BoundToLive ==
  [][\A k \in Windows :
       binding'[k] # None /\ (binding'[k] # None => binding[k] = None \/
                               (binding[k] # None => binding'[k].ws # binding[k].ws))
         => canon[binding'[k].ws].status = "live"]_vars

\* The latest click wins: when nothing is under way any more, a window whose
\* latest request succeeded shows the target of that request, whatever older
\* requests were answered and in whatever order their windows were found.
AtRest == queue = <<>> /\ \A r \in Requests : req[r].pc # "resolving"
Latest(r) == \A s \in Requests : req[s].window = req[r].window => req[s].id <= req[r].id
LatestClickWins ==
  AtRest => \A r \in Requests :
    /\ req[r].result = "ok" /\ Latest(r) /\ req[r].window \in open
    /\ spent.unbind = 0
    => binding[req[r].window] # None /\ binding[req[r].window].ws = req[r].target

\* Who is told that a later request has superseded it, really has one.
SupersededByLater ==
  \A r \in Requests : req[r].result = "superseded" => ~Latest(r)

\* Requests are answered by their order: the latest one wins, the others give way
\* only to a later one.
RequestOrder == LatestClickWins /\ SupersededByLater

\* The journal is given up only when its switch is complete, when the window shows
\* the journaled tabs again, or when they are kept in a history (or when there is
\* nothing to keep); or the user discards it.
SnapshotIsKept ==
  [][journal # None /\ journal' = None =>
       LET k == journal.window IN
       \/ run.stage = "complete" /\ shows[k] = run.plan.tabs
       \/ shows[k] = journal.tabs
       \/ spoilt'
       \/ journal.tabs \in ledger' \cup {Nothing}]_vars

\* A switch that fails puts back the tabs that the window had, or, for a window
\* that was still loading, the saved copy of its workspace ("restored from the
\* existing persisted copy", captureSourceSnapshot).  The tabs of a loading
\* window without a workspace are in no copy: its journal has none.
RollbackKeepsTabs ==
  [][run.stage = "restore" /\ run.after = "answer" /\ run'.stage = "rebind" =>
       LET k == journal.window IN
       shows'[k] = run.before
         \/ (run.source # None /\ shows'[k].owner = run.source.ws)
         \/ (journal.source = None /\ journal.tabs = Nothing)
         \/ spoilt']_vars

\* No step of a switch, of its rollback or of its recovery loses the tabs that a
\* window had.
NoTabsAreLost == SnapshotIsKept /\ RollbackKeepsTabs

\* A switch takes place entirely or not at all: what a window durably is (by its
\* journal while a switch is under way) changes as AtomicSwitch says.
Place ==
  [k \in Windows |->
     IF k \notin open THEN [tabs |-> None, ws |-> None, loads |-> FALSE]
     ELSE IF journal # None /\ (journal # None => journal.window = k)
     THEN [tabs |-> journal.tabs, ws |-> journal.source, loads |-> FALSE]
     ELSE [tabs |-> shows[k], ws |-> IF binding[k] = None THEN None ELSE binding[k].ws,
           loads |-> k \in loading]]
Abstract == INSTANCE AtomicSwitch WITH place <- Place, waived <- spoilt
SwitchIsAtomic == Abstract!Spec

\* Nothing a page asked for or a restart left behind stays undecided: every
\* request, superseded, aborted and timed out ones too, is answered, and the
\* journal of an interrupted switch is cleared or its recovery says that it
\* failed (the windows stay open; a closed one is left to the alarm when the
\* recovery cannot keep its tabs).
RequestsAreSettled ==
  []<>(/\ \A r \in Requests : req[r].pc \in {"idle", "done"}
       /\ journal # None => journal.failed)
=============================================================================
