---------------------------- MODULE WindowAutosave ----------------------------
(***************************************************************************)
(* How the tabs of browser windows are saved to workspaces, and how the    *)
(* revision kept by each window binding decides whether a window may save  *)
(* (src/background/services/workspaceAutosave.ts, with the callers of an   *)
(* explicit flush: the data operations of workspaceController.ts and the   *)
(* switch of workspaceSwitchService.ts, whose journal, intents and tab     *)
(* handling are the subject of WorkspaceSwitch).                           *)
(*                                                                         *)
(* A list of tabs is abstracted to the set of the changes it embodies: a   *)
(* change is one edit by the user in a window or one data operation.  A    *)
(* list with no change is the empty workspace.  "tabs were lost" is then   *)
(* "a change is no longer in the set".                                     *)
(*                                                                         *)
(* Every await of a flush is a step of its own: the two write queues are   *)
(* the sequences wsLine (lib/storageQueues.ts) and bindLine                *)
(* (core/storage/index.ts), and only the head of a queue proceeds.         *)
(***************************************************************************)
EXTENDS Integers, Sequences, FiniteSets

CONSTANTS
  Windows, Workspaces,
  Ops,          \* operations called through the controller
  Menu,         \* what an operation may be: [kind, window, ws]
  Drain,        \* the background loop that saves the windows that changed
  Trashed,      \* the workspaces that are in the trash at the start
  GuardFlush,   \* no operation is called for a window that is being switched
  MaxEdits,     \* bound: changes made
  MaxCrashes,   \* bound: restarts of the service worker
  None

Kinds == {"edit", "exclude", "trash", "restore", "switch"}
Flushers == Ops \cup {Drain}

ASSUME AutosaveConstants ==
  /\ MaxEdits \in Nat /\ MaxCrashes \in Nat /\ GuardFlush \in BOOLEAN
  /\ None \notin Windows \cup Workspaces
  /\ Drain \notin Ops /\ Trashed \subseteq Workspaces
  /\ Menu \subseteq [kind : Kinds, window : Windows \cup {None}, ws : Workspaces]

VARIABLES
  canon,      \* chrome.storage.local: the workspaces
  journal,    \* chrome.storage.local: the journal of the switch under way
  binding,    \* chrome.storage.session: the binding of each window
  live,       \* browser: the changes that the tabs of each window embody
  loading,    \* browser: windows with tabs that are still placeholders
  requested,  \* requestedWindowIds
  suppressed, \* suppressedWindowIds
  dirty,      \* dirtySuppressedWindowIds
  mutated,    \* flushes whose window has changed since they began (generations)
  drain,      \* drainPromise and the window ids of the current pass
  flush,      \* the flush of each caller
  op,         \* the operations
  restored,   \* the recovery after a restart has put the tabs back
  wsLine, bindLine,
  edits, retracted, crashes, interrupted   \* history: changes made and rolled back;
              \* restarts, and the workspaces of the switches they cut

store == <<canon, journal, binding>>
browser == <<live, loading>>
schedule == <<requested, suppressed, dirty, mutated, drain>>
lines == <<wsLine, bindLine>>
history == <<edits, retracted, crashes, interrupted>>
vars == <<store, browser, schedule, flush, op, restored, lines, history>>

Change == 1 .. MaxEdits
Binding == [ws : Workspaces, rev : Nat, stale : BOOLEAN]
NoFlush == [pc |-> "idle", window |-> None, expected |-> None, tabs |-> {},
            result |-> "none"]
NoOp == [pc |-> "idle", kind |-> "none", window |-> None, ws |-> None,
         tabs |-> {}, rev |-> 0, change |-> 0, source |-> None, plan |-> None]
NoDrain == [on |-> FALSE, pass |-> {}]

Init ==
  /\ canon = [w \in Workspaces |-> [tabs |-> {}, rev |-> 0, alive |-> w \notin Trashed]]
  /\ journal = None
  /\ binding \in [Windows -> {None} \cup [ws : Workspaces, rev : {0}, stale : {FALSE}]]
  /\ live = [k \in Windows |-> {}]
  /\ loading = {}
  /\ requested = {} /\ suppressed = {} /\ dirty = {} /\ mutated = {}
  /\ drain = NoDrain
  /\ flush = [c \in Flushers |-> NoFlush]
  /\ op = [o \in Ops |-> NoOp]
  /\ wsLine = <<>> /\ bindLine = <<>>
  /\ restored = FALSE
  /\ edits = 0 /\ retracted = {} /\ crashes = 0 /\ interrupted = {}

----------------------------------------------------------------------------
First(line, c) == line # <<>> /\ Head(line) = c

SwitchPc == {"reserve", "flushSource", "own", "prepared", "swapped", "bound",
             "recover", "rebind"}
Switching(o) == op[o].pc \in SwitchPc
WindowsSwitching == {op[o].window : o \in {x \in Ops : Switching(x)}}

(* Workspaces a switch holds: reservations (taken at the end of "reserve")  *)
(* and the journal of the switch.                                           *)
Holding == {o \in Ops : Switching(o) /\ op[o].pc # "reserve"}
Reserved == {op[o].ws : o \in Holding}
            \cup {op[o].source.ws : o \in {x \in Holding : op[x].source # None}}
            \cup (IF journal = None THEN {} ELSE {journal.target, journal.source})

Matches(current, expected) ==
  /\ current # None
  /\ current.ws = expected.ws /\ current.rev = expected.rev /\ ~current.stale

(* A switch was cut by a restart and is not yet recovered.                  *)
RecoveryPending == journal # None /\ WindowsSwitching = {}

(* Faulty variant: nothing is noted while a drain is under way.             *)
NoteMutation_DropsWhileDraining(k) ==
  /\ mutated' = mutated \cup {c \in Flushers : flush[c].window = k}
  /\ IF k \in suppressed
     THEN dirty' = dirty \cup {k} /\ UNCHANGED <<requested, drain>>
     ELSE /\ requested' = IF drain.on THEN requested ELSE requested \cup {k}
          /\ drain' = [drain EXCEPT !.on = TRUE]
          /\ UNCHANGED dirty
  /\ UNCHANGED suppressed

(* The event of a tab of window k reaches the worker.                      *)
NoteMutation(k) ==
  /\ mutated' = mutated \cup {c \in Flushers : flush[c].window = k}
  /\ IF k \in suppressed
     THEN dirty' = dirty \cup {k} /\ UNCHANGED <<requested, drain>>
     ELSE requested' = requested \cup {k} /\ drain' = [drain EXCEPT !.on = TRUE]
          /\ UNCHANGED dirty
  /\ UNCHANGED suppressed

UserEdit(k) ==
  /\ edits < MaxEdits
  /\ edits' = edits + 1
  /\ live' = [live EXCEPT ![k] = @ \cup {edits + 1}]
  /\ NoteMutation(k)
  /\ UNCHANGED <<restored, store, loading, flush, op, lines, retracted, crashes, interrupted>>

(* The placeholders of the last switch have become the pages they stand for. *)
TabsLoaded(k) ==
  /\ k \in loading \ WindowsSwitching
  /\ loading' = loading \ {k}
  /\ NoteMutation(k)
  /\ UNCHANGED <<restored, store, live, flush, op, lines, history>>

----------------------------------------------------------------------------
(* flushWorkspaceWindowAutosave.  flush[c].pc: "snapshot" (in wsLine),      *)
(* "capture", "commit" (in wsLine), "save" (head of wsLine), "bind" and     *)
(* "others" (in bindLine), "flag" (in bindLine: set stale), "ended".        *)
Ended(f, result) == [f EXCEPT !.pc = "ended", !.result = result]

FlushBegin(c, k) ==
  LET b == binding[k] IN
  IF b = None \/ (b # None /\ b.stale)
  THEN /\ flush' = [flush EXCEPT ![c] = Ended([NoFlush EXCEPT !.window = k],
                                              IF b = None THEN "unbound" ELSE "stale")]
       /\ UNCHANGED <<wsLine, mutated>>
  ELSE /\ flush' = [flush EXCEPT ![c] = [NoFlush EXCEPT !.pc = "snapshot", !.window = k,
                                                        !.expected = b]]
       /\ wsLine' = Append(wsLine, c)
       /\ mutated' = mutated \ {c}

(* loadWorkspacesSnapshot: a workspace that is gone makes the binding stale. *)
FlushSnapshot(c) ==
  /\ flush[c].pc = "snapshot" /\ First(wsLine, c)
  /\ wsLine' = Tail(wsLine)
  /\ IF canon[flush[c].expected.ws].alive
     THEN flush' = [flush EXCEPT ![c].pc = "capture"] /\ UNCHANGED bindLine
     ELSE /\ flush' = [flush EXCEPT ![c].pc = "flag"]
          /\ bindLine' = Append(bindLine, c)
  /\ UNCHANGED <<restored, store, browser, schedule, op, history>>

(* The capture, outside the write queue: busy while tabs are loading; given *)
(* up when the window has changed since the binding was read.               *)
FlushCapture(c) ==
  /\ flush[c].pc = "capture"
  /\ IF flush[c].window \in loading \/ c \in mutated
     THEN /\ flush' = [flush EXCEPT ![c] =
                         Ended(@, IF @.window \in loading THEN "busy" ELSE "moved")]
          /\ UNCHANGED wsLine
     ELSE /\ flush' = [flush EXCEPT ![c].pc = "commit", ![c].tabs = live[flush[c].window]]
          /\ wsLine' = Append(wsLine, c)
  /\ UNCHANGED <<restored, store, browser, schedule, op, bindLine, history>>

(* The updater inside the queue: the workspace is there, the binding and    *)
(* the revision are those of the beginning, and the tabs have changed.      *)
MayOverwrite(c) ==
  LET f == flush[c] IN
  /\ canon[f.expected.ws].alive
  /\ Matches(binding[f.window], f.expected)
  /\ canon[f.expected.ws].rev = f.expected.rev

FlushCommit(c) ==
  /\ flush[c].pc = "commit" /\ First(wsLine, c)
  /\ IF MayOverwrite(c) /\ canon[flush[c].expected.ws].tabs # flush[c].tabs
     THEN flush' = [flush EXCEPT ![c].pc = "save"] /\ UNCHANGED lines
     ELSE /\ wsLine' = Tail(wsLine)
          /\ IF MayOverwrite(c)
             THEN flush' = [flush EXCEPT ![c] = Ended(@, "unchanged")] /\ UNCHANGED bindLine
             ELSE /\ flush' = [flush EXCEPT ![c].pc = "flag"]
                  /\ bindLine' = Append(bindLine, c)
  /\ UNCHANGED <<restored, store, browser, schedule, op, history>>

(* saveWorkspaces, still inside the queue.                                  *)
FlushSave(c) ==
  LET f == flush[c] IN
  /\ f.pc = "save"
  /\ canon' = [canon EXCEPT ![f.expected.ws].tabs = f.tabs,
                            ![f.expected.ws].rev = f.expected.rev + 1]
  /\ wsLine' = Tail(wsLine)
  /\ flush' = [flush EXCEPT ![c].pc = "bind"]
  /\ bindLine' = Append(bindLine, c)
  /\ UNCHANGED <<restored, journal, binding, browser, schedule, op, history>>

(* Faulty variant: the binding takes over whatever revision is current.     *)
FlushRebind_LatestRevision(c) ==
  LET f == flush[c]  k == f.window IN
  /\ f.pc = "bind" /\ First(bindLine, c)
  /\ binding' = IF binding[k] # None
                THEN [binding EXCEPT ![k].rev = canon[binding[k].ws].rev, ![k].stale = FALSE]
                ELSE binding
  /\ flush' = [flush EXCEPT ![c].pc = "others"]
  /\ bindLine' = Append(Tail(bindLine), c)
  /\ UNCHANGED <<restored, canon, journal, browser, schedule, op, wsLine, history>>

(* updateBindingIfCurrent with the new revision.                            *)
FlushRebind(c) ==
  LET f == flush[c]  k == f.window IN
  /\ f.pc = "bind" /\ First(bindLine, c)
  /\ binding' = IF Matches(binding[k], f.expected)
                THEN [binding EXCEPT ![k].rev = f.expected.rev + 1]
                ELSE binding
  /\ flush' = [flush EXCEPT ![c].pc = "others"]
  /\ bindLine' = Append(Tail(bindLine), c)
  /\ UNCHANGED <<restored, canon, journal, browser, schedule, op, wsLine, history>>

(* Faulty variant: nobody is told.                                          *)
OthersStale_Nobody(ws, except) == binding

(* markOtherWorkspaceBindingsStale                                          *)
OthersStale(ws, except) ==
  [k \in Windows |->
     IF k # except /\ binding[k] # None /\ binding[k].ws = ws
     THEN [binding[k] EXCEPT !.stale = TRUE] ELSE binding[k]]

FlushMarkOthers(c) ==
  LET f == flush[c] IN
  /\ f.pc = "others" /\ First(bindLine, c)
  /\ binding' = OthersStale(f.expected.ws, f.window)
  /\ flush' = [flush EXCEPT ![c] = Ended(@, "saved")]
  /\ bindLine' = Tail(bindLine)
  /\ UNCHANGED <<restored, canon, journal, browser, schedule, op, wsLine, history>>

(* A conflict: updateBindingIfCurrent with the stale mark.                  *)
FlushFlag(c) ==
  LET f == flush[c]  k == f.window IN
  /\ f.pc = "flag" /\ First(bindLine, c)
  /\ binding' = IF Matches(binding[k], f.expected)
                THEN [binding EXCEPT ![k].stale = TRUE]
                ELSE binding
  /\ flush' = [flush EXCEPT ![c] = Ended(@, "stale")]
  /\ bindLine' = Tail(bindLine)
  /\ UNCHANGED <<restored, canon, journal, browser, schedule, op, wsLine, history>>

FlushStep(c) ==
  \/ FlushSnapshot(c) \/ FlushCapture(c) \/ FlushCommit(c) \/ FlushSave(c)
  \/ FlushRebind(c) \/ FlushMarkOthers(c) \/ FlushFlag(c)

----------------------------------------------------------------------------
(* drainAutosaves                                                           *)
DrainPass ==
  /\ drain.on /\ drain.pass = {} /\ flush[Drain].pc = "idle"
  /\ requested # {}
  /\ drain' = [drain EXCEPT !.pass = requested]
  /\ requested' = {}
  /\ UNCHANGED <<restored, store, browser, suppressed, dirty, mutated, flush, op, lines, history>>

(* Faulty variant: the suppression of a window is not looked at.            *)
DrainNext_IgnoresSuppressed(k) ==
  /\ k \in drain.pass /\ flush[Drain].pc = "idle"
  /\ drain' = [drain EXCEPT !.pass = @ \ {k}]
  /\ FlushBegin(Drain, k)
  /\ UNCHANGED <<restored, store, browser, requested, suppressed, dirty, op, bindLine, history>>

DrainNext(k) ==
  /\ k \in drain.pass /\ flush[Drain].pc = "idle"
  /\ drain' = [drain EXCEPT !.pass = @ \ {k}]
  /\ IF k \in suppressed
     THEN dirty' = dirty \cup {k} /\ UNCHANGED <<flush, wsLine, mutated>>
     ELSE FlushBegin(Drain, k) /\ UNCHANGED dirty
  /\ UNCHANGED <<restored, store, browser, requested, suppressed, op, bindLine, history>>

DrainFlushed ==
  /\ flush[Drain].pc = "ended"
  /\ requested' = IF flush[Drain].result = "moved"
                  THEN requested \cup {flush[Drain].window} ELSE requested
  /\ flush' = [flush EXCEPT ![Drain] = NoFlush]
  /\ UNCHANGED <<restored, store, browser, suppressed, dirty, mutated, drain, op, lines, history>>

DrainEnd ==
  /\ drain.on /\ drain.pass = {} /\ flush[Drain].pc = "idle" /\ requested = {}
  /\ drain' = NoDrain
  /\ UNCHANGED <<restored, store, browser, requested, suppressed, dirty, mutated, flush, op,
                 lines, history>>

----------------------------------------------------------------------------
(* Operations of the controller.  A data operation flushes the window it   *)
(* comes from, writes the workspace, marks the other copies stale and      *)
(* reloads its own window; when the reload fails it rolls the write back.  *)
OpDone(o) == op' = [op EXCEPT ![o] = [NoOp EXCEPT !.pc = "done"]]

OpBegin(o, m) ==
  /\ op[o].pc = "idle"
  /\ ~RecoveryPending
  /\ GuardFlush => m.window \notin WindowsSwitching
  /\ LET start == [NoOp EXCEPT !.kind = m.kind, !.window = m.window, !.ws = m.ws] IN
     \/ /\ m.kind = "switch"
        /\ op' = [op EXCEPT ![o] = [start EXCEPT !.pc = "queued"]]
        /\ UNCHANGED <<flush, wsLine, mutated>>
     \/ /\ m.kind # "switch" /\ m.window # None
        /\ op' = [op EXCEPT ![o] = [start EXCEPT !.pc = "flush"]]
        /\ FlushBegin(o, m.window)
     \/ /\ m.kind # "switch" /\ m.window = None
        /\ op' = [op EXCEPT ![o] = [start EXCEPT !.pc = "write"]]
        /\ wsLine' = Append(wsLine, o)
        /\ UNCHANGED <<flush, mutated>>
  /\ UNCHANGED <<restored, store, browser, requested, suppressed, dirty, drain, bindLine, history>>

OpFlushed(o) ==
  /\ op[o].pc = "flush" /\ flush[o].pc = "ended"
  /\ flush' = [flush EXCEPT ![o] = NoFlush]
  /\ IF flush[o].result \in {"busy", "moved"}
     THEN OpDone(o) /\ UNCHANGED wsLine
     ELSE /\ op' = [op EXCEPT ![o].pc = "write"]
          /\ wsLine' = Append(wsLine, o)
  /\ UNCHANGED <<restored, store, browser, schedule, bindLine, history>>

(* An updater that changes the tabs of the workspace.                       *)
OpChange(o) ==
  LET w == op[o].ws IN
  /\ edits < MaxEdits
  /\ edits' = edits + 1
  /\ canon' = [canon EXCEPT ![w].tabs = @ \cup {edits + 1}, ![w].rev = @ + 1]
  /\ op' = [op EXCEPT ![o] =
              IF @.kind = "exclude" THEN [NoOp EXCEPT !.pc = "done"]
              ELSE [@ EXCEPT !.pc = "look", !.tabs = canon[w].tabs,
                             !.rev = canon[w].rev + 1, !.change = edits + 1]]

OpWrite(o) ==
  LET w == op[o].ws IN
  /\ op[o].pc = "write" /\ First(wsLine, o)
  /\ wsLine' = Tail(wsLine)
  /\ \/ op[o].kind \in {"edit", "exclude"} /\ OpChange(o)
     \/ /\ op[o].kind \in {"edit", "exclude"} /\ edits = MaxEdits
        /\ OpDone(o) /\ UNCHANGED <<restored, canon, edits>>
     \/ /\ op[o].kind = "trash"     \* assertWorkspaceDeletionAllowed
        /\ canon' = IF w \in Reserved THEN canon ELSE [canon EXCEPT ![w].alive = FALSE]
        /\ OpDone(o) /\ UNCHANGED edits
     \/ /\ op[o].kind = "restore"
        /\ canon' = [canon EXCEPT ![w].alive = TRUE]
        /\ OpDone(o) /\ UNCHANGED edits
  /\ UNCHANGED <<restored, journal, binding, browser, schedule, flush, bindLine, retracted, crashes, interrupted>>

(* materializeChangedWorkspaces                                             *)
OpLook(o) ==
  /\ op[o].pc = "look"
  /\ op' = [op EXCEPT ![o].pc = "mark",
                      ![o].source = IF op[o].window # None
                                    THEN binding[op[o].window] ELSE None]
  /\ bindLine' = Append(bindLine, o)
  /\ UNCHANGED <<restored, store, browser, schedule, flush, wsLine, history>>

OpMark(o) ==
  LET own == op[o].source # None /\ op[o].source.ws = op[o].ws IN
  /\ op[o].pc = "mark" /\ First(bindLine, o)
  /\ binding' = OthersStale(op[o].ws, IF own THEN op[o].window ELSE None)
  /\ bindLine' = Tail(bindLine)
  /\ IF own THEN op' = [op EXCEPT ![o].pc = "queued"] ELSE OpDone(o)
  /\ UNCHANGED <<restored, canon, journal, browser, schedule, flush, wsLine, history>>

(* rollbackOnMaterializeFailure and restoreWorkspaceRollbackEntries: only   *)
(* while the workspace is still as the operation left it.                   *)
OpRollback(o) ==
  LET w == op[o].ws IN
  /\ op[o].pc = "rollback" /\ First(wsLine, o)
  /\ wsLine' = Tail(wsLine)
  /\ IF canon[w].rev = op[o].rev
     THEN /\ canon' = [canon EXCEPT ![w].tabs = op[o].tabs, ![w].rev = @ + 1]
          /\ retracted' = retracted \cup {op[o].change}
          /\ op' = [op EXCEPT ![o].pc = "invalidate", ![o].rev = @ + 1]
          /\ bindLine' = Append(bindLine, o)
     ELSE OpDone(o) /\ UNCHANGED <<restored, canon, retracted, bindLine>>
  /\ UNCHANGED <<restored, journal, binding, browser, schedule, flush, edits, crashes, interrupted>>

(* invalidateRolledBackBindings                                             *)
OpInvalidate(o) ==
  /\ op[o].pc = "invalidate" /\ First(bindLine, o)
  /\ binding' = [k \in Windows |->
                   IF binding[k] # None /\ binding[k].ws = op[o].ws
                      /\ binding[k].rev < op[o].rev
                   THEN [binding[k] EXCEPT !.stale = TRUE] ELSE binding[k]]
  /\ bindLine' = Tail(bindLine)
  /\ OpDone(o)
  /\ UNCHANGED <<restored, canon, journal, browser, schedule, flush, wsLine, history>>

----------------------------------------------------------------------------
(* runSwitch, as far as it touches workspaces, bindings and window tabs.    *)
SwitchBegin(o) ==
  LET k == op[o].window IN
  /\ op[o].pc = "queued" /\ WindowsSwitching = {} /\ journal = None
  /\ suppressed' = suppressed \cup {k} /\ dirty' = dirty \ {k}
  /\ op' = [op EXCEPT ![o].pc = "reserve", ![o].source = binding[k]]
  /\ wsLine' = Append(wsLine, o)
  /\ UNCHANGED <<restored, store, browser, requested, mutated, drain, flush, bindLine, history>>

(* The end of the switch: the window is saved again.  What was noted while  *)
(* the transaction owned the window is dropped.                             *)
SwitchEnd(o, success, discard) ==
  LET k == op[o].window IN
  /\ suppressed' = suppressed \ {k} /\ dirty' = dirty \ {k}
  /\ IF k \in dirty /\ ~discard
     THEN requested' = requested \cup {k} /\ drain' = [drain EXCEPT !.on = TRUE]
     ELSE UNCHANGED <<requested, drain>>
  /\ IF success \/ op[o].kind = "switch"
     THEN OpDone(o)
     ELSE op' = [op EXCEPT ![o].pc = "rollback", ![o].source = None]

SwitchReserve(o) ==
  /\ op[o].pc = "reserve" /\ First(wsLine, o)
  /\ IF canon[op[o].ws].alive
     THEN /\ wsLine' = Tail(wsLine)
          /\ op' = [op EXCEPT ![o].pc = "flushSource"]
          /\ UNCHANGED <<requested, suppressed, dirty, drain>>
     ELSE /\ SwitchEnd(o, FALSE, FALSE)
          /\ wsLine' = IF op'[o].pc = "rollback" THEN Append(Tail(wsLine), o) ELSE Tail(wsLine)
  /\ UNCHANGED <<restored, store, browser, mutated, flush, bindLine, history>>

SwitchFlush(o) ==
  /\ op[o].pc = "flushSource" /\ op[o].kind = "switch" /\ op[o].source # None
  /\ flush[o].pc = "idle"
  /\ FlushBegin(o, op[o].window)
  /\ UNCHANGED <<restored, store, browser, requested, suppressed, dirty, drain, op, bindLine, history>>

SwitchFlushed(o) ==
  /\ op[o].pc = "flushSource"
  /\ op[o].kind = "switch" /\ op[o].source # None => flush[o].pc = "ended"
  /\ flush' = [flush EXCEPT ![o] = NoFlush]
  /\ op' = [op EXCEPT ![o].pc = "own",
                      ![o].source = IF flush[o].pc = "ended" THEN binding[op[o].window] ELSE @]
  /\ wsLine' = Append(wsLine, o)
  /\ UNCHANGED <<restored, store, browser, schedule, bindLine, history>>

(* The source is captured and the journal saved; the shells of the target's *)
(* tabs are opened.  A busy window is journaled with its saved copy.        *)
SwitchOwn(o) ==
  LET k == op[o].window  w == op[o].ws  src == op[o].source
      current == src # None /\ src.ws = w /\ ~src.stale /\ src.rev = canon[w].rev
      snapshot == IF k \notin loading THEN live[k]
                  ELSE IF src # None THEN canon[src.ws].tabs ELSE {}
  IN
  /\ op[o].pc = "own" /\ First(wsLine, o)
  /\ IF ~canon[w].alive \/ current
     THEN /\ SwitchEnd(o, canon[w].alive, TRUE)
          /\ wsLine' = IF op'[o].pc = "rollback" THEN Append(Tail(wsLine), o) ELSE Tail(wsLine)
          /\ UNCHANGED <<restored, journal, loading, mutated>>
     ELSE /\ op' = [op EXCEPT ![o].pc = "prepared",
                              ![o].plan = [tabs |-> canon[w].tabs, rev |-> canon[w].rev]]
          /\ wsLine' = Tail(wsLine)
          /\ journal' = [window |-> k, target |-> w,
                         source |-> IF src = None THEN None ELSE src.ws,
                         rev |-> IF src = None THEN 0 ELSE src.rev, tabs |-> snapshot]
          /\ IF canon[w].tabs = {}
             THEN UNCHANGED <<loading, mutated, requested, suppressed, dirty, drain>>
             ELSE loading' = loading \cup {k} /\ NoteMutation(k)
  /\ UNCHANGED <<restored, canon, binding, live, flush, bindLine, history>>

(* onBeforeCommit, then the tabs of the source are closed.                  *)
SwitchSwap(o) ==
  LET k == op[o].window  w == op[o].ws IN
  /\ op[o].pc = "prepared"
  /\ canon[w].alive /\ canon[w].rev = op[o].plan.rev
  /\ live' = [live EXCEPT ![k] = op[o].plan.tabs]
  /\ NoteMutation(k)
  /\ op' = [op EXCEPT ![o].pc = "swapped"]
  /\ UNCHANGED <<restored, store, loading, flush, lines, history>>

SwitchBind(o) ==
  LET k == op[o].window IN
  /\ op[o].pc = "swapped"
  /\ binding' = [binding EXCEPT ![k] =
                   [ws |-> op[o].ws, rev |-> op[o].plan.rev, stale |-> FALSE]]
  /\ op' = [op EXCEPT ![o].pc = "bound"]
  /\ UNCHANGED <<restored, canon, journal, browser, schedule, flush, lines, history>>

SwitchDone(o) ==
  /\ op[o].pc = "bound"
  /\ journal' = None
  /\ SwitchEnd(o, TRUE, TRUE)
  /\ UNCHANGED <<restored, canon, binding, browser, mutated, flush, lines, history>>

(* A conflict, a cancelled intent or an error of the browser.               *)
SwitchFail(o) ==
  /\ op[o].pc \in {"prepared", "swapped", "bound"}
  /\ op' = [op EXCEPT ![o].pc = "recover"]
  /\ UNCHANGED <<restored, store, browser, schedule, flush, lines, history>>

(* recoverSwitchJournal: the source's tabs are put back, ...                *)
RestoreTabs ==
  /\ live' = [live EXCEPT ![journal.window] = journal.tabs]
  /\ loading' = loading \ {journal.window}
  /\ NoteMutation(journal.window)

(* ... and its binding, at the revision the window had.                     *)
RestoredBinding ==
  LET w == journal.source IN
  IF w # None /\ (w # None => canon[w].alive)
  THEN [ws |-> w, rev |-> journal.rev, stale |-> journal.rev # canon[w].rev]
  ELSE None

SwitchRestore(o) ==
  /\ op[o].pc = "recover"
  /\ RestoreTabs
  /\ op' = [op EXCEPT ![o].pc = "rebind"]
  /\ UNCHANGED <<restored, store, flush, lines, history>>

(* A switch that a later request superseded is answered with success.       *)
SwitchRebind(o) ==
  /\ op[o].pc = "rebind"
  /\ binding' = [binding EXCEPT ![journal.window] = RestoredBinding]
  /\ journal' = None
  /\ \E superseded \in BOOLEAN : SwitchEnd(o, superseded, TRUE)
  /\ wsLine' = IF op'[o].pc = "rollback" THEN Append(wsLine, o) ELSE wsLine
  /\ UNCHANGED <<restored, canon, browser, mutated, flush, bindLine, history>>

SwitchStep(o) ==
  \/ SwitchBegin(o) \/ SwitchReserve(o) \/ SwitchFlush(o) \/ SwitchFlushed(o)
  \/ SwitchOwn(o) \/ SwitchSwap(o) \/ SwitchBind(o) \/ SwitchDone(o)
  \/ SwitchFail(o) \/ SwitchRestore(o) \/ SwitchRebind(o)

OpStep(o) ==
  \/ OpFlushed(o) \/ OpWrite(o) \/ OpLook(o) \/ OpMark(o) \/ OpRollback(o)
  \/ OpInvalidate(o)

----------------------------------------------------------------------------
(* The worker is terminated: its memory is lost, what it stored is not.     *)
Crash ==
  /\ crashes < MaxCrashes
  /\ crashes' = crashes + 1
  /\ interrupted' = interrupted \cup
       (IF journal = None THEN {} ELSE {journal.source, journal.target} \ {None})
  /\ requested' = {} /\ suppressed' = {} /\ dirty' = {} /\ mutated' = {}
  /\ drain' = NoDrain
  /\ flush' = [c \in Flushers |-> NoFlush]
  /\ op' = [o \in Ops |-> IF op[o].pc = "idle" THEN NoOp ELSE [NoOp EXCEPT !.pc = "done"]]
  /\ wsLine' = <<>> /\ bindLine' = <<>>
  /\ restored' = FALSE
  /\ UNCHANGED <<store, browser, edits, retracted>>

(* recoverPendingWorkspaceSwitch at the start of the worker.                *)
RecoverTabs ==
  /\ RecoveryPending
  /\ ~restored /\ restored' = TRUE
  /\ RestoreTabs
  /\ UNCHANGED <<store, flush, op, lines, history>>

RecoverBinding ==
  /\ RecoveryPending
  /\ restored /\ restored' = FALSE
  /\ binding' = [binding EXCEPT ![journal.window] = RestoredBinding]
  /\ journal' = None
  /\ UNCHANGED <<canon, browser, schedule, flush, op, lines, history>>

DrainStep == DrainPass \/ DrainFlushed \/ DrainEnd \/ \E k \in Windows : DrainNext(k)

Next ==
  \/ \E k \in Windows : UserEdit(k) \/ TabsLoaded(k)
  \/ \E c \in Flushers : FlushStep(c)
  \/ \E o \in Ops : \E m \in Menu : OpBegin(o, m)
  \/ \E o \in Ops : OpStep(o) \/ SwitchStep(o)
  \/ DrainStep
  \/ Crash \/ RecoverTabs \/ RecoverBinding

Spec == Init /\ [][Next]_vars

(* The worker answers; the windows, the user and the callers need not act.  *)
Fairness ==
  /\ \A c \in Flushers : WF_vars(FlushStep(c))
  /\ \A o \in Ops : WF_vars(OpStep(o)) /\ WF_vars(SwitchStep(o))
  /\ \A k \in Windows : WF_vars(TabsLoaded(k))
  /\ WF_vars(DrainStep)
  /\ WF_vars(RecoverTabs) /\ WF_vars(RecoverBinding)

FairSpec == Spec /\ Fairness

----------------------------------------------------------------------------
\* Shape of the state.
TypeOK ==
  /\ canon \in [Workspaces -> [tabs : SUBSET Change, rev : Nat, alive : BOOLEAN]]
  /\ journal # None => journal.window \in Windows /\ journal.target \in Workspaces
  /\ binding \in [Windows -> Binding \cup {None}]
  /\ live \in [Windows -> SUBSET Change]
  /\ loading \in SUBSET Windows
  /\ requested \in SUBSET Windows
  /\ suppressed \in SUBSET Windows /\ dirty \in SUBSET Windows
  /\ mutated \in SUBSET Flushers
  /\ drain \in [on : BOOLEAN, pass : SUBSET Windows]
  /\ wsLine \in Seq(Flushers) /\ bindLine \in Seq(Flushers)

\* A stale copy never overwrites newer data ("blocks old copies of other windows
\* from overwriting new data", core/types/index.ts): no change is ever dropped
\* from a workspace, by whatever flush, operation or switch of whatever window,
\* except the one an operation rolls back itself.  A restart in the middle of a
\* switch harms at most the two workspaces of that switch.  (Not so when a window
\* is switched to the workspace it has: see the run autosave_reload.)
NoStaleOverwrite ==
  [][\A w \in Workspaces \ interrupted' :
       canon[w].tabs \ retracted' \subseteq canon'[w].tabs]_vars

\* The key to it: a window whose binding entitles it to save (not stale, at the
\* revision of the workspace) shows every change the workspace holds, unless a
\* switch has hold of it, or a restart has cut one of that workspace.
InTransaction == WindowsSwitching \cup (IF journal = None THEN {} ELSE {journal.window})
WritersAreCurrent ==
  \A k \in Windows \ InTransaction :
    LET b == binding[k] IN
    b # None /\ (b # None => ~b.stale /\ b.rev = canon[b.ws].rev /\ b.ws \notin interrupted)
      => canon[b.ws].tabs \subseteq live[k]

\* The copies that may save are those that hold all their workspace holds.
CopiesAreOwned == TypeOK /\ WritersAreCurrent

\* When nobody is at work, a copy that is behind its workspace is marked stale, so
\* that its window shows it ("makes other copies stale", workspaceAutosave.test.ts).
\* Checked for edits, trashing and bringing back: an exclusion marks no copy, since
\* workspacesApply.ts:527 does not list it.
Resting ==
  /\ \A c \in Flushers : flush[c].pc = "idle"
  /\ \A o \in Ops : op[o].pc \in {"idle", "done"}
OldCopiesAreStale ==
  Resting => \A k \in Windows :
    LET b == binding[k] IN
    b # None /\ (b # None => b.rev # canon[b.ws].rev) => b.stale

\* A change made in a window that may save reaches its workspace, unless the
\* window loses the right to save (stale, unbound) or is being switched.
Unsaved(k, e) ==
  /\ binding[k] # None /\ e \in live[k]
  /\ binding[k] # None => ~binding[k].stale /\ e \notin canon[binding[k].ws].tabs
AllSaved == \A k \in Windows, e \in Change : ~Unsaved(k, e)
EditsAreSaved == []<>AllSaved
==============================================================================
