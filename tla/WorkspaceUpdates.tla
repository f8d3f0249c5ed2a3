-------------------------- MODULE WorkspaceUpdates --------------------------
(***************************************************************************)
(* The list of workspaces and the operations on it (workspacesApply.ts,    *)
(* workspaceLogic.ts, workspaceTabState.ts): a page, in which the user     *)
(* selects and drags tabs (useDragAndDrop.ts), and an agent ask for them;  *)
(* the background applies them one at a time, and what an asker has seen   *)
(* may have changed by then.  The write of a window that follows an        *)
(* operation may fail, and then the operation is undone, unless what it    *)
(* wrote has been changed in the meantime.                                 *)
(*                                                                         *)
(* A tab is its URL and its mark; pinned tabs never enter a workspace.     *)
(* Indexes count from one.                                                 *)
(***************************************************************************)
EXTENDS AgentCommands, FiniteSets

CONSTANTS Gone,         \* stands for a workspace that was deleted; ids are not used again
          Origin,       \* of each safe URL
          Lists,        \* lists of tabs that may be captured or set
          HistorySize,  \* 15 in the code
          MaxOps        \* requests and captures

VARIABLES ws,     \* the workspaces; None where there is none
          busy,   \* workspaces of a switch or a warmup
          undo,   \* of each operation that is going to be undone: what it changed
          inbox,  \* requests on their way to the background
          page,   \* what the page shows, and what is selected and dragged there
          left

vars == <<ws, busy, undo, inbox, page, left>>

Workspace == [name : {"old", "new"}, tabs : Seq([url : Urls, excluded : BOOLEAN]), rev : Nat,
              history : Seq([id : Nat, tabs : Seq([url : Urls, excluded : {FALSE}])]),
              snaps : Nat, trashed : BOOLEAN]

(* A snapshot has no excluded tab, its name is its own, and there are no   *)
(* more of them than the limit.                                            *)
TypeOK ==
    /\ \A w \in Ids : ws[w] \notin {None, Gone} =>
          /\ ws[w] \in Workspace
          /\ Len(ws[w].history) <= HistorySize
          /\ IsInjective([i \in DOMAIN ws[w].history |-> ws[w].history[i].id])
    /\ busy \subseteq Ids
    /\ page # None => page.picked \cup page.dragged \subseteq 1 .. Len(page.tabs)

(* sanitizeTabSpecs *)
Sanitized(tabs) == Where(tabs, LAMBDA t : t.url \in Urls)

New(name, tabs) ==
    [name |-> name, tabs |-> tabs, rev |-> 0, history |-> <<>>, snaps |-> 0, trashed |-> FALSE]

Init ==
    /\ \E L \in Lists, other \in {None, New("old", <<>>)} :
          ws = [w \in Ids |-> IF w = CHOOSE v \in Ids : TRUE THEN New("old", Sanitized(L)) ELSE other]
    /\ busy = {} /\ undo = {} /\ inbox = {} /\ page = None
    /\ left = MaxOps

-----------------------------------------------------------------------------
(* Tabs, snapshots and structure (workspaceLogic.ts, workspaceTabState.ts).*)

Recordable(tabs) == Where(tabs, LAMBDA t : ~t.excluded)

(* recordSnapshot *)
Recorded(r, tabs) ==
    LET history == <<[id |-> r.snaps, tabs |-> Recordable(tabs)]>> \o r.history
    IN [r EXCEPT !.history = SubSeq(history, 1, Min({HistorySize, Len(history)})),
                 !.snaps = @ + 1]

(* replaceWorkspaceTabs: another list is another revision. *)
Replaced(r, tabs) ==
    IF tabs = r.tabs THEN r ELSE [r EXCEPT !.tabs = tabs, !.rev = @ + 1]

(* hasStructuralTabChanges: pages of one origin are alike. *)
OfOrigin(tabs, o) == Cardinality({i \in DOMAIN tabs : ~tabs[i].excluded /\ Origin[tabs[i].url] = o})
Structural(before, after) ==
    \E u \in Urls : OfOrigin(before, Origin[u]) # OfOrigin(after, Origin[u])

(* findTabIndex: 0 when there is no such tab. *)
Found(tabs, locator) ==
    IF IsIndex(locator)
    THEN IF locator.index \in DOMAIN tabs THEN locator.index ELSE 0
    ELSE SelectInSeq(tabs, LAMBDA t : t.url = locator.url)

(* prepareTabMove: the tabs that are not at these indexes. *)
Rest(tabs, S) == At(tabs, DOMAIN tabs \ S)

-----------------------------------------------------------------------------
(* The operations: the workspaces after a request. *)

With(w, r) == [ws EXCEPT ![w] = r]
Has(w) == ws[w] \notin {None, Gone}
Stays(w) == Has(w) /\ ws'[w] # Gone

Named(o) == IF Has(o.id) THEN With(o.id, [ws[o.id] EXCEPT !.name = "new"]) ELSE ws
Trashed(o, b) == IF Has(o.id) THEN With(o.id, [ws[o.id] EXCEPT !.trashed = b]) ELSE ws
Deleted(S) == [w \in Ids |-> IF w \in S /\ Has(w) THEN Gone ELSE ws[w]]
InTrash == {w \in Ids : Has(w) /\ ws[w].trashed}

(* moveWorkspaceTabs: both sides get a snapshot and a revision. *)
Moved(o) ==
    LET source == ws[o.sourceId]
        target == ws[o.targetId]
        moving == At(source.tabs, o.tabIndexes)
    IN IF moving = <<>> THEN ws
       ELSE [ws EXCEPT
               ![o.sourceId] = Recorded(Replaced(source, Rest(source.tabs, o.tabIndexes)), source.tabs),
               ![o.targetId] = Recorded(Replaced(target, target.tabs \o moving), target.tabs)]

RemovedAt(w, S) ==
    LET r == ws[w]
    IN IF At(r.tabs, S) = <<>> THEN ws
       ELSE With(w, Recorded(Replaced(r, Rest(r.tabs, S)), r.tabs))

(* excludeWorkspaceTab: an excluded tab leaves the snapshots as well. *)
Excluded(o) ==
    LET r == ws[o.workspaceId]
        i == Found(r.tabs, o.tabIndexOrUrl)
        stripped == [n \in DOMAIN r.history |->
            [r.history[n] EXCEPT !.tabs = Where(@, LAMBDA t : t.url # r.tabs[i].url)]]
    IN IF i = 0 \/ r.tabs[i].excluded = o.excluded THEN ws
       ELSE With(o.workspaceId,
                 [Replaced(r, [r.tabs EXCEPT ![i].excluded = o.excluded])
                     EXCEPT !.history = IF o.excluded THEN stripped ELSE @])

(* restoreWorkspaceSnapshot: the tabs it replaces become a snapshot. *)
Restored(o) ==
    LET r == ws[o.workspaceId]
        n == SelectInSeq(r.history, LAMBDA h : h.id = o.snapshotId)
    IN IF n = 0 \/ r.history[n].tabs = r.tabs THEN ws
       ELSE With(o.workspaceId, Replaced(Recorded(r, r.tabs), r.history[n].tabs))

Put(w, tabs, skip) ==
    LET r == ws[w]
        next == Replaced(r, Sanitized(tabs))
    IN IF next.rev = r.rev THEN ws
       ELSE With(w, IF ~skip /\ Structural(r.tabs, next.tabs) THEN Recorded(next, r.tabs) ELSE next)

(* An operation on the tabs or the snapshots of a workspace there is. *)
Edited(o) ==
    CASE o.kind = "exclude-tab" -> Excluded(o)
      [] o.kind = "remove-tab" -> RemovedAt(o.workspaceId, {Found(ws[o.workspaceId].tabs, o.tabIndexOrUrl)})
      [] o.kind = "remove-tab-indexes" -> RemovedAt(o.workspaceId, o.tabIndexes)
      [] o.kind = "restore-snapshot" -> Restored(o)
      [] o.kind = "snapshot" ->
            With(o.workspaceId, Recorded(ws[o.workspaceId], ws[o.workspaceId].tabs))
      [] o.kind = "set-tabs" -> Put(o.workspaceId, o.tabs, o.skip)

Applied(o) ==
    CASE o.kind = "create" -> With(o.id, New("new", Sanitized(o.tabs)))
      [] o.kind \in {"rename", "recolor", "emoji"} -> Named(o)
      [] o.kind = "trash" -> Trashed(o, TRUE)
      [] o.kind = "restore" -> Trashed(o, FALSE)
      [] o.kind = "delete" -> Deleted({o.id})
      [] o.kind = "empty-trash" -> Deleted(InTrash)
      [] o.kind = "move-tabs" -> IF Has(o.sourceId) /\ Has(o.targetId) THEN Moved(o) ELSE ws
      [] OTHER -> IF Has(o.workspaceId) THEN Edited(o) ELSE ws

Subject(o) == IF o.kind = "move-tabs" THEN o.sourceId ELSE o.workspaceId

(* applyWorkspaceOperation: the revision an index was read at. *)
Conflicts(o) ==
    "expectedTabsRevision" \in DOMAIN o
        /\ (~Has(Subject(o)) \/ ws[Subject(o)].rev # o.expectedTabsRevision)

(* assertWorkspaceDeletionAllowed *)
Refused(o) ==
    \/ o.kind \in {"trash", "delete"} /\ o.id \in busy
    \/ o.kind = "empty-trash" /\ InTrash \cap busy # {}
    \/ o.kind \in {"remove-tab", "remove-tab-indexes"} /\ o.workspaceId \in busy

Materialized(o) ==
    IF o.kind = "move-tabs" THEN {o.sourceId, o.targetId}
    ELSE IF o.kind \in {"remove-tab", "remove-tab-indexes", "restore-snapshot", "set-tabs"}
    THEN {o.workspaceId}
    ELSE {}

-----------------------------------------------------------------------------
(* The background takes a request. *)

Take(m) == m \in inbox /\ inbox' = inbox \ {m}

Apply(m) ==
    /\ Take(m)
    /\ ws' = IF Refused(m.op) \/ Conflicts(m.op) THEN ws ELSE Applied(m.op)
    /\ UNCHANGED <<busy, undo, page, left>>

(* The windows of the workspaces it changes cannot be written.  Until that *)
(* is known, other operations and the autosave may write.                  *)
ApplyButFail(m) ==
    /\ Take(m)
    /\ ~Refused(m.op) /\ ~Conflicts(m.op)
    /\ LET S == {w \in Materialized(m.op) : Applied(m.op)[w] # ws[w]}
       IN S # {} /\ undo' = undo \cup {[w \in S |-> [before |-> ws[w], after |-> Applied(m.op)[w]]]}
    /\ ws' = Applied(m.op)
    /\ UNCHANGED <<busy, page, left>>

(* stillOwnsTabState *)
Owns(w, after) ==
    Has(w) /\ ws[w].rev = after.rev /\ ws[w].tabs = after.tabs /\ ws[w].history = after.history

PutBack(r, before) ==
    [r EXCEPT !.tabs = before.tabs, !.history = before.history, !.rev = @ + 1]

Undo_Unowned(u) ==
    /\ undo' = undo \ {u}
    /\ ws' = [w \in Ids |-> IF w \in DOMAIN u /\ Has(w) THEN PutBack(ws[w], u[w].before) ELSE ws[w]]
    /\ UNCHANGED <<busy, inbox, page, left>>

(* Tabs and history are put back under a revision of its own, if every     *)
(* workspace of the request is still as the request left it.               *)
Undo(u) ==
    /\ undo' = undo \ {u}
    /\ ws' = IF \A w \in DOMAIN u : Owns(w, u[w].after)
             THEN [w \in Ids |-> IF w \in DOMAIN u THEN PutBack(ws[w], u[w].before) ELSE ws[w]]
             ELSE ws
    /\ UNCHANGED <<busy, inbox, page, left>>

(* The autosave writes what a window shows (WindowAutosave). *)
Autosave(w, L) ==
    /\ left > 0 /\ left' = left - 1
    /\ Has(w) /\ ws' = Put(w, L, FALSE) /\ ws' # ws
    /\ UNCHANGED <<busy, undo, inbox, page>>

(* A switch or a warmup of a workspace (WorkspaceSwitch, TabWarmup). *)
Occupy(w) == left > 0 /\ busy = {} /\ busy' = {w} /\ UNCHANGED <<ws, undo, inbox, page, left>>
Release == busy # {} /\ busy' = {} /\ UNCHANGED <<ws, undo, inbox, page, left>>

-----------------------------------------------------------------------------
(* The askers, until nothing more may be asked (MaxOps).  With each        *)
(* request goes, for the properties, the list that the asker saw when it   *)
(* chose the tabs.                                                         *)

Ask(op, saw) ==
    /\ left > 0 /\ left' = left - 1
    /\ inbox' = inbox \cup {[op |-> op, saw |-> saw]}
    /\ UNCHANGED <<ws, busy, undo>>

Shown(w) == [ws |-> w, tabs |-> ws[w].tabs, rev |-> ws[w].rev, picked |-> {}, dragged |-> {},
             anchor |-> 0, saw |-> <<>>]

(* The page opens a workspace or hears of a change of it: with another     *)
(* workspace or revision the selection and the drag are dropped.           *)
Show(w) ==
    /\ Has(w)
    /\ page' = IF page # None /\ page.ws = w /\ page.rev = ws[w].rev
               THEN [page EXCEPT !.tabs = ws[w].tabs] ELSE Shown(w)
    /\ page' # page /\ left > 0
    /\ UNCHANGED <<ws, busy, undo, inbox, left>>

Chosen == page.picked \cup page.dragged

(* handleToggleTabIndex; with the shift key the range from the last one.  *)
Span(i, j) == Min({i, j}) .. Max({i, j})

Pick(i) ==
    /\ left > 0 /\ page # None /\ i \in DOMAIN page.tabs
    /\ \E S \in {SymDiff(page.picked, {i}), IF page.anchor = 0 THEN {i} ELSE Span(page.anchor, i)} :
          page' = [page EXCEPT !.saw = IF Chosen = {} THEN page.tabs ELSE @,
                               !.picked = S, !.anchor = i]
    /\ UNCHANGED <<ws, busy, undo, inbox, left>>

(* handleCancelSelection *)
Cancel ==
    /\ page # None /\ Chosen # {}
    /\ page' = [page EXCEPT !.picked = {}, !.dragged = {}, !.anchor = 0, !.saw = <<>>]
    /\ UNCHANGED <<ws, busy, undo, inbox, left>>

(* handleTabDragStart: a selected tab takes the selection along. *)
Drag(i) ==
    /\ left > 0 /\ page # None /\ i \in DOMAIN page.tabs /\ page.dragged = {}
    /\ page' = [page EXCEPT !.saw = IF Chosen = {} THEN page.tabs ELSE @,
                            !.dragged = IF i \in page.picked THEN page.picked ELSE {i}]
    /\ UNCHANGED <<ws, busy, undo, inbox, left>>

(* performTabMove, for the selection or at a drop.  The move makes another *)
(* revision, and with it the page drops the selection.                     *)
MoveTo(w) ==
    /\ page # None /\ w # page.ws
    /\ \E S \in {page.picked, page.dragged} \ {{}} :
          Ask([kind |-> "move-tabs", sourceId |-> page.ws, targetId |-> w, tabIndexes |-> S,
               expectedTabsRevision |-> page.rev], page.saw)
    /\ page' = [page EXCEPT !.dragged = {}]

(* handleRemoveTab *)
RemoveTab(i) ==
    /\ left > 0 /\ page # None /\ i \in DOMAIN page.tabs
    /\ Ask([kind |-> "remove-tab", workspaceId |-> page.ws, tabIndexOrUrl |-> [index |-> i],
            expectedTabsRevision |-> page.rev], page.tabs)
    /\ UNCHANGED page

(* workspaceCrudActions.ts, workspaceTabActions.ts *)
AskAbout(w) ==
    /\ \/ \E k \in {"rename", "trash", "restore", "delete"} : Ask([kind |-> k, id |-> w], <<>>)
       \/ Ask([kind |-> "empty-trash"], <<>>)
       \/ Has(w) /\ \E n \in DOMAIN ws[w].history :
             Ask([kind |-> "restore-snapshot", workspaceId |-> w,
                  snapshotId |-> ws[w].history[n].id], <<>>)
       \/ ws[w] = None /\ (\A m \in inbox : m.op.kind # "create")
             /\ \E L \in Lists : Ask([kind |-> "create", id |-> w, tabs |-> L], <<>>)
    /\ UNCHANGED page

(* An agent that has read the workspace. *)
Read(w) ==
    LET tabs == ws[w].tabs
        rev == ws[w].rev
    IN {<<"removeWorkspaceTabs", [workspaceId |-> w, tabIndexes |-> S, expectedTabsRevision |-> rev]>> :
            S \in (SUBSET DOMAIN tabs) \ {{}}}
       \cup {<<"moveWorkspaceTabs", [sourceId |-> w, targetId |-> v, tabIndexes |-> {i},
                                     expectedTabsRevision |-> rev]>> :
            v \in Ids, i \in DOMAIN tabs}
       \cup {<<"setTabExcluded", [workspaceId |-> w, tabIndexOrUrl |-> [index |-> i], excluded |-> b,
                                  expectedTabsRevision |-> rev]>> : i \in DOMAIN tabs, b \in BOOLEAN}
       \cup {<<"setTabExcluded", [workspaceId |-> w, tabIndexOrUrl |-> [url |-> u], excluded |-> TRUE]>> :
            u \in Urls}
       \cup {<<"replaceWorkspaceTabs", [workspaceId |-> w, tabs |-> L, skipHistory |-> b]>> :
            L \in Lists, b \in BOOLEAN}
       \cup {<<"createWorkspaceSnapshot", [workspaceId |-> w]>>}

AgentAsks(w) ==
    /\ Has(w)
    /\ \E a \in Read(w) : Accepts(a[1], a[2]) /\ Ask(Operation(a[1], a[2]), ws[w].tabs)
    /\ UNCHANGED page

Next ==
    \/ \E m \in inbox : Apply(m) \/ ApplyButFail(m)
    \/ \E u \in undo : Undo(u)
    \/ \E w \in Ids, L \in Lists : Autosave(w, L)
    \/ \E w \in Ids : Occupy(w)
    \/ Release
    \/ \E w \in Ids : Show(w) \/ MoveTo(w) \/ AskAbout(w) \/ AgentAsks(w)
    \/ Cancel
    \/ page # None /\ \E i \in DOMAIN page.tabs : Pick(i) \/ Drag(i) \/ RemoveTab(i)

Spec == Init /\ [][Next]_vars

-----------------------------------------------------------------------------
(* A revision never names two lists of tabs: a list that changes, or that  *)
(* was changed and put back, has a later revision.  It is what the askers  *)
(* rely on when they send the revision they saw.                           *)
RevisionNamesList ==
    [][\A w \in Ids : Stays(w) =>
          /\ ws'[w].rev >= ws[w].rev
          /\ ws'[w].tabs # ws[w].tabs => ws'[w].rev > ws[w].rev]_vars

(* A request that names tabs by their index does to the tabs its asker     *)
(* chose what was asked, or nothing.                                       *)
Chose(m) == IF m.op.kind \in {"remove-tab", "exclude-tab"} THEN {m.op.tabIndexOrUrl.index}
            ELSE m.op.tabIndexes

ByIndex(m) == "expectedTabsRevision" \in DOMAIN m.op

ChosenTabsOnly ==
    [][\A m \in inbox \ inbox' : ByIndex(m) =>
          LET w == Subject(m.op) IN
          \/ \A v \in Ids : Has(v) => ws'[v].tabs = ws[v].tabs
          \/ m.op.kind = "exclude-tab" /\ ws'[w].tabs = [m.saw EXCEPT ![m.op.tabIndexOrUrl.index].excluded = m.op.excluded]
          \/ /\ m.op.kind # "exclude-tab"
             /\ ws'[w].tabs = Rest(m.saw, Chose(m))
             /\ m.op.kind = "move-tabs" =>
                    ws'[m.op.targetId].tabs = ws[m.op.targetId].tabs \o At(m.saw, Chose(m))]_vars

(* Pages that leave a workspace, as seen by their origins, are in its      *)
(* newest snapshot, unless it was asked to skip the history.  What the     *)
(* undo of a failed request takes away is what that request had put there: *)
(* no tab and no snapshot that came later.                                 *)
DroppedTabsAreKept ==
    [][\A w \in Ids : Stays(w) =>
          \/ \A u \in Urls : OfOrigin(ws[w].tabs, Origin[u]) <=
                Cardinality({i \in DOMAIN ws'[w].tabs : Origin[ws'[w].tabs[i].url] = Origin[u]})
          \/ \E u \in undo \ undo' : w \in DOMAIN u /\ Owns(w, u[w].after)
          \/ \E m \in inbox \ inbox' : m.op.kind = "set-tabs" /\ m.op.skip
          \/ ws'[w].history # <<>> /\ ws'[w].history[1].tabs = Recordable(ws[w].tabs)]_vars

(* A failed request is undone for all the workspaces it changed or for     *)
(* none: the tabs of a move are not lost, nor in two workspaces.           *)
UndoneAsOne ==
    [][\A u \in undo \ undo' :
          \/ \A w \in DOMAIN u : Has(w) => ws'[w] = ws[w]
          \/ \A w \in DOMAIN u : Has(w) /\ ws'[w].tabs = u[w].before.tabs
                                 /\ ws'[w].history = u[w].before.history]_vars

(* The tests stand twice, in the protocol and in the handlers: what the    *)
(* protocol accepts is never refused or silently left out behind it.       *)
Values(f) ==
    CASE f \in {"workspaceId", "sourceId", "targetId"} -> Ids \cup {Bad}
      [] f \in {"confirm", "excluded", "skipHistory"} -> BOOLEAN \cup {Bad}
      [] f = "tabIndexes" -> {{1}, Bad}
      [] f = "tabIndexOrUrl" -> {[index |-> 1], [url |-> CHOOSE u \in Urls : TRUE], Bad}
      [] f = "expectedTabsRevision" -> {0, Bad}
      [] f = "tabs" -> Lists \cup {Bad}
      [] f = "tab" -> {Tab(u, FALSE) : u \in Urls} \cup {Tab("unsafe", FALSE), Bad}
      [] f = "key" -> DOMAIN Settings \cup {"devMode", "agentControlEnabled"}
      [] f = "value" -> UNION {Settings[k] : k \in DOMAIN Settings} \cup {Bad}
      [] OTHER -> {"text", Bad}

Payloads(c) ==
    IF c \in Plain THEN {None, <<>>}
    ELSE UNION {FoldSet(LAMBDA f, acc : {p @@ (f :> v) : p \in acc, v \in Values(f)}, {<<>>}, S) :
                S \in SUBSET (Schema[c][1] \cup Schema[c][2] \cup {"other"})}

AcceptedIsHandled ==
    left = MaxOps /\ inbox = {} /\ page = None /\ busy = {} =>
        \A c \in Commands : \A p \in Payloads(c) :
            Accepts(c, p) => Handled(Operation(c, p))
=============================================================================
