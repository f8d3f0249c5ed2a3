-------------------------- MODULE LegacyMigration --------------------------
(***************************************************************************)
(* The stored workspaces and workspace state (core/storage/index.ts): how  *)
(* each of the shapes that older versions wrote is read, the migration at  *)
(* startup that rewrites them in steps which may fail or be cut off by a   *)
(* restart, and the writers that follow it.  The tabs of one workspace     *)
(* stand for all of them; a tab is a member of Tabs, those in Recordable   *)
(* are the safe, unpinned ones that a sanitized list keeps.                *)
(***************************************************************************)
EXTENDS Integers, Sequences, SequencesExt, FiniteSetsExt, Lists

CONSTANTS Tabs, Recordable,
          VirtualIds,        \* of virtual windows
          Windows, Unknown,  \* window ids, and the id of no window (-1)
          None,
          LegacyWorkspaces,  \* values of the workspace keys that a run begins with
          LegacyStates,      \* values of the state key
          LegacyJournals,    \* values of the switch state key
          MaxSteps           \* restarts, failures, remote writes and saves

VARIABLES local,   \* chrome.storage.local: a value or None under each key
          remote,  \* chrome.storage.sync, the same
          at,      \* how far the startup is
          read,    \* what the migration or a patch has read and not yet written
          said,    \* ghost: what the application has saved since the migration
          left     \* what is left of MaxSteps

vars == <<local, remote, at, read, said, left>>

(* What is met under the keys: a legacy window is a container, one of the  *)
(* managed windows an entry.                                               *)
VirtualWindows == Seq([vid : VirtualIds \cup {None}, order : Int \cup {None}])
Containers == Seq([order : Int \cup {None}, vid : VirtualIds \cup {None}, tabs : Seq(Tabs)])
Entries == [win : Windows \cup {None}, focused : BOOLEAN]
RawWorkspaces == [slots : Containers, tabs : Seq(Tabs), rev : Nat]
Journals == [win : Windows \cup {None}, sources : SUBSET Entries, slots : Containers,
             tabs : Seq(Tabs), phase : {"opening", "recovery_failed"}]
States == [notes : SUBSET Tabs, win : Windows \cup {None}, windows : SUBSET Entries,
           journal : Journals \cup {None}]

-----------------------------------------------------------------------------
(* The workspaces.                                                         *)

(* A stable sort by the explicit order, else by the order of the virtual   *)
(* window, else by position.                                               *)
OrderedLegacyTabs(containers, orderOf) ==
    LET key(i) == LET c == containers[i]
                  IN  IF c.order # None THEN c.order
                      ELSE IF c.vid \in DOMAIN orderOf THEN orderOf[c.vid]
                      ELSE i - 1
        before(i, j) == key(i) < key(j) \/ (key(i) = key(j) /\ i < j)
        places == UNION {{i} \X DOMAIN containers[i].tabs : i \in DOMAIN containers}
        earlier(p) == {q \in places : before(q[1], p[1]) \/ (q[1] = p[1] /\ q[2] < p[2])}
        place(n) == CHOOSE p \in places : Cardinality(earlier(p)) = n - 1
    IN  [n \in 1 .. Cardinality(places) |-> containers[place(n)[1]].tabs[place(n)[2]]]

(* The last entry of an id counts; without an order its position does.     *)
VirtualWindowOrder(entries) ==
    LET last(v) == Max({i \in DOMAIN entries : entries[i].vid = v})
        ids == {entries[i].vid : i \in DOMAIN entries} \ {None}
    IN  [v \in ids |-> IF entries[last(v)].order # None THEN entries[last(v)].order
                       ELSE last(v) - 1]

(* A function, so that TLC evaluates the list once.                        *)
Sanitized(tabs) ==
    LET kept == [list \in {tabs} |-> Where(list, LAMBDA t : t \in Recordable)] IN kept[tabs]

(* normalizeWorkspace: window slots come before the layouts kept beside    *)
(* the workspace, and these before its flat list.                          *)
Normalized(raw, layouts, entries) ==
    [slots |-> <<>>, rev |-> raw.rev,
     tabs |-> Sanitized(
        IF raw.slots # <<>> THEN OrderedLegacyTabs(raw.slots, <<>>)
        ELSE IF layouts # <<>> THEN OrderedLegacyTabs(layouts, VirtualWindowOrder(entries))
        ELSE raw.tabs)]

(* readWorkspaceStorageSource: local data shadows synced data, the new key *)
(* the old one; layouts belong to local data only.                         *)
WorkspaceSource ==
    LET from(src, raw, plain) ==
          [src |-> src,
           value |-> IF plain THEN Normalized(raw, <<>>, <<>>)
                     ELSE Normalized(raw, local.layouts, local.entries)]
    IN  IF local.workspaces # None THEN from("workspaces", local.workspaces, FALSE)
        ELSE IF local.tags # None THEN from("tags", local.tags, FALSE)
        ELSE IF remote.workspaces # None THEN from("remote", remote.workspaces, TRUE)
        ELSE IF remote.tags # None THEN from("remote", remote.tags, TRUE)
        ELSE [src |-> "none", value |-> None]

-----------------------------------------------------------------------------
(* The journal of an interrupted switch.                                   *)

Ids(entries) == {e.win : e \in entries} \ {None}
Only(S) == IF \E w \in S : S = {w} THEN CHOOSE w \in S : TRUE ELSE None
Focused(entries) == Only(Ids({e \in entries : e.focused}))

(* The window of a journal that names none, in the order of trust.         *)
ResolveLegacySwitchWindow(journal, main) ==
    LET sources == Ids(journal.sources)
        choices == <<journal.win, Focused(journal.sources),
                     IF sources = {} \/ main.win \in sources THEN main.win ELSE None,
                     Only(sources), Focused(main.windows), Only(Ids(main.windows))>>
        named == {i \in DOMAIN choices : choices[i] # None}
    IN  IF named = {} THEN Unknown ELSE choices[CHOOSE i \in named : \A j \in named : i <= j]

(* toWorkspaceSwitchState: whose window stays unknown has failed.          *)
ToSwitchState(journal, main) ==
    IF journal = None THEN None
    ELSE LET w == ResolveLegacySwitchWindow(journal, main)
         IN  [win |-> IF w = Unknown THEN None ELSE w, sources |-> {},
              slots |-> <<>>,
              tabs |-> Sanitized(IF journal.tabs # <<>> THEN journal.tabs
                                 ELSE OrderedLegacyTabs(journal.slots, <<>>)),
              phase |-> IF w = Unknown THEN "recovery_failed" ELSE journal.phase]

NoMain == [notes |-> {}, win |-> None, windows |-> {}, journal |-> None]
Flat(state) == [NoMain EXCEPT !.notes = state.notes]

(* toWorkspaceState and the journal beside it, from one area.              *)
StateIn(area) ==
    LET main == IF area.state = None THEN NoMain ELSE area.state
        own == ToSwitchState(area.switch, main)
    IN  [notes |-> main.notes,
         journal |-> IF own # None THEN own ELSE ToSwitchState(main.journal, main)]

HasState(area) == area.state # None \/ area.switch # None

LoadedState == IF HasState(local) \/ ~HasState(remote) THEN StateIn(local) ELSE StateIn(remote)

LoadedWorkspace == WorkspaceSource.value

-----------------------------------------------------------------------------
Empty == [workspaces |-> None, tags |-> None, state |-> None, switch |-> None,
          layouts |-> <<>>, entries |-> <<>>]

(* Two windows that the data does not tell apart are never told apart by   *)
(* the reading: the controller is left to decide, and touches no tab.      *)
NeverGuessed ==
    LET swap(v, w, x) == IF x = v THEN w ELSE IF x = w THEN v ELSE x
        alike(S, v, w) == S = {[e EXCEPT !.win = swap(v, w, @)] : e \in S}
        main == IF local.state = None THEN NoMain ELSE local.state
    IN  local.switch # None =>
          \A v, w \in Windows :
            v # w /\ local.switch.win \notin {v, w} /\ main.win \notin {v, w}
              /\ alike(local.switch.sources, v, w) /\ alike(main.windows, v, w)
            => StateIn(local).journal.win \notin {v, w}

(* What is loaded never holds a tab that is not recordable, and a journal  *)
(* without a window is one whose recovery has failed.                      *)
TypeOK ==
    /\ NeverGuessed
    /\ at \in {"begin", "workspaces", "tags", "state", "switch", "legacy", "open", "failed"}
    /\ LoadedWorkspace # None => ToSet(LoadedWorkspace.tabs) \subseteq Recordable
    /\ LET j == LoadedState.journal
       IN  j # None => ToSet(j.tabs) \subseteq Recordable
                       /\ (j.win = None => j.phase = "recovery_failed")

Init ==
    /\ \E w \in LegacyWorkspaces, s \in LegacyStates, j \in LegacyJournals, under \in {"workspaces", "tags"} :
         LET area == [Empty EXCEPT ![under] = w.raw, !.state = s, !.switch = j]
         IN  \/ local = [area EXCEPT !.layouts = w.layouts, !.entries = w.entries] /\ remote = Empty
             \/ local = Empty /\ remote = area
    /\ at = "begin" /\ read = None /\ said = None
    /\ left = MaxSteps

Disturb == left > 0 /\ left' = left - 1

-----------------------------------------------------------------------------
(* The migration, each storage call a step.  A call that fails ends the    *)
(* startup; only the removal of the old key is allowed to fail.            *)

ReadWorkspaces ==
    /\ at = "begin" /\ at' = "workspaces"
    /\ read' = WorkspaceSource
    /\ UNCHANGED <<local, remote, said, left>>

WriteWorkspaces ==
    /\ at = "workspaces"
    /\ IF read.src = "none"
       THEN at' = "state" /\ UNCHANGED local
       ELSE at' = "tags" /\ local' = [local EXCEPT !.workspaces = read.value]
    /\ UNCHANGED <<remote, read, said, left>>

RemoveTags ==
    /\ at = "tags" /\ at' = "state"
    /\ local' \in {local, IF read.src = "tags" THEN [local EXCEPT !.tags = None] ELSE local}
    /\ UNCHANGED <<remote, read, said, left>>

ReadState ==
    /\ at = "state"
    /\ IF HasState(local) \/ HasState(remote)
       THEN at' = "switch" /\ read' = LoadedState
       ELSE at' = "legacy" /\ read' = None
    /\ UNCHANGED <<local, remote, said, left>>

WriteState_Split ==
    /\ at = "switch" /\ at' = "legacy"
    /\ local' = [local EXCEPT !.state = [NoMain EXCEPT !.notes = read.notes]]
    /\ read' = None
    /\ UNCHANGED <<remote, said, left>>

(* The state and the journal are written by one call.                      *)
WriteState ==
    /\ at = "switch" /\ at' = "legacy"
    /\ local' = [local EXCEPT !.state = [NoMain EXCEPT !.notes = read.notes], !.switch = read.journal]
    /\ read' = None
    /\ UNCHANGED <<remote, said, left>>

RemoveLegacy ==
    /\ at = "legacy" /\ at' = "open"
    /\ local' = [local EXCEPT !.layouts = <<>>, !.entries = <<>>]
    /\ said' = [workspace |-> LoadedWorkspace, state |-> StateIn(local)]
    /\ UNCHANGED <<remote, read, left>>

Fails ==
    /\ at \notin {"open", "failed"}
    /\ Disturb
    /\ at' = "failed" /\ read' = None
    /\ UNCHANGED <<local, remote, said>>

Restart ==
    /\ at # "begin"
    /\ Disturb
    /\ at' = "begin" /\ read' = None
    /\ UNCHANGED <<local, remote, said>>

(* Another browser of the same account, with an older version.             *)
RemoteWrites ==
    /\ Disturb
    /\ \E w \in LegacyWorkspaces, j \in LegacyJournals :
         remote' = [remote EXCEPT !.workspaces = w.raw, !.switch = j]
    /\ UNCHANGED <<local, at, read, said>>

-----------------------------------------------------------------------------
(* The writers, open only once the startup has succeeded.                  *)

SaveWorkspaces ==
    /\ at = "open" /\ local.workspaces # None
    /\ Disturb
    /\ \E t \in Tabs :
         local' = [local EXCEPT !.workspaces = Normalized(
                     [slots |-> <<>>, tabs |-> <<t>>, rev |-> @.rev + 1], <<>>, <<>>)]
    /\ said' = [said EXCEPT !.workspace = local'.workspaces]
    /\ UNCHANGED <<remote, at, read>>

(* A patch reads the state, awaits and writes the state alone.             *)
ReadPatch ==
    /\ at = "open" /\ read = None
    /\ Disturb
    /\ read' = IF local.state = None THEN NoMain ELSE local.state
    /\ UNCHANGED <<local, remote, at, said>>

WritePatch ==
    /\ at = "open" /\ read # None
    /\ \E t \in Tabs :
         /\ local' = [local EXCEPT !.state = [Flat(read) EXCEPT !.notes = @ \cup {t}]]
         /\ said' = [said EXCEPT !.state.notes = @ \cup {t}]
    /\ read' = None
    /\ UNCHANGED <<remote, at, left>>

(* The journal of a switch is written and cleared beside the patches.      *)
SaveSwitchState ==
    /\ at = "open"
    /\ Disturb
    /\ \E w \in Windows, j \in {None, "set"} :
         /\ local' = [local EXCEPT !.switch = IF j = None THEN None
                        ELSE [win |-> w, sources |-> {}, slots |-> <<>>, tabs |-> <<>>, phase |-> "opening"]]
         /\ said' = [said EXCEPT !.state.journal = local'.switch]
    /\ UNCHANGED <<remote, at, read>>

Next == \/ ReadWorkspaces \/ WriteWorkspaces \/ RemoveTags \/ ReadState \/ WriteState
        \/ RemoveLegacy \/ Fails \/ Restart \/ RemoteWrites
        \/ SaveWorkspaces \/ ReadPatch \/ WritePatch \/ SaveSwitchState

Spec == Init /\ [][Next]_vars

-----------------------------------------------------------------------------
(* A migration changes the shape of the data and nothing that is loaded:   *)
(* wherever it is cut off, and however often it is repeated.  Only what    *)
(* another browser writes meanwhile may show, while it is still the source.*)
StepKeepsData ==
    /\ at # "open" /\ (local.workspaces # None \/ local.tags # None)
         => LoadedWorkspace' = LoadedWorkspace
    /\ at # "open" /\ HasState(local) => LoadedState' = LoadedState
MigrationKeepsData == [][StepKeepsData]_vars

(* After the migration what was saved last is what is loaded: a patch does *)
(* not undo the journal a switch writes while it is under way, and what    *)
(* another browser still syncs does not come back.                         *)
SavedIsLoaded ==
    at = "open" => /\ LoadedState = said.state \/ ~HasState(local)
                   /\ local.workspaces # None => LoadedWorkspace = said.workspace
=============================================================================
