---------------------------- MODULE BackupFormat ----------------------------
(***************************************************************************)
(* Backup files (features/backup, backupRestoreModel.ts): what an export   *)
(* writes, what a file of any version is read as, the plan by which it is  *)
(* merged into the store or replaces it, and the store that results.  The  *)
(* transaction that writes the result is RestoreTransaction.               *)
(*                                                                         *)
(* A sanitizer is three operators: when it throws (Bad), what it warns of  *)
(* (Dropped) and what it returns (Clean).  Text is a sequence whose length *)
(* is what the limits bound; a field that is only checked is "ok" or "bad".*)
(***************************************************************************)
EXTENDS Naturals, Sequences, SequencesExt, FiniteSetsExt

CONSTANTS Urls,      \* safe URLs
          MaxTabs, MaxHistory, MaxText,  \* BACKUP_LIMITS, scaled down
          Stores,    \* stores a run begins with
          Foreign,   \* files that other versions or hands have written
          MaxOps

VARIABLES store,  \* [workspaces, notes, links, preview, active, settings, agent]
          files,  \* the files at hand
          did,    \* the last operation, for the properties
          left    \* what is left of MaxOps

vars == <<store, files, did, left>>

Absent == "none"

-----------------------------------------------------------------------------
(* Tabs: [url, pinned, excluded, rest].                                    *)

TabDropped(t) == t.url \in {Absent, "unsafe"}
TabBad(t) == t.url = "long" \/ (t.url \in Urls /\ t.rest = "bad")
CleanTabs(tabs) == SelectSeq(tabs, LAMBDA t : ~TabDropped(t))

Some(s, P(_)) == \E i \in DOMAIN s : P(s[i])
TextBad(x) == Len(x) = 0 \/ Len(x) > MaxText
Repeats(s) == Cardinality(ToSet(s)) < Len(s)
Ids(s) == [i \in DOMAIN s |-> s[i].id]
Sum(s) == FoldLeft(LAMBDA a, n : a + n, 0, s)

(* Legacy windows of a version 1 or 2 file, by order, then by position.    *)
FlattenLegacyWindowSlots(slots) ==
    LET before(i, j) == slots[i].order < slots[j].order
                        \/ (slots[i].order = slots[j].order /\ i < j)
        order == SetToSortSeq(DOMAIN slots, before)
    IN  FlattenSeq([k \in DOMAIN order |-> slots[order[k]].tabs])

RawTabs(raw, source) ==
    IF source \in {"v1", "v2"} /\ raw.slots # <<>>
    THEN FlattenLegacyWindowSlots(raw.slots) ELSE raw.tabs

HistoryTabs(tabs) == SelectSeq(CleanTabs(tabs), LAMBDA t : ~t.pinned /\ ~t.excluded)

HistoryBad(history, source) ==
    \/ Len(history) > MaxHistory
    \/ Repeats(Ids(history))
    \/ Some(history, LAMBDA h : \/ TextBad(h.id) \/ h.at = "bad"
                                \/ source \in {"v2", "v3"} /\ h.kind # "flat-v1"
                                \/ Some(h.tabs, TabBad))

WorkspaceBad(raw, source) ==
    \/ TextBad(raw.id) \/ TextBad(raw.name) \/ raw.meta = "bad"
    \/ source = "v2" /\ raw.slots = <<>>
    \/ Some(RawTabs(raw, source), TabBad)
    \/ HistoryBad(raw.history, source)

CleanWorkspace(raw, source) ==
    [raw EXCEPT !.slots = <<>>, !.rev = 0,
                !.tabs = CleanTabs(RawTabs(raw, source)),
                !.history = [i \in DOMAIN @ |->
                    [@[i] EXCEPT !.kind = "flat-v1", !.tabs = HistoryTabs(@)]]]

TabRecords(raw, source) ==
    Len(RawTabs(raw, source)) + Sum([i \in DOMAIN raw.history |-> Len(raw.history[i].tabs)])

WorkspacesBad(raws, source) ==
    \/ Some(raws, LAMBDA w : WorkspaceBad(w, source))
    \/ Sum([i \in DOMAIN raws |-> TabRecords(raws[i], source)]) > MaxTabs
    \/ Repeats(Ids(raws))

CleanWorkspaces(raws, source) == [i \in DOMAIN raws |-> CleanWorkspace(raws[i], source)]

WorkspacesDropped(raws, source) ==
    Some(raws, LAMBDA w : \/ Some(RawTabs(w, source), TabDropped)
                          \/ RawTabs(w, source) # w.tabs
                          \/ Some(w.history, LAMBDA h : Some(h.tabs, TabDropped)))

-----------------------------------------------------------------------------
(* Contexts: [ws, note, links]; a link is [url, at].                       *)

LinkBad(l) == l.url = "long" \/ (l.url # Absent /\ l.at = "bad")
LinkDropped(links, i) ==
    links[i].url \in {Absent, "unsafe"} \/ \E j \in 1..(i - 1) : links[j].url = links[i].url
CleanLinks(links) ==
    LET kept == SelectSeq([i \in DOMAIN links |-> i], LAMBDA i : ~LinkDropped(links, i))
    IN  [k \in DOMAIN kept |-> links[kept[k]]]
CleanContext(c) == [c EXCEPT !.links = CleanLinks(@)]
ContextBad(c) == Len(c.note) > MaxText \/ Some(c.links, LinkBad)

ContextOf(contexts, id) == contexts[CHOOSE i \in DOMAIN contexts : contexts[i].ws = id]
ContextIds(contexts) == [i \in DOMAIN contexts |-> contexts[i].ws]

(* A version 2 or 3 file has one context for every workspace.  The context *)
(* of no workspace is passed over unread.                                  *)
ContextsBad(contexts, ids) ==
    \/ Repeats(SelectSeq(ContextIds(contexts), LAMBDA id : id \in ids))
    \/ ~ids \subseteq ToSet(ContextIds(contexts))
    \/ Some(contexts, LAMBDA c : c.ws \in ids /\ ContextBad(c))

PayloadBad(p, source) ==
    \/ WorkspacesBad(p.workspaces, source)
    \/ source # "v1" /\ ContextsBad(p.contexts, ToSet(Ids(p.workspaces)))

EmptyContext(id) == [ws |-> id, note |-> <<>>, links |-> <<>>]

CleanPayload(p, source) ==
    [workspaces |-> CleanWorkspaces(p.workspaces, source),
     contexts |-> [i \in DOMAIN p.workspaces |->
        LET id == p.workspaces[i].id
        IN  IF source = "v1" THEN EmptyContext(id)
            ELSE CleanContext(ContextOf(p.contexts, id))],
     settings |-> p.settings]

PayloadDropped(p, source) ==
    \/ WorkspacesDropped(p.workspaces, source)
    \/ Some(p.contexts, LAMBDA c : \/ c.ws \notin ToSet(Ids(p.workspaces))
                                   \/ CleanLinks(c.links) # c.links)

-----------------------------------------------------------------------------
(* Export.                                                                 *)

At(f, id, default) == IF id \in DOMAIN f THEN f[id] ELSE default

(* Every workspace has a context, noted or not; orphans are left behind.   *)
PortableContexts(s) ==
    [i \in DOMAIN s.workspaces |->
        LET id == s.workspaces[i].id
        IN  [ws |-> id, note |-> At(s.notes, id, <<>>), links |-> CleanLinks(At(s.links, id, <<>>))]]

Exportable(s) ==
    /\ ~WorkspacesBad(s.workspaces, "current")
    /\ \A i \in DOMAIN s.workspaces :
         LET id == s.workspaces[i].id
         IN  ~ContextBad([note |-> At(s.notes, id, <<>>), links |-> At(s.links, id, <<>>)])

PortablePayload(s) ==
    [workspaces |-> CleanWorkspaces(s.workspaces, "current"),
     contexts |-> PortableContexts(s), settings |-> s.settings]

(* The digest is over the canonical form of all but itself: a file that    *)
(* was changed is told from one that was not.                              *)
Backup(s) == [schema |-> "tabplex-backup", version |-> 3, intact |-> TRUE, payload |-> PortablePayload(s)]

-----------------------------------------------------------------------------
(* Reading a file.                                                         *)

Source(file) == CASE file.version = 1 -> "v1" [] file.version = 2 -> "v2" [] OTHER -> "v3"

Readable(file) ==
    /\ file.schema = "tabplex-backup" /\ file.version \in 1..3
    /\ file.version # 1 => file.intact
    /\ ~PayloadBad(file.payload, Source(file))

Read(file) == CleanPayload(file.payload, Source(file))

-----------------------------------------------------------------------------
(* The plan.                                                               *)

Suffix(base, k) == Append(SubSeq(base, 1, IF Len(base) < MaxText THEN Len(base) ELSE MaxText - 1), k)

(* Each incoming id or name keeps itself when it is free, else it takes    *)
(* the first suffix that neither is used nor another incoming one.         *)
Unique(incoming, existing) ==
    LET fresh(x, used) ==
          IF x \notin used THEN x
          ELSE Suffix(x, CHOOSE k \in 1..(Len(incoming) + Cardinality(used) + 1) :
                 /\ Suffix(x, k) \notin used \cup ToSet(incoming)
                 /\ \A m \in 1..(k - 1) : Suffix(x, m) \in used \cup ToSet(incoming))
    IN  FoldLeft(LAMBDA done, x : Append(done, fresh(x, existing \cup ToSet(done))), <<>>, incoming)

Names(ws) == [i \in DOMAIN ws |-> ws[i].name]

MappedContexts(incoming, ids) ==
    [i \in DOMAIN incoming.contexts |->
        [incoming.contexts[i] EXCEPT
            !.ws = ids[CHOOSE j \in DOMAIN incoming.workspaces : incoming.workspaces[j].id = @]]]

MergePlan_SameNames(current, incoming, withSettings) ==
    LET ids == Unique(Ids(incoming.workspaces), ToSet(Ids(current.workspaces)))
        mapped == [i \in DOMAIN incoming.workspaces |-> [incoming.workspaces[i] EXCEPT !.id = ids[i]]]
    IN  [mode |-> "merge", settings |-> withSettings,
         payload |-> [workspaces |-> current.workspaces \o mapped,
                      contexts |-> current.contexts \o MappedContexts(incoming, ids),
                      settings |-> IF withSettings THEN incoming.settings ELSE current.settings]]

MergePlan(current, incoming, withSettings) ==
    LET ids == Unique(Ids(incoming.workspaces), ToSet(Ids(current.workspaces)))
        names == Unique(Names(incoming.workspaces), ToSet(Names(current.workspaces)))
        mapped == [i \in DOMAIN incoming.workspaces |->
                     [incoming.workspaces[i] EXCEPT !.id = ids[i], !.name = names[i]]]
    IN  [mode |-> "merge", settings |-> withSettings,
         payload |-> [workspaces |-> current.workspaces \o mapped,
                      contexts |-> current.contexts \o MappedContexts(incoming, ids),
                      settings |-> IF withSettings THEN incoming.settings ELSE current.settings]]

ReplacePlan(current, incoming, withSettings) ==
    [mode |-> "replace", settings |-> withSettings,
     payload |-> [incoming EXCEPT !.settings = IF withSettings THEN @ ELSE current.settings]]

(* A replacement does not read the workspaces that it replaces.            *)
Plannable(mode) == mode = "replace" \/ Exportable(store)

Plan(mode, file, withSettings) ==
    IF mode = "merge" THEN MergePlan(PortablePayload(store), Read(file), withSettings)
    ELSE ReplacePlan([settings |-> store.settings], Read(file), withSettings)

WithinLimits(p) ==
    /\ \A i \in DOMAIN p.workspaces : Len(p.workspaces[i].history) <= MaxHistory
    /\ Sum([i \in DOMAIN p.workspaces |-> TabRecords(p.workspaces[i], "v3")]) <= MaxTabs

(* validatePortablePayload: what is restored reads back as itself.         *)
Valid(p) == ~PayloadBad(p, "v3") /\ ~PayloadDropped(p, "v3") /\ CleanPayload(p, "v3") = p

(* materializeBackupImportPlan.  Every revision begins at 0 again, also    *)
(* those of the workspaces a merge keeps.                                  *)
Materialize(plan, s) ==
    LET p == plan.payload
        merge == plan.mode = "merge"
        ids == ToSet(ContextIds(p.contexts))
        Over(old, field(_)) ==
          [id \in ids \cup (IF merge THEN DOMAIN old ELSE {}) |->
             IF id \in ids THEN field(ContextOf(p.contexts, id)) ELSE old[id]]
    IN  [workspaces |-> p.workspaces,
         notes |-> Over(s.notes, LAMBDA c : c.note),
         links |-> Over(s.links, LAMBDA c : c.links),
         preview |-> IF merge THEN s.preview ELSE {},
         active |-> IF merge THEN s.active ELSE Absent,
         settings |-> p.settings,
         agent |-> merge /\ s.agent]

-----------------------------------------------------------------------------
Init ==
    /\ store \in Stores
    /\ files = Foreign
    /\ did = [op |-> "none", before |-> store]
    /\ left = MaxOps

Export ==
    /\ left > 0 /\ left' = left - 1
    /\ Exportable(store)
    /\ files' = files \cup {Backup(store)}
    /\ did' = [op |-> "export", before |-> store]
    /\ UNCHANGED store

Import(mode, file, withSettings) ==
    /\ left > 0 /\ left' = left - 1
    /\ Readable(file) /\ Plannable(mode)
    /\ LET plan == Plan(mode, file, withSettings)
       IN  /\ WithinLimits(plan.payload) /\ Valid(plan.payload)
           /\ store' = Materialize(plan, store)
           /\ did' = [op |-> mode, before |-> store, file |-> file]
    /\ UNCHANGED files

Next == \/ Export
        \/ \E mode \in {"merge", "replace"}, file \in files, withSettings \in BOOLEAN :
             Import(mode, file, withSettings)

Spec == Init /\ [][Next]_vars

-----------------------------------------------------------------------------
(* What the program itself exports it can read again, without a loss: the  *)
(* store that a replacement by the file makes exports the same file.       *)
ExportRestores ==
    did.op = "export" =>
      LET file == Backup(store)
          restored == Materialize(Plan("replace", file, TRUE), store)
      IN  Readable(file) /\ ~PayloadDropped(file.payload, "v3")
          /\ Exportable(restored) /\ Backup(restored) = file

(* A file that is accepted can be restored: the plan made of it never      *)
(* fails the second validation, within the limits.                         *)
PlansAreValid ==
    \A mode \in {"merge", "replace"}, file \in files :
      Readable(file) /\ Plannable(mode) =>
        LET p == Plan(mode, file, FALSE).payload IN WithinLimits(p) => Valid(p)

(* A merge adds: the workspaces that were there stay first, with their     *)
(* names, tabs, notes and links, and each that comes has its own id, name  *)
(* and context.                                                            *)
MergeAddsOnly ==
    did.op = "merge" =>
      LET old == PortablePayload(did.before)
          new == PortablePayload(store)
          n == Len(old.workspaces)
          came == Read(did.file)
      IN  /\ SubSeq(new.workspaces, 1, n) = old.workspaces
          /\ SubSeq(new.contexts, 1, n) = old.contexts
          /\ ~Repeats(Ids(new.workspaces))
          /\ \A i \in DOMAIN came.workspaces :
               /\ new.workspaces[n + i].tabs = came.workspaces[i].tabs
               /\ new.workspaces[n + i].name \notin ToSet(Names(old.workspaces))
               /\ new.contexts[n + i].note = came.contexts[i].note
               /\ new.contexts[n + i].links = came.contexts[i].links
          /\ \A id \in DOMAIN did.before.notes :
               id \notin ToSet(Ids(new.workspaces)) => store.notes[id] = did.before.notes[id]
=============================================================================
