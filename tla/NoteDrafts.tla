------------------------------ MODULE NoteDrafts ------------------------------
(***************************************************************************)
(* The notes of the workspaces: the editors of the pages (useNoteLogic.ts) *)
(* with their delayed saves, the journal of unsaved drafts in the pages'   *)
(* localStorage (noteDraftJournal.ts), the worker's queue of writes to the *)
(* workspace state, and the removal of what belonged to a workspace that   *)
(* was deleted for good (storageQueues.ts, noteDraftMaintenance.ts).  An   *)
(* editor is one page's: a page opened again is another editor.  A text is *)
(* the number of the edit that typed it, 0 being no note.                  *)
(***************************************************************************)
EXTENDS Naturals, Sequences, SequencesExt

CONSTANTS None, Editors, Workspaces,
          Deletable,  \* workspaces that may be deleted for good
          MaxEdits,   \* texts that are typed or taken over, saves that wait when
                      \* another document is selected
          MaxFaults   \* pages closed, saves that fail and stops of the worker

VARIABLES record,   \* the workspaces there are
          pending,  \* deleted workspaces whose entries are still to be removed
          note,     \* the stored notes
          tomb,     \* workspaces marked as deleted in localStorage
          journal,  \* the draft of every workspace and editor
          queue,    \* tasks of the worker's state queue
          removal,  \* the deletion the worker is at: which and how far
          editor,   \* the state of every editor
          unsaved,  \* the last text an editor typed, until it is stored, or what
                    \* became of it in an editor that had taken it over
          edits, faults

storage == <<record, pending, note>>
drafts == <<tomb, journal>>
counts == <<edits, faults>>
vars == <<record, pending, note, tomb, journal, queue, removal, editor, unsaved, edits, faults>>

Fresh == [open |-> TRUE, selected |-> None, shown |-> 0, draft |-> [w \in Workspaces |-> None],
          dirty |-> {}, timer |-> None, saves |-> <<>>, sent |-> FALSE, seen |-> [w \in Workspaces |-> 0],
          offer |-> None,
          restored |-> [w \in Workspaces |-> None], writes |-> None]

Init ==
    /\ record = Workspaces /\ pending = {} /\ tomb = {}
    /\ note = [w \in Workspaces |-> 0]
    /\ journal = [w \in Workspaces |-> [e \in Editors |-> None]]
    /\ queue = <<>> /\ removal = None
    /\ editor = [e \in Editors |-> Fresh]
    /\ unsaved = [e \in Editors |-> [w \in Workspaces |-> None]]
    /\ edits = 0 /\ faults = 0

----------------------------------------------------------------------------
(* An editor.  Typing checks the mark of a deleted workspace, writes the   *)
(* draft and checks again; the save follows 350 ms after the last key.     *)
Typed(ed, text) ==
    LET w == ed.selected
    IN  [ed EXCEPT !.shown = text, !.draft[w] = text, !.dirty = @ \cup {w}, !.timer = <<w, text>>,
                   !.writes = IF w \in tomb THEN None ELSE <<w, text>>]
Type(e) ==
    /\ edits < MaxEdits /\ edits' = edits + 1
    /\ editor[e].open /\ editor[e].selected # None /\ editor[e].writes = None
    /\ editor' = [editor EXCEPT ![e] = Typed(@, edits + 1)]
    /\ unsaved' = [unsaved EXCEPT ![e][editor[e].selected] = edits + 1]
    /\ UNCHANGED <<storage, drafts, queue, removal, faults>>

PersistDraft_Once(e) ==   \* mutant: the mark is not looked at again
    /\ editor[e].writes # None
    /\ journal' = [journal EXCEPT ![editor[e].writes[1]][e] = editor[e].writes[2]]
    /\ editor' = [editor EXCEPT ![e].writes = None]
    /\ UNCHANGED <<storage, tomb, queue, removal, unsaved, counts>>

PersistDraft(e) ==
    /\ editor[e].writes # None
    /\ LET w == editor[e].writes[1]
       IN  journal' = [journal EXCEPT ![w][e] = IF w \in tomb THEN None ELSE editor[e].writes[2]]
    /\ editor' = [editor EXCEPT ![e].writes = None]
    /\ UNCHANGED <<storage, tomb, queue, removal, unsaved, counts>>

Idle(e) == editor[e].writes = None
TimerEnds(e) ==
    /\ Idle(e) /\ editor[e].timer # None
    /\ editor' = [editor EXCEPT ![e].timer = None, ![e].saves = Append(@, editor[e].timer)]
    /\ UNCHANGED <<storage, drafts, queue, removal, unsaved, counts>>

(* The newest draft another editor has left is offered when a document is  *)
(* shown or its stored note changes; by a click it is taken over as it was. *)
Recoverable(e, w, saved) ==
    LET left == {o \in Editors \ {e} : journal[w][o] \notin {None, saved}}
        newest == {o \in left : \A x \in left : journal[w][x] <= journal[w][o]}
    IN  IF w \in tomb \/ newest = {} THEN None
        ELSE LET o == CHOOSE x \in newest : TRUE IN <<o, journal[w][o]>>
Restore(e) ==
    /\ edits < MaxEdits /\ edits' = edits + 1
    /\ editor[e].open /\ Idle(e) /\ editor[e].offer # None
    /\ LET w == editor[e].selected  o == editor[e].offer[1]  text == editor[e].offer[2]
           ed == [editor[e] EXCEPT !.restored[w] = <<o, text>>, !.offer = None]
       IN  IF text = ed.shown
           THEN editor' = [editor EXCEPT ![e] = ed] /\ UNCHANGED unsaved
           ELSE editor' = [editor EXCEPT ![e] = Typed(ed, text)] /\ unsaved' = [unsaved EXCEPT ![e][w] = text]
    /\ UNCHANGED <<storage, drafts, queue, removal, faults>>

(* Another document is shown.  What was typed in the one before is saved   *)
(* at once, and what is unsaved of the new one is shown again.             *)
Flushed(ed) ==
    LET w == ed.selected
    IN  IF w = None \/ (w \notin ed.dirty /\ ed.timer = None) THEN ed
        ELSE [ed EXCEPT !.draft[w] = ed.shown, !.dirty = @ \cup {w}, !.timer = None,
                        !.saves = Append(@, <<w, ed.shown>>)]
Select(e) ==
    /\ editor[e].open /\ Idle(e) /\ Len(editor[e].saves) <= MaxEdits
    /\ \E w \in Workspaces \ {editor[e].selected} :
         LET ed == Flushed(editor[e])
             text == IF w \in ed.dirty /\ ed.draft[w] # None THEN ed.draft[w] ELSE ed.seen[w]
         IN  editor' = [editor EXCEPT ![e] = [ed EXCEPT !.selected = w, !.timer = None, !.shown = text,
                                              !.offer = Recoverable(e, w, ed.seen[w])]]
    /\ UNCHANGED <<storage, drafts, queue, removal, unsaved, counts>>

(* The page hears of the stored notes; a text being edited is not replaced.*)
Shown_Always(ed) == ed.selected # None   \* mutant: whatever is being edited

Shown(ed) == ed.selected # None /\ ed.timer = None /\ ed.selected \notin ed.dirty
See(e) ==
    /\ editor[e].open /\ Idle(e) /\ editor[e].seen # note
    /\ LET ed == editor[e]  w == ed.selected
       IN  editor' = [editor EXCEPT ![e].seen = note, ![e].shown = IF Shown(ed) THEN note[w] ELSE @,
                        ![e].offer = IF w = None \/ ed.seen[w] = note[w] THEN @ ELSE Recoverable(e, w, note[w])]
    /\ UNCHANGED <<storage, drafts, queue, removal, unsaved, counts>>

(* The editor is taken off the page: everything that is dirty is saved.    *)
Leave(e) ==
    /\ editor[e].open /\ Idle(e)
    /\ LET ed == [editor[e] EXCEPT !.timer = None]
           w == ed.selected
           last == IF w = None \/ (w \notin ed.dirty /\ editor[e].timer = None) THEN ed
                   ELSE [ed EXCEPT !.draft[w] = ed.shown, !.dirty = @ \cup {w}]
           texts == {<<x, last.draft[x]>> : x \in {y \in last.dirty : last.draft[y] # None}}
       IN  editor' = [editor EXCEPT ![e] = [last EXCEPT !.open = FALSE, !.selected = None,
                                              !.saves = @ \o SetToSeq(texts)]]
    /\ UNCHANGED <<storage, drafts, queue, removal, unsaved, counts>>
(* The page goes away with what it had in memory.                          *)
Vanish(e) ==
    /\ Idle(e) /\ (editor[e].open \/ editor[e].saves # <<>>)
    /\ faults < MaxFaults /\ faults' = faults + 1
    /\ editor' = [editor EXCEPT ![e] = [Fresh EXCEPT !.open = FALSE]]
    /\ UNCHANGED <<storage, drafts, queue, removal, unsaved, edits>>

----------------------------------------------------------------------------
(* A save: the editor sends one at a time, the worker checks that the      *)
(* workspace exists and stores the note, and the editor hears of it.       *)
Send(e) ==
    /\ Idle(e) /\ editor[e].saves # <<>> /\ ~editor[e].sent
    /\ editor' = [editor EXCEPT ![e].sent = TRUE]
    /\ LET save == Head(editor[e].saves)
       IN  queue' = Append(queue, [kind |-> "note", of |-> e, at |-> save[1], text |-> save[2], checked |-> FALSE])
    /\ UNCHANGED <<storage, drafts, removal, unsaved, counts>>

(* The draft goes with the save unless there is a newer text; a recovered  *)
(* one goes from the journal of its own editor, if it is still that text.  *)
Cleared(w, o, text) == [journal EXCEPT ![w][o] = IF @ = text THEN None ELSE @]
IsLatest(e, w, text) == editor[e].draft[w] \in {None, text}
Saved(e, w, text, stored) ==
    LET ed == [editor[e] EXCEPT !.saves = Tail(@), !.sent = FALSE]
        r == ed.restored[w]
    IN  IF ~stored \/ ~IsLatest(e, w, text)
        THEN editor' = [editor EXCEPT ![e] = ed] /\ UNCHANGED journal
        ELSE /\ editor' = [editor EXCEPT ![e] = [ed EXCEPT !.dirty = @ \ {w}, !.draft[w] = None, !.restored[w] = None,
                             !.shown = IF ed.selected = w THEN text ELSE @]]
             /\ journal' = LET own == Cleared(w, e, text)
                           IN  IF r = None THEN own
                               ELSE [own EXCEPT ![w][r[1]] = Cleared(w, r[1], r[2])[w][r[1]]]
Answered(e, task, stored) ==
    IF editor[e].sent THEN Saved(e, task.at, task.text, stored) ELSE UNCHANGED <<editor, journal>>

CheckNote ==
    /\ queue # <<>> /\ Head(queue).kind = "note" /\ ~Head(queue).checked
    /\ Idle(Head(queue).of)
    /\ \/ /\ Head(queue).at \in record
          /\ queue' = <<[Head(queue) EXCEPT !.checked = TRUE]>> \o Tail(queue)
          /\ UNCHANGED <<journal, editor>>
       \/ /\ Head(queue).at \notin record
          /\ queue' = Tail(queue) /\ Answered(Head(queue).of, Head(queue), FALSE)
    /\ UNCHANGED <<storage, tomb, removal, unsaved, counts>>
(* What an editor has taken over is stored with the latest it made of it.  *)
BecameOf(t, e, text) ==
    /\ editor[t.of].sent /\ IsLatest(t.of, t.at, t.text)
    /\ editor[t.of].restored[t.at] = <<e, text>>
SaveNote ==
    /\ queue # <<>> /\ Head(queue).kind = "note" /\ Head(queue).checked /\ Idle(Head(queue).of)
    /\ LET t == Head(queue)
       IN  /\ note' = [note EXCEPT ![t.at] = t.text]
           /\ unsaved' = [e \in Editors |-> [unsaved[e] EXCEPT ![t.at] =
                             IF @ = t.text \/ BecameOf(t, e, @) THEN None ELSE @]]
           /\ Answered(t.of, t, TRUE)
    /\ queue' = Tail(queue)
    /\ UNCHANGED <<record, pending, tomb, removal, counts>>
SaveFails ==
    /\ queue # <<>> /\ Head(queue).kind = "note" /\ Idle(Head(queue).of)
    /\ faults < MaxFaults /\ faults' = faults + 1
    /\ queue' = Tail(queue) /\ Answered(Head(queue).of, Head(queue), FALSE)
    /\ UNCHANGED <<storage, tomb, removal, unsaved, edits>>

----------------------------------------------------------------------------
(* A workspace is deleted for good: its entries are noted as to be removed *)
(* before its record goes, and are taken off that list last of all.        *)
Delete(w) ==
    /\ removal = None /\ w \in record \cap Deletable
    /\ pending' = pending \cup {w}
    /\ removal' = [of |-> w, at |-> "noted"]
    /\ UNCHANGED <<record, note, drafts, queue, editor, unsaved, counts>>
At(step) == removal # None /\ removal.at = step
DeleteRecord ==
    /\ At("noted")
    /\ record' = record \ {removal.of}
    /\ removal' = [removal EXCEPT !.at = "gone"]
    /\ UNCHANGED <<pending, note, drafts, queue, editor, unsaved, counts>>
RemoveEntries ==
    /\ At("gone") /\ removal' = [removal EXCEPT !.at = "queued"]
    /\ queue' = Append(queue, [kind |-> "remove", at |-> removal.of, marked |-> FALSE])
    /\ UNCHANGED <<storage, drafts, editor, unsaved, counts>>
RemoveDrafts ==
    /\ queue # <<>> /\ Head(queue).kind = "remove" /\ ~Head(queue).marked
    /\ tomb' = tomb \cup {Head(queue).at}
    /\ journal' = [journal EXCEPT ![Head(queue).at] = [e \in Editors |-> None]]
    /\ queue' = <<[Head(queue) EXCEPT !.marked = TRUE]>> \o Tail(queue)
    /\ UNCHANGED <<storage, removal, editor, unsaved, counts>>
RemoveState ==
    /\ queue # <<>> /\ Head(queue).kind = "remove" /\ Head(queue).marked
    /\ note' = [note EXCEPT ![Head(queue).at] = 0]
    /\ queue' = Tail(queue)
    /\ removal' = [removal EXCEPT !.at = "removed"]
    /\ UNCHANGED <<record, pending, drafts, editor, unsaved, counts>>
RemoveEnds ==
    /\ At("removed") /\ removal' = None /\ pending' = pending \ {removal.of}
    /\ UNCHANGED <<record, note, drafts, queue, editor, unsaved, counts>>
(* The maintenance document fails or the write does: the entries stay on   *)
(* the list, for the next start or the next emptying of the trash.         *)
RemoveFails ==
    /\ queue # <<>> /\ Head(queue).kind = "remove"
    /\ faults < MaxFaults /\ faults' = faults + 1
    /\ queue' = Tail(queue) /\ removal' = None
    /\ UNCHANGED <<storage, drafts, editor, unsaved, edits>>

(* The worker stops; an editor waiting for it hears of a failure.  A start *)
(* takes up what is pending of the workspaces that are no more.            *)
Stop ==
    /\ faults < MaxFaults /\ faults' = faults + 1
    /\ queue' = <<>> /\ removal' = None
    /\ editor' = [e \in Editors |-> IF editor[e].sent THEN [editor[e] EXCEPT !.saves = Tail(@), !.sent = FALSE] ELSE editor[e]]
    /\ UNCHANGED <<storage, drafts, unsaved, edits>>
Retry_StillThere ==   \* mutant: the filter the wrong way round
    /\ removal = None
    /\ \E w \in pending \cap record : removal' = [of |-> w, at |-> "gone"]
    /\ UNCHANGED <<storage, drafts, queue, editor, unsaved, counts>>

Retry ==
    /\ removal = None
    /\ \E w \in pending \ record : removal' = [of |-> w, at |-> "gone"]
    /\ UNCHANGED <<storage, drafts, queue, editor, unsaved, counts>>

\* What the queue of the state does next, and what the removal does.
Serve == CheckNote \/ SaveNote \/ RemoveDrafts \/ RemoveState
RemoveStep == DeleteRecord \/ RemoveEntries \/ RemoveEnds

Next ==
    \/ \E e \in Editors :
         \/ Type(e) \/ PersistDraft(e) \/ TimerEnds(e) \/ Select(e) \/ See(e)
         \/ Leave(e) \/ Vanish(e) \/ Send(e) \/ Restore(e)
    \/ Serve \/ SaveFails
    \/ \E w \in Workspaces : Delete(w)
    \/ RemoveStep \/ RemoveFails
    \/ Stop \/ Retry

(* The worker serves its queue and takes up what is pending, saves are     *)
(* sent and timers end.                                                    *)
Fairness ==
    /\ \A e \in Editors : WF_vars(PersistDraft(e)) /\ WF_vars(TimerEnds(e)) /\ WF_vars(Send(e))
    /\ WF_vars(Serve) /\ WF_vars(RemoveStep) /\ WF_vars(Retry)

Spec == Init /\ [][Next]_vars /\ Fairness

----------------------------------------------------------------------------
(* A text that is not stored yet is in the journal, whatever happens to    *)
(* the page, the save and the worker (noteDraftJournal.ts 31-94), unless   *)
(* its workspace has been deleted.                                         *)
TypedIsKept ==
    \A e \in Editors, w \in Workspaces :
      unsaved[e][w] # None /\ w \notin tomb /\ Idle(e) => journal[w][e] = unsaved[e][w]

(* What a deleted workspace leaves behind is on the list of what is to be  *)
(* removed, so a stop between two steps forgets nothing                    *)
(* (storageQueues.ts 56-76 and 176-215).                                   *)
LeftoversArePending ==
    \A w \in Workspaces \ record :
      (\/ note[w] # 0
       \/ \E e \in Editors : journal[w][e] # None) => w \in pending

(* Nothing typed is lost, and nothing of a deleted workspace is left       *)
(* unknown (noteDraftJournal.ts, storageQueues.ts).                        *)
DraftsAreKept == TypedIsKept /\ LeftoversArePending

(* A text the user is editing is not replaced by one that is stored        *)
(* meanwhile (useNoteLogic.ts 223-249).                                    *)
EditedStaysShown ==
    [][\A e \in Editors :
         LET w == editor[e].selected
         IN  /\ w # None /\ editor'[e].selected = w
             /\ unsaved[e][w] = editor[e].shown /\ unsaved'[e] = unsaved[e]
             => editor'[e].shown = editor[e].shown]_vars

(* A deleted workspace is removed with all it had (storageQueues.ts 67-76).*)
AllRemoved == pending \subseteq record
DeletedIsRemoved == []<>AllRemoved
=============================================================================
