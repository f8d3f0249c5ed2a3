------------------------- MODULE NoteDrafts_proofs -------------------------
(***************************************************************************)
(* What was typed is kept, what is edited is not replaced, and what is     *)
(* left of a deleted workspace stays on the list of removals, for every    *)
(* number of editors, workspaces, texts, failures and restarts.            *)
(***************************************************************************)
EXTENDS NoteDrafts, FiniteSetTheorems, SequenceTheorems, TLAPS

Saves == Workspaces \X Nat
Drafts == Editors \X Nat
OrNone(S) == S \cup {None}

Eds == [open : BOOLEAN, selected : OrNone(Workspaces), shown : Nat,
        draft : [Workspaces -> OrNone(Nat)], dirty : SUBSET Workspaces, timer : OrNone(Saves),
        saves : Seq(Saves), sent : BOOLEAN, seen : [Workspaces -> Nat], offer : OrNone(Drafts),
        restored : [Workspaces -> OrNone(Drafts)], writes : OrNone(Saves)]
NoteTasks == [kind : {"note"}, of : Editors, at : Workspaces, text : Nat, checked : BOOLEAN]
RemoveTasks == [kind : {"remove"}, at : Workspaces, marked : BOOLEAN]
Tasks == NoteTasks \cup RemoveTasks
Removals == [of : Workspaces, at : {"noted", "gone", "queued", "removed"}]

(* No workspace, text, draft or removal is taken for none at all.           *)
NoneIsApart ==
    /\ None \notin Workspaces /\ None \notin Nat /\ None \notin Saves
    /\ None \notin Drafts /\ None \notin Removals

TypeOK ==
    /\ record \subseteq Workspaces /\ pending \subseteq Workspaces /\ tomb \subseteq Workspaces
    /\ note \in [Workspaces -> Nat]
    /\ journal \in [Workspaces -> [Editors -> OrNone(Nat)]]
    /\ queue \in Seq(Tasks) /\ removal \in OrNone(Removals)
    /\ editor \in [Editors -> Eds]
    /\ unsaved \in [Editors -> [Workspaces -> OrNone(Nat)]]
    /\ edits \in Nat

(* An editor waits for the answer to a save it has, has few dirty documents *)
(* and shows one when it is offered a draft.                                *)
Sane(ed) ==
    /\ ed.sent => ed.saves # <<>>
    /\ IsFiniteSet(ed.dirty)
    /\ ~ed.open => ed.selected = None
    /\ ed.open /\ ed.offer # None => ed.selected # None

(* What is unsaved is dirty, is the draft of its document, and is shown     *)
(* when that is.                                                            *)
Follows(ed, mine) ==
    ed.open => \A w \in Workspaces : mine[w] # None =>
      /\ w \in ed.dirty /\ ed.draft[w] = mine[w]
      /\ ed.selected = w => ed.shown = mine[w]

EditorsFollow == \A e \in Editors : Sane(editor[e]) /\ Follows(editor[e], unsaved[e])

Types == TypeOK /\ EditorsFollow

----------------------------------------------------------------------------
(* Editors.                                                                 *)
LEMMA SequenceOfSet ==
    ASSUME NEW S, IsFiniteSet(S)
    PROVE  SetToSeq(S) \in Seq(S)
<1>1. Cardinality(S) \in Nat /\ \E f : f \in Bijection(1..Cardinality(S), S)
  BY FS_CardinalityType DEF ExistsBijection
<1>2. \E f \in [1..Cardinality(S) -> S] : IsInjective(f)
  BY <1>1 DEF Bijection, Injection
<1>3. SetToSeq(S) \in [1..Cardinality(S) -> S]
  BY <1>2 DEF SetToSeq
<1> QED BY <1>1, <1>3, SeqDef

LEMMA SequencesOfSaves ==
    ASSUME NEW s \in Seq(Saves)
    PROVE  /\ \A x \in Saves : Append(s, x) \in Seq(Saves) /\ Append(s, x) # <<>>
           /\ \A t \in Seq(Saves) : s \o t \in Seq(Saves) /\ (s # <<>> => s \o t # <<>>)
           /\ s # <<>> => Head(s) \in Saves /\ Tail(s) \in Seq(Saves)
<1>1. \A x \in Saves : Append(s, x) \in Seq(Saves) /\ Append(s, x) # <<>>
  BY AppendProperties
<1>2. ASSUME NEW t \in Seq(Saves) PROVE s \o t \in Seq(Saves) /\ (s # <<>> => s \o t # <<>>)
  <2>1. s \o t \in Seq(Saves) /\ Len(s \o t) = Len(s) + Len(t)
    OBVIOUS
  <2>2. s # <<>> => Len(s) # 0
    OBVIOUS
  <2> QED BY <2>1, <2>2
<1>3. s # <<>> => Head(s) \in Saves /\ Tail(s) \in Seq(Saves)
  OBVIOUS
<1> QED BY <1>1, <1>2, <1>3

LEMMA FreshType ==
    ASSUME NoneIsApart
    PROVE  /\ Fresh \in Eds /\ Sane(Fresh) /\ \A mine : (\A w \in Workspaces : mine[w] = None) => Follows(Fresh, mine)
           /\ [Fresh EXCEPT !.open = FALSE] \in Eds /\ Sane([Fresh EXCEPT !.open = FALSE])
           /\ \A mine : Follows([Fresh EXCEPT !.open = FALSE], mine)
<1>1. /\ Fresh \in Eds /\ Fresh.dirty = {} /\ Fresh.sent = FALSE /\ Fresh.open
      /\ Fresh.selected = None /\ Fresh.offer = None
  BY DEF Fresh, Eds, OrNone
<1>2. ASSUME NEW ed \in Eds
      PROVE  LET closed == [ed EXCEPT !.open = FALSE]
             IN  /\ closed \in Eds /\ ~closed.open /\ closed.dirty = ed.dirty /\ closed.sent = ed.sent
                 /\ closed.selected = ed.selected
  BY DEF Eds
<1>3. Sane(Fresh) /\ Sane([Fresh EXCEPT !.open = FALSE])
  BY <1>1, <1>2, FS_EmptySet DEF Sane
<1>4. /\ \A mine : (\A w \in Workspaces : mine[w] = None) => Follows(Fresh, mine)
      /\ \A mine : Follows([Fresh EXCEPT !.open = FALSE], mine)
  BY <1>1, <1>2 DEF Follows
<1> QED BY <1>1, <1>2, <1>3, <1>4

LEMMA InitTypes == NoneIsApart /\ Init => Types
<1> SUFFICES ASSUME NoneIsApart, Init PROVE Types
  OBVIOUS
<1>1. TypeOK
  BY FreshType DEF Init, TypeOK, OrNone
<1>2. EditorsFollow
  BY FreshType DEF Init, EditorsFollow
<1> QED BY <1>1, <1>2 DEF Types

(* One editor changes and with it what is unsaved in it.                    *)
LEMMA OneEditor ==
    ASSUME Types, NEW e \in Editors, NEW ed \in Eds, NEW mine \in [Workspaces -> OrNone(Nat)],
           Sane(ed), Follows(ed, mine),
           editor' = [editor EXCEPT ![e] = ed], unsaved' = [unsaved EXCEPT ![e] = mine],
           UNCHANGED <<storage, tomb, removal>>, edits' \in Nat,
           journal' \in [Workspaces -> [Editors -> OrNone(Nat)]], queue' \in Seq(Tasks)
    PROVE  Types'
<1>1. TypeOK'
  BY DEF Types, TypeOK, storage
<1>2. EditorsFollow'
  BY DEF Types, TypeOK, EditorsFollow
<1> QED BY <1>1, <1>2 DEF Types

(* An editor changes and nothing else does.                                 *)
LEMMA EditorAlone ==
    ASSUME Types, NEW e \in Editors, NEW ed \in Eds, Sane(ed), Follows(ed, unsaved[e]),
           editor' = [editor EXCEPT ![e] = ed],
           UNCHANGED <<storage, drafts, queue, removal, unsaved, edits>>
    PROVE  Types'
<1>1. unsaved' = [unsaved EXCEPT ![e] = unsaved[e]] /\ unsaved[e] \in [Workspaces -> OrNone(Nat)]
  BY DEF Types, TypeOK
<1> QED BY <1>1, OneEditor DEF Types, TypeOK, drafts

LEMMA EditorFacts ==
    ASSUME Types, NEW e \in Editors
    PROVE  editor[e] \in Eds /\ Sane(editor[e]) /\ Follows(editor[e], unsaved[e])
           /\ unsaved[e] \in [Workspaces -> OrNone(Nat)]
BY DEF Types, TypeOK, EditorsFollow

(* A text is typed: whatever was shown, the text is now.                    *)
LEMMA TypedIsUnsaved ==
    ASSUME NoneIsApart, NEW ed \in Eds, NEW text \in Nat, NEW w \in Workspaces, ed.selected = w, Sane(ed),
           NEW mine \in [Workspaces -> OrNone(Nat)], Follows(ed, mine)
    PROVE  /\ Typed(ed, text) \in Eds /\ Sane(Typed(ed, text))
           /\ Follows(Typed(ed, text), [mine EXCEPT ![w] = text])
           /\ Typed(ed, text).writes = IF w \in tomb THEN None ELSE <<w, text>>
<1>1. /\ Typed(ed, text) \in Eds
      /\ Typed(ed, text).shown = text /\ Typed(ed, text).dirty = ed.dirty \cup {w}
      /\ Typed(ed, text).draft = [ed.draft EXCEPT ![w] = text]
      /\ Typed(ed, text).open = ed.open /\ Typed(ed, text).selected = w
      /\ Typed(ed, text).sent = ed.sent /\ Typed(ed, text).saves = ed.saves
      /\ Typed(ed, text).offer = ed.offer
      /\ Typed(ed, text).writes = IF w \in tomb THEN None ELSE <<w, text>>
  BY DEF Typed, Eds, OrNone, Saves
<1>2. Sane(Typed(ed, text))
  BY <1>1, FS_AddElement DEF Sane, NoneIsApart
<1>3. Follows(Typed(ed, text), [mine EXCEPT ![w] = text])
  BY <1>1 DEF Follows, Eds
<1> QED BY <1>1, <1>2, <1>3

(* Typing, and taking over what another editor has left.                    *)
LEMMA TypingTypes ==
    ASSUME NoneIsApart, Types, NEW e \in Editors, Type(e) \/ Restore(e)
    PROVE  Types'
<1>1. editor[e] \in Eds /\ Sane(editor[e]) /\ Follows(editor[e], unsaved[e]) /\ editor[e].open
      /\ unsaved[e] \in [Workspaces -> OrNone(Nat)] /\ edits \in Nat /\ edits' = edits + 1
  BY EditorFacts DEF Type, Restore, Types, TypeOK
<1>2. UNCHANGED <<storage, drafts, queue, removal>>
  BY DEF Type, Restore
<1>2a. /\ UNCHANGED <<storage, tomb, removal>> /\ edits' \in Nat
      /\ journal' \in [Workspaces -> [Editors -> OrNone(Nat)]] /\ queue' \in Seq(Tasks)
  BY <1>1, <1>2 DEF drafts, Types, TypeOK
<1>3. CASE Type(e)
  <2>1. PICK w \in Workspaces : editor[e].selected = w
    BY <1>1, <1>3 DEF Type, Eds, OrNone
  <2>2. editor' = [editor EXCEPT ![e] = Typed(editor[e], edits + 1)]
    BY <1>3 DEF Type
  <2>3. unsaved' = [unsaved EXCEPT ![e] = [unsaved[e] EXCEPT ![w] = edits + 1]]
    BY <1>3, <2>1 DEF Type, Types, TypeOK
  <2>4. [unsaved[e] EXCEPT ![w] = edits + 1] \in [Workspaces -> OrNone(Nat)]
    BY <1>1, <2>1 DEF OrNone
  <2>5. /\ Typed(editor[e], edits + 1) \in Eds /\ Sane(Typed(editor[e], edits + 1))
        /\ Follows(Typed(editor[e], edits + 1), [unsaved[e] EXCEPT ![w] = edits + 1])
    <3>1. edits + 1 \in Nat
      BY <1>1
    <3> DEFINE text == edits + 1
    <3> HIDE DEF text
    <3>2. text \in Nat
      BY <3>1 DEF text
    <3>3. /\ Typed(editor[e], text) \in Eds /\ Sane(Typed(editor[e], text))
          /\ Follows(Typed(editor[e], text), [unsaved[e] EXCEPT ![w] = text])
      BY <1>1, <2>1, <3>2, TypedIsUnsaved
    <3> QED BY <3>3 DEF text
  <2> QED BY <1>2a, <2>2, <2>3, <2>4, <2>5, OneEditor
<1>4. CASE Restore(e)
  <2> DEFINE w == editor[e].selected
             o == editor[e].offer[1]
             text == editor[e].offer[2]
             ed == [editor[e] EXCEPT !.restored[w] = <<o, text>>, !.offer = None]
  <2>1. w \in Workspaces /\ editor[e].offer \in Drafts
    BY <1>1, <1>4 DEF Restore, Eds, OrNone, Sane
  <2>2. o \in Editors /\ text \in Nat /\ <<o, text>> \in Drafts
    BY <2>1 DEF Drafts
  <2>3. /\ ed \in Eds /\ ed.selected = w /\ ed.open /\ ed.sent = editor[e].sent /\ ed.saves = editor[e].saves
        /\ ed.dirty = editor[e].dirty /\ ed.draft = editor[e].draft /\ ed.shown = editor[e].shown
        /\ ed.offer = None
    BY <1>1, <2>1, <2>2 DEF Eds, OrNone
  <2>4. Sane(ed) /\ Follows(ed, unsaved[e])
    BY <1>1, <2>3 DEF Sane, Follows
  <2>5. CASE editor' = [editor EXCEPT ![e] = ed] /\ UNCHANGED unsaved
    <3>1. unsaved' = [unsaved EXCEPT ![e] = unsaved[e]] /\ editor' = [editor EXCEPT ![e] = ed]
      BY <2>5 DEF Types, TypeOK
    <3> HIDE DEF ed
    <3> QED BY <1>1, <1>2a, <2>3, <2>4, <3>1, OneEditor
  <2>6. CASE editor' = [editor EXCEPT ![e] = Typed(ed, text)] /\ unsaved' = [unsaved EXCEPT ![e][w] = text]
    <3>1. unsaved' = [unsaved EXCEPT ![e] = [unsaved[e] EXCEPT ![w] = text]]
          /\ [unsaved[e] EXCEPT ![w] = text] \in [Workspaces -> OrNone(Nat)]
      BY <1>1, <2>1, <2>2, <2>6 DEF Types, TypeOK, OrNone
    <3>2. /\ Typed(ed, text) \in Eds /\ Sane(Typed(ed, text))
          /\ Follows(Typed(ed, text), [unsaved[e] EXCEPT ![w] = text])
      BY <1>1, <2>1, <2>2, <2>3, <2>4, TypedIsUnsaved
    <3>3. editor' = [editor EXCEPT ![e] = Typed(ed, text)]
      BY <2>6
    <3> HIDE DEF ed, text, w
    <3> QED BY <1>2a, <3>1, <3>2, <3>3, OneEditor
  <2> QED BY <1>4, <2>5, <2>6 DEF Restore
<1> QED BY <1>3, <1>4

(* The rest of the callbacks of an editor.                                  *)
LEMMA CallbackTypes ==
    ASSUME NoneIsApart, Types, NEW e \in Editors, PersistDraft(e) \/ TimerEnds(e) \/ Send(e) \/ Vanish(e)
    PROVE  Types'
<1>1. editor[e] \in Eds /\ Sane(editor[e]) /\ Follows(editor[e], unsaved[e])
      /\ unsaved[e] \in [Workspaces -> OrNone(Nat)] /\ edits \in Nat
  BY EditorFacts DEF Types, TypeOK
<1>2. CASE PersistDraft(e)
  <2>1. editor[e].writes \in Saves
    BY <1>1, <1>2 DEF PersistDraft, Eds, OrNone
  <2>2. journal' \in [Workspaces -> [Editors -> OrNone(Nat)]]
    BY <1>2, <2>1 DEF PersistDraft, Types, TypeOK, OrNone, Saves
  <2> DEFINE ed == [editor[e] EXCEPT !.writes = None]
  <2>3. ed \in Eds /\ Sane(ed) /\ Follows(ed, unsaved[e])
    BY <1>1 DEF Eds, OrNone, Sane, Follows
  <2>4. editor' = [editor EXCEPT ![e] = ed] /\ unsaved' = [unsaved EXCEPT ![e] = unsaved[e]]
    BY <1>2 DEF PersistDraft, Types, TypeOK
  <2> HIDE DEF ed
  <2> QED BY <1>1, <1>2, <2>2, <2>3, <2>4, OneEditor DEF PersistDraft, Types, TypeOK, counts
<1>3. CASE TimerEnds(e)
  <2> DEFINE ed == [editor[e] EXCEPT !.timer = None, !.saves = Append(@, editor[e].timer)]
  <2>1. editor[e].timer \in Saves
    BY <1>1, <1>3 DEF TimerEnds, Eds, OrNone
  <2>4. Append(editor[e].saves, editor[e].timer) \in Seq(Saves) /\ Append(editor[e].saves, editor[e].timer) # <<>>
    BY <1>1, <2>1, SequencesOfSaves DEF Eds
  <2>5. /\ ed \in Eds /\ ed.saves # <<>> /\ ed.sent = editor[e].sent /\ ed.open = editor[e].open
        /\ ed.selected = editor[e].selected /\ ed.dirty = editor[e].dirty /\ ed.draft = editor[e].draft
        /\ ed.shown = editor[e].shown /\ ed.offer = editor[e].offer
    BY <1>1, <2>4 DEF Eds, OrNone
  <2>3. editor' = [editor EXCEPT ![e] = ed]
    BY <1>3 DEF TimerEnds
  <2> HIDE DEF ed
  <2>2. Sane(ed) /\ Follows(ed, unsaved[e])
    BY <1>1, <2>5 DEF Sane, Follows
  <2> QED BY <1>3, <2>2, <2>3, <2>5, EditorAlone DEF TimerEnds, counts
<1>4. CASE Send(e)
  <2> DEFINE ed == [editor[e] EXCEPT !.sent = TRUE]
             save == Head(editor[e].saves)
  <2>1. ed \in Eds /\ Sane(ed) /\ Follows(ed, unsaved[e])
    BY <1>1, <1>4 DEF Send, Eds, Sane, Follows
  <2>2. save \in Saves
    BY <1>1, <1>4 DEF Send, Eds
  <2>3. [kind |-> "note", of |-> e, at |-> save[1], text |-> save[2], checked |-> FALSE] \in Tasks
    BY <2>2 DEF Tasks, NoteTasks, Saves
  <2>4. queue' \in Seq(Tasks)
    BY <1>4, <2>3 DEF Send, Types, TypeOK
  <2>5. editor' = [editor EXCEPT ![e] = ed] /\ unsaved' = [unsaved EXCEPT ![e] = unsaved[e]]
    BY <1>4 DEF Send, Types, TypeOK
  <2> HIDE DEF ed
  <2> QED BY <1>1, <1>4, <2>1, <2>4, <2>5, OneEditor DEF Send, Types, TypeOK, counts, drafts
<1>5. CASE Vanish(e)
  BY <1>5, FreshType, EditorAlone DEF Vanish
<1> QED BY <1>2, <1>3, <1>4, <1>5

(* Another document is selected, stored notes are heard of, the page left.  *)
LEMMA OfferType ==
    ASSUME TypeOK, NEW e, NEW w \in Workspaces, NEW saved
    PROVE  Recoverable(e, w, saved) \in OrNone(Drafts)
<1> DEFINE left == {o \in Editors \ {e} : journal[w][o] \notin {None, saved}}
           newest == {o \in left : \A x \in left : journal[w][x] <= journal[w][o]}
<1>1. \A o \in newest : <<o, journal[w][o]>> \in Drafts
  BY DEF TypeOK, Drafts, OrNone
<1>2. newest # {} => (CHOOSE x \in newest : TRUE) \in newest
  OBVIOUS
<1> HIDE DEF newest
<1>3. Recoverable(e, w, saved) = IF w \in tomb \/ newest = {} THEN None
        ELSE <<CHOOSE x \in newest : TRUE, journal[w][CHOOSE x \in newest : TRUE]>>
  BY DEF Recoverable, newest
<1> QED BY <1>1, <1>2, <1>3 DEF OrNone

LEMMA FlushedType ==
    ASSUME NoneIsApart, NEW ed \in Eds, Sane(ed), NEW mine, Follows(ed, mine)
    PROVE  LET f == Flushed(ed)
           IN  f \in Eds /\ Sane(f) /\ Follows(f, mine) /\ f.open = ed.open /\ f.selected = ed.selected
<1>1. CASE Flushed(ed) = ed
  BY <1>1
<1>2. CASE Flushed(ed) # ed
  <2> DEFINE w == ed.selected
             f == [ed EXCEPT !.draft[w] = ed.shown, !.dirty = @ \cup {w}, !.timer = None,
                             !.saves = Append(@, <<w, ed.shown>>)]
  <2>1. w \in Workspaces /\ Flushed(ed) = f
    BY <1>2 DEF Flushed, Eds, OrNone
  <2>2. <<w, ed.shown>> \in Saves
    BY <2>1 DEF Saves, Eds
  <2>2a. Append(ed.saves, <<w, ed.shown>>) \in Seq(Saves) /\ Append(ed.saves, <<w, ed.shown>>) # <<>>
    BY <2>2, SequencesOfSaves DEF Eds
  <2>3. /\ f \in Eds /\ f.dirty = ed.dirty \cup {w} /\ f.draft = [ed.draft EXCEPT ![w] = ed.shown]
        /\ f.saves = Append(ed.saves, <<w, ed.shown>>) /\ f.sent = ed.sent /\ f.open = ed.open
        /\ f.selected = w /\ f.shown = ed.shown /\ f.offer = ed.offer
    BY <2>1, <2>2a DEF Eds, OrNone
  <2>4. f.saves # <<>>
    BY <2>2a, <2>3
  <2>5. Sane(f)
    BY <2>3, <2>4, FS_AddElement DEF Sane
  <2>6. Follows(f, mine)
    BY <2>1, <2>3 DEF Follows, Eds
  <2> QED BY <2>1, <2>3, <2>5, <2>6
<1> QED BY <1>1, <1>2

LEMMA SelectTypes ==
    ASSUME NoneIsApart, Types, NEW e \in Editors, Select(e)
    PROVE  Types'
<1>1. PICK w \in Workspaces \ {editor[e].selected} :
        LET ed == Flushed(editor[e])
            text == IF w \in ed.dirty /\ ed.draft[w] # None THEN ed.draft[w] ELSE ed.seen[w]
        IN  editor' = [editor EXCEPT ![e] = [ed EXCEPT !.selected = w, !.timer = None, !.shown = text,
                                             !.offer = Recoverable(e, w, ed.seen[w])]]
  BY DEF Select
<1> DEFINE ed == Flushed(editor[e])
           text == IF w \in ed.dirty /\ ed.draft[w] # None THEN ed.draft[w] ELSE ed.seen[w]
           offer == Recoverable(e, w, ed.seen[w])
           new == [ed EXCEPT !.selected = w, !.timer = None, !.shown = text, !.offer = offer]
<1>2. ed \in Eds /\ Sane(ed) /\ Follows(ed, unsaved[e]) /\ ed.open
  BY EditorFacts, FlushedType DEF Select
<1>3. offer \in OrNone(Drafts)
  BY OfferType DEF Types
<1> HIDE DEF ed, offer
<1>4. text \in Nat
  BY <1>2 DEF Eds, OrNone
<1>5. /\ new \in Eds /\ new.selected = w /\ new.shown = text /\ new.dirty = ed.dirty /\ new.draft = ed.draft
      /\ new.open = ed.open /\ new.sent = ed.sent /\ new.saves = ed.saves
  BY <1>2, <1>3, <1>4 DEF Eds, OrNone
<1>6. Sane(new)
  BY <1>2, <1>5 DEF Sane, NoneIsApart
<1>7. Follows(new, unsaved[e])
  BY <1>2, <1>5 DEF Follows
<1>8. editor' = [editor EXCEPT ![e] = new]
  BY <1>1 DEF ed, offer
<1> HIDE DEF new
<1> QED BY <1>5, <1>6, <1>7, <1>8, EditorAlone DEF Select, counts

LEMMA SeeTypes ==
    ASSUME NoneIsApart, Types, NEW e \in Editors, See(e)
    PROVE  Types'
<1> DEFINE ed == editor[e]
           w == ed.selected
           shown == IF Shown(ed) THEN note[w] ELSE ed.shown
           offer == IF w = None \/ ed.seen[w] = note[w] THEN ed.offer ELSE Recoverable(e, w, note[w])
           new == [ed EXCEPT !.seen = note, !.shown = shown, !.offer = offer]
<1>1. ed \in Eds /\ Sane(ed) /\ Follows(ed, unsaved[e]) /\ ed.open /\ note \in [Workspaces -> Nat]
  BY EditorFacts DEF See, Types, TypeOK
<1>2. w # None => w \in Workspaces
  BY <1>1 DEF Eds, OrNone
<1>3. offer \in OrNone(Drafts) /\ shown \in Nat
  BY <1>1, <1>2, OfferType DEF Types, Eds, Shown
<1>4. editor' = [editor EXCEPT ![e] = new]
  BY DEF See
<1>5. w = None => offer = ed.offer
  OBVIOUS
<1> HIDE DEF offer
<1>6. /\ new \in Eds /\ new.selected = w /\ new.shown = shown /\ new.dirty = ed.dirty /\ new.draft = ed.draft
      /\ new.open = ed.open /\ new.sent = ed.sent /\ new.saves = ed.saves /\ new.offer = offer
  BY <1>1, <1>3 DEF Eds
<1>7. Sane(new)
  BY <1>1, <1>5, <1>6 DEF Sane
<1>8. Follows(new, unsaved[e])
  BY <1>1, <1>6 DEF Follows, Shown
<1> HIDE DEF new
<1> QED BY <1>4, <1>6, <1>7, <1>8, EditorAlone DEF See, counts

LEMMA LeaveTypes ==
    ASSUME NoneIsApart, Types, NEW e \in Editors, Leave(e)
    PROVE  Types'
<1> DEFINE ed == [editor[e] EXCEPT !.timer = None]
           w == ed.selected
           last == IF w = None \/ (w \notin ed.dirty /\ editor[e].timer = None) THEN ed
                   ELSE [ed EXCEPT !.draft[w] = ed.shown, !.dirty = @ \cup {w}]
           texts == {<<x, last.draft[x]>> : x \in {y \in last.dirty : last.draft[y] # None}}
           new == [last EXCEPT !.open = FALSE, !.selected = None, !.saves = @ \o SetToSeq(texts)]
<1>1. editor[e] \in Eds /\ Sane(editor[e])
  BY EditorFacts
<1>2. /\ ed \in Eds /\ ed.dirty = editor[e].dirty /\ ed.sent = editor[e].sent /\ ed.saves = editor[e].saves
      /\ ed.selected \in OrNone(Workspaces)
  BY <1>1 DEF Eds, OrNone
<1> HIDE DEF ed
<1>3. last \in Eds /\ IsFiniteSet(last.dirty) /\ last.sent = editor[e].sent /\ last.saves = editor[e].saves
  <2>1. CASE last = ed
    BY <1>1, <1>2, <2>1 DEF Sane
  <2>2. CASE last # ed
    <3>1. w \in Workspaces /\ last = [ed EXCEPT !.draft[w] = ed.shown, !.dirty = @ \cup {w}]
      BY <1>2, <2>2 DEF OrNone
    <3>2. last \in Eds /\ last.dirty = ed.dirty \cup {w} /\ last.sent = ed.sent /\ last.saves = ed.saves
      BY <1>2, <3>1 DEF Eds, OrNone
    <3> QED BY <1>1, <1>2, <3>2, FS_AddElement DEF Sane
  <2> QED BY <2>1, <2>2
<1> HIDE DEF last
<1>4. texts \subseteq Saves
  BY <1>3 DEF Eds, OrNone, Saves
<1>5. IsFiniteSet(texts)
  <2> DEFINE D == {y \in last.dirty : last.draft[y] # None}
  <2>1. IsFiniteSet(D)
    BY <1>3, FS_Subset
  <2>2. IsFiniteSet({<<x, last.draft[x]>> : x \in D})
    <3> DEFINE f == [x \in D |-> <<x, last.draft[x]>>]
    <3>1. f \in Surjection(D, {<<x, last.draft[x]>> : x \in D})
      BY DEF Surjection
    <3> QED BY <2>1, <3>1, FS_Surjection
  <2> QED BY <2>2
<1>6. SetToSeq(texts) \in Seq(Saves)
  BY <1>4, <1>5, SequenceOfSet, SeqDef
<1> HIDE DEF texts
<1>6a. last.saves \o SetToSeq(texts) \in Seq(Saves) /\ (last.saves # <<>> => last.saves \o SetToSeq(texts) # <<>>)
  BY <1>3, <1>6, SequencesOfSaves DEF Eds
<1>7. /\ new \in Eds /\ ~new.open /\ new.selected = None /\ new.dirty = last.dirty /\ new.sent = last.sent
      /\ new.saves = last.saves \o SetToSeq(texts)
  BY <1>3, <1>6a DEF Eds, OrNone
<1>8. Sane(new)
  BY <1>1, <1>3, <1>6a, <1>7 DEF Sane
<1>9. Follows(new, unsaved[e])
  BY <1>7 DEF Follows
<1>10. editor' = [editor EXCEPT ![e] = new]
  BY DEF Leave, ed, last, texts
<1> HIDE DEF new
<1> QED BY <1>7, <1>8, <1>9, <1>10, EditorAlone DEF Leave, counts

----------------------------------------------------------------------------
(* The worker.                                                              *)
LEMMA TaskSequences ==
    ASSUME NEW q \in Seq(Tasks), q # <<>>
    PROVE  /\ Head(q) \in Tasks /\ Tail(q) \in Seq(Tasks) /\ Len(q) \in Nat \ {0}
           /\ Head(q) = q[1] /\ Len(Tail(q)) = Len(q) - 1
           /\ \A i \in 1..Len(Tail(q)) : Tail(q)[i] = q[i + 1]
<1>1. Head(q) = q[1]
  OBVIOUS
<1> QED BY <1>1, HeadTailProperties, EmptySeq

LEMMA TaskReplaced ==
    ASSUME NEW q \in Seq(Tasks), q # <<>>, NEW t \in Tasks
    PROVE  LET r == <<t>> \o Tail(q)
           IN  /\ r \in Seq(Tasks) /\ r # <<>> /\ Len(r) = Len(q) /\ Head(r) = t /\ r[1] = t
               /\ \A i \in 2..Len(q) : r[i] = q[i]
<1>1. Tail(q) \in Seq(Tasks) /\ Len(Tail(q)) = Len(q) - 1 /\ Len(q) \in Nat \ {0}
      /\ \A i \in 1..Len(Tail(q)) : Tail(q)[i] = q[i + 1]
  BY TaskSequences
<1>2. <<t>> \in Seq(Tasks) /\ Len(<<t>>) = 1 /\ <<t>>[1] = t
  OBVIOUS
<1> DEFINE r == <<t>> \o Tail(q)
<1>3. /\ r \in Seq(Tasks) /\ Len(r) = Len(q)
      /\ \A i \in 1..Len(q) : r[i] = IF i <= 1 THEN <<t>>[i] ELSE Tail(q)[i - 1]
  BY <1>1, <1>2, ConcatProperties
<1> HIDE DEF r
<1>4. r # <<>> /\ r[1] = t
  BY <1>1, <1>2, <1>3, EmptySeq
<1>5. Head(r) = r[1]
  BY <1>3, <1>4
<1>6. \A i \in 2..Len(q) : r[i] = q[i]
  BY <1>1, <1>3
<1> QED BY <1>3, <1>4, <1>5, <1>6 DEF r

(* What is no more unsaved is no reason for a text to be shown.             *)
LEMMA FollowsLess ==
    ASSUME NEW ed, NEW mine, NEW less, Follows(ed, mine), \A w \in Workspaces : less[w] \in {None, mine[w]}
    PROVE  Follows(ed, less)
BY DEF Follows

(* The editor hears of its save: it has one less, and the text that was     *)
(* stored, if it is its latest, is not dirty any more.                      *)
LEMMA SavedEditor ==
    ASSUME NoneIsApart, Types, NEW e \in Editors, NEW w \in Workspaces, NEW text \in Nat,
           NEW stored \in BOOLEAN, editor[e].sent, Saved(e, w, text, stored)
    PROVE  \E ed \in Eds :
             /\ editor' = [editor EXCEPT ![e] = ed] /\ Sane(ed) /\ ed.writes = editor[e].writes
             /\ \A less \in [Workspaces -> OrNone(Nat)] :
                  /\ \A x \in Workspaces : less[x] \in {None, unsaved[e][x]}
                  /\ stored => less[w] # text
                  => Follows(ed, less)
<1> DEFINE ed1 == [editor[e] EXCEPT !.saves = Tail(@), !.sent = FALSE]
           ed2 == [ed1 EXCEPT !.dirty = @ \ {w}, !.draft[w] = None, !.restored[w] = None,
                              !.shown = IF ed1.selected = w THEN text ELSE @]
<1>1. editor[e] \in Eds /\ Sane(editor[e]) /\ Follows(editor[e], unsaved[e])
  BY EditorFacts
<1>2. editor[e].saves \in Seq(Saves) /\ editor[e].saves # <<>> /\ Tail(editor[e].saves) \in Seq(Saves)
  BY <1>1, SequencesOfSaves DEF Eds, Sane
<1>3. /\ ed1 \in Eds /\ ~ed1.sent /\ ed1.open = editor[e].open /\ ed1.selected = editor[e].selected
      /\ ed1.dirty = editor[e].dirty /\ ed1.draft = editor[e].draft /\ ed1.shown = editor[e].shown
      /\ ed1.offer = editor[e].offer /\ ed1.writes = editor[e].writes
  BY <1>1, <1>2 DEF Eds
<1> HIDE DEF ed1
<1>4. Sane(ed1) /\ Follows(ed1, unsaved[e])
  BY <1>1, <1>3 DEF Sane, Follows
<1>5. /\ ed2 \in Eds /\ ~ed2.sent /\ ed2.open = ed1.open /\ ed2.selected = ed1.selected
      /\ ed2.dirty = ed1.dirty \ {w} /\ ed2.draft = [ed1.draft EXCEPT ![w] = None]
      /\ ed2.shown = (IF ed1.selected = w THEN text ELSE ed1.shown)
      /\ ed2.offer = ed1.offer /\ ed2.writes = ed1.writes
  BY <1>3 DEF Eds, OrNone
<1> HIDE DEF ed2
<1>6. Sane(ed2)
  BY <1>4, <1>5, FS_RemoveElement DEF Sane
<1>7. CASE ~stored \/ ~IsLatest(e, w, text)
  <2>1. editor' = [editor EXCEPT ![e] = ed1]
    BY <1>7 DEF Saved, ed1
  <2> QED BY <2>1, <1>3, <1>4, FollowsLess
<1>8. CASE stored /\ IsLatest(e, w, text)
  <2>1. editor' = [editor EXCEPT ![e] = ed2]
    BY <1>8 DEF Saved, ed1, ed2
  <2>2. ASSUME NEW less \in [Workspaces -> OrNone(Nat)],
               \A x \in Workspaces : less[x] \in {None, unsaved[e][x]}, less[w] # text
        PROVE  Follows(ed2, less)
    <3>1. Follows(ed1, less)
      BY <1>4, <2>2, FollowsLess
    <3>2. ed1.open => less[w] = None
      BY <1>3, <1>8, <2>2, <3>1 DEF Follows, IsLatest
    <3> QED BY <1>3, <1>5, <3>1, <3>2 DEF Follows, Eds
  <2> QED BY <1>3, <1>5, <1>6, <1>8, <2>1, <2>2
<1> QED BY <1>7, <1>8

(* What becomes of the journal: the draft of the text, and the one it was   *)
(* taken over from, and only they, and only to none.                        *)
LEMMA SavedJournal ==
    ASSUME NoneIsApart, Types, NEW e \in Editors, NEW w \in Workspaces, NEW text \in Nat,
           NEW stored \in BOOLEAN, Saved(e, w, text, stored)
    PROVE  /\ journal' \in [Workspaces -> [Editors -> OrNone(Nat)]]
           /\ \A x \in Workspaces, o \in Editors : journal'[x][o] # journal[x][o] =>
                /\ journal'[x][o] = None /\ x = w /\ stored /\ IsLatest(e, w, text)
                /\ \/ o = e /\ journal[x][o] = text
                   \/ editor[e].restored[w] = <<o, journal[x][o]>>
<1> DEFINE r == editor[e].restored[w]
           own == Cleared(w, e, text)
           all == [own EXCEPT ![w][r[1]] = Cleared(w, r[1], r[2])[w][r[1]]]
<1>1. journal \in [Workspaces -> [Editors -> OrNone(Nat)]] /\ editor[e].restored[w] \in OrNone(Drafts)
  BY EditorFacts DEF Types, TypeOK, Eds
<1>2. /\ own \in [Workspaces -> [Editors -> OrNone(Nat)]]
      /\ \A x \in Workspaces, o \in Editors : own[x][o] # journal[x][o] =>
           own[x][o] = None /\ x = w /\ o = e /\ journal[x][o] = text
  BY <1>1 DEF Cleared, OrNone
<1>3. CASE ~stored \/ ~IsLatest(e, w, text)
  BY <1>1, <1>3 DEF Saved
<1>4. CASE stored /\ IsLatest(e, w, text) /\ r = None
  <2>1. journal' = own
    BY <1>4 DEF Saved
  <2> QED BY <1>2, <1>4, <2>1
<1>5. CASE stored /\ IsLatest(e, w, text) /\ r # None
  <2>1. journal' = all
    BY <1>5 DEF Saved
  <2>2. r[1] \in Editors /\ r[2] \in Nat /\ r = <<r[1], r[2]>>
    BY <1>1, <1>5 DEF OrNone, Drafts
  <2>3. Cleared(w, r[1], r[2])[w][r[1]] = IF journal[w][r[1]] = r[2] THEN None ELSE journal[w][r[1]]
    BY <1>1, <2>2 DEF Cleared
  <2> HIDE DEF own
  <2>4. /\ all \in [Workspaces -> [Editors -> OrNone(Nat)]]
        /\ \A x \in Workspaces, o \in Editors :
             all[x][o] = IF x = w /\ o = r[1] THEN Cleared(w, r[1], r[2])[w][r[1]] ELSE own[x][o]
    BY <1>1, <1>2, <2>2, <2>3 DEF OrNone
  <2> HIDE DEF all
  <2>5. ASSUME NEW x \in Workspaces, NEW o \in Editors, journal'[x][o] # journal[x][o]
        PROVE  /\ journal'[x][o] = None /\ x = w
               /\ \/ o = e /\ journal[x][o] = text
                  \/ r = <<o, journal[x][o]>>
    <3>1. CASE x = w /\ o = r[1]
      BY <2>1, <2>2, <2>3, <2>4, <2>5, <3>1
    <3>2. CASE ~(x = w /\ o = r[1])
      BY <1>2, <2>1, <2>4, <2>5, <3>2
    <3> QED BY <3>1, <3>2
  <2> QED BY <1>5, <2>1, <2>4, <2>5
<1> QED BY <1>3, <1>4, <1>5

LEMMA AnsweredEditor ==
    ASSUME NoneIsApart, Types, NEW task \in NoteTasks, NEW stored \in BOOLEAN, Answered(task.of, task, stored)
    PROVE  /\ editor' \in [Editors -> Eds] /\ journal' \in [Workspaces -> [Editors -> OrNone(Nat)]]
           /\ \A o \in Editors : Sane(editor'[o]) /\ editor'[o].writes = editor[o].writes
           /\ \A less \in [Editors -> [Workspaces -> OrNone(Nat)]] :
                /\ \A o \in Editors, x \in Workspaces : less[o][x] \in {None, unsaved[o][x]}
                /\ stored => less[task.of][task.at] # task.text
                => \A o \in Editors : Follows(editor'[o], less[o])
           /\ \A x \in Workspaces, o \in Editors : journal'[x][o] # journal[x][o] =>
                /\ journal'[x][o] = None /\ x = task.at /\ stored
                /\ \/ o = task.of /\ journal[x][o] = task.text
                   \/ BecameOf(task, o, journal[x][o])
<1>1. task.of \in Editors /\ task.at \in Workspaces /\ task.text \in Nat
  BY DEF NoteTasks
<1>2. /\ editor \in [Editors -> Eds] /\ journal \in [Workspaces -> [Editors -> OrNone(Nat)]]
      /\ \A o \in Editors : Sane(editor[o]) /\ Follows(editor[o], unsaved[o])
  BY DEF Types, TypeOK, EditorsFollow
<1>3. CASE ~editor[task.of].sent
  <2>1. editor' = editor /\ journal' = journal
    BY <1>3 DEF Answered
  <2> QED BY <1>2, <2>1, FollowsLess
<1>4. CASE editor[task.of].sent
  <2>1. Saved(task.of, task.at, task.text, stored)
    BY <1>4 DEF Answered
  <2>2. PICK ed \in Eds :
             /\ editor' = [editor EXCEPT ![task.of] = ed] /\ Sane(ed) /\ ed.writes = editor[task.of].writes
             /\ \A less \in [Workspaces -> OrNone(Nat)] :
                  /\ \A x \in Workspaces : less[x] \in {None, unsaved[task.of][x]}
                  /\ stored => less[task.at] # task.text
                  => Follows(ed, less)
    BY <1>1, <1>4, <2>1, SavedEditor
  <2>3. /\ editor' \in [Editors -> Eds]
        /\ \A o \in Editors : editor'[o] = IF o = task.of THEN ed ELSE editor[o]
    BY <1>1, <1>2, <2>2
  <2>4. \A o \in Editors : Sane(editor'[o]) /\ editor'[o].writes = editor[o].writes
    BY <1>2, <2>2, <2>3
  <2>5. ASSUME NEW less \in [Editors -> [Workspaces -> OrNone(Nat)]],
               \A o \in Editors, x \in Workspaces : less[o][x] \in {None, unsaved[o][x]},
               stored => less[task.of][task.at] # task.text, NEW o \in Editors
        PROVE  Follows(editor'[o], less[o])
    <3>1. less[o] \in [Workspaces -> OrNone(Nat)] /\ \A x \in Workspaces : less[o][x] \in {None, unsaved[o][x]}
      BY <2>5
    <3>2. CASE o = task.of
      BY <2>2, <2>3, <2>5, <3>1, <3>2
    <3>3. CASE o # task.of
      BY <1>2, <2>3, <3>1, <3>3, FollowsLess
    <3> QED BY <3>2, <3>3
  <2>6. /\ journal' \in [Workspaces -> [Editors -> OrNone(Nat)]]
        /\ \A x \in Workspaces, o \in Editors : journal'[x][o] # journal[x][o] =>
                /\ journal'[x][o] = None /\ x = task.at /\ stored /\ IsLatest(task.of, task.at, task.text)
                /\ \/ o = task.of /\ journal[x][o] = task.text
                   \/ editor[task.of].restored[task.at] = <<o, journal[x][o]>>
    BY <1>1, <2>1, SavedJournal
  <2> QED BY <1>4, <2>3, <2>4, <2>5, <2>6 DEF BecameOf
<1> QED BY <1>3, <1>4

(* What is unsaved after a note has been stored.                            *)
LEMMA UnsavedLess ==
    ASSUME NoneIsApart, Types, SaveNote
    PROVE  LET t == Head(queue)
           IN  /\ t \in NoteTasks /\ queue # <<>> /\ Answered(t.of, t, TRUE)
               /\ unsaved' \in [Editors -> [Workspaces -> OrNone(Nat)]]
               /\ \A o \in Editors, x \in Workspaces :
                    unsaved'[o][x] = IF x = t.at /\ (unsaved[o][x] = t.text \/ BecameOf(t, o, unsaved[o][x]))
                                     THEN None ELSE unsaved[o][x]
<1> DEFINE t == Head(queue)
<1>1. queue \in Seq(Tasks) /\ unsaved \in [Editors -> [Workspaces -> OrNone(Nat)]]
  BY DEF Types, TypeOK
<1>2. t \in NoteTasks /\ queue # <<>>
  BY <1>1, TaskSequences DEF SaveNote, Tasks, RemoveTasks
<1>3. unsaved' = [e \in Editors |-> [unsaved[e] EXCEPT ![t.at] = IF @ = t.text \/ BecameOf(t, e, @) THEN None ELSE @]]
  BY DEF SaveNote
<1>4. Answered(t.of, t, TRUE)
  BY DEF SaveNote
<1>5. t.at \in Workspaces
  BY <1>2 DEF NoteTasks
<1> HIDE DEF t
<1>6. \A o \in Editors, x \in Workspaces :
         unsaved'[o][x] = IF x = t.at /\ (unsaved[o][x] = t.text \/ BecameOf(t, o, unsaved[o][x]))
                          THEN None ELSE unsaved[o][x]
  BY <1>1, <1>3, <1>5
<1>7. unsaved' \in [Editors -> [Workspaces -> OrNone(Nat)]]
  <2>1. ASSUME NEW o \in Editors
        PROVE  unsaved'[o] \in [Workspaces -> OrNone(Nat)]
    <3> DEFINE new == [unsaved[o] EXCEPT ![t.at] = IF @ = t.text \/ BecameOf(t, o, @) THEN None ELSE @]
    <3>1. unsaved'[o] = new /\ unsaved[o] \in [Workspaces -> OrNone(Nat)]
      BY <1>1, <1>3
    <3>2. (IF unsaved[o][t.at] = t.text \/ BecameOf(t, o, unsaved[o][t.at]) THEN None ELSE unsaved[o][t.at]) \in OrNone(Nat)
      BY <1>5, <3>1 DEF OrNone
    <3> QED BY <1>5, <3>1, <3>2
  <2> QED BY <1>3, <2>1
<1> QED BY <1>2, <1>4, <1>6, <1>7 DEF t

LEMMA SaveTypes ==
    ASSUME NoneIsApart, Types, CheckNote \/ SaveNote \/ SaveFails
    PROVE  Types'
<1> DEFINE t == Head(queue)
<1>1. queue \in Seq(Tasks) /\ queue # <<>> /\ t \in NoteTasks /\ Tail(queue) \in Seq(Tasks)
  BY TaskSequences DEF Types, TypeOK, CheckNote, SaveNote, SaveFails, Tasks, RemoveTasks
<1>2. /\ editor \in [Editors -> Eds] /\ journal \in [Workspaces -> [Editors -> OrNone(Nat)]]
      /\ unsaved \in [Editors -> [Workspaces -> OrNone(Nat)]] /\ EditorsFollow
  BY DEF Types, TypeOK
<1>3. ASSUME editor' \in [Editors -> Eds], journal' \in [Workspaces -> [Editors -> OrNone(Nat)]],
             unsaved' \in [Editors -> [Workspaces -> OrNone(Nat)]], note' \in [Workspaces -> Nat],
             queue' \in Seq(Tasks), UNCHANGED <<record, pending, tomb, removal, edits>>,
             \A o \in Editors : Sane(editor'[o]) /\ Follows(editor'[o], unsaved'[o])
      PROVE  Types'
  BY <1>3 DEF Types, TypeOK, EditorsFollow
<1>4. ASSUME Answered(t.of, t, FALSE), UNCHANGED unsaved
      PROVE  /\ editor' \in [Editors -> Eds] /\ journal' \in [Workspaces -> [Editors -> OrNone(Nat)]]
             /\ unsaved' \in [Editors -> [Workspaces -> OrNone(Nat)]]
             /\ \A o \in Editors : Sane(editor'[o]) /\ Follows(editor'[o], unsaved'[o])
  BY <1>1, <1>2, <1>4, AnsweredEditor
<1>5. CASE CheckNote
  <2>0. UNCHANGED <<unsaved, note, record, pending, tomb, removal, edits>> /\ note \in [Workspaces -> Nat]
    BY <1>5 DEF CheckNote, storage, counts, Types, TypeOK
  <2>1. CASE queue' = <<[t EXCEPT !.checked = TRUE]>> \o Tail(queue) /\ UNCHANGED <<journal, editor>>
    <3>1. [t EXCEPT !.checked = TRUE] \in Tasks
      BY <1>1 DEF NoteTasks, Tasks
    <3>2. queue' \in Seq(Tasks)
      BY <1>1, <2>1, <3>1, TaskReplaced
    <3> HIDE DEF t
    <3> QED BY <1>2, <1>3, <2>0, <2>1, <3>2 DEF EditorsFollow
  <2>2. CASE queue' = Tail(queue) /\ Answered(t.of, t, FALSE)
    BY <1>1, <1>3, <1>4, <2>0, <2>2
  <2> QED BY <1>5, <2>1, <2>2 DEF CheckNote
<1>6. CASE SaveFails
  <2>1. UNCHANGED <<unsaved, note, record, pending, tomb, removal, edits>> /\ note \in [Workspaces -> Nat]
    BY <1>6 DEF SaveFails, storage, Types, TypeOK
  <2>2. queue' = Tail(queue) /\ Answered(t.of, t, FALSE)
    BY <1>6 DEF SaveFails
  <2> QED BY <1>1, <1>3, <1>4, <2>1, <2>2
<1>7. CASE SaveNote
  <2>1. UNCHANGED <<record, pending, tomb, removal, edits>> /\ queue' = Tail(queue)
    BY <1>7 DEF SaveNote, counts
  <2>2. note' \in [Workspaces -> Nat]
    BY <1>1, <1>7 DEF SaveNote, Types, TypeOK, NoteTasks
  <2>3. /\ unsaved' \in [Editors -> [Workspaces -> OrNone(Nat)]] /\ Answered(t.of, t, TRUE)
        /\ \A o \in Editors, x \in Workspaces :
             unsaved'[o][x] = IF x = t.at /\ (unsaved[o][x] = t.text \/ BecameOf(t, o, unsaved[o][x]))
                              THEN None ELSE unsaved[o][x]
    BY <1>7, UnsavedLess
  <2>4. t.of \in Editors /\ t.at \in Workspaces /\ t.text \in Nat /\ None \notin Nat
    BY <1>1 DEF NoteTasks, NoneIsApart
  <2>5. unsaved'[t.of][t.at] # t.text
    BY <2>3, <2>4
  <2>6. /\ editor' \in [Editors -> Eds] /\ journal' \in [Workspaces -> [Editors -> OrNone(Nat)]]
        /\ \A o \in Editors : Sane(editor'[o]) /\ Follows(editor'[o], unsaved'[o])
    <3>1. \A o \in Editors, x \in Workspaces : unsaved'[o][x] \in {None, unsaved[o][x]}
      BY <2>3
    <3>2. /\ editor' \in [Editors -> Eds] /\ journal' \in [Workspaces -> [Editors -> OrNone(Nat)]]
          /\ \A o \in Editors : Sane(editor'[o])
          /\ \A less \in [Editors -> [Workspaces -> OrNone(Nat)]] :
                /\ \A o \in Editors, x \in Workspaces : less[o][x] \in {None, unsaved[o][x]}
                /\ less[t.of][t.at] # t.text
                => \A o \in Editors : Follows(editor'[o], less[o])
      <4> HIDE DEF t
      <4> QED BY <1>1, <2>3, AnsweredEditor
    <3> HIDE DEF t
    <3> QED BY <2>3, <2>5, <3>1, <3>2
  <2> QED BY <1>1, <1>3, <2>1, <2>2, <2>3, <2>6
<1> QED BY <1>5, <1>6, <1>7

----------------------------------------------------------------------------
(* The queue and the list of removals.  Only the head of the queue is under *)
(* way, there is one removal in it at most, the one the worker waits for;   *)
(* what is not on the list any more, or was just removed, left nothing.     *)
Untouched(t) == IF t.kind = "note" THEN ~t.checked ELSE ~t.marked
Removals1(q) == \A i, j \in 1..Len(q) : q[i].kind = "remove" /\ q[j].kind = "remove" => i = j
InOrder(q) == Removals1(q) /\ \A i \in 2..Len(q) : Untouched(q[i])

Checked(w) == queue # <<>> /\ queue[1].kind = "note" /\ queue[1].checked /\ queue[1].at = w
Clean(w) == w \in tomb /\ note[w] = 0 /\ ~Checked(w)

QueueListed == \A i \in 1..Len(queue) : queue[i].kind = "remove" =>
                 removal # None /\ removal.at = "queued" /\ queue[i].at = removal.of
MarkedHead == queue # <<>> /\ queue[1].kind = "remove" /\ queue[1].marked => queue[1].at \in tomb
RemovalListed == removal # None =>
    /\ removal.of \in pending
    /\ removal.at # "noted" => removal.of \notin record
    /\ removal.at = "removed" => Clean(removal.of)
OthersClean == \A w \in Workspaces \ (record \cup pending) : Clean(w)
MarkedEmpty == \A w \in tomb, e \in Editors : journal[w][e] = None

Listed == InOrder(queue) /\ QueueListed /\ MarkedHead /\ RemovalListed /\ OthersClean /\ MarkedEmpty

LEMMA AppendInOrder ==
    ASSUME NEW q \in Seq(Tasks), InOrder(q), NEW t \in Tasks, Untouched(t),
           t.kind = "remove" => \A i \in 1..Len(q) : q[i].kind # "remove"
    PROVE  LET r == Append(q, t)
           IN  /\ r \in Seq(Tasks) /\ InOrder(r) /\ r # <<>> /\ Len(r) = Len(q) + 1 /\ Len(q) \in Nat
               /\ \A i \in 1..Len(q) : r[i] = q[i]
               /\ r[Len(q) + 1] = t /\ r[1] = IF q = <<>> THEN t ELSE q[1]
<1> DEFINE r == Append(q, t)
<1>1. /\ r \in Seq(Tasks) /\ r # <<>> /\ Len(r) = Len(q) + 1 /\ Len(q) \in Nat
      /\ \A i \in 1..Len(q) : r[i] = q[i]
      /\ r[Len(q) + 1] = t
  BY AppendProperties, LenProperties
<1>2. q # <<>> => Len(q) > 0
  BY EmptySeq
<1>3. q = <<>> => Len(q) = 0
  BY EmptySeq
<1> HIDE DEF r
<1>4. \A i \in 1..Len(r) : r[i] = IF i = Len(q) + 1 THEN t ELSE q[i]
  BY <1>1
<1>5. r[1] = IF q = <<>> THEN t ELSE q[1]
  BY <1>1, <1>2, <1>3
<1>6. Removals1(r)
  <2> SUFFICES ASSUME NEW i \in 1..Len(r), NEW j \in 1..Len(r), r[i].kind = "remove", r[j].kind = "remove"
               PROVE  i = j
    BY DEF Removals1
  <2>1. (i = Len(q) + 1 \/ i \in 1..Len(q)) /\ (j = Len(q) + 1 \/ j \in 1..Len(q))
    BY <1>1
  <2>2. CASE i \in 1..Len(q) /\ j \in 1..Len(q)
    BY <1>1, <2>2 DEF InOrder, Removals1
  <2>3. CASE i = Len(q) + 1 /\ j \in 1..Len(q)
    BY <1>1, <2>3
  <2>4. CASE i \in 1..Len(q) /\ j = Len(q) + 1
    BY <1>1, <2>4
  <2> QED BY <2>1, <2>2, <2>3, <2>4
<1>7. \A i \in 2..Len(r) : Untouched(r[i])
  <2> SUFFICES ASSUME NEW i \in 2..Len(r) PROVE Untouched(r[i])
    OBVIOUS
  <2>1. CASE i = Len(q) + 1
    BY <1>1, <2>1
  <2>2. CASE i # Len(q) + 1
    BY <1>1, <2>2 DEF InOrder
  <2> QED BY <2>1, <2>2
<1> QED BY <1>1, <1>5, <1>6, <1>7 DEF r, InOrder

LEMMA TailInOrder ==
    ASSUME NEW q \in Seq(Tasks), InOrder(q), q # <<>>
    PROVE  LET r == Tail(q)
           IN  /\ r \in Seq(Tasks) /\ InOrder(r)
               /\ \A i \in 1..Len(r) : Untouched(r[i]) /\ i + 1 \in 1..Len(q) /\ r[i] = q[i + 1]
               /\ q[1].kind = "remove" => \A i \in 1..Len(r) : r[i].kind # "remove"
               /\ r # <<>> => Untouched(r[1])
<1> DEFINE r == Tail(q)
<1>1. /\ r \in Seq(Tasks) /\ Len(q) \in Nat \ {0} /\ Len(r) = Len(q) - 1
      /\ \A i \in 1..Len(r) : r[i] = q[i + 1]
  BY TaskSequences
<1>2. r # <<>> => Len(r) > 0
  BY <1>1, EmptySeq
<1> HIDE DEF r
<1>3. \A i \in 1..Len(r) : i + 1 \in 2..Len(q) /\ i + 1 \in 1..Len(q) /\ i \in 1..Len(q)
  BY <1>1
<1>4. \A i \in 1..Len(r) : Untouched(r[i])
  BY <1>1, <1>3 DEF InOrder
<1>5. Removals1(r)
  <2> SUFFICES ASSUME NEW i \in 1..Len(r), NEW j \in 1..Len(r), r[i].kind = "remove", r[j].kind = "remove"
               PROVE  i = j
    BY DEF Removals1
  <2>1. i + 1 = j + 1
    BY <1>1, <1>3 DEF InOrder, Removals1
  <2> QED BY <1>1, <2>1
<1>6. q[1].kind = "remove" => \A i \in 1..Len(r) : r[i].kind # "remove"
  <2> SUFFICES ASSUME q[1].kind = "remove", NEW i \in 1..Len(r), r[i].kind = "remove" PROVE FALSE
    OBVIOUS
  <2>1. 1 = i + 1
    BY <1>1, <1>3 DEF InOrder, Removals1
  <2> QED BY <1>1, <2>1
<1>7. r # <<>> => Untouched(r[1])
  BY <1>1, <1>2, <1>4
<1>8. \A i \in 2..Len(r) : Untouched(r[i])
  BY <1>1, <1>4
<1> QED BY <1>1, <1>3, <1>4, <1>5, <1>6, <1>7, <1>8 DEF r, InOrder

LEMMA HeadInOrder ==
    ASSUME NEW q \in Seq(Tasks), InOrder(q), q # <<>>, NEW t \in Tasks, t.kind = Head(q).kind
    PROVE  LET r == <<t>> \o Tail(q)
           IN  r \in Seq(Tasks) /\ InOrder(r) /\ r # <<>> /\ Len(r) = Len(q) /\ r[1] = t
               /\ \A i \in 1..Len(q) : r[i] = IF i = 1 THEN t ELSE q[i]
<1> DEFINE r == <<t>> \o Tail(q)
<1>1. /\ r \in Seq(Tasks) /\ r # <<>> /\ Len(r) = Len(q) /\ r[1] = t
      /\ \A i \in 2..Len(q) : r[i] = q[i]
  BY TaskReplaced
<1>2. Head(q) = q[1] /\ Len(q) \in Nat \ {0}
  BY TaskSequences
<1> HIDE DEF r
<1>3. \A i \in 1..Len(q) : r[i] = IF i = 1 THEN t ELSE q[i]
  BY <1>1, <1>2
<1>4. \A i \in 1..Len(q) : r[i].kind = q[i].kind
  BY <1>2, <1>3
<1> QED BY <1>1, <1>3, <1>4 DEF r, InOrder, Removals1

(* The removal of a workspace, a stop and a new start.                      *)
LEMMA RemovalTypes ==
    ASSUME NoneIsApart, Types, Listed,
           \/ \E w \in Workspaces : Delete(w)
           \/ RemoveStep \/ RemoveDrafts \/ RemoveState \/ RemoveFails \/ Stop \/ Retry
    PROVE  Types'
<1>0. /\ TypeOK /\ EditorsFollow /\ removal \in OrNone(Removals) /\ queue \in Seq(Tasks)
      /\ journal \in [Workspaces -> [Editors -> OrNone(Nat)]] /\ edits \in Nat
  BY DEF Types, TypeOK
<1>1. ASSUME UNCHANGED <<editor, unsaved, edits>>, TypeOK'
      PROVE  Types'
  BY <1>0, <1>1 DEF Types, EditorsFollow
<1>2. ASSUME NEW w \in Workspaces, Delete(w) PROVE Types'
  <2>1. TypeOK'
    BY <1>0, <1>2 DEF Delete, TypeOK, Removals, OrNone, drafts, counts
  <2> QED BY <1>1, <1>2, <2>1 DEF Delete, counts
<1>3. CASE RemoveStep
  <2>1. removal \in Removals
    BY <1>0, <1>3 DEF RemoveStep, DeleteRecord, RemoveEntries, RemoveEnds, At, OrNone
  <2>2. [kind |-> "remove", at |-> removal.of, marked |-> FALSE] \in Tasks
    BY <2>1 DEF Tasks, RemoveTasks, Removals
  <2>3. queue' \in Seq(Tasks) /\ removal' \in OrNone(Removals)
    <3>1. /\ [removal EXCEPT !.at = "gone"] \in Removals
          /\ [removal EXCEPT !.at = "queued"] \in Removals
      BY <2>1 DEF Removals
    <3>2. CASE DeleteRecord
      BY <1>0, <3>1, <3>2 DEF DeleteRecord, OrNone
    <3>3. CASE RemoveEntries
      <4>1. /\ removal' = [removal EXCEPT !.at = "queued"]
            /\ queue' = Append(queue, [kind |-> "remove", at |-> removal.of, marked |-> FALSE])
        BY <3>3 DEF RemoveEntries
      <4> QED BY <1>0, <2>2, <3>1, <4>1, AppendProperties DEF OrNone
    <3>4. CASE RemoveEnds
      BY <1>0, <3>4 DEF RemoveEnds, OrNone
    <3> QED BY <1>3, <3>2, <3>3, <3>4 DEF RemoveStep
  <2>4. /\ record' \subseteq Workspaces /\ pending' \subseteq Workspaces
        /\ UNCHANGED <<note, drafts, editor, unsaved, counts>>
    BY <1>0, <1>3 DEF RemoveStep, DeleteRecord, RemoveEntries, RemoveEnds, TypeOK, storage
  <2>5. TypeOK'
    BY <1>0, <2>3, <2>4 DEF TypeOK, drafts, counts
  <2> QED BY <1>1, <2>4, <2>5 DEF counts
<1>4. CASE RemoveDrafts
  <2> DEFINE t == Head(queue)
  <2>1. t \in RemoveTasks /\ queue # <<>>
    BY <1>0, <1>4, TaskSequences DEF RemoveDrafts, Tasks, NoteTasks
  <2>2. [t EXCEPT !.marked = TRUE] \in Tasks /\ t.at \in Workspaces
    BY <2>1 DEF RemoveTasks, Tasks
  <2>3. queue' \in Seq(Tasks)
    BY <1>0, <1>4, <2>1, <2>2, TaskReplaced DEF RemoveDrafts
  <2>4. journal' = [journal EXCEPT ![t.at] = [e \in Editors |-> None]] /\ tomb' = tomb \cup {t.at}
        /\ UNCHANGED <<storage, removal, editor, unsaved, counts>>
    BY <1>4 DEF RemoveDrafts
  <2> HIDE DEF t
  <2>5. journal' \in [Workspaces -> [Editors -> OrNone(Nat)]]
    BY <1>0, <2>2, <2>4 DEF OrNone
  <2>6. TypeOK'
    BY <1>0, <2>2, <2>3, <2>4, <2>5 DEF TypeOK, storage, counts
  <2> QED BY <1>1, <2>4, <2>6 DEF counts
<1>5. CASE RemoveState
  <2> DEFINE t == Head(queue)
  <2>1. t \in RemoveTasks /\ queue # <<>> /\ t = queue[1] /\ Len(queue) \in Nat \ {0} /\ Tail(queue) \in Seq(Tasks)
    BY <1>0, <1>5, TaskSequences DEF RemoveState, Tasks, NoteTasks
  <2>2. removal \in Removals
    BY <1>0, <2>1 DEF Listed, QueueListed, RemoveTasks, OrNone
  <2>3. [removal EXCEPT !.at = "removed"] \in Removals /\ [note EXCEPT ![t.at] = 0] \in [Workspaces -> Nat]
    BY <1>0, <2>1, <2>2 DEF TypeOK, RemoveTasks, Removals
  <2>4. TypeOK'
    BY <1>0, <1>5, <2>1, <2>3 DEF RemoveState, TypeOK, OrNone, drafts, counts
  <2> QED BY <1>1, <1>5, <2>4 DEF RemoveState, counts
<1>6. CASE RemoveFails
  <2>1. Tail(queue) \in Seq(Tasks)
    BY <1>0, <1>6, TaskSequences DEF RemoveFails
  <2>2. TypeOK'
    BY <1>0, <1>6, <2>1 DEF RemoveFails, TypeOK, OrNone, storage, drafts
  <2> QED BY <1>1, <1>6, <2>2 DEF RemoveFails
<1>7. CASE Stop
  <2> DEFINE new(e) == [editor[e] EXCEPT !.saves = Tail(@), !.sent = FALSE]
  <2>1. ASSUME NEW e \in Editors
        PROVE  editor'[e] \in Eds /\ Sane(editor'[e]) /\ Follows(editor'[e], unsaved[e])
    <3>1. editor[e] \in Eds /\ Sane(editor[e]) /\ Follows(editor[e], unsaved[e])
      BY EditorFacts
    <3>2. CASE editor[e].sent
      <4>1. editor'[e] = new(e)
        BY <1>7, <3>2 DEF Stop
      <4>2. Tail(editor[e].saves) \in Seq(Saves)
        BY <3>1, <3>2, SequencesOfSaves DEF Eds, Sane
      <4>3. /\ new(e) \in Eds /\ ~new(e).sent /\ new(e).open = editor[e].open /\ new(e).selected = editor[e].selected
            /\ new(e).dirty = editor[e].dirty /\ new(e).draft = editor[e].draft /\ new(e).shown = editor[e].shown
            /\ new(e).offer = editor[e].offer
        BY <3>1, <4>2 DEF Eds
      <4> HIDE DEF new
      <4> QED BY <3>1, <4>1, <4>3 DEF Sane, Follows
    <3>3. CASE ~editor[e].sent
      BY <1>7, <3>1, <3>3 DEF Stop
    <3> QED BY <3>2, <3>3
  <2>2. editor' \in [Editors -> Eds]
    <3>1. editor' = [e \in Editors |-> editor'[e]]
      BY <1>7 DEF Stop
    <3> QED BY <2>1, <3>1
  <2>3. UNCHANGED <<storage, drafts, unsaved, edits>> /\ queue' = <<>> /\ removal' = None
    BY <1>7 DEF Stop
  <2>4. TypeOK'
    BY <1>0, <2>2, <2>3 DEF TypeOK, storage, drafts, OrNone
  <2> QED BY <2>1, <2>3, <2>4 DEF Types, EditorsFollow
<1>8. CASE Retry
  <2>1. TypeOK'
    BY <1>0, <1>8 DEF Retry, TypeOK, Removals, OrNone, storage, drafts, counts
  <2> QED BY <1>1, <1>8, <2>1 DEF Retry, counts
<1> QED BY <1>2, <1>3, <1>4, <1>5, <1>6, <1>7, <1>8

(* The list of removals is kept by the editors, who add saves to the queue  *)
(* and drafts to the journal of workspaces that are not marked, ...         *)
LEMMA EditorsKeepList ==
    ASSUME NoneIsApart, Types, Listed, NEW e \in Editors,
           \/ Type(e) \/ PersistDraft(e) \/ TimerEnds(e) \/ Select(e) \/ See(e)
           \/ Leave(e) \/ Vanish(e) \/ Send(e) \/ Restore(e)
    PROVE  Listed'
<1>1. CASE Type(e) \/ TimerEnds(e) \/ Select(e) \/ See(e) \/ Leave(e) \/ Vanish(e) \/ Restore(e)
  <2>1. UNCHANGED <<record, pending, note, tomb, journal, queue, removal>>
    BY <1>1 DEF Type, TimerEnds, Select, See, Leave, Vanish, Restore, storage, drafts
  <2> QED BY <2>1 DEF Listed, QueueListed, MarkedHead, RemovalListed, OthersClean, MarkedEmpty, Clean, Checked
<1>2. CASE PersistDraft(e)
  <2>1. UNCHANGED <<record, pending, note, tomb, queue, removal>>
    BY <1>2 DEF PersistDraft, storage
  <2>2. MarkedEmpty'
    <3>1. editor[e].writes \in Saves /\ journal \in [Workspaces -> [Editors -> OrNone(Nat)]] /\ tomb \subseteq Workspaces
      BY <1>2, EditorFacts DEF PersistDraft, Types, TypeOK, Eds, OrNone
    <3> DEFINE w == editor[e].writes[1]
    <3>2. w \in Workspaces /\ tomb' = tomb
          /\ journal' = [journal EXCEPT ![w][e] = IF w \in tomb THEN None ELSE editor[e].writes[2]]
      BY <1>2, <3>1 DEF PersistDraft, Saves
    <3> HIDE DEF w
    <3> QED BY <3>1, <3>2 DEF MarkedEmpty, Listed
  <2> QED BY <2>1, <2>2 DEF Listed, QueueListed, MarkedHead, RemovalListed, OthersClean, Clean, Checked
<1>3. CASE Send(e)
  <2> DEFINE save == Head(editor[e].saves)
             t == [kind |-> "note", of |-> e, at |-> save[1], text |-> save[2], checked |-> FALSE]
  <2>1. queue' = Append(queue, t) /\ UNCHANGED <<record, pending, note, tomb, journal, removal>> /\ queue \in Seq(Tasks)
    BY <1>3 DEF Send, storage, drafts, Types, TypeOK
  <2>2. save \in Saves
    BY <1>3, EditorFacts, SequencesOfSaves DEF Send, Eds
  <2>3. t \in Tasks /\ Untouched(t) /\ t.kind = "note" /\ ~t.checked
    BY <2>2 DEF Tasks, NoteTasks, Saves, Untouched
  <2> HIDE DEF t
  <2>4. /\ InOrder(queue') /\ queue' # <<>> /\ Len(queue') = Len(queue) + 1 /\ Len(queue) \in Nat
        /\ \A i \in 1..Len(queue) : queue'[i] = queue[i]
        /\ queue'[Len(queue) + 1] = t /\ queue'[1] = IF queue = <<>> THEN t ELSE queue[1]
    BY <2>1, <2>3, AppendInOrder DEF Listed
  <2>5. \A i \in 1..Len(queue') : i = Len(queue) + 1 \/ i \in 1..Len(queue)
    BY <2>4
  <2>6. QueueListed'
    BY <2>1, <2>3, <2>4, <2>5 DEF QueueListed, Listed
  <2>7. MarkedHead'
    BY <2>1, <2>3, <2>4 DEF MarkedHead, Listed
  <2>8. \A w : Clean(w) => Clean(w)'
    BY <2>1, <2>3, <2>4 DEF Clean, Checked
  <2>9. RemovalListed' /\ OthersClean' /\ MarkedEmpty'
    BY <2>1, <2>8 DEF RemovalListed, OthersClean, MarkedEmpty, Listed
  <2> QED BY <2>4, <2>6, <2>7, <2>9 DEF Listed
<1> QED BY <1>1, <1>2, <1>3

(* When the head of the queue is done with, what follows is not under way.  *)
LEMMA TailListed ==
    ASSUME Types, Listed, queue # <<>>, queue' = Tail(queue)
    PROVE  /\ InOrder(queue') /\ MarkedHead' /\ \A w : ~Checked(w)'
           /\ \A i \in 1..Len(queue') : queue'[i].kind = "remove" =>
                /\ removal # None /\ removal.at = "queued" /\ queue'[i].at = removal.of
                /\ queue[1].kind # "remove"
<1>1. /\ queue' \in Seq(Tasks) /\ InOrder(queue')
      /\ \A i \in 1..Len(queue') : Untouched(queue'[i]) /\ i + 1 \in 1..Len(queue) /\ queue'[i] = queue[i + 1]
      /\ queue[1].kind = "remove" => \A i \in 1..Len(queue') : queue'[i].kind # "remove"
      /\ queue' # <<>> => Untouched(queue'[1])
  BY TailInOrder DEF Types, TypeOK, Listed
<1>2. MarkedHead' /\ \A w : ~Checked(w)'
  BY <1>1 DEF MarkedHead, Checked, Untouched
<1>3. ASSUME NEW i \in 1..Len(queue'), queue'[i].kind = "remove"
      PROVE  /\ removal # None /\ removal.at = "queued" /\ queue'[i].at = removal.of
             /\ queue[1].kind # "remove"
  BY <1>1, <1>3 DEF Listed, QueueListed
<1> QED BY <1>1, <1>2, <1>3

(* ... by the worker's saves, which store no note of a workspace that was   *)
(* not there when its turn came, ...                                        *)
LEMMA SavesKeepList ==
    ASSUME NoneIsApart, Types, Listed, CheckNote \/ SaveNote \/ SaveFails
    PROVE  Listed'
<1> DEFINE t == Head(queue)
<1>1. queue \in Seq(Tasks) /\ queue # <<>> /\ t = queue[1] /\ t \in NoteTasks /\ t.kind = "note" /\ Len(queue) \in Nat \ {0}
  BY TaskSequences DEF Types, TypeOK, CheckNote, SaveNote, SaveFails, Tasks, RemoveTasks
<1>2. UNCHANGED <<record, pending, tomb, removal>> /\ tomb \subseteq Workspaces
  BY DEF CheckNote, SaveNote, SaveFails, storage, Types, TypeOK
<1>3. ASSUME NEW stored \in BOOLEAN, Answered(t.of, t, stored) PROVE MarkedEmpty'
  <2>1. \A x \in Workspaces, o \in Editors : journal'[x][o] # journal[x][o] => journal'[x][o] = None
    <3> HIDE DEF t
    <3> QED BY <1>1, <1>3, AnsweredEditor
  <2> QED BY <1>2, <2>1 DEF Listed, MarkedEmpty
<1>4. ASSUME queue' = Tail(queue), MarkedEmpty', \A w \in Workspaces : Clean(w) => note'[w] = 0
      PROVE  Listed'
  <2>1. /\ InOrder(queue') /\ MarkedHead' /\ \A w : ~Checked(w)'
        /\ \A i \in 1..Len(queue') : queue'[i].kind = "remove" =>
             /\ removal # None /\ removal.at = "queued" /\ queue'[i].at = removal.of
    BY <1>1, <1>4, TailListed
  <2>2. QueueListed'
    BY <1>2, <2>1 DEF QueueListed
  <2>3. \A w \in Workspaces : Clean(w) => Clean(w)'
    BY <1>2, <1>4, <2>1 DEF Clean
  <2>4. removal # None => removal.of \in Workspaces
    BY DEF Types, TypeOK, OrNone, Removals
  <2>5. RemovalListed' /\ OthersClean'
    BY <1>2, <2>3, <2>4 DEF RemovalListed, OthersClean, Listed
  <2> QED BY <1>4, <2>1, <2>2, <2>5 DEF Listed
<1>5. CASE CheckNote
  <2>1. CASE t.at \in record /\ queue' = <<[t EXCEPT !.checked = TRUE]>> \o Tail(queue) /\ UNCHANGED <<journal, note>>
    <3> DEFINE u == [t EXCEPT !.checked = TRUE]
    <3>1. u \in Tasks /\ u.kind = "note" /\ u.at = t.at
      BY <1>1 DEF Tasks, NoteTasks
    <3>2. queue' = <<u>> \o Tail(queue) /\ InOrder(queue)
      BY <2>1 DEF Listed
    <3> HIDE DEF u
    <3>3. /\ InOrder(queue') /\ queue' # <<>> /\ Len(queue') = Len(queue) /\ queue'[1] = u
          /\ \A i \in 1..Len(queue) : queue'[i] = IF i = 1 THEN u ELSE queue[i]
      BY <1>1, <3>1, <3>2, HeadInOrder
    <3>4. QueueListed' /\ MarkedHead'
      BY <1>2, <3>1, <3>3 DEF Listed, QueueListed, MarkedHead
    <3>5. \A w \in Workspaces \ record : Clean(w) => Clean(w)'
      BY <1>2, <2>1, <3>1, <3>3 DEF Clean, Checked
    <3>6. removal # None => removal.of \in Workspaces
      BY DEF Types, TypeOK, OrNone, Removals
    <3>7. RemovalListed' /\ OthersClean' /\ MarkedEmpty'
      BY <1>2, <2>1, <3>5, <3>6 DEF RemovalListed, OthersClean, MarkedEmpty, Listed
    <3> QED BY <3>3, <3>4, <3>7 DEF Listed
  <2>2. CASE queue' = Tail(queue) /\ Answered(t.of, t, FALSE) /\ UNCHANGED note
    BY <1>3, <1>4, <2>2 DEF Clean
  <2> QED BY <1>5, <2>1, <2>2 DEF CheckNote, storage
<1>6. CASE SaveFails
  <2>1. queue' = Tail(queue) /\ Answered(t.of, t, FALSE) /\ UNCHANGED note
    BY <1>6 DEF SaveFails, storage
  <2> QED BY <1>3, <1>4, <2>1 DEF Clean
<1>7. CASE SaveNote
  <2>1. /\ queue' = Tail(queue) /\ Answered(t.of, t, TRUE) /\ t.checked
        /\ note' = [note EXCEPT ![t.at] = t.text] /\ note \in [Workspaces -> Nat]
    BY <1>7 DEF SaveNote, Types, TypeOK
  <2>2. \A w \in Workspaces : Clean(w) => note'[w] = 0
    BY <1>1, <2>1 DEF Clean, Checked
  <2> QED BY <1>3, <1>4, <2>1, <2>2
<1> QED BY <1>5, <1>6, <1>7

(* ... and by every step of the removal itself, and a stop between two.     *)
LEMMA RemovalKeepsList ==
    ASSUME NoneIsApart, Types, Listed,
           \/ \E w \in Workspaces : Delete(w)
           \/ RemoveStep \/ RemoveDrafts \/ RemoveState \/ RemoveFails \/ Stop \/ Retry
    PROVE  Listed'
<1>0. /\ queue \in Seq(Tasks) /\ Len(queue) \in Nat /\ removal \in OrNone(Removals) /\ note \in [Workspaces -> Nat]
      /\ journal \in [Workspaces -> [Editors -> OrNone(Nat)]] /\ tomb \subseteq Workspaces
      /\ InOrder(queue) /\ QueueListed /\ MarkedHead /\ RemovalListed /\ OthersClean /\ MarkedEmpty
  BY LenProperties DEF Types, TypeOK, Listed
<1>1. ASSUME NEW w \in Workspaces, Delete(w) PROVE Listed'
  <2>1. /\ removal = None /\ w \in record /\ pending' = pending \cup {w} /\ removal' = [of |-> w, at |-> "noted"]
        /\ UNCHANGED <<record, note, tomb, journal, queue>>
    BY <1>1 DEF Delete, drafts
  <2>2. QueueListed' /\ MarkedHead' /\ MarkedEmpty'
    BY <1>0, <2>1 DEF QueueListed, MarkedHead, MarkedEmpty
  <2>3. RemovalListed'
    BY <2>1 DEF RemovalListed
  <2>4. OthersClean'
    BY <1>0, <2>1 DEF OthersClean, Clean, Checked
  <2> QED BY <1>0, <2>1, <2>2, <2>3, <2>4 DEF Listed
<1>2. CASE DeleteRecord
  <2>1. /\ removal # None /\ removal.at = "noted" /\ record' = record \ {removal.of}
        /\ removal' = [removal EXCEPT !.at = "gone"] /\ UNCHANGED <<pending, note, tomb, journal, queue>>
    BY <1>2 DEF DeleteRecord, At, drafts
  <2>2. removal' # None /\ removal'.of = removal.of /\ removal'.at = "gone" /\ removal.of \in pending
    BY <1>0, <2>1 DEF RemovalListed, Removals, OrNone, NoneIsApart
  <2>3. QueueListed' /\ MarkedHead' /\ MarkedEmpty' /\ RemovalListed'
    BY <1>0, <2>1, <2>2 DEF QueueListed, MarkedHead, MarkedEmpty, RemovalListed
  <2>4. OthersClean'
    BY <1>0, <2>1, <2>2 DEF OthersClean, Clean, Checked
  <2> QED BY <1>0, <2>1, <2>3, <2>4 DEF Listed
<1>3. CASE RemoveEntries
  <2> DEFINE t == [kind |-> "remove", at |-> removal.of, marked |-> FALSE]
  <2>1. /\ removal # None /\ removal.at = "gone" /\ removal' = [removal EXCEPT !.at = "queued"]
        /\ queue' = Append(queue, t) /\ UNCHANGED <<record, pending, note, tomb, journal>>
    BY <1>3 DEF RemoveEntries, At, storage, drafts
  <2>2. removal' # None /\ removal'.of = removal.of /\ removal'.at = "queued"
    BY <1>0, <2>1 DEF Removals, OrNone, NoneIsApart
  <2>3. \A i \in 1..Len(queue) : queue[i].kind # "remove"
    BY <1>0, <2>1 DEF QueueListed
  <2>4. t \in Tasks /\ Untouched(t) /\ t.kind = "remove" /\ ~t.marked /\ t.at = removal.of
    BY <1>0, <2>1 DEF Tasks, RemoveTasks, Removals, OrNone, Untouched
  <2> HIDE DEF t
  <2>5. /\ InOrder(queue') /\ queue' # <<>> /\ Len(queue') = Len(queue) + 1
        /\ \A i \in 1..Len(queue) : queue'[i] = queue[i]
        /\ queue'[Len(queue) + 1] = t /\ queue'[1] = IF queue = <<>> THEN t ELSE queue[1]
    BY <1>0, <2>1, <2>3, <2>4, AppendInOrder
  <2>6. \A i \in 1..Len(queue') : i = Len(queue) + 1 \/ i \in 1..Len(queue)
    BY <1>0, <2>5
  <2>7. QueueListed' /\ MarkedHead' /\ MarkedEmpty'
    BY <1>0, <2>1, <2>2, <2>3, <2>4, <2>5, <2>6 DEF QueueListed, MarkedHead, MarkedEmpty
  <2>8. RemovalListed'
    BY <1>0, <2>1, <2>2 DEF RemovalListed
  <2>9. OthersClean'
    BY <1>0, <2>1, <2>4, <2>5 DEF OthersClean, Clean, Checked
  <2> QED BY <2>5, <2>7, <2>8, <2>9 DEF Listed
<1>4. CASE RemoveEnds
  <2>1. /\ removal # None /\ removal.at = "removed" /\ removal' = None /\ pending' = pending \ {removal.of}
        /\ UNCHANGED <<record, note, tomb, journal, queue>>
    BY <1>4 DEF RemoveEnds, At, drafts
  <2>2. Clean(removal.of) /\ \A i \in 1..Len(queue) : queue[i].kind # "remove"
    BY <1>0, <2>1 DEF RemovalListed, QueueListed
  <2>3. QueueListed' /\ MarkedHead' /\ MarkedEmpty' /\ RemovalListed'
    BY <1>0, <2>1, <2>2 DEF QueueListed, MarkedHead, MarkedEmpty, RemovalListed
  <2>4. OthersClean'
    BY <1>0, <2>1, <2>2 DEF OthersClean, Clean, Checked
  <2> QED BY <1>0, <2>1, <2>3, <2>4 DEF Listed
<1>5. CASE RemoveDrafts
  <2> DEFINE t == Head(queue)
             u == [t EXCEPT !.marked = TRUE]
  <2>1. queue # <<>> /\ t = queue[1] /\ t \in RemoveTasks /\ t.kind = "remove" /\ t.at \in Workspaces /\ Len(queue) \in Nat \ {0}
    BY <1>0, <1>5, TaskSequences DEF RemoveDrafts, Tasks, NoteTasks, RemoveTasks
  <2>2. u \in Tasks /\ u.kind = "remove" /\ u.at = t.at
    BY <2>1 DEF Tasks, RemoveTasks
  <2>3. /\ tomb' = tomb \cup {t.at} /\ journal' = [journal EXCEPT ![t.at] = [e \in Editors |-> None]]
        /\ queue' = <<u>> \o Tail(queue) /\ UNCHANGED <<record, pending, note, removal>>
    BY <1>5 DEF RemoveDrafts, storage
  <2> HIDE DEF t, u
  <2>4. /\ InOrder(queue') /\ queue' # <<>> /\ Len(queue') = Len(queue) /\ queue'[1] = u
        /\ \A i \in 1..Len(queue) : queue'[i] = IF i = 1 THEN u ELSE queue[i]
    <3>1. u.kind = Head(queue).kind
      BY <2>1, <2>2 DEF t
    <3> QED BY <1>0, <2>1, <2>2, <2>3, <3>1, HeadInOrder
  <2>5. QueueListed' /\ MarkedHead'
    BY <1>0, <2>1, <2>2, <2>3, <2>4 DEF QueueListed, MarkedHead
  <2>6. MarkedEmpty'
    BY <1>0, <2>1, <2>3 DEF MarkedEmpty
  <2>7. \A w : Clean(w) => Clean(w)'
    BY <2>2, <2>3, <2>4 DEF Clean, Checked
  <2>8. RemovalListed' /\ OthersClean'
    BY <1>0, <2>3, <2>7 DEF RemovalListed, OthersClean
  <2> QED BY <2>4, <2>5, <2>6, <2>8 DEF Listed
<1>6. CASE RemoveState
  <2> DEFINE t == Head(queue)
  <2>1. queue # <<>> /\ t = queue[1] /\ t \in RemoveTasks /\ t.kind = "remove" /\ t.at \in Workspaces
        /\ t.marked /\ Len(queue) \in Nat \ {0}
    BY <1>0, <1>6, TaskSequences DEF RemoveState, Tasks, NoteTasks, RemoveTasks
  <2>2. /\ note' = [note EXCEPT ![t.at] = 0] /\ queue' = Tail(queue) /\ removal' = [removal EXCEPT !.at = "removed"]
        /\ UNCHANGED <<record, pending, tomb, journal>>
    BY <1>6 DEF RemoveState, drafts
  <2> HIDE DEF t
  <2>3. removal # None /\ removal.at = "queued" /\ t.at = removal.of /\ t.at \in tomb
    BY <1>0, <2>1 DEF QueueListed, MarkedHead
  <2>4. removal' # None /\ removal'.of = removal.of /\ removal'.at = "removed"
    BY <1>0, <2>2, <2>3 DEF Removals, OrNone, NoneIsApart
  <2>5. /\ InOrder(queue') /\ MarkedHead' /\ \A w : ~Checked(w)'
        /\ \A i \in 1..Len(queue') : queue'[i].kind # "remove"
    BY <2>1, <2>2, TailListed
  <2>6. QueueListed' /\ MarkedEmpty'
    BY <1>0, <2>2, <2>5 DEF QueueListed, MarkedEmpty
  <2>7. \A w \in Workspaces : w = t.at \/ Clean(w) => Clean(w)'
    BY <1>0, <2>1, <2>2, <2>3, <2>5 DEF Clean
  <2>8. RemovalListed' /\ OthersClean'
    BY <1>0, <2>1, <2>2, <2>3, <2>4, <2>7 DEF RemovalListed, OthersClean
  <2> QED BY <2>5, <2>6, <2>8 DEF Listed
<1>7. CASE RemoveFails
  <2>1. queue # <<>> /\ Head(queue).kind = "remove" /\ queue' = Tail(queue) /\ removal' = None
        /\ UNCHANGED <<record, pending, note, tomb, journal>> /\ Head(queue) = queue[1]
    BY <1>0, <1>7, TaskSequences DEF RemoveFails, storage, drafts
  <2>2. /\ InOrder(queue') /\ MarkedHead' /\ \A w : ~Checked(w)'
        /\ \A i \in 1..Len(queue') : queue'[i].kind # "remove"
    BY <2>1, TailListed
  <2> QED BY <1>0, <2>1, <2>2 DEF Listed, QueueListed, RemovalListed, OthersClean, MarkedEmpty, Clean
<1>8. CASE Stop
  <2>1. queue' = <<>> /\ removal' = None /\ UNCHANGED <<record, pending, note, tomb, journal>>
    BY <1>8 DEF Stop, storage, drafts
  <2>2. Len(queue') = 0
    BY <2>1, EmptySeq
  <2> QED BY <1>0, <2>1, <2>2 DEF Listed, InOrder, Removals1, QueueListed, MarkedHead, RemovalListed, OthersClean,
             MarkedEmpty, Clean, Checked
<1>9. CASE Retry
  <2>1. PICK w \in pending \ record : removal' = [of |-> w, at |-> "gone"]
    BY <1>9 DEF Retry
  <2>2. removal = None /\ UNCHANGED <<record, pending, note, tomb, journal, queue>>
    BY <1>9 DEF Retry, storage, drafts, counts
  <2>3. QueueListed' /\ MarkedHead' /\ MarkedEmpty' /\ OthersClean'
    BY <1>0, <2>2 DEF QueueListed, MarkedHead, MarkedEmpty, OthersClean, Clean, Checked
  <2>4. RemovalListed'
    BY <2>1, <2>2 DEF RemovalListed
  <2> QED BY <1>0, <2>2, <2>3, <2>4 DEF Listed
<1> QED BY <1>1, <1>2, <1>3, <1>4, <1>5, <1>6, <1>7, <1>8, <1>9 DEF RemoveStep

----------------------------------------------------------------------------
(* What is unsaved is in the journal, or is about to be written to it.      *)
Kept == \A e \in Editors, w \in Workspaces : unsaved[e][w] # None /\ w \notin tomb =>
          IF editor[e].writes # None /\ editor[e].writes[1] = w THEN editor[e].writes = <<w, unsaved[e][w]>>
          ELSE journal[w][e] = unsaved[e][w]

LEMMA EditorsKeepTexts ==
    ASSUME NoneIsApart, Types, Kept, NEW e \in Editors,
           \/ Type(e) \/ PersistDraft(e) \/ TimerEnds(e) \/ Select(e) \/ See(e)
           \/ Leave(e) \/ Vanish(e) \/ Send(e) \/ Restore(e)
    PROVE  Kept'
<1>1. /\ editor \in [Editors -> Eds] /\ unsaved \in [Editors -> [Workspaces -> OrNone(Nat)]]
      /\ journal \in [Workspaces -> [Editors -> OrNone(Nat)]] /\ editor[e] \in Eds /\ Sane(editor[e])
  BY EditorFacts DEF Types, TypeOK
<1>2. ASSUME UNCHANGED <<tomb, journal, unsaved>>,
             \A o \in Editors : editor'[o].writes = editor[o].writes
      PROVE  Kept'
  BY <1>2 DEF Kept
<1>3. ASSUME NEW w \in Workspaces, NEW text \in Nat, UNCHANGED <<tomb, journal>>, editor[e].writes = None,
             \A o \in Editors : o # e => editor'[o] = editor[o],
             editor'[e].writes = IF w \in tomb THEN None ELSE <<w, text>>,
             unsaved' = [unsaved EXCEPT ![e][w] = text]
      PROVE  Kept'
  <2>1. \A o \in Editors, x \in Workspaces : unsaved'[o][x] = IF o = e /\ x = w THEN text ELSE unsaved[o][x]
    BY <1>1, <1>3
  <2>2. w \notin tomb => editor'[e].writes # None /\ editor'[e].writes[1] = w
    BY <1>3 DEF NoneIsApart, Saves
  <2>3. ASSUME NEW x \in Workspaces, unsaved'[e][x] # None, x \notin tomb
        PROVE  IF editor'[e].writes # None /\ editor'[e].writes[1] = x THEN editor'[e].writes = <<x, unsaved'[e][x]>>
               ELSE journal[x][e] = unsaved'[e][x]
    <3>1. CASE x = w
      BY <1>3, <2>1, <2>2, <2>3, <3>1
    <3>2. CASE x # w
      BY <1>3, <2>1, <2>2, <2>3, <3>2 DEF Kept
    <3> QED BY <3>1, <3>2
  <2> QED BY <1>3, <2>1, <2>3 DEF Kept
<1>4. CASE Type(e)
  <2> DEFINE w == editor[e].selected
             text == edits + 1
  <2>1. w \in Workspaces /\ text \in Nat /\ editor[e].writes = None /\ UNCHANGED <<tomb, journal>>
    BY <1>1, <1>4 DEF Type, Eds, OrNone, Types, TypeOK, drafts
  <2>2. editor' = [editor EXCEPT ![e] = Typed(editor[e], text)] /\ unsaved' = [unsaved EXCEPT ![e][w] = text]
    BY <1>4 DEF Type
  <2>3. Typed(editor[e], text).writes = IF w \in tomb THEN None ELSE <<w, text>>
    BY <1>1 DEF Typed, Eds
  <2> HIDE DEF w, text
  <2> QED BY <1>1, <1>3, <2>1, <2>2, <2>3
<1>5. CASE Restore(e)
  <2> DEFINE w == editor[e].selected
             o == editor[e].offer[1]
             text == editor[e].offer[2]
             ed == [editor[e] EXCEPT !.restored[w] = <<o, text>>, !.offer = None]
  <2>1. w \in Workspaces /\ text \in Nat /\ editor[e].writes = None /\ UNCHANGED <<tomb, journal>>
    BY <1>1, <1>5 DEF Restore, Eds, OrNone, Drafts, Sane, drafts, Idle
  <2>2. ed.writes = editor[e].writes /\ ed.selected = w
    BY <1>1 DEF Eds
  <2>3. Typed(ed, text).writes = IF w \in tomb THEN None ELSE <<w, text>>
    BY <1>1, <2>2 DEF Typed, Eds
  <2>4. CASE editor' = [editor EXCEPT ![e] = ed] /\ UNCHANGED unsaved
    <3> HIDE DEF ed
    <3> QED BY <1>1, <1>2, <2>1, <2>2, <2>4
  <2>5. CASE editor' = [editor EXCEPT ![e] = Typed(ed, text)] /\ unsaved' = [unsaved EXCEPT ![e][w] = text]
    <3>1. /\ \A x \in Editors : x # e => editor'[x] = editor[x]
          /\ editor'[e] = Typed(ed, text)
      BY <1>1, <2>5
    <3>2. unsaved' = [unsaved EXCEPT ![e][w] = text]
      BY <2>5
    <3> HIDE DEF ed, w, text
    <3> QED BY <1>3, <2>1, <2>3, <3>1, <3>2
  <2> QED BY <1>5, <2>4, <2>5 DEF Restore
<1>6. CASE PersistDraft(e)
  <2> DEFINE w == editor[e].writes[1]
             text == editor[e].writes[2]
  <2>1. w \in Workspaces /\ text \in Nat /\ editor[e].writes = <<w, text>> /\ editor[e].writes # None
        /\ editor[e].writes[1] = w
    BY <1>1, <1>6 DEF PersistDraft, Eds, OrNone, Saves
  <2>2. journal' = [journal EXCEPT ![w][e] = IF w \in tomb THEN None ELSE text] /\ UNCHANGED <<tomb, unsaved>>
    BY <1>6 DEF PersistDraft
  <2>3. \A o \in Editors : editor'[o].writes = IF o = e THEN None ELSE editor[o].writes
    BY <1>1, <1>6 DEF PersistDraft, Eds
  <2> HIDE DEF w, text
  <2>4. \A o \in Editors, x \in Workspaces :
          journal'[x][o] = IF o = e /\ x = w THEN (IF w \in tomb THEN None ELSE text) ELSE journal[x][o]
    BY <1>1, <2>1, <2>2
  <2>5. ASSUME NEW x \in Workspaces, unsaved[e][x] # None, x \notin tomb
        PROVE  journal'[x][e] = unsaved[e][x]
    <3>1. CASE x = w
      <4>1. editor[e].writes = <<w, unsaved[e][w]>>
        BY <2>1, <2>5, <3>1 DEF Kept
      <4> QED BY <2>1, <2>4, <2>5, <3>1, <4>1
    <3>2. CASE x # w
      BY <2>1, <2>4, <2>5, <3>2 DEF Kept
    <3> QED BY <3>1, <3>2
  <2>6. ASSUME NEW o \in Editors, o # e, NEW x \in Workspaces, unsaved[o][x] # None, x \notin tomb
        PROVE  IF editor[o].writes # None /\ editor[o].writes[1] = x THEN editor[o].writes = <<x, unsaved[o][x]>>
               ELSE journal'[x][o] = unsaved[o][x]
    BY <2>4, <2>6 DEF Kept
  <2> QED BY <2>2, <2>3, <2>5, <2>6 DEF Kept
<1>7. CASE TimerEnds(e) \/ See(e) \/ Send(e)
  <2>1. UNCHANGED <<tomb, journal, unsaved>>
    BY <1>7 DEF TimerEnds, See, Send, drafts
  <2>2. \A o \in Editors : editor'[o].writes = editor[o].writes
    <3>1. CASE TimerEnds(e)
      BY <1>1, <3>1 DEF TimerEnds, Eds
    <3>2. CASE See(e)
      BY <1>1, <3>2 DEF See, Eds
    <3>3. CASE Send(e)
      <4>1. editor' = [editor EXCEPT ![e].sent = TRUE]
        BY <3>3 DEF Send
      <4> QED BY <1>1, <4>1 DEF Eds
    <3> QED BY <1>7, <3>1, <3>2, <3>3
  <2> QED BY <1>2, <2>1, <2>2
<1>8. CASE Select(e)
  <2>1. UNCHANGED <<tomb, journal, unsaved>>
    BY <1>8 DEF Select, drafts
  <2>2. Flushed(editor[e]) \in Eds /\ Flushed(editor[e]).writes = editor[e].writes
    <3>1. Flushed(editor[e]) \in Eds
      BY EditorFacts, FlushedType
    <3> QED BY <1>1, <3>1 DEF Flushed, Eds
  <2>3. \A o \in Editors : editor'[o].writes = editor[o].writes
    <3>1. PICK w \in Workspaces \ {editor[e].selected} :
            LET ed == Flushed(editor[e])
                text == IF w \in ed.dirty /\ ed.draft[w] # None THEN ed.draft[w] ELSE ed.seen[w]
            IN  editor' = [editor EXCEPT ![e] = [ed EXCEPT !.selected = w, !.timer = None, !.shown = text,
                                                 !.offer = Recoverable(e, w, ed.seen[w])]]
      BY <1>8 DEF Select
    <3> QED BY <1>1, <2>2, <3>1 DEF Eds
  <2> QED BY <1>2, <2>1, <2>3
<1>9. CASE Leave(e)
  <2>1. UNCHANGED <<tomb, journal, unsaved>>
    BY <1>9 DEF Leave, drafts
  <2>2. \A o \in Editors : editor'[o].writes = editor[o].writes
    BY <1>1, <1>9 DEF Leave, Eds
  <2> QED BY <1>2, <2>1, <2>2
<1>10. CASE Vanish(e)
  <2>1. UNCHANGED <<tomb, journal, unsaved>>
    BY <1>10 DEF Vanish, drafts
  <2>2. [Fresh EXCEPT !.open = FALSE].writes = None /\ editor[e].writes = None
    BY <1>10 DEF Vanish, Fresh, Idle
  <2>3. \A o \in Editors : editor'[o].writes = editor[o].writes
    BY <1>1, <1>10, <2>2 DEF Vanish
  <2> QED BY <1>2, <2>1, <2>3
<1> QED BY <1>4, <1>5, <1>6, <1>7, <1>8, <1>9, <1>10

(* A draft goes with its text only: when the text is stored it is not       *)
(* unsaved any more.                                                        *)
LEMMA WorkerKeepsTexts ==
    ASSUME NoneIsApart, Types, Kept,
           \/ Serve \/ SaveFails \/ \E w \in Workspaces : Delete(w)
           \/ RemoveStep \/ RemoveFails \/ Stop \/ Retry
    PROVE  Kept'
<1>1. /\ editor \in [Editors -> Eds] /\ unsaved \in [Editors -> [Workspaces -> OrNone(Nat)]]
      /\ journal \in [Workspaces -> [Editors -> OrNone(Nat)]] /\ queue \in Seq(Tasks)
  BY DEF Types, TypeOK
<1>2. ASSUME tomb \subseteq tomb', \A o \in Editors : editor'[o].writes = editor[o].writes,
             \A o \in Editors, x \in Workspaces :
               /\ unsaved'[o][x] \in {None, unsaved[o][x]}
               /\ unsaved'[o][x] # None /\ x \notin tomb' /\ ~(editor[o].writes # None /\ editor[o].writes[1] = x)
                  => journal'[x][o] = journal[x][o]
      PROVE  Kept'
  BY <1>2 DEF Kept
<1>3. ASSUME NEW stored \in BOOLEAN, Head(queue) \in NoteTasks, Answered(Head(queue).of, Head(queue), stored),
             UNCHANGED tomb,
             \A o \in Editors, x \in Workspaces :
               unsaved'[o][x] = IF stored /\ x = Head(queue).at /\ (unsaved[o][x] = Head(queue).text
                                                                   \/ BecameOf(Head(queue), o, unsaved[o][x]))
                                THEN None ELSE unsaved[o][x]
      PROVE  Kept'
  <2> DEFINE t == Head(queue)
  <2>1. /\ \A o \in Editors : editor'[o].writes = editor[o].writes
        /\ \A x \in Workspaces, o \in Editors : journal'[x][o] # journal[x][o] =>
                /\ journal'[x][o] = None /\ x = t.at /\ stored
                /\ \/ o = t.of /\ journal[x][o] = t.text
                   \/ BecameOf(t, o, journal[x][o])
    <3>1. Answered(t.of, t, stored) /\ t \in NoteTasks
      BY <1>3
    <3> HIDE DEF t
    <3> QED BY <3>1, AnsweredEditor
  <2>2. ASSUME NEW o \in Editors, NEW x \in Workspaces, unsaved'[o][x] # None, x \notin tomb,
               ~(editor[o].writes # None /\ editor[o].writes[1] = x), journal'[x][o] # journal[x][o]
        PROVE  FALSE
    <3>1. unsaved[o][x] # None /\ unsaved'[o][x] = unsaved[o][x]
      BY <1>3, <2>2
    <3>2. journal[x][o] = unsaved[o][x]
      BY <2>2, <3>1 DEF Kept
    <3>3. stored /\ x = t.at /\ (unsaved[o][x] = t.text \/ BecameOf(t, o, unsaved[o][x]))
      BY <2>1, <2>2, <3>2
    <3> HIDE DEF t
    <3>4. unsaved'[o][x] = None
      BY <1>3, <3>3 DEF t
    <3> QED BY <2>2, <3>4
  <2> HIDE DEF t
  <2> QED BY <1>2, <1>3, <2>1, <2>2
<1>4. CASE CheckNote \/ SaveFails
  <2>1. queue # <<>> /\ Head(queue).kind = "note" /\ Head(queue) \in NoteTasks
    BY <1>1, <1>4, TaskSequences DEF CheckNote, SaveFails, Tasks, RemoveTasks
  <2>2. UNCHANGED <<tomb, unsaved>>
    BY <1>4 DEF CheckNote, SaveFails
  <2>3. CASE UNCHANGED <<journal, editor>>
    BY <1>2, <2>2, <2>3
  <2>4. CASE Answered(Head(queue).of, Head(queue), FALSE)
    BY <1>3, <2>1, <2>2, <2>4
  <2> QED BY <1>4, <2>3, <2>4 DEF CheckNote, SaveFails
<1>5. CASE SaveNote
  <2>1. UNCHANGED tomb
    BY <1>5 DEF SaveNote
  <2>2. LET t == Head(queue)
        IN  /\ t \in NoteTasks /\ Answered(t.of, t, TRUE)
            /\ \A o \in Editors, x \in Workspaces :
                    unsaved'[o][x] = IF x = t.at /\ (unsaved[o][x] = t.text \/ BecameOf(t, o, unsaved[o][x]))
                                     THEN None ELSE unsaved[o][x]
    BY <1>5, UnsavedLess
  <2> QED BY <1>3, <2>1, <2>2
<1>6. CASE RemoveDrafts
  <2> DEFINE w == Head(queue).at
  <2>1. /\ tomb' = tomb \cup {w} /\ journal' = [journal EXCEPT ![w] = [e \in Editors |-> None]]
        /\ UNCHANGED <<editor, unsaved>>
    BY <1>6 DEF RemoveDrafts
  <2> HIDE DEF w
  <2>2. \A x \in Workspaces, o \in Editors : x # w => journal'[x][o] = journal[x][o]
    BY <1>1, <2>1
  <2> QED BY <1>2, <2>1, <2>2
<1>7. CASE Stop
  <2>1. UNCHANGED <<tomb, journal, unsaved>>
    BY <1>7 DEF Stop, drafts
  <2>2. \A o \in Editors : editor'[o].writes = editor[o].writes
    BY <1>1, <1>7 DEF Stop, Eds
  <2> QED BY <1>2, <2>1, <2>2
<1>8. CASE RemoveState \/ RemoveStep \/ RemoveFails \/ Retry \/ \E w \in Workspaces : Delete(w)
  <2>1. UNCHANGED <<tomb, journal, unsaved, editor>>
    BY <1>8 DEF RemoveState, RemoveStep, DeleteRecord, RemoveEntries, RemoveEnds, RemoveFails, Retry, Delete, drafts
  <2> QED BY <1>2, <2>1
<1> QED BY <1>4, <1>5, <1>6, <1>7, <1>8 DEF Serve

----------------------------------------------------------------------------
(* The invariant of the notes.                                              *)
IInv == Types /\ Listed /\ Kept

LEMMA InitInv == NoneIsApart /\ Init => IInv
<1> SUFFICES ASSUME NoneIsApart, Init PROVE IInv
  OBVIOUS
<1>1. Types
  BY InitTypes
<1>2. Len(queue) = 0
  BY EmptySeq DEF Init
<1>3. Listed
  BY <1>2 DEF Init, Listed, InOrder, Removals1, QueueListed, MarkedHead, RemovalListed, OthersClean, MarkedEmpty
<1>4. Kept
  BY DEF Init, Kept
<1> QED BY <1>1, <1>3, <1>4 DEF IInv

LEMMA NextInv == NoneIsApart /\ IInv /\ [Next]_vars => IInv'
<1> SUFFICES ASSUME NoneIsApart, IInv, [Next]_vars PROVE IInv'
  OBVIOUS
<1>0. Types /\ Listed /\ Kept
  BY DEF IInv
<1>1. ASSUME NEW e \in Editors,
             \/ Type(e) \/ PersistDraft(e) \/ TimerEnds(e) \/ Select(e) \/ See(e)
             \/ Leave(e) \/ Vanish(e) \/ Send(e) \/ Restore(e)
      PROVE  IInv'
  <2>1. Types'
    BY <1>0, <1>1, TypingTypes, CallbackTypes, SelectTypes, SeeTypes, LeaveTypes
  <2>2. Listed' /\ Kept'
    BY <1>0, <1>1, EditorsKeepList, EditorsKeepTexts
  <2> QED BY <2>1, <2>2 DEF IInv
<1>2. CASE CheckNote \/ SaveNote \/ SaveFails
  BY <1>0, <1>2, SaveTypes, SavesKeepList, WorkerKeepsTexts DEF IInv, Serve
<1>3. CASE RemoveDrafts \/ RemoveState \/ (\E w \in Workspaces : Delete(w)) \/ RemoveStep \/ RemoveFails \/ Stop \/ Retry
  BY <1>0, <1>3, RemovalTypes, RemovalKeepsList, WorkerKeepsTexts DEF IInv, Serve
<1>4. CASE UNCHANGED vars
  BY <1>0, <1>4 DEF vars, IInv, Types, TypeOK, EditorsFollow, Listed, QueueListed, MarkedHead, RemovalListed,
     OthersClean, MarkedEmpty, Clean, Checked, Kept
<1> QED BY <1>1, <1>2, <1>3, <1>4 DEF Next, Serve

LEMMA Invariant == ASSUME NoneIsApart PROVE Spec => []IInv
<1>1. Init => IInv
  BY InitInv
<1>2. IInv /\ [Next]_vars => IInv'
  BY NextInv
<1> QED BY <1>1, <1>2, PTL DEF Spec

(* What the invariant says of what the user typed, of what is left of a     *)
(* deleted workspace, and of what an editor shows.                          *)
LEMMA InvKeepsDrafts == IInv => TypedIsKept /\ LeftoversArePending
<1>1. IInv => TypedIsKept
  BY DEF IInv, Kept, TypedIsKept, Idle
<1>2. IInv => LeftoversArePending
  BY DEF IInv, Listed, OthersClean, MarkedEmpty, Clean, LeftoversArePending
<1> QED BY <1>1, <1>2

StaysShown(e) ==
    LET w == editor[e].selected
    IN  /\ w # None /\ editor'[e].selected = w
        /\ unsaved[e][w] = editor[e].shown /\ unsaved'[e] = unsaved[e]
        => editor'[e].shown = editor[e].shown

LEMMA InvShowsEdited ==
    ASSUME NoneIsApart, IInv, IInv', NEW e \in Editors
    PROVE  StaysShown(e)
<1> SUFFICES ASSUME editor[e].selected # None,
                    editor'[e].selected = editor[e].selected,
                    unsaved[e][editor[e].selected] = editor[e].shown, unsaved'[e] = unsaved[e]
             PROVE  editor'[e].shown = editor[e].shown
  BY DEF StaysShown
<1>1. editor[e] \in Eds /\ Sane(editor'[e]) /\ Follows(editor'[e], unsaved'[e])
  BY DEF IInv, Types, TypeOK, EditorsFollow
<1>2. editor[e].selected \in Workspaces /\ editor[e].shown \in Nat /\ editor'[e].open
  BY <1>1 DEF Eds, OrNone, Sane
<1> QED BY <1>1, <1>2 DEF Follows, NoneIsApart

(* A text that was typed is stored, or is in the journal, or its workspace  *)
(* has been deleted: whatever pages vanish, saves fail and worker stops     *)
(* there are (noteDraftJournal.ts 31-94).                                   *)
THEOREM TypedTextsAreKept == ASSUME NoneIsApart PROVE Spec => []TypedIsKept
<1>1. IInv => TypedIsKept
  BY InvKeepsDrafts
<1> QED BY <1>1, Invariant, PTL

(* The notes and drafts of a deleted workspace are never left behind        *)
(* without an entry on the list of removals (storageQueues.ts 56-76,        *)
(* 176-215).                                                                *)
THEOREM NothingIsForgotten == ASSUME NoneIsApart PROVE Spec => []LeftoversArePending
<1>1. IInv => LeftoversArePending
  BY InvKeepsDrafts
<1> QED BY <1>1, Invariant, PTL

(* Both at once, as the run of the services states it.                      *)
THEOREM DraftsStayKept == ASSUME NoneIsApart PROVE Spec => []DraftsAreKept
<1>1. TypedIsKept /\ LeftoversArePending => DraftsAreKept
  BY DEF DraftsAreKept
<1> QED BY <1>1, TypedTextsAreKept, NothingIsForgotten, PTL

(* A text being edited stays shown, whatever is stored meanwhile            *)
(* (useNoteLogic.ts 223-249).                                               *)
THEOREM EditingIsNotDisturbed == ASSUME NoneIsApart PROVE Spec => EditedStaysShown
<1> DEFINE Stays == \A e \in Editors :
                      LET w == editor[e].selected
                      IN  /\ w # None /\ editor'[e].selected = w
                          /\ unsaved[e][w] = editor[e].shown /\ unsaved'[e] = unsaved[e]
                          => editor'[e].shown = editor[e].shown
<1>1. IInv /\ IInv' => Stays
  BY InvShowsEdited DEF StaysShown
<1>2. IInv /\ IInv' => [Stays]_vars
  BY <1>1
<1> QED BY <1>2, Invariant, PTL DEF EditedStaysShown
=============================================================================
