------------------------ MODULE WindowAutosave_proofs ------------------------
(***************************************************************************)
(* A stale copy never overwrites newer data: for every number of windows,  *)
(* workspaces, operations, changes and restarts of the worker.             *)
(***************************************************************************)
EXTENDS WindowAutosave, SequenceTheorems, TLAPS

OrNone(S) == S \cup {None}
FlushPcs == {"idle", "snapshot", "capture", "commit", "save", "bind", "others", "flag", "ended"}
Flushes == [pc : FlushPcs, window : OrNone(Windows), expected : OrNone(Binding), tabs : SUBSET Change,
            result : {"none", "unbound", "stale", "busy", "moved", "unchanged", "saved"}]
Plans == [tabs : SUBSET Change, rev : Nat]
EditPcs == {"look", "mark", "rollback"}
OpPcs == {"idle", "flush", "write", "queued", "invalidate", "done"} \cup EditPcs \cup SwitchPc
Operations == [pc : OpPcs, kind : Kinds \cup {"none"}, window : OrNone(Windows), ws : OrNone(Workspaces),
               tabs : SUBSET Change, rev : Nat, change : Change \cup {0},
               source : OrNone(Binding), plan : OrNone(Plans)]
Journals == [window : Windows, target : Workspaces, source : OrNone(Workspaces), rev : Nat,
             tabs : SUBSET Change]

(* A switch is of some window, calls respect the window that is being       *)
(* switched, and no binding, plan or journal is taken for none at all.      *)
SwitchesRespected ==
  /\ GuardFlush
  /\ \A m \in Menu : m.kind = "switch" => m.window # None
  /\ None \notin Binding \cup Plans \cup Journals

(* What is assumed of the timing: when the tabs of a window are replaced,   *)
(* no flush has captured it and still waits to be committed.  The code does *)
(* not ensure it; the run autosave_reload shows what follows.               *)
NoneWaits(k) == \A c \in Flushers : flush[c].window = k => flush[c].pc \notin {"commit", "save"}
FlushesServed == \A o \in Ops : SwitchSwap(o) => NoneWaits(op[o].window)

Active(c) == flush[c].pc \notin {"idle", "ended"}
Early == {"reserve", "flushSource", "own"}
Late == {"prepared", "swapped", "bound", "recover", "rebind"}

FlushShapes ==
  \A c \in Flushers :
    /\ flush[c].pc # "idle" => flush[c].window \in Windows
    /\ Active(c) => flush[c].expected \in Binding
    /\ c \in Ops /\ flush[c].pc # "idle" => op[c].pc \in {"flush", "flushSource"}
    /\ flush[c].pc = "save" => First(wsLine, c)

OpShapes ==
  \A o \in Ops :
    /\ op[o].pc \notin {"idle", "done"} => op[o].ws \in Workspaces /\ op[o].kind # "none"
    /\ op[o].pc \in SwitchPc \cup {"queued", "flush"} => op[o].window \in Windows
    /\ op[o].pc \in EditPcs => op[o].kind = "edit"
    /\ op[o].pc \in SwitchPc \cup {"queued"} => op[o].kind \in {"switch", "edit"}
    /\ op[o].source # None => op[o].window \in Windows
    /\ op[o].pc \in {"prepared", "swapped"} => op[o].plan \in Plans

Types ==
  /\ TypeOK
  /\ journal \in OrNone(Journals)
  /\ flush \in [Flushers -> Flushes]
  /\ op \in [Ops -> Operations]
  /\ edits \in 0 .. MaxEdits

(* One switch runs at a time; its window is suppressed; from the writing of *)
(* the journal until it is cleared the journal is that of the switch, or of *)
(* one that was cut.                                                        *)
OneSwitch ==
  /\ \A o, p \in Ops : Switching(o) /\ Switching(p) => o = p
  /\ \A o \in Ops : Switching(o) => op[o].window \in suppressed
  /\ \A o \in Ops : op[o].pc \in Early => journal = None
  /\ \A o \in Ops : op[o].pc \in Late =>
       journal # None /\ journal.window = op[o].window /\ journal.target = op[o].ws

(* What a binding says of its window and its source does not go back.       *)
SourceOf(o) ==
  op[o].pc \in Early =>
    LET b == binding[op[o].window]  s == op[o].source IN
    (s = None /\ b = None) \/ (s # None /\ b # None /\ b.ws = s.ws /\ b.rev >= s.rev)

SourceIsBound ==
  /\ \A o \in Ops : SourceOf(o)
  /\ journal # None => \/ binding[journal.window] = None
                       \/ binding[journal.window].ws \in {journal.source, journal.target}

(* No revision that is kept somewhere is ahead of its workspace.            *)
BindingRev(k) == binding[k] # None => binding[k].rev <= canon[binding[k].ws].rev

FlushRev(c) ==
  LET e == flush[c].expected IN
  /\ Active(c) => e.rev <= canon[e.ws].rev
  /\ flush[c].pc = "save" => e.rev = canon[e.ws].rev
  /\ flush[c].pc = "bind" => e.rev < canon[e.ws].rev

JournalRev == journal # None => (journal.source # None => journal.rev <= canon[journal.source].rev)

EditRunning == EditPcs \cup SwitchPc \cup {"queued"}
OpRev(o) ==
  /\ op[o].pc \in {"prepared", "swapped"} => op[o].plan.rev <= canon[op[o].ws].rev
  /\ op[o].kind = "edit" /\ op[o].pc \in EditRunning => op[o].rev <= canon[op[o].ws].rev

Revisions ==
  /\ \A k \in Windows : BindingRev(k)
  /\ \A c \in Flushers : FlushRev(c)
  /\ JournalRev
  /\ \A o \in Ops : OpRev(o)

(* A revision that is still the current one: all the workspace holds is in T. *)
Current(w, r, T) == w \notin interrupted /\ canon[w].rev = r => canon[w].tabs \subseteq T

(* Between the tabs of a window and its binding a switch has come.          *)
Displaced(k) ==
  \/ \E o \in Ops : op[o].window = k /\ op[o].pc \in {"swapped", "recover", "rebind"}
  \/ RecoveryPending /\ journal.window = k

(* The window will not match the binding e again.                           *)
Passed(k, e) ==
  binding[k] = None \/ binding[k].ws # e.ws \/ binding[k].stale \/ binding[k].rev > e.rev

WindowShows(k) ==
  binding[k] # None /\ ~Displaced(k) => Current(binding[k].ws, binding[k].rev, live[k])

Undoing(k) == \E o \in Ops : op[o].window = k /\ op[o].pc \in {"prepared", "recover"}

FlushCarries(c) ==
  LET f == flush[c]  e == f.expected  k == f.window IN
  /\ f.pc \in {"snapshot", "capture"} /\ c \notin mutated => Current(e.ws, e.rev, live[k])
  /\ f.pc \in {"commit", "save"} =>
       /\ Current(e.ws, e.rev, f.tabs)
       /\ e.ws \notin interrupted => f.tabs \subseteq live[k]
       /\ k \in loading => Undoing(k)
  /\ f.pc = "bind" =>
       /\ Current(e.ws, e.rev + 1, f.tabs)
       /\ e.ws \notin interrupted /\ ~Displaced(k) => f.tabs \subseteq live[k] \/ Passed(k, e)

(* What the flushes of a window know while it is switched.                  *)
SwitchMeets(o, c) ==
  LET f == flush[c]  e == f.expected  k == op[o].window IN
  f.window = k =>
    /\ op[o].pc \in {"prepared", "recover"} =>
         /\ f.pc \in {"snapshot", "capture"} /\ c \notin mutated /\ k \notin loading
              => live[k] \subseteq journal.tabs
         /\ f.pc \in {"commit", "save"} /\ e.ws \notin interrupted => f.tabs \subseteq journal.tabs
    /\ op[o].pc \in {"swapped", "bound"} =>
         /\ f.pc \in {"snapshot", "capture"} => c \in mutated
         /\ f.pc \notin {"commit", "save"}
    /\ op[o].pc = "swapped" /\ f.pc = "bind" /\ e.ws = op[o].ws => e.rev < op[o].plan.rev

SwitchCarries(o) ==
  LET k == op[o].window IN
  /\ op[o].pc \in {"prepared", "swapped"} => Current(op[o].ws, op[o].plan.rev, op[o].plan.tabs)
  /\ op[o].pc = "swapped" => op[o].plan.tabs \subseteq live[k]
  /\ op[o].pc = "rebind" => journal.tabs \subseteq live[k]

(* An edit that is rolled back takes away its own change only.              *)
EditKnows(o) ==
  op[o].kind = "edit" /\ op[o].pc \in EditRunning /\ canon[op[o].ws].rev = op[o].rev
  => canon[op[o].ws].tabs \subseteq op[o].tabs \cup {op[o].change}

JournalCarries ==
  journal # None => (journal.source # None => Current(journal.source, journal.rev, journal.tabs))

(* A switch that was cut has to do with interrupted workspaces only.        *)
CutKnows(c) ==
  RecoveryPending /\ Active(c) /\ flush[c].window = journal.window => flush[c].expected.ws \in interrupted

CutIsKnown ==
  RecoveryPending =>
    /\ journal.source \in OrNone(interrupted)
    /\ binding[journal.window] # None => binding[journal.window].ws \in interrupted

Shape == Types /\ FlushShapes /\ OpShapes /\ OneSwitch
Tabs ==
  /\ \A k \in Windows : WindowShows(k)
  /\ \A c \in Flushers : FlushCarries(c) /\ CutKnows(c)
  /\ \A o \in Ops, c \in Flushers : SwitchMeets(o, c)
  /\ \A o \in Ops : SwitchCarries(o) /\ EditKnows(o)
  /\ JournalCarries
  /\ CutIsKnown

IInv == Shape /\ SourceIsBound /\ Revisions /\ Tabs


-----------------------------------------------------------------------------
(* The queues, and the operators that several actions share.                *)

LEMMA HeadStays ==
    ASSUME NEW line \in Seq(Flushers), NEW c, NEW x \in Flushers, First(line, c)
    PROVE  First(Append(line, x), c) /\ Append(line, x) \in Seq(Flushers)
  BY DEF First

LEMMA TailIsLine ==
    ASSUME NEW line \in Seq(Flushers), NEW c, First(line, c)
    PROVE  Tail(line) \in Seq(Flushers)
  BY DEF First

LEMMA Members == Ops \subseteq Flushers /\ Drain \in Flushers /\ Drain \notin Ops
                 /\ None \notin Windows /\ None \notin Workspaces
  BY AutosaveConstants DEF Flushers

LEMMA Beginning ==
    ASSUME Shape, NEW c \in Flushers, NEW k \in Windows, FlushBegin(c, k)
    PROVE  \E f \in Flushes :
             /\ flush' = [flush EXCEPT ![c] = f] /\ f.window = k
             /\ \/ f.pc = "ended" /\ UNCHANGED <<wsLine, mutated>>
                \/ /\ f.pc = "snapshot" /\ binding[k] \in Binding /\ f.expected = binding[k]
                   /\ wsLine' = Append(wsLine, c) /\ mutated' = mutated \ {c}
<1>1. binding[k] \in OrNone(Binding)
  BY DEF Shape, Types, TypeOK, OrNone
<1>2. CASE binding[k] = None
  <2> DEFINE f == Ended([NoFlush EXCEPT !.window = k], "unbound")
  <2>1. f \in Flushes /\ f.pc = "ended" /\ f.window = k
    BY DEF Flushes, FlushPcs, Ended, NoFlush, OrNone
  <2> QED BY <1>2, <2>1 DEF FlushBegin
<1>3. CASE binding[k] # None /\ binding[k].stale
  <2> DEFINE f == Ended([NoFlush EXCEPT !.window = k], "stale")
  <2>1. f \in Flushes /\ f.pc = "ended" /\ f.window = k
    BY DEF Flushes, FlushPcs, Ended, NoFlush, OrNone
  <2> QED BY <1>3, <2>1 DEF FlushBegin
<1>4. CASE binding[k] # None /\ ~binding[k].stale
  <2> DEFINE f == [NoFlush EXCEPT !.pc = "snapshot", !.window = k, !.expected = binding[k]]
  <2>1. f \in Flushes /\ f.pc = "snapshot" /\ f.window = k /\ f.expected = binding[k]
    BY <1>1, <1>4 DEF Flushes, FlushPcs, Ended, NoFlush, OrNone
  <2> QED BY <1>1, <1>4, <2>1 DEF FlushBegin, OrNone
<1> QED BY <1>2, <1>3, <1>4

LEMMA Ending ==
    ASSUME Shape, NEW o \in Ops, Switching(o), NEW success, NEW discard, SwitchEnd(o, success, discard)
    PROVE  /\ suppressed' = suppressed \ {op[o].window}
           /\ requested' \in SUBSET Windows /\ dirty' \in SUBSET Windows
           /\ drain' \in [on : BOOLEAN, pass : SUBSET Windows]
           /\ \E n \in Operations :
                /\ op' = [op EXCEPT ![o] = n] /\ n.pc \in {"done", "rollback"}
                /\ n.source = None
                /\ n.pc = "rollback" => /\ op[o].kind = "edit" /\ n.kind = "edit" /\ n.ws = op[o].ws
                                        /\ n.window = op[o].window /\ n.rev = op[o].rev /\ n.tabs = op[o].tabs /\ n.change = op[o].change
<1>1. op[o] \in Operations /\ op[o].window \in Windows /\ op[o].kind \in {"switch", "edit"}
  BY DEF Shape, Types, OpShapes, Switching
<1>2. [NoOp EXCEPT !.pc = "done"] \in Operations
  BY DEF NoOp, Operations, OpPcs, OrNone
<1>3. [op[o] EXCEPT !.pc = "rollback", !.source = None] \in Operations
  BY <1>1 DEF Operations, OpPcs, EditPcs, OrNone
<1>4. /\ requested' \in SUBSET Windows /\ dirty' \in SUBSET Windows
      /\ drain' \in [on : BOOLEAN, pass : SUBSET Windows]
  BY <1>1 DEF SwitchEnd, Shape, Types, TypeOK
<1>5. CASE success \/ op[o].kind = "switch"
  <2>1. op' = [op EXCEPT ![o] = [NoOp EXCEPT !.pc = "done"]]
    BY <1>5 DEF SwitchEnd, OpDone
  <2> QED BY <1>2, <1>4, <2>1 DEF SwitchEnd, NoOp
<1>6. CASE ~(success \/ op[o].kind = "switch")
  <2> DEFINE n == [op[o] EXCEPT !.pc = "rollback", !.source = None]
  <2>1. op' = [op EXCEPT ![o] = n]
    BY <1>6 DEF SwitchEnd
  <2>2. n.pc = "rollback" /\ n.source = None /\ n.kind = "edit" /\ n.ws = op[o].ws /\ n.rev = op[o].rev
        /\ n.tabs = op[o].tabs /\ n.change = op[o].change
        /\ n.window = op[o].window
    BY <1>1, <1>6 DEF Operations
  <2> QED BY <1>1, <1>3, <1>4, <1>6, <2>1, <2>2 DEF SwitchEnd
<1> QED BY <1>5, <1>6

LEMMA Noting ==
    ASSUME Shape, NEW k \in Windows, NoteMutation(k)
    PROVE  /\ mutated' = mutated \cup {c \in Flushers : flush[c].window = k} /\ mutated' \in SUBSET Flushers
           /\ suppressed' = suppressed
           /\ requested' \in SUBSET Windows /\ dirty' \in SUBSET Windows
           /\ drain' \in [on : BOOLEAN, pass : SUBSET Windows]
  BY DEF NoteMutation, Shape, Types, TypeOK

LEMMA Marking ==
    ASSUME Shape, NEW ws, NEW except
    PROVE  OthersStale(ws, except) \in [Windows -> Binding \cup {None}]
  BY DEF OthersStale, Shape, Types, TypeOK, Binding

-----------------------------------------------------------------------------
(* The shape of the state.                                                  *)

LEMMA ShapeInit == ASSUME SwitchesRespected, Init PROVE Shape
<1>1. Types
  <2>1. /\ canon \in [Workspaces -> [tabs : SUBSET Change, rev : Nat, alive : BOOLEAN]]
        /\ binding \in [Windows -> Binding \cup {None}]
        /\ live \in [Windows -> SUBSET Change]
    <3>1. \A w \in Workspaces : (w \notin Trashed) \in BOOLEAN
      OBVIOUS
    <3>2. [ws : Workspaces, rev : {0}, stale : {FALSE}] \subseteq Binding
      <4> SUFFICES ASSUME NEW b \in [ws : Workspaces, rev : {0}, stale : {FALSE}] PROVE b \in Binding
        OBVIOUS
      <4>1. b = [ws |-> b.ws, rev |-> b.rev, stale |-> b.stale] /\ b.ws \in Workspaces /\ b.rev = 0 /\ b.stale = FALSE
        OBVIOUS
      <4>2. [ws |-> b.ws, rev |-> 0, stale |-> FALSE] \in Binding
        BY <4>1 DEF Binding
      <4> QED BY <4>1, <4>2
    <3>3. canon \in [Workspaces -> [tabs : SUBSET Change, rev : Nat, alive : BOOLEAN]]
      BY <3>1 DEF Init
    <3>4. binding \in [Windows -> Binding \cup {None}] /\ live \in [Windows -> SUBSET Change]
      BY <3>2 DEF Init
    <3> QED BY <3>3, <3>4
  <2>2. NoFlush \in Flushes /\ NoOp \in Operations /\ NoDrain \in [on : BOOLEAN, pass : SUBSET Windows]
    BY DEF OrNone, Flushes, FlushPcs, NoFlush, Operations, OpPcs, NoOp, NoDrain
  <2>3. flush \in [Flushers -> Flushes] /\ op \in [Ops -> Operations]
    BY <2>2 DEF Init
  <2>4. wsLine \in Seq(Flushers) /\ bindLine \in Seq(Flushers) /\ edits \in 0 .. MaxEdits
    BY AutosaveConstants DEF Init
  <2>5. journal = None /\ loading = {} /\ requested = {} /\ suppressed = {} /\ dirty = {} /\ mutated = {} /\ drain = NoDrain
    BY DEF Init
  <2> QED BY <2>1, <2>2, <2>3, <2>4, <2>5 DEF Types, TypeOK, OrNone
<1>2. FlushShapes
  BY DEF Init, FlushShapes, NoFlush, Active
<1>3. OpShapes
  BY DEF Init, OpShapes, NoOp, SwitchPc, EditPcs
<1>4. OneSwitch
  BY DEF Init, OneSwitch, NoOp, Switching, SwitchPc, Early, Late
<1> QED BY <1>1, <1>2, <1>3, <1>4 DEF Shape

(* Only a flush has changed.                                                *)
LEMMA FlushesShape ==
    ASSUME Shape, NEW c \in Flushers, NEW f \in Flushes, flush' = [flush EXCEPT ![c] = f],
           flush[c].pc # "idle", f.pc # "idle", f.window = flush[c].window,
           f.pc # "ended" => f.expected \in Binding,
           f.pc = "save" => First(wsLine', c),
           \A d \in Flushers : d # c /\ First(wsLine, d) /\ flush[d].pc = "save" => First(wsLine', d),
           UNCHANGED op
    PROVE  FlushShapes'
  BY DEF Shape, Types, FlushShapes, Active

LEMMA UserShape == ASSUME Shape, NEW k \in Windows, UserEdit(k) \/ TabsLoaded(k) PROVE Shape'
<1>1. NoteMutation(k) /\ UNCHANGED <<canon, journal, binding, flush, op, wsLine, bindLine, suppressed>>
  BY DEF UserEdit, TabsLoaded, store, lines, NoteMutation
<1>2. edits' \in 0 .. MaxEdits /\ live' \in [Windows -> SUBSET Change] /\ loading' \in SUBSET Windows
  <2>1. edits \in 0 .. MaxEdits /\ MaxEdits \in Nat /\ live \in [Windows -> SUBSET Change] /\ loading \in SUBSET Windows
    BY AutosaveConstants DEF Shape, Types, TypeOK
  <2>2. CASE UserEdit(k)
    <3>1. edits + 1 \in Change /\ edits' = edits + 1 /\ edits + 1 \in 0 .. MaxEdits
      BY <2>1, <2>2 DEF UserEdit, Change
    <3> QED BY <2>1, <2>2, <3>1 DEF UserEdit
  <2>3. CASE TabsLoaded(k)
    BY <2>1, <2>3 DEF TabsLoaded, history
  <2> QED BY <2>2, <2>3
<1>3. Types'
  BY <1>1, <1>2, Noting DEF Shape, Types, TypeOK
<1>4. FlushShapes' /\ OpShapes' /\ OneSwitch'
  BY <1>1 DEF Shape, FlushShapes, OpShapes, OneSwitch, Active, Switching, First
<1> QED BY <1>3, <1>4 DEF Shape

LEMMA DrainShape == ASSUME Shape, DrainPass \/ DrainFlushed \/ DrainEnd PROVE Shape'
<1>1. UNCHANGED <<canon, journal, binding, live, loading, suppressed, dirty, mutated, op, wsLine, bindLine, edits>>
  BY DEF DrainPass, DrainFlushed, DrainEnd, store, browser, lines, history
<1>2. Drain \in Flushers /\ Drain \notin Ops
  BY Members
<1>3. flush' \in [Flushers -> Flushes] /\ (flush' = flush \/ flush' = [flush EXCEPT ![Drain] = NoFlush])
  BY <1>2 DEF DrainPass, DrainFlushed, DrainEnd, Shape, Types, NoFlush, Flushes, FlushPcs, OrNone
<1>4. requested' \in SUBSET Windows /\ drain' \in [on : BOOLEAN, pass : SUBSET Windows]
  <2>1. /\ requested \in SUBSET Windows /\ drain \in [on : BOOLEAN, pass : SUBSET Windows]
        /\ (flush[Drain].pc = "ended" => flush[Drain].window \in Windows)
    BY <1>2 DEF Shape, Types, TypeOK, FlushShapes
  <2>2. NoDrain \in [on : BOOLEAN, pass : SUBSET Windows]
    BY DEF NoDrain
  <2> QED BY <2>1, <2>2 DEF DrainPass, DrainFlushed, DrainEnd
<1>5. Types'
  BY <1>1, <1>3, <1>4 DEF Shape, Types, TypeOK
<1>6. FlushShapes'
  BY <1>1, <1>2, <1>3 DEF Shape, Types, FlushShapes, Active, NoFlush, First
<1>7. OpShapes' /\ OneSwitch'
  BY <1>1 DEF Shape, OpShapes, OneSwitch, Switching
<1> QED BY <1>5, <1>6, <1>7 DEF Shape

(* A flush begins and the operations stay, or one of them begins with it.   *)
LEMMA BeginningShape ==
    ASSUME Shape, NEW c \in Flushers, NEW k \in Windows, FlushBegin(c, k),
           c \in Ops => op'[c].pc \in {"flush", "flushSource"},
           \A o \in Ops : o # c => op'[o] = op[o]
    PROVE  /\ FlushShapes' /\ flush' \in [Flushers -> Flushes] /\ mutated' \in SUBSET Flushers
           /\ wsLine' \in Seq(Flushers)
<1>1. PICK f \in Flushes :
             /\ flush' = [flush EXCEPT ![c] = f] /\ f.window = k
             /\ \/ f.pc = "ended" /\ UNCHANGED <<wsLine, mutated>>
                \/ /\ f.pc = "snapshot" /\ binding[k] \in Binding /\ f.expected = binding[k]
                   /\ wsLine' = Append(wsLine, c) /\ mutated' = mutated \ {c}
  BY Beginning
<1>2. wsLine' \in Seq(Flushers) /\ \A d \in Flushers : First(wsLine, d) => First(wsLine', d)
  <2>1. wsLine \in Seq(Flushers)
    BY DEF Shape, Types, TypeOK
  <2>2. \A d \in Flushers : First(wsLine, d) => First(Append(wsLine, c), d)
    BY <2>1, HeadStays
  <2>3. Append(wsLine, c) \in Seq(Flushers)
    BY <2>1
  <2> QED BY <1>1, <2>1, <2>2, <2>3
<1>3. flush' \in [Flushers -> Flushes] /\ mutated' \in SUBSET Flushers
  BY <1>1 DEF Shape, Types, TypeOK
<1>4. FlushShapes'
  BY <1>1, <1>2 DEF Shape, Types, FlushShapes, Active
<1> QED BY <1>2, <1>3, <1>4

LEMMA DrainNextShape == ASSUME Shape, NEW k \in Windows, DrainNext(k) PROVE Shape'
<1>1. UNCHANGED <<canon, journal, binding, live, loading, suppressed, requested, op, bindLine, edits>>
  BY DEF DrainNext, store, browser, history
<1>2. Drain \in Flushers /\ Drain \notin Ops
  BY Members
<1>3. /\ FlushShapes' /\ flush' \in [Flushers -> Flushes] /\ mutated' \in SUBSET Flushers
      /\ wsLine' \in Seq(Flushers)
  <2>1. CASE k \in suppressed
    BY <2>1, <1>1 DEF DrainNext, Shape, Types, TypeOK, FlushShapes, Active, First
  <2>2. CASE k \notin suppressed
    BY <2>2, <1>1, <1>2, BeginningShape DEF DrainNext
  <2> QED BY <2>1, <2>2
<1>4. dirty' \in SUBSET Windows /\ drain' \in [on : BOOLEAN, pass : SUBSET Windows]
  BY DEF DrainNext, Shape, Types, TypeOK
<1>5. Types'
  BY <1>1, <1>3, <1>4 DEF Shape, Types, TypeOK
<1>6. OpShapes' /\ OneSwitch'
  BY <1>1 DEF Shape, OpShapes, OneSwitch, Switching
<1> QED BY <1>3, <1>5, <1>6 DEF Shape

LEMMA FlushShape == ASSUME Shape, NEW c \in Flushers, FlushStep(c) PROVE Shape'
<1>1. UNCHANGED <<journal, live, loading, requested, suppressed, dirty, mutated, drain, op, edits>>
  BY DEF FlushStep, FlushSnapshot, FlushCapture, FlushCommit, FlushSave, FlushRebind, FlushMarkOthers,
         FlushFlag, store, browser, schedule, lines, history
<1>2. OpShapes' /\ OneSwitch'
  BY <1>1 DEF Shape, OpShapes, OneSwitch, Switching
<1>3. /\ flush[c] \in Flushes /\ wsLine \in Seq(Flushers) /\ bindLine \in Seq(Flushers)
      /\ (flush[c].pc # "idle" => flush[c].window \in Windows)
      /\ (Active(c) => flush[c].expected \in Binding)
      /\ (flush[c].pc = "save" => First(wsLine, c))
      /\ \A d \in Flushers : flush[d].pc = "save" => First(wsLine, d)
  BY DEF Shape, Types, TypeOK, FlushShapes
<1>4. SUFFICES FlushShapes' /\ flush' \in [Flushers -> Flushes]
               /\ canon' \in [Workspaces -> [tabs : SUBSET Change, rev : Nat, alive : BOOLEAN]]
               /\ binding' \in [Windows -> Binding \cup {None}]
               /\ wsLine' \in Seq(Flushers) /\ bindLine' \in Seq(Flushers)
  BY <1>1, <1>2 DEF Shape, Types, TypeOK
<1> DEFINE Lined == wsLine' \in Seq(Flushers) /\ bindLine' \in Seq(Flushers)
           Becomes(f) == /\ f \in Flushes /\ flush' = [flush EXCEPT ![c] = f] /\ flush[c].pc # "idle"
                         /\ f.pc # "idle" /\ f.window = flush[c].window
                         /\ (f.pc # "ended" => f.expected \in Binding)
                         /\ (f.pc = "save" => First(wsLine', c))
           Others == \A d \in Flushers : d # c /\ First(wsLine, d) /\ flush[d].pc = "save" => First(wsLine', d)
<1>5. ASSUME NEW f, Becomes(f), Others PROVE FlushShapes' /\ flush' \in [Flushers -> Flushes]
  BY <1>1, <1>5, FlushesShape DEF Shape, Types
<1>6. CASE FlushSnapshot(c)
  <2>1. UNCHANGED <<canon, binding>> /\ flush[c].pc = "snapshot" /\ First(wsLine, c) /\ wsLine' = Tail(wsLine)
    BY <1>6 DEF FlushSnapshot, store
  <2>2. Lined
    BY <1>3, <1>6, TailIsLine DEF FlushSnapshot
  <2>3. \E f : Becomes(f)
    <3>1. CASE canon[flush[c].expected.ws].alive
      <4>1. Becomes([flush[c] EXCEPT !.pc = "capture"])
        BY <1>3, <1>6, <3>1 DEF FlushSnapshot, Active, Flushes, FlushPcs
      <4> QED BY <4>1
    <3>2. CASE ~canon[flush[c].expected.ws].alive
      <4>1. Becomes([flush[c] EXCEPT !.pc = "flag"])
        BY <1>3, <1>6, <3>2 DEF FlushSnapshot, Active, Flushes, FlushPcs
      <4> QED BY <4>1
    <3> QED BY <3>1, <3>2
  <2>4. Others
    BY <2>1 DEF First
  <2> QED BY <1>5, <2>1, <2>2, <2>3, <2>4 DEF Shape, Types, TypeOK
<1>7. CASE FlushCapture(c)
  <2>1. UNCHANGED <<canon, binding, bindLine>> /\ flush[c].pc = "capture"
    BY <1>7 DEF FlushCapture, store
  <2>2. Lined /\ Others
    <3>1. \A d \in Flushers : First(wsLine, d) => First(Append(wsLine, c), d)
      BY <1>3, HeadStays
    <3>2. wsLine' = wsLine \/ wsLine' = Append(wsLine, c)
      BY <1>7 DEF FlushCapture
    <3>3. Others
      BY <3>1, <3>2 DEF First
    <3>4. Append(wsLine, c) \in Seq(Flushers)
      BY <1>3
    <3> QED BY <1>3, <2>1, <3>2, <3>3, <3>4
  <2>3. \E f : Becomes(f)
    <3>1. CASE flush[c].window \in loading \/ c \in mutated
      <4>1. Becomes(Ended(flush[c], IF flush[c].window \in loading THEN "busy" ELSE "moved"))
        BY <1>3, <1>7, <3>1 DEF FlushCapture, Active, Flushes, FlushPcs, Ended
      <4> QED BY <4>1
    <3>2. CASE ~(flush[c].window \in loading \/ c \in mutated)
      <4>1. live[flush[c].window] \in SUBSET Change
        BY <1>3, <2>1 DEF Shape, Types, TypeOK
      <4>2. Becomes([flush[c] EXCEPT !.pc = "commit", !.tabs = live[flush[c].window]])
        BY <1>3, <1>7, <3>2, <4>1 DEF FlushCapture, Active, Flushes, FlushPcs
      <4> QED BY <4>2
    <3> QED BY <3>1, <3>2
  <2> QED BY <1>5, <2>1, <2>2, <2>3 DEF Shape, Types, TypeOK
<1>8. CASE FlushCommit(c)
  <2>1. UNCHANGED <<canon, binding>> /\ flush[c].pc = "commit" /\ First(wsLine, c)
    BY <1>8 DEF FlushCommit, store
  <2>2. Lined
    <3>1. Tail(wsLine) \in Seq(Flushers) /\ Append(bindLine, c) \in Seq(Flushers)
      BY <1>3, <2>1, TailIsLine
    <3>2. wsLine' \in {wsLine, Tail(wsLine)} /\ bindLine' \in {bindLine, Append(bindLine, c)}
      BY <1>8 DEF FlushCommit, lines
    <3> QED BY <1>3, <3>1, <3>2
  <2>3. Others
    BY <2>1 DEF First
  <2>4. \E f : Becomes(f)
    <3>1. CASE MayOverwrite(c) /\ canon[flush[c].expected.ws].tabs # flush[c].tabs
      <4>1. Becomes([flush[c] EXCEPT !.pc = "save"])
        BY <1>3, <1>8, <3>1, <2>1 DEF FlushCommit, Active, Flushes, FlushPcs, lines
      <4> QED BY <4>1
    <3>2. CASE MayOverwrite(c) /\ canon[flush[c].expected.ws].tabs = flush[c].tabs
      <4>1. Becomes(Ended(flush[c], "unchanged"))
        BY <1>3, <1>8, <3>2 DEF FlushCommit, Active, Flushes, FlushPcs, Ended
      <4> QED BY <4>1
    <3>3. CASE ~MayOverwrite(c)
      <4>1. Becomes([flush[c] EXCEPT !.pc = "flag"])
        BY <1>3, <1>8, <3>3 DEF FlushCommit, Active, Flushes, FlushPcs
      <4> QED BY <4>1
    <3> QED BY <3>1, <3>2, <3>3
  <2> QED BY <1>5, <2>1, <2>2, <2>3, <2>4 DEF Shape, Types, TypeOK
<1>9. CASE FlushSave(c)
  <2>1. UNCHANGED binding /\ flush[c].pc = "save" /\ First(wsLine, c)
    BY <1>3, <1>9 DEF FlushSave
  <2>2. Lined
    BY <1>3, <1>9, <2>1, TailIsLine DEF FlushSave
  <2>3. Others
    BY <2>1 DEF First
  <2>4. Becomes([flush[c] EXCEPT !.pc = "bind"])
    BY <1>3, <1>9 DEF FlushSave, Active, Flushes, FlushPcs
  <2>5. flush[c].expected.ws \in Workspaces /\ flush[c].expected.rev \in Nat /\ flush[c].tabs \in SUBSET Change
    BY <1>3, <2>1 DEF Active, Binding, Flushes
  <2>6. canon' \in [Workspaces -> [tabs : SUBSET Change, rev : Nat, alive : BOOLEAN]]
    <3>1. canon \in [Workspaces -> [tabs : SUBSET Change, rev : Nat, alive : BOOLEAN]]
      BY DEF Shape, Types, TypeOK
    <3>2. canon' = [canon EXCEPT ![flush[c].expected.ws].tabs = flush[c].tabs,
                                 ![flush[c].expected.ws].rev = flush[c].expected.rev + 1]
      BY <1>9 DEF FlushSave
    <3> QED BY <2>5, <3>1, <3>2
  <2> QED BY <1>5, <2>1, <2>2, <2>3, <2>4, <2>6 DEF Shape, Types, TypeOK
<1>10. CASE FlushRebind(c) \/ FlushMarkOthers(c) \/ FlushFlag(c)
  <2>1. UNCHANGED <<canon, wsLine>> /\ flush[c].pc \in {"bind", "others", "flag"} /\ First(bindLine, c)
    BY <1>10 DEF FlushRebind, FlushMarkOthers, FlushFlag
  <2>2. Lined /\ Others
    <3>1. Tail(bindLine) \in Seq(Flushers)
      BY <1>3, <2>1, TailIsLine
    <3>2. Append(Tail(bindLine), c) \in Seq(Flushers)
      BY <3>1
    <3>3. bindLine' \in {Tail(bindLine), Append(Tail(bindLine), c)}
      BY <1>10 DEF FlushRebind, FlushMarkOthers, FlushFlag
    <3>4. Others
      BY <2>1 DEF First
    <3> QED BY <1>3, <2>1, <3>1, <3>2, <3>3, <3>4
  <2>3. \E f : Becomes(f)
    <3>1. CASE FlushRebind(c)
      <4>1. Becomes([flush[c] EXCEPT !.pc = "others"])
        BY <1>3, <3>1 DEF FlushRebind, Active, Flushes, FlushPcs
      <4> QED BY <4>1
    <3>2. CASE FlushMarkOthers(c)
      <4>1. Becomes(Ended(flush[c], "saved"))
        BY <1>3, <3>2 DEF FlushMarkOthers, Active, Flushes, FlushPcs, Ended
      <4> QED BY <4>1
    <3>3. CASE FlushFlag(c)
      <4>1. Becomes(Ended(flush[c], "stale"))
        BY <1>3, <3>3 DEF FlushFlag, Active, Flushes, FlushPcs, Ended
      <4> QED BY <4>1
    <3> QED BY <1>10, <3>1, <3>2, <3>3
  <2>4. binding' \in [Windows -> Binding \cup {None}]
    <3>1. binding \in [Windows -> Binding \cup {None}] /\ flush[c].expected.rev + 1 \in Nat /\ flush[c].window \in Windows
      BY <1>3, <2>1 DEF Shape, Types, TypeOK, Active, Binding
    <3>2. CASE FlushMarkOthers(c)
      BY <3>2, Marking DEF FlushMarkOthers
    <3>3. CASE FlushRebind(c) \/ FlushFlag(c)
      BY <3>1, <3>3 DEF FlushRebind, FlushFlag, Matches, Binding
    <3> QED BY <1>10, <3>2, <3>3
  <2> QED BY <1>5, <2>1, <2>2, <2>3, <2>4 DEF Shape, Types, TypeOK
<1> QED BY <1>6, <1>7, <1>8, <1>9, <1>10 DEF FlushStep

(* Only an operation has changed: outside of its switch, within it, and at  *)
(* its end.                                                                 *)
OpFits(n) ==
  /\ n \in Operations
  /\ n.pc \notin {"idle", "done"} => n.ws \in Workspaces /\ n.kind # "none"
  /\ n.pc \in SwitchPc \cup {"queued", "flush"} => n.window \in Windows
  /\ n.pc \in EditPcs => n.kind = "edit"
  /\ n.pc \in SwitchPc \cup {"queued"} => n.kind \in {"switch", "edit"}
  /\ n.source # None => n.window \in Windows
  /\ n.pc \in {"prepared", "swapped"} => n.plan \in Plans

LEMMA Fits == ASSUME Shape, NEW o \in Ops PROVE OpFits(op[o])
  BY DEF Shape, Types, OpShapes, OpFits

LEMMA FitsShape ==
    ASSUME Shape, NEW o \in Ops, NEW n, OpFits(n), op' = [op EXCEPT ![o] = n]
    PROVE  OpShapes' /\ op' \in [Ops -> Operations]
  BY DEF Shape, Types, OpShapes, OpFits

LEMMA DoneFits == OpFits([NoOp EXCEPT !.pc = "done"]) /\ [NoOp EXCEPT !.pc = "done"].pc = "done"
                  /\ [NoOp EXCEPT !.pc = "done"].source = None
  BY DEF OpFits, NoOp, Operations, OpPcs, SwitchPc, EditPcs, OrNone

LEMMA Finishing ==
    ASSUME NEW o, OpDone(o)
    PROVE  \E n : OpFits(n) /\ op' = [op EXCEPT ![o] = n] /\ n.pc = "done" /\ n.source = None
<1> DEFINE n == [NoOp EXCEPT !.pc = "done"]
<1>1. op' = [op EXCEPT ![o] = n]
  BY DEF OpDone
<1>2. OpFits(n) /\ n.pc = "done" /\ n.source = None
  BY DoneFits
<1> HIDE DEF n
<1> QED BY <1>1, <1>2

LEMMA OutsideShape ==
    ASSUME Shape, NEW o \in Ops, NEW n, OpFits(n), op' = [op EXCEPT ![o] = n],
           ~Switching(o), n.pc \notin SwitchPc, UNCHANGED <<journal, suppressed>>
    PROVE  OneSwitch'
  BY DEF Shape, Types, OneSwitch, Switching, OpFits, Early, Late, SwitchPc

LEMMA WithinShape ==
    ASSUME Shape, NEW o \in Ops, NEW n, OpFits(n), op' = [op EXCEPT ![o] = n],
           \A p \in Ops : Switching(p) => p = o, n.pc \in SwitchPc, n.window \in suppressed',
           n.pc \in Early => journal' = None,
           n.pc \in Late => journal' # None /\ journal'.window = n.window /\ journal'.target = n.ws
    PROVE  OneSwitch'
  BY DEF Shape, Types, OneSwitch, Switching, OpFits, Early, Late, SwitchPc

LEMMA EndShape ==
    ASSUME Shape, NEW o \in Ops, NEW n, OpFits(n), op' = [op EXCEPT ![o] = n],
           \A p \in Ops : Switching(p) => p = o, n.pc \notin SwitchPc
    PROVE  OneSwitch' /\ \A p \in Ops : ~Switching(p)'
  BY DEF Shape, Types, OneSwitch, Switching, OpFits, Early, Late, SwitchPc

LEMMA OnlyOne == ASSUME Shape, NEW o \in Ops, Switching(o) PROVE \A p \in Ops : Switching(p) => p = o
  BY DEF Shape, OneSwitch

(* The queue moves on when none of its flushes is being saved.              *)
LEMMA QueueShape ==
    ASSUME Shape, NEW o \in Ops, UNCHANGED flush, flush[o].pc # "idle" => op'[o].pc \in {"flush", "flushSource"},
           \A p \in Ops : p # o => op'[p] = op[p],
           \/ UNCHANGED wsLine
           \/ wsLine' = Append(wsLine, o)
           \/ wsLine' \in {Tail(wsLine), Append(Tail(wsLine), o)} /\ First(wsLine, o) /\ flush[o].pc = "idle"
    PROVE  FlushShapes' /\ wsLine' \in Seq(Flushers)
<1>1. wsLine \in Seq(Flushers) /\ o \in Flushers
  BY Members DEF Shape, Types, TypeOK
<1>2. wsLine' \in Seq(Flushers)
  <2>1. CASE First(wsLine, o)
    <3>1. Tail(wsLine) \in Seq(Flushers)
      BY <1>1, <2>1, TailIsLine
    <3> QED BY <1>1, <3>1
  <2>2. CASE ~First(wsLine, o)
    BY <1>1, <2>2
  <2> QED BY <2>1, <2>2
<1>3. \A c \in Flushers : flush[c].pc = "save" => First(wsLine, c) /\ First(wsLine', c)
  <2> SUFFICES ASSUME NEW c \in Flushers, flush[c].pc = "save" PROVE First(wsLine, c) /\ First(wsLine', c)
    OBVIOUS
  <2>1. First(wsLine, c)
    BY DEF Shape, FlushShapes
  <2>2. First(Append(wsLine, o), c)
    BY <1>1, <2>1, HeadStays
  <2>3. ~(First(wsLine, o) /\ flush[o].pc = "idle")
    BY <2>1 DEF First
  <2> QED BY <2>1, <2>2, <2>3
<1> QED BY <1>2, <1>3 DEF Shape, FlushShapes, Active

LEMMA IdleFlush ==
    ASSUME Shape, NEW o \in Ops, op[o].pc \notin {"flush", "flushSource"}
    PROVE  flush[o].pc = "idle"
  BY Members DEF Shape, FlushShapes

LEMMA OpBeginShape == ASSUME SwitchesRespected, Shape, NEW o \in Ops, NEW m \in Menu, OpBegin(o, m) PROVE Shape'
<1>1. UNCHANGED <<canon, journal, binding, live, loading, requested, suppressed, dirty, drain, bindLine, edits>>
  BY DEF OpBegin, store, browser, history
<1>2. m.kind \in Kinds /\ m.window \in OrNone(Windows) /\ m.ws \in Workspaces /\ (m.kind = "switch" => m.window # None)
  BY AutosaveConstants DEF SwitchesRespected, OrNone
<1>3. flush[o].pc = "idle" /\ op[o].pc = "idle"
  BY IdleFlush DEF OpBegin
<1> DEFINE start(p) == [[NoOp EXCEPT !.kind = m.kind, !.window = m.window, !.ws = m.ws] EXCEPT !.pc = p]
<1>4. \A p \in {"queued", "flush", "write"} : start(p) \in Operations
  BY <1>2 DEF NoOp, Operations, OpPcs, OrNone, Kinds
<1>5. \/ /\ m.kind = "switch" /\ op' = [op EXCEPT ![o] = start("queued")] /\ UNCHANGED <<flush, wsLine, mutated>>
      \/ /\ m.kind # "switch" /\ m.window # None /\ op' = [op EXCEPT ![o] = start("flush")] /\ FlushBegin(o, m.window)
      \/ /\ m.kind # "switch" /\ m.window = None /\ op' = [op EXCEPT ![o] = start("write")]
         /\ wsLine' = Append(wsLine, o) /\ UNCHANGED <<flush, mutated>>
  BY DEF OpBegin
<1>6. \E p \in {"queued", "flush", "write"} : op' = [op EXCEPT ![o] = start(p)] /\ OpFits(start(p))
  <2>1. \A p \in {"queued", "flush", "write"} :
          /\ start(p).pc = p /\ start(p).ws = m.ws /\ start(p).kind = m.kind /\ start(p).window = m.window
          /\ start(p).source = None
    BY DEF NoOp
  <2>2. CASE m.kind = "switch"
    <3>1. OpFits(start("queued"))
      BY <1>2, <1>4, <2>1, <2>2 DEF OpFits, SwitchPc, EditPcs, Kinds, OrNone
    <3> QED BY <1>5, <2>2, <3>1
  <2>3. CASE m.kind # "switch" /\ m.window # None
    <3>1. OpFits(start("flush"))
      BY <1>2, <1>4, <2>1, <2>3 DEF OpFits, SwitchPc, EditPcs, Kinds, OrNone
    <3> QED BY <1>5, <2>3, <3>1
  <2>4. CASE m.kind # "switch" /\ m.window = None
    <3>1. OpFits(start("write"))
      BY <1>2, <1>4, <2>1, <2>4 DEF OpFits, SwitchPc, EditPcs, Kinds, OrNone
    <3> QED BY <1>5, <2>4, <3>1
  <2> QED BY <2>2, <2>3, <2>4
<1>7. PICK p \in {"queued", "flush", "write"} : op' = [op EXCEPT ![o] = start(p)] /\ OpFits(start(p))
  BY <1>6
<1>8. OpShapes' /\ op' \in [Ops -> Operations] /\ OneSwitch'
  <2>1. ~Switching(o) /\ start(p).pc \notin SwitchPc
    BY <1>3 DEF Switching, SwitchPc, NoOp
  <2> HIDE DEF start
  <2> QED BY <1>1, <1>7, <2>1, FitsShape, OutsideShape
<1>9. FlushShapes' /\ wsLine' \in Seq(Flushers) /\ flush' \in [Flushers -> Flushes] /\ mutated' \in SUBSET Flushers
  <2>1. op \in [Ops -> Operations] /\ \A q \in Ops : q # o => op'[q] = op[q]
    BY <1>7 DEF Shape, Types
  <2>2. CASE m.kind # "switch" /\ m.window # None
    <3>1. op'[o].pc = "flush" /\ FlushBegin(o, m.window) /\ m.window \in Windows
      BY <1>2, <1>5, <2>1, <2>2 DEF NoOp, OrNone
    <3> QED BY <2>1, <3>1, Members, BeginningShape
  <2>3. CASE ~(m.kind # "switch" /\ m.window # None)
    <3>1. UNCHANGED <<flush, mutated>> /\ wsLine' \in {wsLine, Append(wsLine, o)}
      BY <1>5, <2>3
    <3>2. FlushShapes' /\ wsLine' \in Seq(Flushers)
      BY <1>3, <2>1, <3>1, QueueShape
    <3> QED BY <3>1, <3>2 DEF Shape, Types, TypeOK
  <2> QED BY <2>2, <2>3
<1> QED BY <1>1, <1>8, <1>9 DEF Shape, Types, TypeOK

(* The canonical workspaces, as an operation changes them.                  *)
Spaces == [tabs : SUBSET Change, rev : Nat, alive : BOOLEAN]

LEMMA SpacesKept ==
    ASSUME canon \in [Workspaces -> Spaces], NEW w \in Workspaces, NEW T \in SUBSET Change, NEW a \in BOOLEAN
    PROVE  /\ [canon EXCEPT ![w].tabs = T, ![w].rev = @ + 1] \in [Workspaces -> Spaces]
           /\ [canon EXCEPT ![w].alive = a] \in [Workspaces -> Spaces]
<1>1. canon[w] \in Spaces
  OBVIOUS
<1>2. canon[w].rev + 1 \in Nat
  BY <1>1 DEF Spaces
<1>3. [canon[w] EXCEPT !.tabs = T, !.rev = canon[w].rev + 1] \in Spaces /\ [canon[w] EXCEPT !.alive = a] \in Spaces
  BY <1>1, <1>2 DEF Spaces
<1>4. [canon EXCEPT ![w].tabs = T, ![w].rev = @ + 1] = [canon EXCEPT ![w] = [canon[w] EXCEPT !.tabs = T, !.rev = canon[w].rev + 1]]
  BY <1>1 DEF Spaces
<1>5. [canon EXCEPT ![w].alive = a] = [canon EXCEPT ![w] = [canon[w] EXCEPT !.alive = a]]
  BY <1>1 DEF Spaces
<1> HIDE DEF Spaces
<1> QED BY <1>3, <1>4, <1>5

LEMMA OpFlushedShape == ASSUME Shape, NEW o \in Ops, OpFlushed(o) PROVE Shape'
<1>1. UNCHANGED <<canon, journal, binding, live, loading, requested, suppressed, dirty, mutated, drain, bindLine, edits>>
  BY DEF OpFlushed, store, browser, schedule, history
<1>2. flush' = [flush EXCEPT ![o] = NoFlush] /\ op[o].pc = "flush" /\ flush[o].pc = "ended" /\ o \in Flushers
  BY Members DEF OpFlushed
<1>3. NoFlush \in Flushes
  BY DEF Flushes, FlushPcs, NoFlush, OrNone
<1>4. PICK n : OpFits(n) /\ op' = [op EXCEPT ![o] = n] /\ n.pc \in {"done", "write"}
  <2>1. CASE flush[o].result \in {"busy", "moved"}
    <3>1. OpDone(o)
      BY <2>1 DEF OpFlushed
    <3> QED BY <3>1, Finishing
  <2>2. CASE flush[o].result \notin {"busy", "moved"}
    <3>1. op' = [op EXCEPT ![o] = [op[o] EXCEPT !.pc = "write"]]
      BY <2>2 DEF OpFlushed
    <3>2. OpFits([op[o] EXCEPT !.pc = "write"])
      BY <1>2, Fits DEF OpFits, Operations, OpPcs, SwitchPc, EditPcs
    <3>3. op[o] \in Operations
      BY DEF Shape, Types
    <3>4. [op[o] EXCEPT !.pc = "write"].pc = "write"
      BY <3>3 DEF Operations
    <3> QED BY <3>1, <3>2, <3>4
  <2> QED BY <2>1, <2>2
<1>5. OpShapes' /\ op' \in [Ops -> Operations] /\ OneSwitch'
  <2>1. ~Switching(o) /\ n.pc \notin SwitchPc
    BY <1>2, <1>4 DEF Switching, SwitchPc
  <2> QED BY <1>1, <1>4, <2>1, FitsShape, OutsideShape
<1>6. wsLine \in Seq(Flushers) /\ wsLine' \in {wsLine, Append(wsLine, o)}
  BY DEF OpFlushed, Shape, Types, TypeOK
<1>7. wsLine' \in Seq(Flushers)
  BY <1>2, <1>6
<1>8. FlushShapes'
  <2>1. op \in [Ops -> Operations] /\ flush \in [Flushers -> Flushes]
    BY DEF Shape, Types
  <2>2. \A c \in Flushers : flush[c].pc = "save" => First(wsLine, c) /\ First(wsLine', c)
    BY <1>2, <1>6, HeadStays DEF Shape, FlushShapes
  <2>3. \A p \in Ops : p # o => op'[p] = op[p]
    BY <1>4, <2>1
  <2> QED BY <1>2, <2>1, <2>2, <2>3 DEF Shape, FlushShapes, Active, NoFlush
<1> QED BY <1>1, <1>2, <1>3, <1>5, <1>7, <1>8 DEF Shape, Types, TypeOK

LEMMA OpWriteShape == ASSUME Shape, NEW o \in Ops, OpWrite(o) PROVE Shape'
<1>1. UNCHANGED <<journal, binding, live, loading, requested, suppressed, dirty, mutated, drain, flush, bindLine>>
  BY DEF OpWrite, browser, schedule
<1>2. op[o].pc = "write" /\ First(wsLine, o) /\ wsLine' = Tail(wsLine) /\ op[o].ws \in Workspaces /\ flush[o].pc = "idle"
      /\ op[o] \in Operations
  BY IdleFlush DEF OpWrite, Shape, OpShapes, Types
<1>3. canon \in [Workspaces -> Spaces] /\ edits \in 0 .. MaxEdits /\ MaxEdits \in Nat
  BY AutosaveConstants DEF Shape, Types, TypeOK, Spaces
<1> DEFINE Effect(n) == OpFits(n) /\ op' = [op EXCEPT ![o] = n] /\ n.pc \in {"done", "look"}
                        /\ canon' \in [Workspaces -> Spaces] /\ edits' \in 0 .. MaxEdits
<1>4. \E n : Effect(n)
  <2> DEFINE done == [NoOp EXCEPT !.pc = "done"]
  <2>1. CASE op[o].kind \in {"edit", "exclude"} /\ OpChange(o)
    <3>1. edits' = edits + 1 /\ edits + 1 \in Change /\ edits' \in 0 .. MaxEdits
      BY <1>3, <2>1 DEF OpChange, Change
    <3>2. canon[op[o].ws] \in Spaces
      BY <1>2, <1>3
    <3>3. canon[op[o].ws].tabs \cup {edits + 1} \in SUBSET Change
      BY <3>1, <3>2 DEF Spaces
    <3>4. canon' = [canon EXCEPT ![op[o].ws].tabs = canon[op[o].ws].tabs \cup {edits + 1}, ![op[o].ws].rev = @ + 1]
      BY <2>1, <1>2, <1>3 DEF OpChange
    <3>5. canon' \in [Workspaces -> Spaces]
      BY <1>2, <1>3, <3>3, <3>4, SpacesKept
    <3>6. CASE op[o].kind = "exclude"
      <4>1. op' = [op EXCEPT ![o] = done]
        BY <2>1, <3>6 DEF OpChange
      <4>2. Effect(done)
        BY <3>1, <3>5, <4>1, DoneFits DEF NoOp
      <4> QED BY <4>2
    <3>7. CASE op[o].kind = "edit"
      <4> DEFINE n == [op[o] EXCEPT !.pc = "look", !.tabs = canon[op[o].ws].tabs, !.rev = canon[op[o].ws].rev + 1,
                                    !.change = edits + 1]
      <4>1. op' = [op EXCEPT ![o] = n]
        BY <2>1, <3>7 DEF OpChange
      <4>4. canon[op[o].ws].tabs \in SUBSET Change /\ canon[op[o].ws].rev + 1 \in Nat
        BY <3>2 DEF Spaces
      <4>5. n \in Operations /\ n.pc = "look" /\ n.ws = op[o].ws /\ n.kind = op[o].kind /\ n.source = op[o].source
            /\ n.window = op[o].window
        BY <1>2, <3>1, <4>4 DEF Operations, OpPcs, EditPcs
      <4>2. OpFits(n) /\ n.pc = "look"
        BY <1>2, <3>7, <4>5, Fits DEF OpFits, SwitchPc, EditPcs
      <4>3. Effect(n)
        BY <3>1, <3>5, <4>1, <4>2
      <4> QED BY <4>3
    <3> QED BY <2>1, <3>6, <3>7
  <2>2. CASE op[o].kind \in {"edit", "exclude"} /\ edits = MaxEdits /\ OpDone(o) /\ UNCHANGED <<canon, edits>>
    <3>1. Effect(done)
      BY <1>3, <2>2, DoneFits DEF OpDone, NoOp
    <3> QED BY <3>1
  <2>3. CASE op[o].kind = "trash" /\ OpDone(o) /\ UNCHANGED edits
             /\ canon' = IF op[o].ws \in Reserved THEN canon ELSE [canon EXCEPT ![op[o].ws].alive = FALSE]
    <3>1. [canon EXCEPT ![op[o].ws].alive = FALSE] \in [Workspaces -> Spaces]
      BY <1>2, <1>3, SpacesKept
    <3>2. Effect(done)
      BY <1>3, <2>3, <3>1, DoneFits DEF OpDone, NoOp
    <3> QED BY <3>2
  <2>4. CASE op[o].kind = "restore" /\ OpDone(o) /\ UNCHANGED edits /\ canon' = [canon EXCEPT ![op[o].ws].alive = TRUE]
    <3>1. [canon EXCEPT ![op[o].ws].alive = TRUE] \in [Workspaces -> Spaces]
      BY <1>2, <1>3, SpacesKept
    <3>2. Effect(done)
      BY <1>3, <2>4, <3>1, DoneFits DEF OpDone, NoOp
    <3> QED BY <3>2
  <2> QED BY <2>1, <2>2, <2>3, <2>4 DEF OpWrite
<1>5. PICK n : Effect(n)
  BY <1>4
<1>6. OpShapes' /\ op' \in [Ops -> Operations] /\ OneSwitch'
  <2>1. ~Switching(o) /\ n.pc \notin SwitchPc
    BY <1>2, <1>5 DEF Switching, SwitchPc
  <2> QED BY <1>1, <1>5, <2>1, FitsShape, OutsideShape
<1>7. FlushShapes' /\ wsLine' \in Seq(Flushers)
  <2>1. \A p \in Ops : p # o => op'[p] = op[p]
    BY <1>5 DEF Shape, Types
  <2> QED BY <1>1, <1>2, <2>1, QueueShape
<1> QED BY <1>1, <1>5, <1>6, <1>7 DEF Shape, Types, TypeOK, Spaces

LEMMA OpLookMarkShape == ASSUME Shape, NEW o \in Ops, OpLook(o) \/ OpMark(o) PROVE Shape'
<1>1. UNCHANGED <<canon, journal, live, loading, requested, suppressed, dirty, mutated, drain, flush, wsLine, edits>>
  BY DEF OpLook, OpMark, store, browser, schedule, history
<1>2. op[o].pc \in EditPcs /\ flush[o].pc = "idle" /\ op[o] \in Operations /\ op[o].ws \in Workspaces /\ op[o].kind = "edit"
      /\ binding \in [Windows -> Binding \cup {None}] /\ bindLine \in Seq(Flushers) /\ o \in Flushers
  BY IdleFlush, Members DEF OpLook, OpMark, Shape, OpShapes, Types, TypeOK, EditPcs
<1>3. PICK n : OpFits(n) /\ op' = [op EXCEPT ![o] = n] /\ n.pc \in {"mark", "queued", "done"}
  <2>1. CASE OpLook(o)
    <3> DEFINE n == [op[o] EXCEPT !.pc = "mark", !.source = IF op[o].window # None THEN binding[op[o].window] ELSE None]
    <3>1. op' = [op EXCEPT ![o] = n]
      BY <2>1 DEF OpLook
    <3>2. OpFits(n) /\ n.pc = "mark"
      BY <1>2 DEF OpFits, Operations, OpPcs, SwitchPc, EditPcs, OrNone
    <3> QED BY <3>1, <3>2
  <2>2. CASE OpMark(o)
    <3>1. CASE op[o].source # None /\ op[o].source.ws = op[o].ws
      <4>1. op' = [op EXCEPT ![o] = [op[o] EXCEPT !.pc = "queued"]]
        BY <2>2, <3>1 DEF OpMark
      <4>2. OpFits([op[o] EXCEPT !.pc = "queued"]) /\ [op[o] EXCEPT !.pc = "queued"].pc = "queued"
        BY <1>2, <3>1, Fits DEF OpFits, Operations, OpPcs, SwitchPc, EditPcs, OrNone
      <4> QED BY <4>1, <4>2
    <3>2. CASE ~(op[o].source # None /\ op[o].source.ws = op[o].ws)
      <4>1. OpDone(o)
        BY <2>2, <3>2 DEF OpMark
      <4> QED BY <4>1, Finishing
    <3> QED BY <3>1, <3>2
  <2> QED BY <2>1, <2>2
<1>4. OpShapes' /\ op' \in [Ops -> Operations] /\ OneSwitch'
  <2>1. ~Switching(o) /\ n.pc \notin SwitchPc
    BY <1>2, <1>3 DEF Switching, SwitchPc, EditPcs
  <2> QED BY <1>1, <1>3, <2>1, FitsShape, OutsideShape
<1>5. FlushShapes' /\ wsLine' \in Seq(Flushers)
  <2>1. \A p \in Ops : p # o => op'[p] = op[p]
    BY <1>3 DEF Shape, Types
  <2> QED BY <1>1, <1>2, <2>1, QueueShape
<1>6. bindLine' \in Seq(Flushers)
  <2>1. CASE OpLook(o)
    BY <1>2, <2>1 DEF OpLook
  <2>2. CASE OpMark(o)
    BY <1>2, <2>2, TailIsLine DEF OpMark
  <2> QED BY <2>1, <2>2
<1>7. binding' \in [Windows -> Binding \cup {None}]
  BY <1>2, Marking DEF OpLook, OpMark, store
<1> QED BY <1>1, <1>4, <1>5, <1>6, <1>7 DEF Shape, Types, TypeOK

LEMMA OpUndoShape == ASSUME Shape, NEW o \in Ops, OpRollback(o) \/ OpInvalidate(o) PROVE Shape'
<1>1. UNCHANGED <<journal, live, loading, requested, suppressed, dirty, mutated, drain, flush, edits>>
  BY DEF OpRollback, OpInvalidate, store, browser, schedule, history
<1>2. op[o].pc \in {"rollback", "invalidate"} /\ flush[o].pc = "idle" /\ op[o] \in Operations /\ op[o].ws \in Workspaces
      /\ op[o].kind # "none"
      /\ binding \in [Windows -> Binding \cup {None}] /\ bindLine \in Seq(Flushers) /\ o \in Flushers
      /\ canon \in [Workspaces -> Spaces]
  BY IdleFlush, Members DEF OpRollback, OpInvalidate, Shape, OpShapes, Types, TypeOK, Spaces
<1>3. PICK n : OpFits(n) /\ op' = [op EXCEPT ![o] = n] /\ n.pc \in {"invalidate", "done"}
  <2>1. CASE OpRollback(o) /\ canon[op[o].ws].rev = op[o].rev
    <3> DEFINE n == [op[o] EXCEPT !.pc = "invalidate", !.rev = @ + 1]
    <3>1. op' = [op EXCEPT ![o] = n]
      BY <2>1 DEF OpRollback
    <3>2. n \in Operations /\ n.pc = "invalidate" /\ n.ws = op[o].ws /\ n.kind = op[o].kind /\ n.source = op[o].source
          /\ n.window = op[o].window
      <4>1. op[o].rev + 1 \in Nat
        BY <1>2 DEF Operations
      <4> QED BY <1>2, <4>1 DEF Operations, OpPcs
    <3>3. OpFits(n)
      BY <1>2, <3>2, Fits DEF OpFits, SwitchPc, EditPcs
    <3> QED BY <3>1, <3>2, <3>3
  <2>2. CASE ~(OpRollback(o) /\ canon[op[o].ws].rev = op[o].rev)
    <3>1. OpDone(o)
      BY <2>2 DEF OpRollback, OpInvalidate
    <3> QED BY <3>1, Finishing
  <2> QED BY <2>1, <2>2
<1>4. OpShapes' /\ op' \in [Ops -> Operations] /\ OneSwitch'
  <2>1. ~Switching(o) /\ n.pc \notin SwitchPc
    BY <1>2, <1>3 DEF Switching, SwitchPc
  <2> QED BY <1>1, <1>3, <2>1, FitsShape, OutsideShape
<1>5. FlushShapes' /\ wsLine' \in Seq(Flushers)
  <2>1. \A p \in Ops : p # o => op'[p] = op[p]
    BY <1>3 DEF Shape, Types
  <2>2. UNCHANGED wsLine \/ (wsLine' = Tail(wsLine) /\ First(wsLine, o))
    BY DEF OpRollback, OpInvalidate
  <2> QED BY <1>1, <1>2, <2>1, <2>2, QueueShape
<1>6. bindLine' \in Seq(Flushers)
  <2>1. Append(bindLine, o) \in Seq(Flushers) /\ (First(bindLine, o) => Tail(bindLine) \in Seq(Flushers))
    BY <1>2, TailIsLine
  <2>2. bindLine' \in {bindLine, Append(bindLine, o)} \/ (First(bindLine, o) /\ bindLine' = Tail(bindLine))
    BY DEF OpRollback, OpInvalidate
  <2> QED BY <1>2, <2>1, <2>2
<1>7. binding' \in [Windows -> Binding \cup {None}]
  BY <1>2 DEF OpRollback, OpInvalidate, Binding
<1>8. canon' \in [Workspaces -> Spaces]
  <2>1. [canon EXCEPT ![op[o].ws].tabs = op[o].tabs, ![op[o].ws].rev = @ + 1] \in [Workspaces -> Spaces]
    BY <1>2, SpacesKept DEF Operations
  <2> QED BY <1>2, <2>1 DEF OpRollback, OpInvalidate
<1> QED BY <1>1, <1>4, <1>5, <1>6, <1>7, <1>8 DEF Shape, Types, TypeOK, Spaces

(* The steps of a switch, which all leave the flushes alone but two.        *)
LEMMA SwitchStands ==
    ASSUME Shape, NEW o \in Ops, Switching(o)
    PROVE  /\ op[o] \in Operations /\ op[o].ws \in Workspaces /\ op[o].window \in Windows
           /\ op[o].kind \in {"switch", "edit"} /\ op[o].window \in suppressed
           /\ (op[o].pc \in {"prepared", "swapped"} => op[o].plan \in Plans)
           /\ (op[o].pc \in Late => /\ journal \in Journals /\ journal.window = op[o].window
                                    /\ journal.target = op[o].ws)
           /\ (op[o].pc \in Early => journal = None)
           /\ (op[o].pc # "flushSource" => flush[o].pc = "idle")
           /\ \A p \in Ops : Switching(p) => p = o
           /\ o \in Flushers
  BY IdleFlush, OnlyOne, Members DEF Shape, Types, OpShapes, OneSwitch, Switching, OrNone, SwitchPc, Early, Late

LEMMA BeginShape == ASSUME Shape, NEW o \in Ops, SwitchBegin(o) PROVE Shape'
<1>1. UNCHANGED <<canon, journal, binding, live, loading, requested, mutated, drain, flush, bindLine, edits>>
  BY DEF SwitchBegin, store, browser, history
<1>2. /\ op[o].pc = "queued" /\ flush[o].pc = "idle" /\ op[o] \in Operations /\ op[o].ws \in Workspaces
      /\ op[o].window \in Windows /\ op[o].kind \in {"switch", "edit"} /\ WindowsSwitching = {} /\ journal = None
      /\ binding \in [Windows -> Binding \cup {None}]
  BY IdleFlush DEF SwitchBegin, Shape, OpShapes, Types, TypeOK
<1> DEFINE n == [op[o] EXCEPT !.pc = "reserve", !.source = binding[op[o].window]]
<1>3. op' = [op EXCEPT ![o] = n]
  BY DEF SwitchBegin
<1>4. n \in Operations /\ n.pc = "reserve" /\ n.ws = op[o].ws /\ n.kind = op[o].kind /\ n.window = op[o].window
  BY <1>2 DEF Operations, OpPcs, SwitchPc, OrNone
<1>5. OpFits(n)
  BY <1>2, <1>4 DEF OpFits, SwitchPc, EditPcs
<1>6. \A p \in Ops : Switching(p) => p = o
  BY <1>2 DEF WindowsSwitching
<1>7. suppressed' = suppressed \cup {op[o].window} /\ suppressed' \in SUBSET Windows /\ dirty' \in SUBSET Windows
  BY <1>2 DEF SwitchBegin, Shape, Types, TypeOK
<1> HIDE DEF n
<1>8. OpShapes' /\ op' \in [Ops -> Operations] /\ OneSwitch'
  BY <1>1, <1>2, <1>3, <1>4, <1>5, <1>6, <1>7, FitsShape, WithinShape DEF SwitchPc, Early, Late
<1>9. FlushShapes' /\ wsLine' \in Seq(Flushers)
  <2>1. \A p \in Ops : p # o => op'[p] = op[p]
    BY <1>3 DEF Shape, Types
  <2>2. wsLine' = Append(wsLine, o)
    BY DEF SwitchBegin
  <2> QED BY <1>1, <1>2, <2>1, <2>2, QueueShape
<1> QED BY <1>1, <1>7, <1>8, <1>9 DEF Shape, Types, TypeOK

(* A step within the switch that goes to pc p.                              *)
LEMMA PcFits ==
    ASSUME Shape, NEW o \in Ops, Switching(o), NEW p \in SwitchPc \ {"prepared", "swapped"}
    PROVE  LET n == [op[o] EXCEPT !.pc = p] IN OpFits(n) /\ n.pc = p /\ n.window = op[o].window /\ n.ws = op[o].ws
                                              /\ n.kind = op[o].kind
<1> DEFINE n == [op[o] EXCEPT !.pc = p]
<1>1. n \in Operations /\ n.pc = p /\ n.ws = op[o].ws /\ n.kind = op[o].kind /\ n.window = op[o].window /\ n.source = op[o].source
  BY SwitchStands DEF Operations, OpPcs
<1>2. OpFits(n)
  BY <1>1, SwitchStands, Fits DEF OpFits, EditPcs, SwitchPc
<1> QED BY <1>1, <1>2

LEMMA ReserveShape == ASSUME Shape, NEW o \in Ops, SwitchReserve(o) PROVE Shape'
<1>1. UNCHANGED <<canon, journal, binding, live, loading, mutated, flush, bindLine, edits>>
  BY DEF SwitchReserve, store, browser, history
<1>2. op[o].pc = "reserve" /\ First(wsLine, o) /\ Switching(o) /\ flush[o].pc = "idle" /\ op \in [Ops -> Operations]
  BY IdleFlush DEF SwitchReserve, Switching, SwitchPc, Shape, Types
<1>3. CASE canon[op[o].ws].alive
  <2> DEFINE n == [op[o] EXCEPT !.pc = "flushSource"]
  <2>1. op' = [op EXCEPT ![o] = n] /\ wsLine' = Tail(wsLine) /\ UNCHANGED <<requested, suppressed, dirty, drain>>
    BY <1>3 DEF SwitchReserve
  <2>2. OpFits(n) /\ n.pc = "flushSource" /\ n.window = op[o].window
    BY <1>2, PcFits DEF SwitchPc
  <2> HIDE DEF n
  <2>3. n.pc \in SwitchPc \ Late /\ n.window \in suppressed' /\ journal' = None
    BY <1>1, <1>2, <2>1, <2>2, SwitchStands DEF SwitchPc, Late, Early
  <2>4. OpShapes' /\ op' \in [Ops -> Operations] /\ OneSwitch'
    BY <1>2, <2>1, <2>2, <2>3, FitsShape, WithinShape, OnlyOne
  <2>5. FlushShapes' /\ wsLine' \in Seq(Flushers)
    BY <1>1, <1>2, <2>1, QueueShape
  <2> QED BY <1>1, <2>1, <2>4, <2>5 DEF Shape, Types, TypeOK
<1>4. CASE ~canon[op[o].ws].alive
  <2>1. SwitchEnd(o, FALSE, FALSE) /\ wsLine' \in {Tail(wsLine), Append(Tail(wsLine), o)}
    BY <1>4 DEF SwitchReserve
  <2>2. PICK n \in Operations : /\ op' = [op EXCEPT ![o] = n] /\ n.pc \in {"done", "rollback"} /\ n.source = None
                                /\ (n.pc = "rollback" => n.kind = "edit" /\ n.ws = op[o].ws)
    BY <1>2, <2>1, Ending
  <2>3. OpFits(n) /\ n.pc \notin SwitchPc
    BY <1>2, <2>2, SwitchStands DEF OpFits, SwitchPc, EditPcs
  <2>4. OpShapes' /\ op' \in [Ops -> Operations] /\ OneSwitch'
    BY <1>2, <2>2, <2>3, FitsShape, EndShape, OnlyOne
  <2>5. FlushShapes' /\ wsLine' \in Seq(Flushers)
    BY <1>1, <1>2, <2>1, <2>2, QueueShape
  <2>6. suppressed' \in SUBSET Windows /\ requested' \in SUBSET Windows /\ dirty' \in SUBSET Windows
        /\ drain' \in [on : BOOLEAN, pass : SUBSET Windows]
    BY <1>2, <2>1, Ending DEF Shape, Types, TypeOK
  <2> QED BY <1>1, <2>4, <2>5, <2>6 DEF Shape, Types, TypeOK
<1> QED BY <1>3, <1>4

LEMMA SourceFlushShape == ASSUME Shape, NEW o \in Ops, SwitchFlush(o) PROVE Shape'
<1>1. UNCHANGED <<canon, journal, binding, live, loading, requested, suppressed, dirty, drain, op, bindLine, edits>>
  BY DEF SwitchFlush, store, browser, history
<1>2. op[o].pc = "flushSource" /\ FlushBegin(o, op[o].window) /\ op[o].window \in Windows /\ o \in Flushers
  BY SwitchStands DEF SwitchFlush, Switching, SwitchPc
<1>3. /\ FlushShapes' /\ flush' \in [Flushers -> Flushes] /\ mutated' \in SUBSET Flushers
      /\ wsLine' \in Seq(Flushers)
  BY <1>1, <1>2, BeginningShape
<1> QED BY <1>1, <1>3 DEF Shape, Types, TypeOK, OpShapes, OneSwitch, Switching

LEMMA SourceFlushedShape == ASSUME Shape, NEW o \in Ops, SwitchFlushed(o) PROVE Shape'
<1>1. UNCHANGED <<canon, journal, binding, live, loading, requested, suppressed, dirty, mutated, drain, bindLine, edits>>
  BY DEF SwitchFlushed, store, browser, schedule, history
<1>2. op[o].pc = "flushSource" /\ Switching(o) /\ flush' = [flush EXCEPT ![o] = NoFlush] /\ o \in Flushers
      /\ wsLine' = Append(wsLine, o) /\ op \in [Ops -> Operations] /\ flush \in [Flushers -> Flushes]
      /\ binding \in [Windows -> Binding \cup {None}] /\ wsLine \in Seq(Flushers)
  BY Members DEF SwitchFlushed, Switching, SwitchPc, Shape, Types, TypeOK
<1>3. NoFlush \in Flushes
  BY DEF Flushes, FlushPcs, NoFlush, OrNone
<1> DEFINE n == [op[o] EXCEPT !.pc = "own", !.source = IF flush[o].pc = "ended" THEN binding[op[o].window] ELSE @]
<1>4. op' = [op EXCEPT ![o] = n]
  BY <1>2 DEF SwitchFlushed
<1>5. n \in Operations /\ n.pc = "own" /\ n.ws = op[o].ws /\ n.kind = op[o].kind /\ n.window = op[o].window
  BY <1>2, SwitchStands DEF Operations, OpPcs, SwitchPc, OrNone
<1> HIDE DEF n
<1>6. OpFits(n)
  BY <1>2, <1>5, SwitchStands DEF OpFits, SwitchPc, EditPcs
<1>7. OpShapes' /\ op' \in [Ops -> Operations]
  BY <1>4, <1>6, FitsShape
<1>8. OneSwitch'
  <2>1. n.pc \in SwitchPc /\ n.pc \notin Late /\ n.window \in suppressed' /\ journal' = None
    BY <1>1, <1>2, <1>5, SwitchStands DEF SwitchPc, Late, Early
  <2> QED BY <1>2, <1>4, <1>6, <2>1, WithinShape, OnlyOne
<1>9. FlushShapes'
  <2>1. \A c \in Flushers : flush'[c].pc = "save" => First(wsLine', c)
    BY <1>2, HeadStays DEF Shape, FlushShapes, NoFlush
  <2> QED BY <1>2, <1>4, <2>1 DEF Shape, FlushShapes, Active, NoFlush
<1>10. wsLine' \in Seq(Flushers) /\ flush' \in [Flushers -> Flushes]
  BY <1>2, <1>3
<1> QED BY <1>1, <1>7, <1>8, <1>9, <1>10 DEF Shape, Types, TypeOK

LEMMA OwnShape == ASSUME Shape, SwitchesRespected, NEW o \in Ops, SwitchOwn(o) PROVE Shape'
<1>1. UNCHANGED <<canon, binding, live, flush, bindLine, edits>>
  BY DEF SwitchOwn, history
<1>2. op[o].pc = "own" /\ First(wsLine, o) /\ Switching(o) /\ flush[o].pc = "idle" /\ op \in [Ops -> Operations]
      /\ canon \in [Workspaces -> Spaces] /\ live \in [Windows -> SUBSET Change] /\ loading \in SUBSET Windows
      /\ op[o].source \in OrNone(Binding)
  BY IdleFlush DEF SwitchOwn, Switching, SwitchPc, Shape, Types, TypeOK, Spaces, Operations
<1> DEFINE current == op[o].source # None /\ op[o].source.ws = op[o].ws /\ ~op[o].source.stale
                      /\ op[o].source.rev = canon[op[o].ws].rev
<1>3. CASE ~canon[op[o].ws].alive \/ current
  <2>1. SwitchEnd(o, canon[op[o].ws].alive, TRUE) /\ wsLine' \in {Tail(wsLine), Append(Tail(wsLine), o)}
        /\ UNCHANGED <<journal, loading, mutated>>
    BY <1>3 DEF SwitchOwn
  <2>2. PICK n \in Operations : /\ op' = [op EXCEPT ![o] = n] /\ n.pc \in {"done", "rollback"} /\ n.source = None
                                /\ (n.pc = "rollback" => n.kind = "edit" /\ n.ws = op[o].ws)
    BY <1>2, <2>1, Ending
  <2>3. OpFits(n) /\ n.pc \notin SwitchPc
    BY <1>2, <2>2, SwitchStands DEF OpFits, SwitchPc, EditPcs
  <2>4. OpShapes' /\ op' \in [Ops -> Operations] /\ OneSwitch'
    BY <1>2, <2>2, <2>3, FitsShape, EndShape, OnlyOne
  <2>5. FlushShapes' /\ wsLine' \in Seq(Flushers)
    BY <1>1, <1>2, <2>1, <2>2, QueueShape
  <2>6. suppressed' \in SUBSET Windows /\ requested' \in SUBSET Windows /\ dirty' \in SUBSET Windows
        /\ drain' \in [on : BOOLEAN, pass : SUBSET Windows]
    BY <1>2, <2>1, Ending DEF Shape, Types, TypeOK
  <2> QED BY <1>1, <2>1, <2>4, <2>5, <2>6 DEF Shape, Types, TypeOK
<1>4. CASE ~(~canon[op[o].ws].alive \/ current)
  <2> DEFINE k == op[o].window
             src == op[o].source
             snapshot == IF k \notin loading THEN live[k] ELSE IF src # None THEN canon[src.ws].tabs ELSE {}
             plan == [tabs |-> canon[op[o].ws].tabs, rev |-> canon[op[o].ws].rev]
             n == [op[o] EXCEPT !.pc = "prepared", !.plan = plan]
  <2>1. /\ op' = [op EXCEPT ![o] = n] /\ wsLine' = Tail(wsLine)
        /\ journal' = [window |-> k, target |-> op[o].ws, source |-> IF src = None THEN None ELSE src.ws,
                       rev |-> IF src = None THEN 0 ELSE src.rev, tabs |-> snapshot]
        /\ \/ UNCHANGED <<loading, mutated, requested, suppressed, dirty, drain>>
           \/ loading' = loading \cup {k} /\ NoteMutation(k)
    BY <1>4 DEF SwitchOwn
  <2>2. k \in Windows /\ op[o].ws \in Workspaces /\ op[o] \in Operations /\ k \in suppressed
    BY <1>2, SwitchStands
  <2>3. plan \in Plans
    BY <1>2, <2>2 DEF Plans, Spaces
  <2>4. snapshot \in SUBSET Change
    BY <1>2, <2>2 DEF Binding, Spaces, OrNone
  <2>5. (src # None => src.ws \in Workspaces /\ src.rev \in Nat)
    BY <1>2 DEF Binding, OrNone
  <2>6. journal' \in Journals /\ journal'.window = k /\ journal'.target = op[o].ws
    <3> HIDE DEF snapshot, k, src
    <3> QED BY <2>1, <2>2, <2>4, <2>5 DEF Journals, OrNone
  <2>7. n \in Operations /\ n.pc = "prepared" /\ n.ws = op[o].ws /\ n.kind = op[o].kind /\ n.window = k /\ n.plan \in Plans
    <3> HIDE DEF plan
    <3> QED BY <2>2, <2>3 DEF Operations, OpPcs, SwitchPc, OrNone
  <2> HIDE DEF n, snapshot, plan
  <2>8. OpFits(n)
    BY <1>2, <2>7, SwitchStands DEF OpFits, EditPcs
  <2>9. /\ loading' \in SUBSET Windows /\ mutated' \in SUBSET Flushers /\ requested' \in SUBSET Windows
        /\ suppressed' = suppressed /\ dirty' \in SUBSET Windows /\ drain' \in [on : BOOLEAN, pass : SUBSET Windows]
    BY <1>2, <2>1, <2>2, Noting DEF Shape, Types, TypeOK
  <2>10. n.pc \in SwitchPc /\ n.pc \notin Early /\ n.window \in suppressed' /\ journal' # None
    BY <2>2, <2>6, <2>7, <2>9 DEF SwitchPc, Early, SwitchesRespected
  <2>11. OpShapes' /\ op' \in [Ops -> Operations] /\ OneSwitch'
    BY <1>2, <2>1, <2>6, <2>7, <2>8, <2>10, FitsShape, WithinShape, OnlyOne
  <2>12. FlushShapes' /\ wsLine' \in Seq(Flushers)
    BY <1>1, <1>2, <2>1, QueueShape
  <2> QED BY <1>1, <2>6, <2>9, <2>11, <2>12, Members DEF Shape, Types, TypeOK, OrNone, Journals
<1> QED BY <1>3, <1>4

(* Steps within the switch that keep its journal and go to pc p.            *)
LEMMA LateShape ==
    ASSUME Shape, NEW o \in Ops, op[o].pc \in Late, NEW p \in Late \ {"prepared", "swapped"},
           op' = [op EXCEPT ![o].pc = p], UNCHANGED <<journal, suppressed, flush, wsLine>>
    PROVE  OpShapes' /\ op' \in [Ops -> Operations] /\ OneSwitch' /\ FlushShapes'
<1>1. Switching(o) /\ p \in SwitchPc \ {"prepared", "swapped"}
  BY DEF Switching, SwitchPc, Late
<1> DEFINE n == [op[o] EXCEPT !.pc = p]
<1>2. op' = [op EXCEPT ![o] = n] /\ op \in [Ops -> Operations]
  BY DEF Shape, Types
<1>3. OpFits(n) /\ n.pc = p /\ n.window = op[o].window /\ n.ws = op[o].ws
  BY <1>1, PcFits
<1> HIDE DEF n
<1>4. n.pc \in SwitchPc /\ n.pc \notin Early /\ n.window \in suppressed' /\ journal' # None
      /\ journal'.window = n.window /\ journal'.target = n.ws
  BY <1>1, <1>3, SwitchStands DEF Early, Late, Shape, OneSwitch
<1>5. OpShapes' /\ op' \in [Ops -> Operations] /\ OneSwitch'
  BY <1>1, <1>2, <1>3, <1>4, FitsShape, WithinShape, OnlyOne
<1>6. flush[o].pc = "idle"
  BY <1>1, SwitchStands DEF Late
<1>7. FlushShapes'
  BY <1>2, <1>6, QueueShape
<1> QED BY <1>5, <1>7

LEMMA SwapShape == ASSUME Shape, NEW o \in Ops, SwitchSwap(o) PROVE Shape'
<1>1. UNCHANGED <<canon, journal, binding, loading, flush, wsLine, bindLine, edits>>
  BY DEF SwitchSwap, store, lines, history
<1>2. op[o].pc = "prepared" /\ Switching(o) /\ op \in [Ops -> Operations] /\ NoteMutation(op[o].window)
      /\ live' = [live EXCEPT ![op[o].window] = op[o].plan.tabs]
  BY DEF SwitchSwap, Switching, SwitchPc, Shape, Types
<1>3. op[o].window \in Windows /\ op[o].plan \in Plans
  BY <1>2, SwitchStands
<1> DEFINE n == [op[o] EXCEPT !.pc = "swapped"]
<1>4. op' = [op EXCEPT ![o] = n]
  BY DEF SwitchSwap
<1>5. n \in Operations /\ n.pc = "swapped" /\ n.ws = op[o].ws /\ n.kind = op[o].kind /\ n.window = op[o].window
      /\ n.plan = op[o].plan
  BY <1>2, SwitchStands DEF Operations, OpPcs, SwitchPc
<1> HIDE DEF n
<1>6. OpFits(n)
  BY <1>2, <1>3, <1>5, SwitchStands DEF OpFits, SwitchPc, EditPcs
<1>7. /\ suppressed' = suppressed /\ mutated' \in SUBSET Flushers
      /\ requested' \in SUBSET Windows /\ dirty' \in SUBSET Windows /\ drain' \in [on : BOOLEAN, pass : SUBSET Windows]
  BY <1>2, <1>3, Noting
<1>8. n.pc \in SwitchPc /\ n.pc \notin Early /\ n.window \in suppressed' /\ journal' # None
      /\ journal'.window = n.window /\ journal'.target = n.ws
  BY <1>1, <1>2, <1>5, <1>7, SwitchStands DEF Early, Late, SwitchPc, Shape, OneSwitch
<1>9. OpShapes' /\ op' \in [Ops -> Operations] /\ OneSwitch'
  BY <1>2, <1>4, <1>6, <1>8, FitsShape, WithinShape, OnlyOne
<1>10. FlushShapes'
  <2>1. flush[o].pc = "idle"
    BY <1>2, SwitchStands
  <2> QED BY <1>1, <1>2, <1>4, <2>1, QueueShape
<1>11. live' \in [Windows -> SUBSET Change]
  BY <1>2, <1>3 DEF Plans, Shape, Types, TypeOK
<1> QED BY <1>1, <1>7, <1>9, <1>10, <1>11 DEF Shape, Types, TypeOK

LEMMA BindShape == ASSUME Shape, NEW o \in Ops, SwitchBind(o) PROVE Shape'
<1>1. UNCHANGED <<canon, journal, live, loading, requested, suppressed, dirty, mutated, drain, flush, wsLine, bindLine, edits>>
  BY DEF SwitchBind, browser, schedule, lines, history
<1>2. op[o].pc = "swapped" /\ Switching(o) /\ op' = [op EXCEPT ![o].pc = "bound"]
  BY DEF SwitchBind, Switching, SwitchPc
<1>3. op[o].window \in Windows /\ op[o].plan \in Plans /\ op[o].ws \in Workspaces
  BY <1>2, SwitchStands
<1>4. [ws |-> op[o].ws, rev |-> op[o].plan.rev, stale |-> FALSE] \in Binding
  BY <1>3 DEF Plans, Binding
<1>5. binding' \in [Windows -> Binding \cup {None}]
  BY <1>3, <1>4 DEF SwitchBind, Shape, Types, TypeOK
<1>6. OpShapes' /\ op' \in [Ops -> Operations] /\ OneSwitch' /\ FlushShapes'
  BY <1>1, <1>2, LateShape DEF Late
<1> QED BY <1>1, <1>5, <1>6 DEF Shape, Types, TypeOK

LEMMA FailShape == ASSUME Shape, NEW o \in Ops, SwitchFail(o) PROVE Shape'
<1>1. UNCHANGED <<canon, journal, binding, live, loading, requested, suppressed, dirty, mutated, drain, flush, wsLine,
                  bindLine, edits>>
  BY DEF SwitchFail, store, browser, schedule, lines, history
<1>2. OpShapes' /\ op' \in [Ops -> Operations] /\ OneSwitch' /\ FlushShapes'
  BY <1>1, LateShape DEF Late, SwitchFail
<1> QED BY <1>1, <1>2 DEF Shape, Types, TypeOK

LEMMA RestoredTabs ==
    ASSUME Shape, journal \in Journals, RestoreTabs
    PROVE  /\ live' = [live EXCEPT ![journal.window] = journal.tabs] /\ live' \in [Windows -> SUBSET Change]
           /\ loading' = loading \ {journal.window} /\ loading' \in SUBSET Windows
           /\ mutated' = mutated \cup {c \in Flushers : flush[c].window = journal.window}
           /\ suppressed' = suppressed /\ mutated' \in SUBSET Flushers
           /\ requested' \in SUBSET Windows /\ dirty' \in SUBSET Windows /\ drain' \in [on : BOOLEAN, pass : SUBSET Windows]
<1>1. journal.window \in Windows /\ journal.tabs \in SUBSET Change
  BY DEF Journals
<1>2. NoteMutation(journal.window)
  BY DEF RestoreTabs
<1>3. live' \in [Windows -> SUBSET Change] /\ loading' \in SUBSET Windows
  BY <1>1 DEF RestoreTabs, Shape, Types, TypeOK
<1> QED BY <1>1, <1>2, <1>3, Noting DEF RestoreTabs

LEMMA RestoreShape == ASSUME Shape, NEW o \in Ops, SwitchRestore(o) PROVE Shape'
<1>1. UNCHANGED <<canon, journal, binding, flush, wsLine, bindLine, edits>>
  BY DEF SwitchRestore, store, lines, history
<1>2. op[o].pc = "recover" /\ op' = [op EXCEPT ![o].pc = "rebind"] /\ RestoreTabs /\ journal \in Journals
  BY SwitchStands DEF SwitchRestore, Switching, SwitchPc, Late
<1>3. OpShapes' /\ op' \in [Ops -> Operations] /\ OneSwitch' /\ FlushShapes'
  BY <1>1, <1>2, RestoredTabs, LateShape DEF Late
<1> QED BY <1>1, <1>2, <1>3, RestoredTabs DEF Shape, Types, TypeOK

LEMMA RestoredFits == ASSUME Shape, journal \in Journals PROVE RestoredBinding \in Binding \cup {None}
  BY DEF RestoredBinding, Journals, Binding, OrNone

LEMMA DoneShape == ASSUME Shape, NEW o \in Ops, SwitchDone(o) \/ SwitchRebind(o) PROVE Shape'
<1>1. UNCHANGED <<canon, live, loading, mutated, flush, bindLine, edits>> /\ journal' = None
  BY DEF SwitchDone, SwitchRebind, browser, lines, history
<1>2. op[o].pc \in {"bound", "rebind"} /\ Switching(o) /\ flush[o].pc = "idle" /\ op \in [Ops -> Operations]
      /\ journal \in Journals
  BY IdleFlush, SwitchStands DEF SwitchDone, SwitchRebind, Switching, SwitchPc, Late, Shape, Types
<1>3. \E success \in BOOLEAN : SwitchEnd(o, success, TRUE)
  BY DEF SwitchDone, SwitchRebind
<1>4. PICK n \in Operations : /\ op' = [op EXCEPT ![o] = n] /\ n.pc \in {"done", "rollback"} /\ n.source = None
                              /\ (n.pc = "rollback" => n.kind = "edit" /\ n.ws = op[o].ws)
  BY <1>2, <1>3, Ending
<1>5. OpFits(n) /\ n.pc \notin SwitchPc
  BY <1>2, <1>4, SwitchStands DEF OpFits, SwitchPc, EditPcs
<1>6. OpShapes' /\ op' \in [Ops -> Operations] /\ OneSwitch'
  BY <1>2, <1>4, <1>5, FitsShape, EndShape, OnlyOne
<1>7. wsLine' \in {wsLine, Append(wsLine, o)}
  BY DEF SwitchDone, SwitchRebind, lines
<1>8. FlushShapes' /\ wsLine' \in Seq(Flushers)
  BY <1>1, <1>2, <1>4, <1>7, QueueShape
<1>9. suppressed' \in SUBSET Windows /\ requested' \in SUBSET Windows /\ dirty' \in SUBSET Windows
      /\ drain' \in [on : BOOLEAN, pass : SUBSET Windows]
  BY <1>2, <1>3, Ending DEF Shape, Types, TypeOK
<1>10. binding' \in [Windows -> Binding \cup {None}]
  BY <1>2, RestoredFits DEF SwitchDone, SwitchRebind, Shape, Types, TypeOK
<1> QED BY <1>1, <1>6, <1>8, <1>9, <1>10 DEF Shape, Types, TypeOK, OrNone

LEMMA CrashShape == ASSUME Shape, Crash PROVE Shape'
<1>1. UNCHANGED <<canon, journal, binding, live, loading, edits>>
  BY DEF Crash, store, browser
<1>2. /\ requested' = {} /\ suppressed' = {} /\ dirty' = {} /\ mutated' = {} /\ drain' = NoDrain
      /\ flush' = [c \in Flushers |-> NoFlush] /\ wsLine' = <<>> /\ bindLine' = <<>>
      /\ op' = [o \in Ops |-> IF op[o].pc = "idle" THEN NoOp ELSE [NoOp EXCEPT !.pc = "done"]]
  BY DEF Crash
<1>3. NoFlush \in Flushes /\ NoOp \in Operations /\ [NoOp EXCEPT !.pc = "done"] \in Operations
      /\ NoDrain \in [on : BOOLEAN, pass : SUBSET Windows]
  BY DEF OrNone, Flushes, FlushPcs, NoFlush, Operations, OpPcs, NoOp, NoDrain
<1>4. flush' \in [Flushers -> Flushes] /\ op' \in [Ops -> Operations] /\ wsLine' \in Seq(Flushers) /\ bindLine' \in Seq(Flushers)
  BY <1>2, <1>3
<1>5. Types'
  BY <1>1, <1>2, <1>3, <1>4 DEF Shape, Types, TypeOK
<1>6. \A o \in Ops : op'[o].pc \in {"idle", "done"} /\ op'[o].source = None
  BY <1>2 DEF NoOp
<1>7. OpShapes' /\ OneSwitch'
  BY <1>6 DEF OpShapes, OneSwitch, Switching, SwitchPc, EditPcs, Early, Late
<1>8. FlushShapes'
  BY <1>2 DEF FlushShapes, Active, NoFlush
<1> QED BY <1>5, <1>7, <1>8 DEF Shape

LEMMA RecoveryShape == ASSUME Shape, RecoverTabs \/ RecoverBinding PROVE Shape'
<1>1. UNCHANGED <<canon, flush, op, wsLine, bindLine, suppressed, edits>>
  BY DEF RecoverTabs, RecoverBinding, store, browser, schedule, lines, history, RestoreTabs, NoteMutation
<1>2. journal \in Journals /\ WindowsSwitching = {} /\ journal' \in OrNone(Journals)
  BY DEF RecoverTabs, RecoverBinding, RecoveryPending, Shape, Types, OrNone, store
<1>3. binding' \in [Windows -> Binding \cup {None}]
  BY <1>2, RestoredFits DEF RecoverTabs, RecoverBinding, store, Shape, Types, TypeOK
<1>4. /\ live' \in [Windows -> SUBSET Change] /\ loading' \in SUBSET Windows /\ mutated' \in SUBSET Flushers
      /\ requested' \in SUBSET Windows /\ dirty' \in SUBSET Windows /\ drain' \in [on : BOOLEAN, pass : SUBSET Windows]
  <2>1. CASE RecoverTabs
    BY <1>2, <2>1, RestoredTabs DEF RecoverTabs
  <2>2. CASE RecoverBinding
    BY <2>2 DEF RecoverBinding, browser, schedule, Shape, Types, TypeOK
  <2> QED BY <2>1, <2>2
<1>5. OpShapes' /\ FlushShapes'
  BY <1>1 DEF Shape, OpShapes, FlushShapes, Active, First
<1>6. OneSwitch'
  <2>1. \A o \in Ops : ~Switching(o) /\ op'[o] = op[o] /\ op[o].pc \notin Early \cup Late
    BY <1>1, <1>2 DEF WindowsSwitching, Switching, Early, Late, SwitchPc
  <2> QED BY <2>1 DEF OneSwitch, Switching
<1>7. journal' # None => journal'.window \in Windows /\ journal'.target \in Workspaces
  BY <1>2 DEF OrNone, Journals
<1> QED BY <1>1, <1>2, <1>3, <1>4, <1>5, <1>6, <1>7 DEF Shape, Types, TypeOK

LEMMA StutterShape == ASSUME Shape, UNCHANGED vars PROVE Shape'
  BY DEF vars, store, browser, schedule, lines, history, Shape, Types, TypeOK, FlushShapes, OpShapes, OneSwitch, Active,
         Switching, First

LEMMA ShapeNext == ASSUME SwitchesRespected, Shape, [Next]_vars PROVE Shape'
<1>1. ASSUME NEW k \in Windows, UserEdit(k) \/ TabsLoaded(k) PROVE Shape'
  BY <1>1, UserShape
<1>2. ASSUME NEW c \in Flushers, FlushStep(c) PROVE Shape'
  BY <1>2, FlushShape
<1>3. ASSUME NEW o \in Ops, NEW m \in Menu, OpBegin(o, m) PROVE Shape'
  BY <1>3, OpBeginShape
<1>4. ASSUME NEW o \in Ops, OpStep(o) PROVE Shape'
  BY <1>4, OpFlushedShape, OpWriteShape, OpLookMarkShape, OpUndoShape DEF OpStep
<1>5. ASSUME NEW o \in Ops, SwitchStep(o) PROVE Shape'
  BY <1>5, BeginShape, ReserveShape, SourceFlushShape, SourceFlushedShape, OwnShape, SwapShape, BindShape, FailShape,
     RestoreShape, DoneShape DEF SwitchStep
<1>6. CASE DrainStep
  BY <1>6, DrainShape, DrainNextShape DEF DrainStep
<1>7. CASE Crash \/ RecoverTabs \/ RecoverBinding
  BY <1>7, CrashShape, RecoveryShape
<1>8. CASE UNCHANGED vars
  BY <1>8, StutterShape
<1> QED BY <1>1, <1>2, <1>3, <1>4, <1>5, <1>6, <1>7, <1>8 DEF Next

(* The state has the shape of TypeOK.                                       *)
THEOREM TypeCorrectness == ASSUME SwitchesRespected PROVE Spec => []TypeOK
<1>1. Init => Shape
  BY ShapeInit
<1>2. Shape /\ [Next]_vars => Shape'
  BY ShapeNext
<1>3. Shape => TypeOK
  BY DEF Shape, Types
<1> QED BY <1>1, <1>2, <1>3, PTL DEF Spec

-----------------------------------------------------------------------------
(* What most steps have in common: revisions and bindings only go forward,  *)
(* and no switch moves on that has a journal.                               *)

Newer ==
  /\ \A w \in Workspaces : \/ canon'[w].rev = canon[w].rev /\ canon'[w].tabs = canon[w].tabs
                           \/ canon'[w].rev > canon[w].rev
  /\ interrupted \subseteq interrupted'

SameBinding(k) ==
  \/ binding[k] = None /\ binding'[k] = None
  \/ /\ binding[k] # None /\ binding'[k] # None /\ binding'[k].ws = binding[k].ws
     /\ binding'[k].rev = binding[k].rev /\ (binding[k].stale => binding'[k].stale)

Aged(k) ==
  \/ binding[k] = None /\ binding'[k] = None
  \/ /\ binding[k] # None /\ binding'[k] # None /\ binding'[k].ws = binding[k].ws
     /\ binding'[k].rev >= binding[k].rev /\ (binding[k].stale => binding'[k].stale)

SwitchesStand ==
  /\ UNCHANGED journal
  /\ \A p \in Ops : op'[p] = op[p] \/ (op[p].pc \notin Late /\ op'[p].pc \notin Late)
  /\ journal # None => \A p \in Ops : op[p].pc \in SwitchPc <=> op'[p].pc \in SwitchPc

(* The flush of c goes on as before, and is told when its window changes.   *)
Steady(c) ==
  LET k == flush[c].window IN
  /\ flush'[c] = flush[c]
  /\ c \in mutated => c \in mutated'
  /\ flush[c].pc # "idle" /\ (live'[k] # live[k] \/ k \in loading \ loading') => c \in mutated'

Calm ==
  /\ Newer /\ SwitchesStand
  /\ \A k \in Windows : Aged(k) /\ live[k] \subseteq live'[k]
  /\ loading' \subseteq loading

LEMMA SpaceTypes ==
    ASSUME Shape
    PROVE  /\ \A w \in Workspaces : canon[w].rev \in Nat
           /\ \A k \in Windows : binding[k] # None => binding[k] \in Binding /\ binding[k].ws \in Workspaces /\ binding[k].rev \in Nat
           /\ \A c \in Flushers : Active(c) => /\ flush[c].expected \in Binding /\ flush[c].expected.ws \in Workspaces
                                               /\ flush[c].expected.rev \in Nat
           /\ \A c \in Flushers : flush[c].pc # "idle" => flush[c].window \in Windows
           /\ \A o \in Ops : Switching(o) => op[o].window \in Windows /\ op[o].ws \in Workspaces
           /\ \A o \in Ops : op[o].pc \in {"prepared", "swapped"} => op[o].plan.rev \in Nat
           /\ \A o \in Ops : op[o].rev \in Nat
           /\ \A o \in Ops : op[o].pc \notin {"idle", "done"} => op[o].ws \in Workspaces
           /\ journal # None => /\ journal.window \in Windows /\ journal.rev \in Nat
                                /\ journal.target \in Workspaces
                                /\ (journal.source # None => journal.source \in Workspaces)
<1>1. /\ canon \in [Workspaces -> [tabs : SUBSET Change, rev : Nat, alive : BOOLEAN]]
      /\ binding \in [Windows -> Binding \cup {None}]
      /\ journal \in OrNone(Journals) /\ op \in [Ops -> Operations]
  BY DEF Shape, Types, TypeOK
<1>2. \A b \in Binding : b.ws \in Workspaces /\ b.rev \in Nat
  BY DEF Binding
<1>3. \A c \in Flushers : Active(c) => flush[c].expected \in Binding
  BY DEF Shape, FlushShapes
<1>4. \A c \in Flushers : flush[c].pc # "idle" => flush[c].window \in Windows
  BY DEF Shape, FlushShapes
<1>5. \A o \in Ops : Switching(o) => op[o].window \in Windows /\ op[o].ws \in Workspaces
  BY DEF Shape, OpShapes, Switching, SwitchPc
<1>6. \A o \in Ops : op[o].pc \in {"prepared", "swapped"} => op[o].plan.rev \in Nat
  BY DEF Shape, OpShapes, Plans
<1>7. \A o \in Ops : op[o].rev \in Nat
  BY <1>1 DEF Operations
<1>8. \A o \in Ops : op[o].pc \notin {"idle", "done"} => op[o].ws \in Workspaces
  BY DEF Shape, OpShapes
<1>9. journal # None => /\ journal.window \in Windows /\ journal.rev \in Nat
                        /\ journal.target \in Workspaces
                        /\ (journal.source # None => journal.source \in Workspaces)
  BY <1>1 DEF OrNone, Journals
<1>10. \A w \in Workspaces : canon[w].rev \in Nat
  BY <1>1
<1>11. \A k \in Windows : binding[k] # None => binding[k] \in Binding
  BY <1>1
<1> QED BY <1>2, <1>3, <1>4, <1>5, <1>6, <1>7, <1>8, <1>9, <1>10, <1>11

LEMMA CurrentStays ==
    ASSUME Shape, Shape', Newer, NEW w \in Workspaces, NEW r \in Nat, NEW T, NEW U, r <= canon[w].rev,
           T \subseteq U, Current(w, r, T)
    PROVE  w \notin interrupted' /\ canon'[w].rev = r => canon'[w].tabs \subseteq U
<1>1. canon[w].rev \in Nat /\ canon'[w].rev \in Nat
  BY DEF Shape, Types, TypeOK
<1> QED BY <1>1 DEF Newer, Current

(* A revision that a step has left behind.                                  *)
LEMMA RevStays ==
    ASSUME Shape, Shape', Newer, NEW w \in Workspaces, NEW r \in Nat, r <= canon[w].rev
    PROVE  r <= canon'[w].rev
<1>1. canon[w].rev \in Nat /\ canon'[w].rev \in Nat
  BY DEF Shape, Types, TypeOK
<1> QED BY <1>1 DEF Newer

LEMMA Standing ==
    ASSUME Shape, SwitchesStand
    PROVE  /\ \A k : (Displaced(k) <=> Displaced(k)') /\ (Undoing(k) <=> Undoing(k)')
           /\ RecoveryPending <=> RecoveryPending'
<1>1. journal # None => \A o \in Ops : Switching(o) <=> Switching(o)'
  BY DEF SwitchesStand, Switching
<1>2. \A o \in Ops : op[o].pc \in Late \/ op'[o].pc \in Late => op'[o] = op[o]
  BY DEF SwitchesStand
<1>3. journal # None => (WindowsSwitching' = {} <=> WindowsSwitching = {})
  BY <1>1 DEF WindowsSwitching
<1>4. RecoveryPending <=> RecoveryPending'
  BY <1>3 DEF RecoveryPending, SwitchesStand
<1>5. \A k : Undoing(k) <=> Undoing(k)'
  BY <1>2 DEF Undoing, Late
<1>6. \A k : Displaced(k) <=> Displaced(k)'
  BY <1>2, <1>4 DEF Displaced, Late, SwitchesStand
<1> QED BY <1>4, <1>5, <1>6

LEMMA CalmSource ==
    ASSUME Shape, Shape', SourceIsBound, Calm, \A o \in Ops : op'[o] = op[o] \/ SourceOf(o)'
    PROVE  SourceIsBound'
<1>1. ASSUME NEW o \in Ops PROVE SourceOf(o)'
  <2> SUFFICES ASSUME op'[o] = op[o], op[o].pc \in Early PROVE SourceOf(o)'
    BY DEF SourceOf
  <2>1. op'[o] = op[o] /\ op[o].pc \in Early /\ Switching(o)
    BY DEF Early, SwitchPc, Switching
  <2>2. op[o].window \in Windows /\ Aged(op[o].window)
    BY <2>1, SpaceTypes DEF Calm
  <2>3. op[o].source # None => op[o].source.rev \in Nat
    BY DEF Shape, Types, Operations, OrNone, Binding
  <2>4. binding[op[o].window] # None => binding[op[o].window].rev \in Nat /\ binding'[op[o].window].rev \in Nat
    BY <2>2, SpaceTypes DEF Aged, Shape, Types, TypeOK, Binding
  <2> QED BY <2>1, <2>2, <2>3, <2>4 DEF SourceIsBound, SourceOf, Aged
<1>2. journal' # None => \/ binding'[journal'.window] = None
                         \/ binding'[journal'.window].ws \in {journal'.source, journal'.target}
  BY SpaceTypes DEF SourceIsBound, Calm, SwitchesStand, Aged
<1> QED BY <1>1, <1>2 DEF SourceIsBound

LEMMA CalmRevisions ==
    ASSUME Shape, Shape', Revisions, Calm,
           \A k \in Windows : SameBinding(k) \/ BindingRev(k)',
           \A c \in Flushers : (Steady(c) /\ (flush[c].pc = "save" => UNCHANGED canon)) \/ FlushRev(c)',
           \A o \in Ops : op'[o] = op[o] \/ OpRev(o)'
    PROVE  Revisions'
<1>1. ASSUME NEW k \in Windows PROVE BindingRev(k)'
  <2>1. CASE SameBinding(k)
    BY <2>1, SpaceTypes, RevStays DEF Revisions, BindingRev, SameBinding, Calm
  <2> QED BY <2>1
<1>2. ASSUME NEW c \in Flushers PROVE FlushRev(c)'
  <2>1. CASE Steady(c) /\ (flush[c].pc = "save" => UNCHANGED canon)
    <3>1. flush'[c] = flush[c] /\ FlushRev(c)
      BY <2>1 DEF Steady, Revisions
    <3>2. CASE ~Active(c)
      BY <3>1, <3>2 DEF FlushRev, Active
    <3>3. CASE Active(c)
      <4>1. flush[c].expected.ws \in Workspaces /\ flush[c].expected.rev \in Nat
        BY <3>3, SpaceTypes
      <4>2. canon[flush[c].expected.ws].rev \in Nat /\ canon'[flush[c].expected.ws].rev \in Nat
        BY <4>1 DEF Shape, Types, TypeOK
      <4>3. canon[flush[c].expected.ws].rev <= canon'[flush[c].expected.ws].rev
        BY <4>1, <4>2 DEF Calm, Newer
      <4> QED BY <2>1, <3>1, <3>3, <4>1, <4>2, <4>3 DEF FlushRev, Active
    <3> QED BY <3>2, <3>3
  <2> QED BY <2>1
<1>3. JournalRev'
  BY SpaceTypes, RevStays DEF Revisions, JournalRev, Calm, SwitchesStand
<1>4. ASSUME NEW o \in Ops PROVE OpRev(o)'
  <2>1. CASE op'[o] = op[o]
    <3>1. OpRev(o)
      BY DEF Revisions
    <3>2. op[o].pc \in EditRunning \/ op[o].pc \in {"prepared", "swapped"} => op[o].ws \in Workspaces
      BY SpaceTypes DEF EditRunning, EditPcs, SwitchPc
    <3>3. op[o].rev \in Nat /\ (op[o].pc \in {"prepared", "swapped"} => op[o].plan.rev \in Nat)
      BY SpaceTypes
    <3> QED BY <2>1, <3>1, <3>2, <3>3, RevStays DEF OpRev, Calm
  <2> QED BY <2>1
<1> QED BY <1>1, <1>2, <1>3, <1>4 DEF Revisions

LEMMA CalmFlush ==
    ASSUME Shape, Shape', Revisions, Tabs, Calm, NEW c \in Flushers, Steady(c)
    PROVE  FlushCarries(c)' /\ CutKnows(c)' /\ \A o \in Ops : SwitchMeets(o, c)'
<1> DEFINE f == flush[c]  e == f.expected  k == f.window
<1>1. flush'[c] = flush[c] /\ FlushCarries(c) /\ CutKnows(c) /\ FlushRev(c)
  BY DEF Steady, Tabs, Revisions
<1>2. CutKnows(c)'
  BY <1>1, Standing DEF CutKnows, Calm, Active, SwitchesStand, Newer
<1>3. FlushCarries(c)'
  <2>1. CASE f.pc \notin {"snapshot", "capture", "commit", "save", "bind"}
    BY <1>1, <2>1 DEF FlushCarries
  <2>2. CASE f.pc \in {"snapshot", "capture", "commit", "save", "bind"}
    <3>1. e.ws \in Workspaces /\ e.rev \in Nat /\ e.rev + 1 \in Nat /\ k \in Windows /\ e.rev <= canon[e.ws].rev
          /\ canon[e.ws].rev \in Nat /\ (f.pc = "bind" => e.rev + 1 <= canon[e.ws].rev)
      BY <1>1, <2>2, SpaceTypes DEF Active, FlushRev
    <3>2. live[k] \subseteq live'[k] /\ Aged(k) /\ Newer /\ loading' \subseteq loading /\ interrupted \subseteq interrupted'
      BY <3>1 DEF Calm, Newer
    <3>3. CASE f.pc \in {"snapshot", "capture"}
      <4>1. c \notin mutated' => c \notin mutated
        BY DEF Steady
      <4>2. c \notin mutated => Current(e.ws, e.rev, live[k])
        BY <1>1, <3>3 DEF FlushCarries
      <4>3. ASSUME c \notin mutated'
            PROVE  e.ws \notin interrupted' /\ canon'[e.ws].rev = e.rev => canon'[e.ws].tabs \subseteq live'[k]
        BY <3>1, <3>2, <4>1, <4>2, <4>3, CurrentStays
      <4> QED BY <1>1, <3>3, <4>3 DEF FlushCarries, Current
    <3>4. CASE f.pc \in {"commit", "save"}
      <4>1. Current(e.ws, e.rev, f.tabs) /\ (e.ws \notin interrupted => f.tabs \subseteq live[k]) /\ (k \in loading => Undoing(k))
        BY <1>1, <3>4 DEF FlushCarries
      <4>2. Current(e.ws, e.rev, f.tabs)'
        BY <1>1, <3>1, <3>2, <4>1, CurrentStays DEF Current
      <4>3. k \in loading' => Undoing(k)'
        BY <1>1, <3>2, <4>1, Standing DEF Calm
      <4> QED BY <1>1, <3>2, <3>4, <4>1, <4>2, <4>3 DEF FlushCarries
    <3>5. CASE f.pc = "bind"
      <4>1. Current(e.ws, e.rev + 1, f.tabs)
            /\ (e.ws \notin interrupted /\ ~Displaced(k) => f.tabs \subseteq live[k] \/ Passed(k, e))
        BY <1>1, <3>5 DEF FlushCarries
      <4>2. Current(e.ws, e.rev + 1, f.tabs)'
        BY <1>1, <3>1, <3>2, <3>5, <4>1, CurrentStays DEF Current
      <4>3. Passed(k, e) => Passed(k, e)'
        <5>1. binding[k] # None /\ binding'[k] # None => binding[k].rev \in Nat /\ binding'[k].rev \in Nat
          BY <3>1 DEF Shape, Types, TypeOK, Binding
        <5> QED BY <1>1, <3>1, <3>2, <5>1 DEF Passed, Aged
      <4>4. ~Displaced(k)' => ~Displaced(k)
        BY <1>1, Standing DEF Calm
      <4> QED BY <1>1, <3>2, <3>5, <4>1, <4>2, <4>3, <4>4 DEF FlushCarries
    <3> QED BY <2>2, <3>3, <3>4, <3>5
  <2> QED BY <2>1, <2>2
<1>4. ASSUME NEW o \in Ops PROVE SwitchMeets(o, c)'
  <2>1. CASE op'[o].pc \in Late /\ flush[c].pc # "idle" /\ f.window = op[o].window
    <3>1. op'[o] = op[o] /\ journal' = journal /\ SwitchMeets(o, c) /\ op[o].window \in Windows
      BY <2>1, SpaceTypes DEF Calm, SwitchesStand, Tabs, Late, SwitchPc, Switching
    <3>2. c \notin mutated' => c \notin mutated /\ live'[op[o].window] = live[op[o].window]
                               /\ (op[o].window \notin loading' => op[o].window \notin loading)
      BY <2>1 DEF Steady
    <3>3. interrupted \subseteq interrupted' /\ (c \in mutated => c \in mutated')
      BY DEF Calm, Newer, Steady
    <3> QED BY <1>1, <2>1, <3>1, <3>2, <3>3 DEF SwitchMeets
  <2>2. CASE op'[o].pc \notin Late
    BY <2>2 DEF SwitchMeets, Late
  <2>3. CASE flush[c].pc = "idle"
    BY <1>1, <2>3 DEF SwitchMeets
  <2>4. CASE op'[o].pc \in Late /\ f.window # op[o].window
    BY <1>1, <2>4 DEF SwitchMeets, Calm, SwitchesStand
  <2> QED BY <2>1, <2>2, <2>3, <2>4
<1> QED BY <1>2, <1>3, <1>4

LEMMA CalmTabs ==
    ASSUME Shape, Shape', Revisions, Tabs, Calm,
           \A k \in Windows : SameBinding(k) \/ WindowShows(k)',
           \A c \in Flushers : Steady(c) \/ (FlushCarries(c)' /\ CutKnows(c)' /\ \A o \in Ops : SwitchMeets(o, c)'),
           \A o \in Ops : op'[o] = op[o] \/ EditKnows(o)'
    PROVE  Tabs'
<1>1. ASSUME NEW k \in Windows PROVE WindowShows(k)'
  <2>1. CASE SameBinding(k)
    <3>1. ~Displaced(k)' => ~Displaced(k)
      BY Standing DEF Calm
    <3>2. live[k] \subseteq live'[k] /\ WindowShows(k) /\ BindingRev(k) /\ Newer
      BY DEF Calm, Tabs, Revisions
    <3> QED BY <2>1, <3>1, <3>2, SpaceTypes, CurrentStays DEF WindowShows, SameBinding, BindingRev, Current
  <2> QED BY <2>1
<1>2. ASSUME NEW c \in Flushers PROVE FlushCarries(c)' /\ CutKnows(c)' /\ \A o \in Ops : SwitchMeets(o, c)'
  BY CalmFlush
<1>3. ASSUME NEW o \in Ops PROVE SwitchCarries(o)'
  <2>1. CASE op'[o].pc \in Late
    <3>1. op'[o] = op[o] /\ journal' = journal /\ SwitchCarries(o) /\ op[o].window \in Windows /\ op[o].ws \in Workspaces
          /\ OpRev(o) /\ Newer
      BY <2>1, SpaceTypes DEF Calm, SwitchesStand, Tabs, Switching, Revisions, Late, SwitchPc
    <3>2. live[op[o].window] \subseteq live'[op[o].window]
      BY <3>1 DEF Calm
    <3>3. op[o].pc \in {"prepared", "swapped"} => op[o].plan.rev \in Nat /\ op[o].plan.rev <= canon[op[o].ws].rev
      BY <3>1, SpaceTypes DEF OpRev
    <3>4. op[o].pc \in {"prepared", "swapped"} => Current(op[o].ws, op[o].plan.rev, op[o].plan.tabs)'
      <4> SUFFICES ASSUME op[o].pc \in {"prepared", "swapped"} PROVE Current(op[o].ws, op[o].plan.rev, op[o].plan.tabs)'
        OBVIOUS
      <4>1. Current(op[o].ws, op[o].plan.rev, op[o].plan.tabs)
        BY <3>1 DEF SwitchCarries
      <4>2. op[o].ws \notin interrupted' /\ canon'[op[o].ws].rev = op[o].plan.rev => canon'[op[o].ws].tabs \subseteq op[o].plan.tabs
        BY <3>1, <3>3, <4>1, CurrentStays
      <4> QED BY <3>1, <4>2 DEF Current
    <3> QED BY <3>1, <3>2, <3>4 DEF SwitchCarries
  <2>2. CASE op'[o].pc \notin Late
    BY <2>2 DEF SwitchCarries, Late
  <2> QED BY <2>1, <2>2
<1>4. ASSUME NEW o \in Ops PROVE EditKnows(o)'
  <2>1. CASE op'[o] = op[o] /\ op[o].kind = "edit" /\ op[o].pc \in EditRunning
    <3>1. EditKnows(o) /\ OpRev(o) /\ op[o].rev \in Nat /\ op[o].ws \in Workspaces
      BY <2>1, SpaceTypes DEF Tabs, Revisions, EditRunning, EditPcs, SwitchPc
    <3>2. op[o].rev <= canon[op[o].ws].rev /\ canon[op[o].ws].rev \in Nat /\ canon'[op[o].ws].rev \in Nat
      BY <2>1, <3>1 DEF OpRev, Shape, Types, TypeOK
    <3> QED BY <2>1, <3>1, <3>2 DEF EditKnows, Calm, Newer
  <2>2. CASE op'[o] = op[o] /\ ~(op[o].kind = "edit" /\ op[o].pc \in EditRunning)
    BY <2>2 DEF EditKnows
  <2> QED BY <2>1, <2>2
<1>5. JournalCarries'
  BY SpaceTypes, CurrentStays DEF Tabs, Revisions, JournalRev, JournalCarries, Calm, SwitchesStand, Current
<1>6. CutIsKnown'
  <2>1. CASE RecoveryPending'
    <3>1. RecoveryPending /\ journal' = journal /\ journal # None /\ interrupted \subseteq interrupted'
      BY <2>1, Standing DEF Calm, SwitchesStand, RecoveryPending, Newer
    <3>2. journal.window \in Windows /\ Aged(journal.window)
      BY <3>1, SpaceTypes DEF Calm
    <3> QED BY <3>1, <3>2 DEF Tabs, CutIsKnown, Aged, OrNone
  <2> QED BY <2>1 DEF CutIsKnown
<1> QED BY <1>1, <1>2, <1>3, <1>4, <1>5, <1>6 DEF Tabs

-----------------------------------------------------------------------------
(* The invariant, step by step.                                             *)
Known == SourceIsBound /\ Revisions /\ Tabs

LEMMA CalmKnown ==
    ASSUME Shape, Shape', Known, Calm,
           \A k \in Windows : SameBinding(k) \/ (BindingRev(k)' /\ WindowShows(k)'),
           \A c \in Flushers : \/ Steady(c) /\ (flush[c].pc = "save" => UNCHANGED canon)
                               \/ /\ FlushRev(c)' /\ FlushCarries(c)' /\ CutKnows(c)'
                                  /\ \A o \in Ops : SwitchMeets(o, c)',
           \A o \in Ops : op'[o] = op[o] \/ (SourceOf(o)' /\ OpRev(o)' /\ EditKnows(o)')
    PROVE  Known'
  BY CalmSource, CalmRevisions, CalmTabs DEF Known

(* A flush at rest knows nothing.                                           *)
LEMMA AtRest ==
    ASSUME NEW c \in Flushers, flush'[c].pc \in {"idle", "ended", "others", "flag"}, flush'[c].pc \in {"idle", "ended"} \/ FlushRev(c)'
    PROVE  FlushRev(c)' /\ FlushCarries(c)' /\ (flush'[c].pc \in {"idle", "ended"} => CutKnows(c)')
           /\ \A o \in Ops : SwitchMeets(o, c)'
  BY DEF FlushRev, FlushCarries, CutKnows, SwitchMeets, Active

(* An operation outside of switches and edits knows nothing.                *)
LEMMA AtEase ==
    ASSUME NEW o \in Ops, op'[o].pc \notin EditRunning
    PROVE  SourceOf(o)' /\ OpRev(o)' /\ EditKnows(o)'
  BY DEF SourceOf, OpRev, EditKnows, EditRunning, EditPcs, SwitchPc, Early

LEMMA Unchanging ==
    ASSUME Shape
    PROVE  /\ UNCHANGED <<canon, interrupted>> => Newer
           /\ UNCHANGED binding => \A k \in Windows : Aged(k) /\ SameBinding(k)
           /\ UNCHANGED <<journal, op>> => SwitchesStand
           /\ UNCHANGED live => \A k \in Windows : live[k] \subseteq live'[k]
           /\ UNCHANGED loading => loading' \subseteq loading
           /\ \A c \in Flushers : flush'[c] = flush[c] /\ UNCHANGED <<mutated, live, loading>> => Steady(c)
  BY SpaceTypes DEF Newer, Aged, SameBinding, SwitchesStand, Steady

LEMMA UserKnown == ASSUME Shape, Shape', Known, NEW k \in Windows, UserEdit(k) \/ TabsLoaded(k) PROVE Known'
<1>1. /\ UNCHANGED <<canon, journal, binding, flush, op, interrupted>>
      /\ mutated' = mutated \cup {c \in Flushers : flush[c].window = k}
  BY Noting DEF UserEdit, TabsLoaded, store, history
<1>2. /\ \A x \in Windows \ {k} : live'[x] = live[x]
      /\ \A x \in Windows : live[x] \subseteq live'[x]
      /\ loading' \subseteq loading /\ loading \ loading' \subseteq {k}
  BY DEF UserEdit, TabsLoaded, Shape, Types, TypeOK
<1>3. Calm /\ \A x \in Windows : SameBinding(x)
  BY <1>1, <1>2, Unchanging DEF Calm
<1>4. \A c \in Flushers : Steady(c)
  BY <1>1, <1>2, SpaceTypes DEF Steady
<1> QED BY <1>1, <1>3, <1>4, CalmKnown

LEMMA DrainKnown == ASSUME Shape, Shape', Known, DrainPass \/ DrainFlushed \/ DrainEnd PROVE Known'
<1>1. UNCHANGED <<canon, journal, binding, live, loading, mutated, op, interrupted>>
  BY DEF DrainPass, DrainFlushed, DrainEnd, store, browser, history
<1>2. Calm /\ \A x \in Windows : SameBinding(x)
  BY <1>1, Unchanging DEF Calm
<1>3. ASSUME NEW c \in Flushers, flush'[c] # flush[c] PROVE flush'[c].pc = "idle"
  BY <1>3 DEF DrainPass, DrainFlushed, DrainEnd, Shape, Types, NoFlush
<1>4. \A c \in Flushers : \/ Steady(c)
                          \/ FlushRev(c)' /\ FlushCarries(c)' /\ CutKnows(c)' /\ \A o \in Ops : SwitchMeets(o, c)'
  BY <1>1, <1>3, AtRest, Unchanging
<1> QED BY <1>1, <1>2, <1>4, CalmKnown

(* A flush that begins with a binding that may save.                        *)
LEMMA BeginningKnown ==
    ASSUME SwitchesRespected, Shape, Shape', Known, NEW c \in Flushers, NEW k \in Windows, FlushBegin(c, k),
           flush[c].pc = "idle",
           \A p \in Ops : op[p].pc \in Late => op[p].window # k,
           UNCHANGED <<canon, journal, binding, live, loading, interrupted>>, SwitchesStand,
           \A o \in Ops : op'[o] = op[o] \/ (SourceOf(o)' /\ OpRev(o)' /\ EditKnows(o)')
    PROVE  Known'
<1>1. PICK f \in Flushes :
             /\ flush' = [flush EXCEPT ![c] = f] /\ f.window = k
             /\ \/ f.pc = "ended" /\ UNCHANGED <<wsLine, mutated>>
                \/ /\ f.pc = "snapshot" /\ binding[k] \in Binding /\ f.expected = binding[k]
                   /\ wsLine' = Append(wsLine, c) /\ mutated' = mutated \ {c}
  BY Beginning
<1>2. Calm /\ \A x \in Windows : SameBinding(x)
  BY Unchanging DEF Calm
<1>3. flush'[c] = f /\ \A d \in Flushers \ {c} : flush'[d] = flush[d]
  BY <1>1 DEF Shape, Types
<1>4. \A d \in Flushers \ {c} : Steady(d)
  BY <1>1, <1>3 DEF Steady
<1>5. FlushRev(c)' /\ FlushCarries(c)' /\ CutKnows(c)' /\ \A o \in Ops : SwitchMeets(o, c)'
  <2>1. CASE f.pc = "ended"
    BY <1>3, <2>1, AtRest
  <2>2. CASE f.pc = "snapshot" /\ binding[k] \in Binding /\ f.expected = binding[k]
    <3>1. binding[k] # None
      BY <2>2 DEF SwitchesRespected
    <3>2. FlushRev(c)'
      BY <1>3, <2>2, <3>1 DEF Known, Revisions, BindingRev, FlushRev
    <3>3. ~Displaced(k) => Current(binding[k].ws, binding[k].rev, live[k])
      BY <3>1 DEF Known, Tabs, WindowShows
    <3>4. Displaced(k) => RecoveryPending /\ journal.window = k
      BY DEF Displaced, Late
    <3>5. RecoveryPending /\ journal.window = k => binding[k].ws \in interrupted
      BY <3>1 DEF Known, Tabs, CutIsKnown
    <3>6. Current(binding[k].ws, binding[k].rev, live[k])
      BY <3>3, <3>4, <3>5 DEF Current
    <3>7. FlushCarries(c)'
      <4>1. Current(binding[k].ws, binding[k].rev, live[k])'
        BY <3>6 DEF Current
      <4> QED BY <1>1, <1>3, <2>2, <4>1 DEF FlushCarries, Current
    <3>8. CutKnows(c)'
      BY <1>1, <1>3, <2>2, <3>5, Standing DEF CutKnows, SwitchesStand
    <3>9. \A o \in Ops : SwitchMeets(o, c)'
      BY <1>1, <1>3, <2>2 DEF SwitchMeets, SwitchesStand, Late
    <3> QED BY <3>2, <3>7, <3>8, <3>9
  <2> QED BY <1>1, <2>1, <2>2
<1> QED BY <1>2, <1>4, <1>5, CalmKnown

LEMMA DrainNextKnown == ASSUME SwitchesRespected, Shape, Shape', Known, NEW k \in Windows, DrainNext(k) PROVE Known'
<1>1. UNCHANGED <<canon, journal, binding, live, loading, op, interrupted>> /\ flush[Drain].pc = "idle" /\ Drain \in Flushers
  BY Members DEF DrainNext, store, browser, history
<1>2. CASE k \in suppressed
  <2>1. UNCHANGED <<flush, mutated>>
    BY <1>2 DEF DrainNext
  <2>2. Calm /\ (\A x \in Windows : SameBinding(x)) /\ \A c \in Flushers : Steady(c)
    BY <1>1, <2>1, Unchanging DEF Calm
  <2> QED BY <1>1, <2>2, CalmKnown
<1>3. CASE k \notin suppressed
  <2>1. FlushBegin(Drain, k)
    BY <1>3 DEF DrainNext
  <2>2. \A p \in Ops : op[p].pc \in Late => op[p].window # k
    BY <1>3 DEF Shape, OneSwitch, Switching, Late, SwitchPc
  <2> QED BY <1>1, <2>1, <2>2, Unchanging, BeginningKnown
<1> QED BY <1>2, <1>3

(* A step of one flush: the others go on.                                   *)
LEMMA OneFlush ==
    ASSUME Shape, Shape', Known, NEW c \in Flushers, NEW f, flush' = [flush EXCEPT ![c] = f], flush[c].pc # "idle",
           UNCHANGED <<journal, op, live, loading, mutated, interrupted>>, Newer,
           flush[c].pc = "save" \/ UNCHANGED canon,
           \A k \in Windows : Aged(k) /\ (SameBinding(k) \/ (BindingRev(k)' /\ WindowShows(k)')),
           f.pc # "ended" => /\ f.window = flush[c].window /\ f.expected = flush[c].expected /\ Active(c)
                             /\ FlushRev(c)' /\ FlushCarries(c)' /\ \A o \in Ops : SwitchMeets(o, c)'
    PROVE  Known'
<1>1. flush'[c] = f /\ \A d \in Flushers \ {c} : flush'[d] = flush[d]
  BY DEF Shape, Types
<1>2. Calm
  BY Unchanging DEF Calm
<1>3. ASSUME NEW d \in Flushers \ {c} PROVE Steady(d) /\ (flush[d].pc = "save" => UNCHANGED canon)
  <2>1. flush[c].pc = "save" /\ flush[d].pc = "save" => c = d
    BY DEF Shape, FlushShapes, First
  <2> QED BY <1>1, <2>1 DEF Steady
<1>4. FlushRev(c)' /\ FlushCarries(c)' /\ CutKnows(c)' /\ \A o \in Ops : SwitchMeets(o, c)'
  <2>1. CASE f.pc = "ended"
    BY <1>1, <2>1, AtRest
  <2>2. CASE f.pc # "ended"
    <3>1. CutKnows(c)'
      <4>1. CutKnows(c) /\ (RecoveryPending <=> RecoveryPending')
        BY Standing, Unchanging DEF Known, Tabs
      <4> QED BY <1>1, <2>2, <4>1 DEF CutKnows
    <3> QED BY <2>2, <3>1
  <2> QED BY <2>1, <2>2
<1> QED BY <1>2, <1>3, <1>4, CalmKnown

LEMMA SnapshotKnown == ASSUME Shape, Shape', Known, NEW c \in Flushers, FlushSnapshot(c) \/ FlushCapture(c) \/ FlushCommit(c) PROVE Known'
<1>1. UNCHANGED <<canon, journal, binding, op, live, loading, mutated, interrupted>>
  BY DEF FlushSnapshot, FlushCapture, FlushCommit, store, browser, schedule, history
<1>2. FlushRev(c) /\ FlushCarries(c) /\ (\A o \in Ops : SwitchMeets(o, c)) /\ flush[c] \in Flushes
  BY DEF Known, Revisions, Tabs, Shape, Types
<1>3. PICK f : /\ flush' = [flush EXCEPT ![c] = f] /\ f.window = flush[c].window /\ f.expected = flush[c].expected
               /\ \/ f.pc = "ended" \/ f.pc = "flag"
                  \/ flush[c].pc = "snapshot" /\ f.pc = "capture"
                  \/ /\ flush[c].pc = "capture" /\ f.pc = "commit" /\ f.tabs = live[flush[c].window]
                     /\ flush[c].window \notin loading /\ c \notin mutated
                  \/ flush[c].pc = "commit" /\ f.pc = "save" /\ f.tabs = flush[c].tabs /\ MayOverwrite(c)
  <2>1. CASE FlushSnapshot(c)
    <3>1. PICK p \in {"capture", "flag"} : flush' = [flush EXCEPT ![c].pc = p]
      BY <2>1 DEF FlushSnapshot
    <3> DEFINE f == [flush[c] EXCEPT !.pc = p]
    <3>2. flush' = [flush EXCEPT ![c] = f] /\ f.window = flush[c].window /\ f.expected = flush[c].expected /\ f.pc = p
      BY <1>2, <3>1 DEF Shape, Types, Flushes
    <3> QED BY <2>1, <3>2 DEF FlushSnapshot
  <2>2. CASE FlushCapture(c)
    <3>1. CASE flush[c].window \in loading \/ c \in mutated
      <4> DEFINE f == Ended(flush[c], IF flush[c].window \in loading THEN "busy" ELSE "moved")
      <4>1. flush' = [flush EXCEPT ![c] = f]
        BY <2>2, <3>1 DEF FlushCapture, Shape, Types
      <4>2. f.window = flush[c].window /\ f.expected = flush[c].expected /\ f.pc = "ended"
        BY <1>2 DEF Flushes, Ended
      <4> QED BY <4>1, <4>2
    <3>2. CASE ~(flush[c].window \in loading \/ c \in mutated)
      <4> DEFINE f == [flush[c] EXCEPT !.pc = "commit", !.tabs = live[flush[c].window]]
      <4>1. flush' = [flush EXCEPT ![c] = f]
        BY <2>2, <3>2 DEF FlushCapture, Shape, Types
      <4>2. f.window = flush[c].window /\ f.expected = flush[c].expected /\ f.pc = "commit" /\ f.tabs = live[flush[c].window]
        BY <1>2 DEF Flushes
      <4> QED BY <2>2, <3>2, <4>1, <4>2 DEF FlushCapture
    <3> QED BY <3>1, <3>2
  <2>3. CASE FlushCommit(c)
    <3>1. CASE flush' = [flush EXCEPT ![c].pc = "save"] /\ MayOverwrite(c)
      <4> DEFINE f == [flush[c] EXCEPT !.pc = "save"]
      <4>1. flush' = [flush EXCEPT ![c] = f] /\ f.window = flush[c].window /\ f.expected = flush[c].expected
            /\ f.pc = "save" /\ f.tabs = flush[c].tabs
        BY <1>2, <3>1 DEF Shape, Types, Flushes
      <4> QED BY <2>3, <3>1, <4>1 DEF FlushCommit
    <3>2. CASE flush' = [flush EXCEPT ![c] = Ended(@, "unchanged")]
      <4> DEFINE f == Ended(flush[c], "unchanged")
      <4>1. flush' = [flush EXCEPT ![c] = f] /\ f.window = flush[c].window /\ f.expected = flush[c].expected /\ f.pc = "ended"
        BY <1>2, <3>2 DEF Shape, Types, Flushes, Ended
      <4> QED BY <4>1
    <3>3. CASE flush' = [flush EXCEPT ![c].pc = "flag"]
      <4> DEFINE f == [flush[c] EXCEPT !.pc = "flag"]
      <4>1. flush' = [flush EXCEPT ![c] = f] /\ f.window = flush[c].window /\ f.expected = flush[c].expected /\ f.pc = "flag"
        BY <1>2, <3>3 DEF Shape, Types, Flushes
      <4> QED BY <4>1
    <3> QED BY <2>3, <3>1, <3>2, <3>3 DEF FlushCommit
  <2> QED BY <2>1, <2>2, <2>3
<1>4. flush'[c] = f /\ Active(c)
  BY <1>3 DEF Shape, Types, Active, FlushSnapshot, FlushCapture, FlushCommit
<1>5. f.pc # "ended" => FlushRev(c)'
  BY <1>1, <1>2, <1>3, <1>4 DEF FlushRev, Active, MayOverwrite
<1>7. FlushCarries(c)'
  <2>1. CASE f.pc \in {"ended", "flag"}
    BY <1>4, <2>1 DEF FlushCarries
  <2>2. CASE f.pc = "capture"
    BY <1>1, <1>2, <1>3, <1>4, <2>2 DEF FlushCarries, Current
  <2>3. CASE f.pc = "commit"
    BY <1>1, <1>2, <1>3, <1>4, <2>3 DEF FlushCarries, Current
  <2>4. CASE f.pc = "save"
    BY <1>1, <1>2, <1>3, <1>4, <2>4 DEF FlushCarries, Current, Undoing
  <2> QED BY <1>3, <2>1, <2>2, <2>3, <2>4
<1>8. ASSUME NEW o \in Ops PROVE SwitchMeets(o, c)'
  BY <1>1, <1>2, <1>3, <1>4 DEF SwitchMeets
<1>9. flush[c].pc # "idle" /\ Newer /\ \A k \in Windows : Aged(k) /\ SameBinding(k)
  BY <1>1, <1>4, Unchanging DEF Active
<1> QED BY <1>1, <1>3, <1>4, <1>5, <1>7, <1>8, <1>9, OneFlush

LEMMA SaveKnown == ASSUME Shape, Shape', Known, NEW c \in Flushers, FlushSave(c) PROVE Known'
<1> DEFINE e == flush[c].expected  k == flush[c].window
<1>1. UNCHANGED <<journal, binding, op, live, loading, mutated, interrupted>> /\ flush[c].pc = "save" /\ Active(c)
  BY DEF FlushSave, browser, schedule, history, Active
<1>2. FlushRev(c) /\ FlushCarries(c) /\ (\A o \in Ops : SwitchMeets(o, c)) /\ flush[c] \in Flushes
  BY DEF Known, Revisions, Tabs, Shape, Types
<1>3. e.ws \in Workspaces /\ e.rev \in Nat /\ e.rev = canon[e.ws].rev
  BY <1>1, <1>2, SpaceTypes DEF FlushRev
<1>4. /\ \A w \in Workspaces \ {e.ws} : canon'[w] = canon[w]
      /\ canon'[e.ws].tabs = flush[c].tabs /\ canon'[e.ws].rev = e.rev + 1
  BY <1>3 DEF FlushSave, Shape, Types, TypeOK
<1> DEFINE f == [flush[c] EXCEPT !.pc = "bind"]
<1>5. flush' = [flush EXCEPT ![c] = f] /\ f.window = k /\ f.expected = e /\ f.pc = "bind" /\ f.tabs = flush[c].tabs
      /\ flush'[c] = f
  BY <1>2 DEF FlushSave, Shape, Types, Flushes
<1> HIDE DEF f
<1>6. Newer
  BY <1>1, <1>3, <1>4 DEF Newer
<1>7. FlushRev(c)'
  BY <1>3, <1>4, <1>5 DEF FlushRev
<1>8. FlushCarries(c)'
  <2>1. e.ws \notin interrupted => flush[c].tabs \subseteq live[k]
    BY <1>1, <1>2 DEF FlushCarries
  <2> QED BY <1>1, <1>4, <1>5, <2>1 DEF FlushCarries, Current
<1>9. ASSUME NEW o \in Ops PROVE SwitchMeets(o, c)'
  BY <1>1, <1>2, <1>5 DEF SwitchMeets
<1>10. \A x \in Windows : Aged(x) /\ SameBinding(x)
  BY <1>1, Unchanging
<1> QED BY <1>1, <1>5, <1>6, <1>7, <1>8, <1>9, <1>10, OneFlush

LEMMA RebindKnown == ASSUME SwitchesRespected, Shape, Shape', Known, NEW c \in Flushers, FlushRebind(c) PROVE Known'
<1>0. flush[c].window \in Windows /\ flush[c].expected \in Binding
  BY SpaceTypes DEF FlushRebind, Active
<1> PICK k \in Windows, e \in Binding : flush[c].window = k /\ flush[c].expected = e
  BY <1>0
<1>1. UNCHANGED <<canon, journal, op, live, loading, mutated, interrupted>> /\ flush[c].pc = "bind" /\ Active(c)
  BY DEF FlushRebind, browser, schedule, history, Active
<1>2. FlushRev(c) /\ FlushCarries(c) /\ flush[c] \in Flushes
  BY DEF Known, Revisions, Tabs, Shape, Types
<1>3. e.ws \in Workspaces /\ e.rev \in Nat /\ e.rev < canon[e.ws].rev /\ k \in Windows /\ canon[e.ws].rev \in Nat
  BY <1>1, <1>2, SpaceTypes DEF FlushRev, Active
<1> DEFINE f == [flush[c] EXCEPT !.pc = "others"]
<1>4. flush' = [flush EXCEPT ![c] = f] /\ f.window = k /\ f.expected = e /\ f.pc = "others" /\ flush'[c] = f
  BY <1>2 DEF FlushRebind, Shape, Types, Flushes
<1> HIDE DEF f
<1>5. FlushRev(c)' /\ FlushCarries(c)' /\ \A o \in Ops : SwitchMeets(o, c)'
  <2>1. FlushRev(c)'
    BY <1>1, <1>3, <1>4 DEF FlushRev
  <2> QED BY <1>4, <2>1, AtRest
<1>6. Newer
  BY <1>1, Unchanging
<1>7. ASSUME NEW x \in Windows PROVE Aged(x) /\ (SameBinding(x) \/ (BindingRev(x)' /\ WindowShows(x)'))
  <2>1. CASE x # k \/ ~Matches(binding[k], e)
    <3>1. binding'[x] = binding[x]
      BY <1>3, <2>1 DEF FlushRebind, Shape, Types, TypeOK
    <3>2. binding[x] # None => binding[x].rev \in Nat
      BY SpaceTypes
    <3> QED BY <3>1, <3>2 DEF Aged, SameBinding
  <2>2. CASE x = k /\ Matches(binding[k], e)
    <3>1. binding[k] # None /\ binding[k] \in Binding /\ binding[k].ws = e.ws /\ binding[k].rev = e.rev /\ ~binding[k].stale
      BY <1>3, <2>2, SpaceTypes DEF Matches
    <3>2. binding' = [binding EXCEPT ![k].rev = e.rev + 1]
      BY <2>2 DEF FlushRebind
    <3>3. binding'[k] = [binding[k] EXCEPT !.rev = e.rev + 1]
      BY <1>3, <3>2 DEF Shape, Types, TypeOK
    <3>4. binding'[k].ws = e.ws /\ binding'[k].rev = e.rev + 1 /\ binding'[k].stale = binding[k].stale
      BY <3>1, <3>3 DEF Binding
    <3>5. binding'[k] # None
      <4>1. [binding[k] EXCEPT !.rev = e.rev + 1] \in Binding
        BY <1>3, <3>1 DEF Binding
      <4> QED BY <3>3, <4>1 DEF SwitchesRespected
    <3>6. Aged(k) /\ BindingRev(k)'
      <4>1. e.rev + 1 >= e.rev /\ e.rev + 1 <= canon[e.ws].rev
        BY <1>3
      <4>2. Aged(k)
        BY <3>1, <3>4, <3>5, <4>1 DEF Aged
      <4>3. BindingRev(k)'
        BY <1>1, <3>4, <4>1 DEF BindingRev
      <4> QED BY <4>2, <4>3
    <3>7. WindowShows(k)'
      <4>1. ~Displaced(k)' => ~Displaced(k)
        BY <1>1, Standing, Unchanging
      <4>2. ~Passed(k, e)
        BY <1>3, <3>1 DEF Passed
      <4>3. /\ Current(e.ws, e.rev + 1, flush[c].tabs)
            /\ e.ws \notin interrupted /\ ~Displaced(k) => flush[c].tabs \subseteq live[k]
        BY <1>1, <1>2, <4>2 DEF FlushCarries
      <4>4. ~Displaced(k)' => Current(e.ws, e.rev + 1, live[k])
        BY <4>1, <4>3 DEF Current
      <4>5. Current(e.ws, e.rev + 1, live[k]) => Current(e.ws, e.rev + 1, live[k])'
        BY <1>1 DEF Current
      <4> QED BY <3>4, <4>4, <4>5 DEF WindowShows
    <3> QED BY <2>2, <3>6, <3>7
  <2> QED BY <2>1, <2>2
<1> QED BY <1>1, <1>4, <1>5, <1>6, <1>7, OneFlush

StaleOf(b) ==
  LET s == [b EXCEPT !.stale = TRUE] IN s # None /\ s.ws = b.ws /\ s.rev = b.rev /\ s.stale

LEMMA StaleKept == ASSUME SwitchesRespected, NEW b \in Binding PROVE StaleOf(b)
<1>1. [b EXCEPT !.stale = TRUE] \in Binding
  BY DEF Binding
<1> QED BY <1>1 DEF StaleOf, Binding, SwitchesRespected

LEMMA MarkedStays ==
    ASSUME SwitchesRespected, Shape, NEW ws, NEW except, binding' = OthersStale(ws, except), Shape'
    PROVE  \A k \in Windows : Aged(k) /\ SameBinding(k)
<1> TAKE k \in Windows
<1>1. binding'[k] = IF k # except /\ binding[k] # None /\ binding[k].ws = ws
                    THEN [binding[k] EXCEPT !.stale = TRUE] ELSE binding[k]
  BY DEF OthersStale
<1>2. binding[k] # None => binding[k] \in Binding /\ binding[k].rev \in Nat
  BY SpaceTypes
<1>3. binding[k] # None => StaleOf(binding[k])
  BY <1>2, StaleKept
<1> QED BY <1>1, <1>2, <1>3 DEF Aged, SameBinding, StaleOf

LEMMA FlagKnown == ASSUME SwitchesRespected, Shape, Shape', Known, NEW c \in Flushers, FlushMarkOthers(c) \/ FlushFlag(c) PROVE Known'
<1>1. UNCHANGED <<canon, journal, op, live, loading, mutated, interrupted>> /\ flush[c].pc \in {"others", "flag"}
  BY DEF FlushMarkOthers, FlushFlag, browser, schedule, history
<1>2. PICK r : flush' = [flush EXCEPT ![c] = Ended(flush[c], r)]
  BY DEF FlushMarkOthers, FlushFlag, Shape, Types
<1> DEFINE f == Ended(flush[c], r)
<1>3. f.pc = "ended"
  BY DEF Ended, Shape, Types, Flushes
<1> HIDE DEF f
<1>4. Newer /\ flush[c].pc # "idle"
  BY <1>1, Unchanging
<1>5. \A x \in Windows : Aged(x) /\ SameBinding(x)
  <2>1. CASE FlushMarkOthers(c)
    BY <2>1, MarkedStays DEF FlushMarkOthers
  <2>2. CASE FlushFlag(c)
    <3> TAKE x \in Windows
    <3>1. binding'[x] = binding[x] \/ (binding[x] # None /\ binding'[x] = [binding[x] EXCEPT !.stale = TRUE])
      BY <2>2 DEF FlushFlag, Shape, Types, TypeOK, Matches
    <3>2. binding[x] # None => binding[x] \in Binding /\ binding[x].rev \in Nat
      BY SpaceTypes
    <3>3. binding[x] # None => StaleOf(binding[x])
      BY <3>2, StaleKept
    <3>4. CASE binding'[x] = binding[x]
      BY <3>2, <3>4 DEF Aged, SameBinding
    <3>5. CASE binding[x] # None /\ binding'[x] = [binding[x] EXCEPT !.stale = TRUE]
      BY <3>2, <3>3, <3>5 DEF Aged, SameBinding, StaleOf
    <3> QED BY <3>1, <3>4, <3>5
  <2> QED BY <2>1, <2>2
<1> QED BY <1>1, <1>2, <1>3, <1>4, <1>5, OneFlush DEF f

LEMMA FlushKnown == ASSUME SwitchesRespected, Shape, Shape', Known, NEW c \in Flushers, FlushStep(c) PROVE Known'
  BY SnapshotKnown, SaveKnown, RebindKnown, FlagKnown DEF FlushStep

-----------------------------------------------------------------------------
(* Steps of an operation, or of a switch that has no journal yet.           *)
LEMMA OneOp ==
    ASSUME Shape, Shape', Known, NEW o \in Ops, NEW n, op' = [op EXCEPT ![o] = n],
           op[o].pc \notin Late, n.pc \notin Late, journal # None => (op[o].pc \in SwitchPc <=> n.pc \in SwitchPc),
           UNCHANGED <<journal, live, loading, interrupted, mutated>>, Newer,
           UNCHANGED canon \/ \A d \in Flushers : flush[d].pc # "save",
           \A d \in Flushers : flush'[d] = flush[d] \/ flush'[d].pc \in {"idle", "ended"},
           \A k \in Windows : Aged(k) /\ SameBinding(k),
           SourceOf(o)', OpRev(o)', EditKnows(o)'
    PROVE  Known'
<1>1. op'[o] = n /\ \A p \in Ops \ {o} : op'[p] = op[p]
  BY DEF Shape, Types
<1>2. SwitchesStand
  BY <1>1 DEF SwitchesStand
<1>3. Calm
  BY <1>2, Unchanging DEF Calm
<1>4. ASSUME NEW d \in Flushers
      PROVE  \/ Steady(d) /\ (flush[d].pc = "save" => UNCHANGED canon)
             \/ FlushRev(d)' /\ FlushCarries(d)' /\ CutKnows(d)' /\ \A p \in Ops : SwitchMeets(p, d)'
  <2>1. CASE flush'[d] = flush[d]
    BY <2>1 DEF Steady
  <2>2. CASE flush'[d].pc \in {"idle", "ended"}
    BY <2>2, AtRest
  <2> QED BY <2>1, <2>2
<1> QED BY <1>1, <1>3, <1>4, CalmKnown

(* At the head of the queue no flush but one of o is being saved.           *)
LEMMA NoneSaves ==
    ASSUME Shape, NEW o \in Ops, First(wsLine, o), op[o].pc \notin {"flush", "flushSource"}
    PROVE  \A d \in Flushers : flush[d].pc # "save"
  BY IdleFlush DEF Shape, FlushShapes, First

LEMMA EditKept ==
    ASSUME Known, NEW o \in Ops, op[o].pc \in EditRunning, UNCHANGED canon,
           op'[o].kind = op[o].kind, op'[o].ws = op[o].ws, op'[o].rev = op[o].rev, op'[o].tabs = op[o].tabs,
           op'[o].change = op[o].change, op'[o].pc \notin {"prepared", "swapped"}
    PROVE  OpRev(o)' /\ EditKnows(o)'
<1>1. OpRev(o) /\ EditKnows(o)
  BY DEF Known, Revisions, Tabs
<1> QED BY <1>1 DEF OpRev, EditKnows

LEMMA OpBeginKnown == ASSUME SwitchesRespected, Shape, Shape', Known, NEW o \in Ops, NEW m \in Menu, OpBegin(o, m) PROVE Known'
<1>1. UNCHANGED <<canon, journal, binding, live, loading, interrupted>> /\ op[o].pc = "idle" /\ flush[o].pc = "idle"
  BY IdleFlush DEF OpBegin, store, browser, history
<1> DEFINE start == [NoOp EXCEPT !.kind = m.kind, !.window = m.window, !.ws = m.ws]
<1>2. Newer /\ \A k \in Windows : Aged(k) /\ SameBinding(k)
  BY <1>1, Unchanging
<1>3. CASE /\ m.kind = "switch"
           /\ op' = [op EXCEPT ![o] = [start EXCEPT !.pc = "queued"]]
           /\ UNCHANGED <<flush, wsLine, mutated>>
  <2> DEFINE n == [start EXCEPT !.pc = "queued"]
  <2>1. n.pc = "queued" /\ n.kind = "switch" /\ op'[o] = n /\ op' = [op EXCEPT ![o] = n]
    BY <1>3 DEF NoOp, Shape, Types
  <2>2. SourceOf(o)' /\ OpRev(o)' /\ EditKnows(o)'
    BY <2>1 DEF SourceOf, OpRev, EditKnows, Early
  <2> HIDE DEF n
  <2> QED BY <1>1, <1>2, <1>3, <2>1, <2>2, OneOp DEF Late, SwitchPc
<1>4. CASE /\ m.kind # "switch" /\ m.window # None
           /\ op' = [op EXCEPT ![o] = [start EXCEPT !.pc = "flush"]]
           /\ FlushBegin(o, m.window)
  <2> DEFINE n == [start EXCEPT !.pc = "flush"]
  <2>1. n.pc = "flush" /\ op'[o] = n /\ op' = [op EXCEPT ![o] = n] /\ \A p \in Ops \ {o} : op'[p] = op[p]
    BY <1>4 DEF NoOp, Shape, Types
  <2>2. SourceOf(o)' /\ OpRev(o)' /\ EditKnows(o)'
    BY <2>1, AtEase DEF EditRunning, EditPcs, SwitchPc
  <2>3. m.window \in Windows /\ o \in Flushers
    BY <1>4, AutosaveConstants, Members
  <2>4. \A p \in Ops : op[p].pc \in Late => op[p].window # m.window
    BY DEF OpBegin, SwitchesRespected, WindowsSwitching, Switching, Late, SwitchPc
  <2> HIDE DEF n
  <2>5. SwitchesStand
    BY <1>1, <2>1 DEF SwitchesStand, Late, SwitchPc
  <2>6. \A p \in Ops : op'[p] = op[p] \/ (SourceOf(p)' /\ OpRev(p)' /\ EditKnows(p)')
    BY <2>1, <2>2
  <2> QED BY <1>1, <1>4, <2>3, <2>4, <2>5, <2>6, BeginningKnown
<1>5. CASE /\ m.kind # "switch" /\ m.window = None
           /\ op' = [op EXCEPT ![o] = [start EXCEPT !.pc = "write"]]
           /\ UNCHANGED <<flush, mutated>>
  <2> DEFINE n == [start EXCEPT !.pc = "write"]
  <2>1. n.pc = "write" /\ op'[o] = n /\ op' = [op EXCEPT ![o] = n]
    BY <1>5 DEF NoOp, Shape, Types
  <2>2. SourceOf(o)' /\ OpRev(o)' /\ EditKnows(o)'
    BY <2>1, AtEase DEF EditRunning, EditPcs, SwitchPc
  <2> HIDE DEF n
  <2> QED BY <1>1, <1>2, <1>5, <2>1, <2>2, OneOp DEF Late, SwitchPc
<1> QED BY <1>3, <1>4, <1>5 DEF OpBegin

LEMMA DoneKnows ==
    ASSUME Shape, NEW o \in Ops, OpDone(o)
    PROVE  \E n : /\ op' = [op EXCEPT ![o] = n] /\ n.pc = "done" /\ op'[o] = n
                  /\ SourceOf(o)' /\ OpRev(o)' /\ EditKnows(o)'
<1>1. PICK n : OpFits(n) /\ op' = [op EXCEPT ![o] = n] /\ n.pc = "done" /\ n.source = None
  BY Finishing
<1>2. op'[o] = n
  BY <1>1 DEF Shape, Types
<1>3. SourceOf(o)' /\ OpRev(o)' /\ EditKnows(o)'
  BY <1>1, <1>2, AtEase DEF EditRunning, EditPcs, SwitchPc
<1> QED BY <1>1, <1>2, <1>3

LEMMA OpFlushedKnown == ASSUME Shape, Shape', Known, NEW o \in Ops, OpFlushed(o) PROVE Known'
<1>1. UNCHANGED <<canon, journal, binding, live, loading, interrupted, mutated>> /\ op[o].pc = "flush"
  BY DEF OpFlushed, store, browser, history, schedule
<1>2. Newer /\ \A k \in Windows : Aged(k) /\ SameBinding(k)
  BY <1>1, Unchanging
<1>3. \A d \in Flushers : flush'[d] = flush[d] \/ flush'[d].pc \in {"idle", "ended"}
  BY DEF OpFlushed, NoFlush, Shape, Types
<1>4. CASE OpDone(o)
  BY <1>1, <1>2, <1>3, <1>4, DoneKnows, OneOp DEF Late, SwitchPc
<1>5. CASE op' = [op EXCEPT ![o].pc = "write"]
  <2> DEFINE n == [op[o] EXCEPT !.pc = "write"]
  <2>1. n.pc = "write" /\ op'[o] = n /\ op' = [op EXCEPT ![o] = n]
    BY <1>5 DEF Shape, Types, Operations
  <2>2. SourceOf(o)' /\ OpRev(o)' /\ EditKnows(o)'
    BY <2>1, AtEase DEF EditRunning, EditPcs, SwitchPc
  <2> HIDE DEF n
  <2> QED BY <1>1, <1>2, <1>3, <2>1, <2>2, OneOp DEF Late, SwitchPc
<1> QED BY <1>4, <1>5 DEF OpFlushed

LEMMA OpWriteKnown == ASSUME Shape, Shape', Known, NEW o \in Ops, OpWrite(o) PROVE Known'
<1> DEFINE w == op[o].ws
<1>1. UNCHANGED <<journal, binding, live, loading, interrupted, mutated, flush>> /\ op[o].pc = "write" /\ w \in Workspaces
  BY SpaceTypes DEF OpWrite, browser, schedule
<1>2. \A k \in Windows : Aged(k) /\ SameBinding(k)
  BY <1>1, Unchanging
<1>3. \A d \in Flushers : flush[d].pc # "save"
  BY NoneSaves DEF OpWrite
<1>4. canon[w].rev \in Nat /\ canon[w] \in [tabs : SUBSET Change, rev : Nat, alive : BOOLEAN]
  BY <1>1 DEF Shape, Types, TypeOK
<1>5. CASE OpChange(o)
  <2>1. /\ canon'[w].tabs = canon[w].tabs \cup {edits + 1} /\ canon'[w].rev = canon[w].rev + 1
        /\ \A x \in Workspaces \ {w} : canon'[x] = canon[x]
    BY <1>1, <1>4, <1>5 DEF OpChange, Shape, Types, TypeOK
  <2>2. Newer
    BY <1>1, <1>4, <2>1 DEF Newer
  <2>3. CASE op[o].kind = "exclude"
    <3>1. OpDone(o)
      BY <1>5, <2>3 DEF OpChange, OpDone, Shape, Types
    <3> QED BY <1>1, <1>2, <1>3, <2>2, <3>1, DoneKnows, OneOp DEF Late, SwitchPc
  <2>4. CASE op[o].kind # "exclude"
    <3> DEFINE n == [op[o] EXCEPT !.pc = "look", !.tabs = canon[w].tabs, !.rev = canon[w].rev + 1, !.change = edits + 1]
    <3>1. op' = [op EXCEPT ![o] = n] /\ op'[o] = n
      BY <1>5, <2>4 DEF OpChange, Shape, Types
    <3>2. n.pc = "look" /\ n.ws = w /\ n.tabs = canon[w].tabs /\ n.rev = canon[w].rev + 1 /\ n.change = edits + 1
      BY DEF Shape, Types, Operations
    <3> HIDE DEF n
    <3>3. SourceOf(o)' /\ OpRev(o)' /\ EditKnows(o)'
      BY <1>1, <1>4, <2>1, <3>1, <3>2 DEF SourceOf, Early, OpRev, EditKnows
    <3> QED BY <1>1, <1>2, <1>3, <2>2, <3>1, <3>2, <3>3, OneOp DEF Late, SwitchPc
  <2> QED BY <2>3, <2>4
<1>6. CASE OpDone(o) /\ \A x \in Workspaces : canon'[x].rev = canon[x].rev /\ canon'[x].tabs = canon[x].tabs
  <2>1. Newer
    BY <1>1, <1>6 DEF Newer
  <2> QED BY <1>1, <1>2, <1>3, <1>6, <2>1, DoneKnows, OneOp DEF Late, SwitchPc
<1>7. ASSUME NEW b \in BOOLEAN, canon' = [canon EXCEPT ![w].alive = b]
      PROVE  \A x \in Workspaces : canon'[x].rev = canon[x].rev /\ canon'[x].tabs = canon[x].tabs
  BY <1>1, <1>4, <1>7 DEF Shape, Types, TypeOK
<1> QED BY <1>5, <1>6, <1>7 DEF OpWrite

LEMMA OpLookMarkKnown == ASSUME SwitchesRespected, Shape, Shape', Known, NEW o \in Ops, OpLook(o) \/ OpMark(o) PROVE Known'
<1>1. UNCHANGED <<canon, journal, live, loading, interrupted, mutated, flush>> /\ op[o].pc \in {"look", "mark"}
  BY DEF OpLook, OpMark, store, browser, history, schedule
<1>2. Newer /\ op[o] \in Operations
  BY <1>1, Unchanging DEF Shape, Types
<1>3. \A k \in Windows : Aged(k) /\ SameBinding(k)
  BY Unchanging, MarkedStays DEF OpLook, OpMark, store
<1>4. CASE OpDone(o)
  BY <1>1, <1>2, <1>3, <1>4, DoneKnows, OneOp DEF Late, SwitchPc
<1>5. ASSUME NEW s, NEW p \in {"mark", "queued"}, op' = [op EXCEPT ![o].pc = p, ![o].source = s]
             \/ op' = [op EXCEPT ![o].pc = p] PROVE Known'
  <2>1. PICK n : /\ op' = [op EXCEPT ![o] = n] /\ n.pc = p /\ n.kind = op[o].kind /\ n.ws = op[o].ws /\ n.rev = op[o].rev
                 /\ n.tabs = op[o].tabs /\ n.change = op[o].change
    <3>1. CASE op' = [op EXCEPT ![o].pc = p, ![o].source = s]
      <4> DEFINE n == [op[o] EXCEPT !.pc = p, !.source = s]
      <4>1. op' = [op EXCEPT ![o] = n]
        BY <3>1 DEF Shape, Types
      <4>2. n.pc = p /\ n.kind = op[o].kind /\ n.ws = op[o].ws /\ n.rev = op[o].rev
            /\ n.tabs = op[o].tabs /\ n.change = op[o].change
        BY <1>2 DEF Operations
      <4> QED BY <4>1, <4>2
    <3>2. CASE op' = [op EXCEPT ![o].pc = p]
      <4> DEFINE n == [op[o] EXCEPT !.pc = p]
      <4>1. op' = [op EXCEPT ![o] = n]
        BY <3>2 DEF Shape, Types
      <4>2. n.pc = p /\ n.kind = op[o].kind /\ n.ws = op[o].ws /\ n.rev = op[o].rev
            /\ n.tabs = op[o].tabs /\ n.change = op[o].change
        BY <1>2 DEF Operations
      <4> QED BY <4>1, <4>2
    <3> QED BY <1>5, <3>1, <3>2
  <2>2. op'[o] = n
    BY <2>1 DEF Shape, Types
  <2>3. OpRev(o)' /\ EditKnows(o)'
    BY <1>1, <2>1, <2>2, EditKept DEF EditRunning, EditPcs
  <2>4. SourceOf(o)'
    BY <2>1, <2>2 DEF SourceOf, Early
  <2> QED BY <1>1, <1>2, <1>3, <2>1, <2>2, <2>3, <2>4, OneOp DEF Late, SwitchPc
<1> QED BY <1>4, <1>5 DEF OpLook, OpMark

LEMMA OpUndoKnown == ASSUME SwitchesRespected, Shape, Shape', Known, NEW o \in Ops, OpRollback(o) \/ OpInvalidate(o) PROVE Known'
<1>1. UNCHANGED <<journal, live, loading, interrupted, mutated, flush>> /\ op[o].pc \in {"rollback", "invalidate"}
      /\ op[o] \in Operations /\ op[o].ws \in Workspaces
  BY SpaceTypes DEF OpRollback, OpInvalidate, browser, history, schedule, Shape, Types
<1>2. \A k \in Windows : Aged(k) /\ SameBinding(k)
  <2>1. CASE OpRollback(o)
    BY <2>1, Unchanging DEF OpRollback
  <2>2. CASE OpInvalidate(o)
    <3> TAKE k \in Windows
    <3>1. binding'[k] = binding[k] \/ (binding[k] # None /\ binding'[k] = [binding[k] EXCEPT !.stale = TRUE])
      BY <2>2 DEF OpInvalidate
    <3>2. binding[k] # None => binding[k] \in Binding /\ binding[k].rev \in Nat
      BY SpaceTypes
    <3>3. binding[k] # None => StaleOf(binding[k])
      BY <3>2, StaleKept
    <3>4. CASE binding'[k] = binding[k]
      BY <3>2, <3>4 DEF Aged, SameBinding
    <3>5. CASE binding[k] # None /\ binding'[k] = [binding[k] EXCEPT !.stale = TRUE]
      BY <3>2, <3>3, <3>5 DEF Aged, SameBinding, StaleOf
    <3> QED BY <3>1, <3>4, <3>5
  <2> QED BY <2>1, <2>2
<1>3. CASE OpDone(o) /\ UNCHANGED canon
  BY <1>1, <1>2, <1>3, Unchanging, DoneKnows, OneOp DEF Late, SwitchPc
<1>4. CASE OpRollback(o) /\ canon[op[o].ws].rev = op[o].rev
  <2> DEFINE n == [op[o] EXCEPT !.pc = "invalidate", !.rev = @ + 1]
  <2>1. op' = [op EXCEPT ![o] = n] /\ op'[o] = n /\ n.pc = "invalidate"
    BY <1>1, <1>4 DEF OpRollback, Shape, Types, Operations
  <2> HIDE DEF n
  <2>2. SourceOf(o)' /\ OpRev(o)' /\ EditKnows(o)'
    BY <2>1, AtEase DEF EditRunning, EditPcs, SwitchPc
  <2>3. Newer
    <3>1. canon' = [canon EXCEPT ![op[o].ws].tabs = op[o].tabs, ![op[o].ws].rev = @ + 1]
      BY <1>4 DEF OpRollback
    <3>2. canon'[op[o].ws].rev = canon[op[o].ws].rev + 1 /\ \A x \in Workspaces \ {op[o].ws} : canon'[x] = canon[x]
      BY <1>1, <3>1 DEF Shape, Types, TypeOK
    <3>3. canon[op[o].ws].rev \in Nat
      BY <1>1, SpaceTypes
    <3> QED BY <1>1, <3>2, <3>3 DEF Newer
  <2>4. \A d \in Flushers : flush[d].pc # "save"
    BY <1>1, <1>4, NoneSaves DEF OpRollback
  <2> QED BY <1>1, <1>2, <2>1, <2>2, <2>3, <2>4, OneOp DEF Late, SwitchPc
<1> QED BY <1>3, <1>4 DEF OpRollback, OpInvalidate

LEMMA OpKnown == ASSUME SwitchesRespected, Shape, Shape', Known, NEW o \in Ops, OpStep(o) PROVE Known'
  BY OpFlushedKnown, OpWriteKnown, OpLookMarkKnown, OpUndoKnown DEF OpStep

-----------------------------------------------------------------------------
(* A switch until its journal is written.                                   *)
LEMMA SwitchBeginKnown == ASSUME Shape, Shape', Known, NEW o \in Ops, SwitchBegin(o) PROVE Known'
<1>1. UNCHANGED <<canon, journal, binding, live, loading, interrupted, mutated, flush>> /\ op[o].pc = "queued" /\ journal = None
  BY DEF SwitchBegin, store, browser, history
<1>2. Newer /\ \A k \in Windows : Aged(k) /\ SameBinding(k)
  BY <1>1, Unchanging
<1> DEFINE n == [op[o] EXCEPT !.pc = "reserve", !.source = binding[op[o].window]]
<1>3. op' = [op EXCEPT ![o] = n] /\ op'[o] = n
  BY DEF SwitchBegin, Shape, Types
<1>4. n.pc = "reserve" /\ n.kind = op[o].kind /\ n.ws = op[o].ws /\ n.rev = op[o].rev /\ n.tabs = op[o].tabs
      /\ n.change = op[o].change /\ n.window = op[o].window /\ n.source = binding[op[o].window]
  BY DEF Shape, Types, Operations
<1> HIDE DEF n
<1>5. OpRev(o)' /\ EditKnows(o)'
  BY <1>1, <1>3, <1>4, EditKept DEF EditRunning
<1>6. SourceOf(o)'
  <2>1. op[o].window \in Windows
    BY <1>1 DEF Shape, OpShapes
  <2>2. binding[op[o].window] # None => binding[op[o].window].rev \in Nat
    BY <2>1, SpaceTypes
  <2> QED BY <1>1, <1>3, <1>4, <2>2 DEF SourceOf
<1> QED BY <1>1, <1>2, <1>3, <1>4, <1>5, <1>6, OneOp DEF Late, SwitchPc

(* The end of a switch: nothing is known of the operation but its edit.     *)
LEMMA EndKnows ==
    ASSUME Shape, Known, NEW o \in Ops, Switching(o), NEW success, NEW discard, SwitchEnd(o, success, discard), UNCHANGED canon
    PROVE  \E n : /\ op' = [op EXCEPT ![o] = n] /\ op'[o] = n /\ n.pc \in {"done", "rollback"}
                  /\ SourceOf(o)' /\ OpRev(o)' /\ EditKnows(o)'
<1>1. PICK n \in Operations :
             /\ op' = [op EXCEPT ![o] = n] /\ n.pc \in {"done", "rollback"}
             /\ n.pc = "rollback" => /\ op[o].kind = "edit" /\ n.kind = "edit" /\ n.ws = op[o].ws
                                     /\ n.rev = op[o].rev /\ n.tabs = op[o].tabs /\ n.change = op[o].change
  BY Ending
<1>2. op'[o] = n
  BY <1>1 DEF Shape, Types
<1>3. CASE n.pc = "done"
  BY <1>1, <1>2, <1>3, AtEase DEF EditRunning, EditPcs, SwitchPc
<1>4. CASE n.pc = "rollback"
  <2>1. SourceOf(o)'
    BY <1>2, <1>4 DEF SourceOf, Early
  <2>2. op[o].pc \in EditRunning
    BY DEF Switching, EditRunning
  <2>3. OpRev(o)' /\ EditKnows(o)'
    BY <1>1, <1>2, <1>4, <2>2, EditKept
  <2> QED BY <1>1, <1>2, <1>4, <2>1, <2>3
<1> QED BY <1>1, <1>3, <1>4

LEMMA EarlyEndKnown ==
    ASSUME Shape, Shape', Known, NEW o \in Ops, op[o].pc \in Early, NEW success, NEW discard, SwitchEnd(o, success, discard),
           UNCHANGED <<canon, journal, binding, live, loading, interrupted, mutated, flush>>
    PROVE  Known'
<1>1. Switching(o) /\ journal = None
  BY DEF Switching, SwitchPc, Early, Shape, OneSwitch
<1>2. Newer /\ \A k \in Windows : Aged(k) /\ SameBinding(k)
  BY Unchanging
<1>3. PICK n : /\ op' = [op EXCEPT ![o] = n] /\ op'[o] = n /\ n.pc \in {"done", "rollback"}
               /\ SourceOf(o)' /\ OpRev(o)' /\ EditKnows(o)'
  BY <1>1, EndKnows
<1> QED BY <1>1, <1>2, <1>3, OneOp DEF Late, Early

LEMMA SwitchReserveKnown == ASSUME Shape, Shape', Known, NEW o \in Ops, SwitchReserve(o) PROVE Known'
<1>1. UNCHANGED <<canon, journal, binding, live, loading, interrupted, mutated, flush>> /\ op[o].pc = "reserve" /\ Switching(o)
      /\ journal = None
  BY DEF SwitchReserve, store, browser, history, Switching, SwitchPc, Early, Shape, OneSwitch
<1>2. Newer /\ \A k \in Windows : Aged(k) /\ SameBinding(k)
  BY <1>1, Unchanging
<1>3. CASE op' = [op EXCEPT ![o].pc = "flushSource"]
  <2> DEFINE n == [op[o] EXCEPT !.pc = "flushSource"]
  <2>1. op' = [op EXCEPT ![o] = n] /\ op'[o] = n
    BY <1>3 DEF Shape, Types
  <2>2. n.pc = "flushSource" /\ n.kind = op[o].kind /\ n.ws = op[o].ws /\ n.rev = op[o].rev /\ n.tabs = op[o].tabs
        /\ n.change = op[o].change /\ n.window = op[o].window /\ n.source = op[o].source
    BY DEF Shape, Types, Operations
  <2> HIDE DEF n
  <2>3. OpRev(o)' /\ EditKnows(o)'
    BY <1>1, <2>1, <2>2, EditKept DEF EditRunning, Switching
  <2>4. SourceOf(o)'
    BY <1>1, <2>1, <2>2 DEF SourceOf, Early, Known, SourceIsBound
  <2> QED BY <1>1, <1>2, <2>1, <2>2, <2>3, <2>4, OneOp DEF Late, SwitchPc
<1>4. CASE SwitchEnd(o, FALSE, FALSE)
  BY <1>1, <1>4, EarlyEndKnown DEF Early
<1> QED BY <1>3, <1>4 DEF SwitchReserve

LEMMA SwitchFlushKnown == ASSUME SwitchesRespected, Shape, Shape', Known, NEW o \in Ops, SwitchFlush(o) PROVE Known'
<1>1. UNCHANGED <<canon, journal, binding, live, loading, interrupted, op>> /\ op[o].pc = "flushSource" /\ Switching(o)
      /\ flush[o].pc = "idle" /\ FlushBegin(o, op[o].window)
  BY DEF SwitchFlush, store, browser, history, Switching, SwitchPc
<1>2. op[o].window \in Windows /\ o \in Flushers
  BY <1>1, SwitchStands
<1>3. \A p \in Ops : op[p].pc \notin Late
  <2>1. \A p \in Ops : op[p].pc \in Late => Switching(p)
    BY DEF Late, Switching, SwitchPc
  <2> QED BY <1>1, <2>1, OnlyOne DEF Late
<1>4. SwitchesStand
  BY <1>1, Unchanging
<1> QED BY <1>1, <1>2, <1>3, <1>4, BeginningKnown

LEMMA SwitchFlushedKnown == ASSUME Shape, Shape', Known, NEW o \in Ops, SwitchFlushed(o) PROVE Known'
<1>1. UNCHANGED <<canon, journal, binding, live, loading, interrupted, mutated>> /\ op[o].pc = "flushSource" /\ Switching(o)
      /\ journal = None
  BY DEF SwitchFlushed, store, browser, history, schedule, Switching, SwitchPc, Early, Shape, OneSwitch
<1>2. Newer /\ \A k \in Windows : Aged(k) /\ SameBinding(k)
  BY <1>1, Unchanging
<1>3. \A d \in Flushers : flush'[d] = flush[d] \/ flush'[d].pc \in {"idle", "ended"}
  BY DEF SwitchFlushed, NoFlush, Shape, Types
<1> DEFINE s == IF flush[o].pc = "ended" THEN binding[op[o].window] ELSE op[o].source
<1> DEFINE n == [op[o] EXCEPT !.pc = "own", !.source = s]
<1>4. op' = [op EXCEPT ![o] = n] /\ op'[o] = n
  BY DEF SwitchFlushed, Shape, Types
<1>5. n.pc = "own" /\ n.kind = op[o].kind /\ n.ws = op[o].ws /\ n.rev = op[o].rev /\ n.tabs = op[o].tabs
      /\ n.change = op[o].change /\ n.window = op[o].window /\ n.source = s
  BY DEF Shape, Types, Operations
<1> HIDE DEF n
<1>6. OpRev(o)' /\ EditKnows(o)'
  BY <1>1, <1>4, <1>5, EditKept DEF EditRunning, Switching
<1>7. SourceOf(o)'
  <2>1. op[o].window \in Windows
    BY <1>1, SwitchStands
  <2>2. binding[op[o].window] # None => binding[op[o].window].rev \in Nat
    BY <2>1, SpaceTypes
  <2>3. SourceOf(o)
    BY DEF Known, SourceIsBound
  <2> QED BY <1>1, <1>4, <1>5, <2>2, <2>3 DEF SourceOf, Early
<1> QED BY <1>1, <1>2, <1>3, <1>4, <1>5, <1>6, <1>7, OneOp DEF Late, SwitchPc

-----------------------------------------------------------------------------
(* A step of the only switch that moves tabs, its journal or its binding.   *)
LEMMA OneSwitchMoves ==
    ASSUME Shape, Shape', Known, NEW o \in Ops, Switching(o), NEW k \in Windows, op[o].window = k,
           NEW n, op' = [op EXCEPT ![o] = n], n.pc \notin Early, n.pc \in SwitchPc => n.window = k,
           UNCHANGED <<canon, flush, interrupted>>, mutated \subseteq mutated',
           \A x \in Windows \ {k} : binding'[x] = binding[x] /\ live'[x] = live[x] /\ (x \in loading' => x \in loading),
           n.pc \in SwitchPc \/ journal' = None,
           journal' # None => binding'[journal'.window] = None \/ binding'[journal'.window].ws \in {journal'.source, journal'.target},
           BindingRev(k)', JournalRev', OpRev(o)', WindowShows(k)',
           \A d \in Flushers : Active(d) /\ flush[d].window = k => FlushCarries(d)',
           \A d \in Flushers : SwitchMeets(o, d)',
           SwitchCarries(o)', EditKnows(o)', JournalCarries'
    PROVE  Known'
<1>1. op'[o] = n /\ \A p \in Ops \ {o} : op'[p] = op[p]
  BY DEF Shape, Types
<1>2. \A p \in Ops \ {o} : op[p].pc \notin SwitchPc /\ op'[p].pc \notin SwitchPc
  BY <1>1, OnlyOne DEF Switching
<1>3. ~RecoveryPending /\ ~RecoveryPending'
  <2>1. WindowsSwitching # {}
    BY DEF WindowsSwitching
  <2>2. n.pc \in SwitchPc => WindowsSwitching' # {}
    BY <1>1 DEF WindowsSwitching, Switching
  <2> QED BY <2>1, <2>2 DEF RecoveryPending
<1>4. \A x \in Windows \ {k} : ~Displaced(x) /\ ~Undoing(x) /\ ~Displaced(x)' /\ ~Undoing(x)'
  BY <1>1, <1>2, <1>3 DEF Displaced, Undoing, SwitchPc
<1>5. SourceIsBound'
  <2>1. \A p \in Ops : op'[p].pc \notin Early
    BY <1>1, <1>2 DEF Early, SwitchPc
  <2> QED BY <2>1 DEF SourceIsBound, SourceOf
<1>6. Revisions'
  <2>1. ASSUME NEW x \in Windows PROVE BindingRev(x)'
    BY DEF Known, Revisions, BindingRev
  <2>2. ASSUME NEW d \in Flushers PROVE FlushRev(d)'
    BY DEF Known, Revisions, FlushRev, Active
  <2>3. ASSUME NEW p \in Ops PROVE OpRev(p)'
    BY <1>1 DEF Known, Revisions, OpRev
  <2> QED BY <2>1, <2>2, <2>3 DEF Revisions
<1>7. Tabs'
  <2>1. ASSUME NEW x \in Windows PROVE WindowShows(x)'
    BY <1>4 DEF Known, Tabs, WindowShows, Current
  <2>2. ASSUME NEW d \in Flushers PROVE FlushCarries(d)' /\ CutKnows(d)'
    <3>1. CASE ~Active(d)
      BY <3>1 DEF FlushCarries, CutKnows, Active
    <3>2. CASE Active(d) /\ flush[d].window # k
      <4> PICK x \in Windows \ {k}, e \in Binding : flush[d].window = x /\ flush[d].expected = e
        BY <3>2, SpaceTypes DEF Active
      <4>1. FlushCarries(d) /\ ~Displaced(x) /\ ~Undoing(x)
        BY <1>4 DEF Known, Tabs
      <4>2. Passed(x, e) <=> Passed(x, e)'
        BY DEF Passed
      <4> QED BY <1>3, <4>1, <4>2 DEF FlushCarries, CutKnows, Current
    <3> QED BY <1>3, <3>1, <3>2 DEF CutKnows
  <2>3. ASSUME NEW p \in Ops PROVE SwitchCarries(p)' /\ EditKnows(p)' /\ \A d \in Flushers : SwitchMeets(p, d)'
    <3>1. CASE p # o
      <4>1. op'[p] = op[p] /\ op[p].pc \notin SwitchPc
        BY <1>1, <1>2, <3>1
      <4> QED BY <4>1 DEF SwitchCarries, SwitchMeets, EditKnows, SwitchPc, Known, Tabs
    <3> QED BY <3>1
  <2> QED BY <1>3, <2>1, <2>2, <2>3 DEF Tabs, CutIsKnown
<1> QED BY <1>5, <1>6, <1>7 DEF Known

LEMMA SwitchOwnKnown == ASSUME SwitchesRespected, Shape, Shape', Known, NEW o \in Ops, SwitchOwn(o) PROVE Known'
<1>1. UNCHANGED <<canon, binding, live, flush, interrupted>> /\ op[o].pc = "own" /\ Switching(o) /\ journal = None
  BY DEF SwitchOwn, history, Switching, SwitchPc, Early, Shape, OneSwitch
<1> DEFINE src == op[o].source
           w == op[o].ws
           snapshot(k) == IF k \notin loading THEN live[k] ELSE IF src # None THEN canon[src.ws].tabs ELSE {}
<1>2. CASE \E success, discard : SwitchEnd(o, success, discard) /\ UNCHANGED <<journal, loading, mutated>>
  BY <1>1, <1>2, EarlyEndKnown DEF Early
<1>3. CASE /\ op' = [op EXCEPT ![o].pc = "prepared", ![o].plan = [tabs |-> canon[w].tabs, rev |-> canon[w].rev]]
           /\ journal' = [window |-> op[o].window, target |-> w, source |-> IF src = None THEN None ELSE src.ws,
                          rev |-> IF src = None THEN 0 ELSE src.rev, tabs |-> snapshot(op[o].window)]
           /\ \/ UNCHANGED <<loading, mutated>>
              \/ loading' = loading \cup {op[o].window} /\ NoteMutation(op[o].window)
  <2> PICK k \in Windows : op[o].window = k
    BY <1>1, SwitchStands
  <2> DEFINE n == [op[o] EXCEPT !.pc = "prepared", !.plan = [tabs |-> canon[w].tabs, rev |-> canon[w].rev]]
  <2>1. op' = [op EXCEPT ![o] = n] /\ op'[o] = n
    BY <1>3 DEF Shape, Types
  <2>2. n.pc = "prepared" /\ n.kind = op[o].kind /\ n.ws = w /\ n.rev = op[o].rev /\ n.tabs = op[o].tabs
        /\ n.change = op[o].change /\ n.window = k /\ n.plan = [tabs |-> canon[w].tabs, rev |-> canon[w].rev]
    BY DEF Shape, Types, Operations
  <2> HIDE DEF n
  <2>3. mutated \subseteq mutated' /\ loading \subseteq loading' /\ loading' \subseteq loading \cup {k}
    BY <1>3, Noting
  <2>4. /\ journal' # None /\ journal'.window = k /\ journal'.target = w /\ journal'.tabs = snapshot(k)
        /\ src = None => journal'.source = None
        /\ src # None => journal'.source = src.ws /\ journal'.rev = src.rev
    BY <1>3, <2>1, <2>2 DEF Shape, OneSwitch, Late
  <2>5. w \in Workspaces /\ canon[w].rev \in Nat
    BY <1>1, SwitchStands, SpaceTypes
  <2>6. /\ src = None /\ binding[k] = None
        \/ (src # None /\ binding[k] # None /\ binding[k].ws = src.ws /\ binding[k].rev >= src.rev)
    BY <1>1 DEF Known, SourceIsBound, SourceOf, Early
  <2>7. src # None => /\ src.ws \in Workspaces /\ src.rev \in Nat /\ canon[src.ws].rev \in Nat
                      /\ binding[k].rev \in Nat /\ binding[k].rev <= canon[src.ws].rev
    <3>1. op[o].source \in OrNone(Binding)
      BY DEF Shape, Types, Operations
    <3>2. src # None => src.ws \in Workspaces /\ src.rev \in Nat
      BY <3>1 DEF OrNone, Binding
    <3>3. binding[k] # None => binding[k].rev \in Nat /\ binding[k].rev <= canon[binding[k].ws].rev
      BY SpaceTypes DEF Known, Revisions, BindingRev
    <3> QED BY <2>6, <3>2, <3>3, SpaceTypes
  <2>8. ~Displaced(k) /\ ~Undoing(k)
    <3>1. \A p \in Ops \ {o} : op[p].pc \notin SwitchPc
      BY <1>1, OnlyOne DEF Switching
    <3> QED BY <1>1, <3>1 DEF Displaced, Undoing, RecoveryPending, SwitchPc
  <2>9. Undoing(k)'
    BY <2>1, <2>2 DEF Undoing
  <2>10. BindingRev(k)' /\ JournalRev' /\ OpRev(o)' /\ EditKnows(o)' /\ SwitchCarries(o)'
    <3>1. BindingRev(k)'
      BY <1>1 DEF Known, Revisions, BindingRev
    <3>2. JournalRev'
      BY <1>1, <2>4, <2>6, <2>7 DEF JournalRev
    <3>3. OpRev(o) /\ EditKnows(o)
      BY DEF Known, Revisions, Tabs
    <3>4. OpRev(o)' /\ EditKnows(o)'
      BY <1>1, <2>1, <2>2, <2>5, <3>3 DEF OpRev, EditKnows, EditRunning, SwitchPc
    <3>5. SwitchCarries(o)'
      BY <1>1, <2>1, <2>2 DEF SwitchCarries, Current
    <3> QED BY <3>1, <3>2, <3>4, <3>5
  <2>11. WindowShows(k) /\ WindowShows(k)'
    BY <1>1, <2>8 DEF Known, Tabs, WindowShows, Current
  <2>12. ASSUME NEW d \in Flushers, Active(d), flush[d].window = k PROVE FlushCarries(d)'
    <3> PICK e \in Binding : flush[d].expected = e
      BY <2>12, SpaceTypes
    <3>1. FlushCarries(d)
      BY DEF Known, Tabs
    <3>2. Passed(k, e) <=> Passed(k, e)'
      BY <1>1 DEF Passed
    <3> QED BY <1>1, <2>3, <2>8, <2>9, <2>12, <3>1, <3>2 DEF FlushCarries, Current
  <2>13. ASSUME NEW d \in Flushers PROVE SwitchMeets(o, d)'
    <3>1. FlushCarries(d)
      BY DEF Known, Tabs
    <3>2. k \notin loading => journal'.tabs = live[k]
      BY <2>4
    <3> QED BY <1>1, <2>1, <2>2, <2>3, <2>8, <3>1, <3>2 DEF SwitchMeets, FlushCarries
  <2>14. JournalCarries'
    <3> SUFFICES ASSUME src # None, src.ws \notin interrupted, canon[src.ws].rev = src.rev
                 PROVE  canon[src.ws].tabs \subseteq snapshot(k)
      BY <1>1, <2>4 DEF JournalCarries, Current
    <3>1. binding[k] # None /\ binding[k].ws = src.ws /\ binding[k].rev = canon[src.ws].rev
      BY <2>6, <2>7
    <3>2. canon[src.ws].tabs \subseteq live[k]
      BY <2>8, <2>11, <3>1 DEF WindowShows, Current
    <3> QED BY <3>2
  <2> QED BY <1>1, <2>1, <2>2, <2>3, <2>4, <2>6, <2>10, <2>11, <2>12, <2>13, <2>14, OneSwitchMoves DEF Early, SwitchPc
<1> QED BY <1>1, <1>2, <1>3 DEF SwitchOwn

(* A late switch: what it and its window start from.                        *)
LEMMA LateKnows ==
    ASSUME Shape, Known, NEW o \in Ops, op[o].pc \in Late
    PROVE  /\ Switching(o) /\ op[o].window \in Windows /\ op[o].ws \in Workspaces
           /\ journal \in Journals /\ journal # None /\ journal.window = op[o].window /\ journal.target = op[o].ws
           /\ OpRev(o) /\ EditKnows(o) /\ SwitchCarries(o) /\ JournalRev /\ JournalCarries
           /\ \A d \in Flushers : SwitchMeets(o, d) /\ FlushCarries(d) /\ FlushRev(d)
           /\ \A p \in Ops \ {o} : op[p].pc \notin SwitchPc
           /\ ~RecoveryPending
           /\ op[o].pc \in EditRunning
<1>1. Switching(o)
  BY DEF Switching, SwitchPc, Late
<1>2. op[o].window \in Windows /\ op[o].ws \in Workspaces /\ journal \in Journals /\ journal.window = op[o].window
      /\ journal.target = op[o].ws
  BY <1>1, SwitchStands
<1>3. journal # None
  BY DEF Shape, OneSwitch
<1>4. ~RecoveryPending
  BY <1>1 DEF RecoveryPending, WindowsSwitching
<1>5. \A p \in Ops \ {o} : op[p].pc \notin SwitchPc
  BY <1>1, OnlyOne DEF Switching
<1>6. OpRev(o) /\ EditKnows(o) /\ SwitchCarries(o) /\ JournalRev /\ JournalCarries
      /\ \A d \in Flushers : SwitchMeets(o, d) /\ FlushCarries(d) /\ FlushRev(d)
  BY DEF Known, Revisions, Tabs
<1>7. op[o].pc \in EditRunning
  BY <1>1 DEF Switching, EditRunning
<1> QED BY <1>1, <1>2, <1>3, <1>4, <1>5, <1>6, <1>7

(* The operation moves to pc p.                                             *)
LEMMA GoesTo ==
    ASSUME Shape, Shape', Known, NEW o \in Ops, op[o].pc \in Late, NEW p \in Late \ {"prepared"}, op' = [op EXCEPT ![o].pc = p], UNCHANGED canon
    PROVE  /\ op' = [op EXCEPT ![o] = op'[o]] /\ op'[o].pc = p /\ op'[o].window = op[o].window /\ op'[o].ws = op[o].ws
           /\ op'[o].plan = op[o].plan
           /\ p = "swapped" \/ (OpRev(o)' /\ EditKnows(o)')
           /\ op[o].pc = "prepared" => OpRev(o)' /\ EditKnows(o)'
<1> DEFINE n == [op[o] EXCEPT !.pc = p]
<1>1. op' = [op EXCEPT ![o] = n] /\ op'[o] = n
  BY DEF Shape, Types
<1>2. n.pc = p /\ n.kind = op[o].kind /\ n.ws = op[o].ws /\ n.rev = op[o].rev /\ n.tabs = op[o].tabs
      /\ n.change = op[o].change /\ n.window = op[o].window /\ n.plan = op[o].plan
  BY DEF Shape, Types, Operations
<1> HIDE DEF n
<1>3. OpRev(o) /\ EditKnows(o) /\ op[o].pc \in EditRunning
  BY LateKnows
<1>4. EditKnows(o)'
  BY <1>1, <1>2, <1>3 DEF EditKnows
<1>5. p # "swapped" \/ op[o].pc = "prepared" => OpRev(o)'
  BY <1>1, <1>2, <1>3 DEF OpRev, Late
<1> QED BY <1>1, <1>2, <1>4, <1>5

LEMMA SwitchSwapKnown == ASSUME FlushesServed, Shape, Shape', Known, NEW o \in Ops, SwitchSwap(o) PROVE Known'
<1>1. UNCHANGED <<canon, journal, binding, loading, flush, interrupted>> /\ op[o].pc = "prepared" /\ op[o].pc \in Late
      /\ op' = [op EXCEPT ![o].pc = "swapped"] /\ canon[op[o].ws].rev = op[o].plan.rev
  BY DEF SwitchSwap, store, lines, history, Late
<1> PICK k \in Windows : op[o].window = k
  BY <1>1, LateKnows
<1>2. /\ op' = [op EXCEPT ![o] = op'[o]] /\ op'[o].pc = "swapped" /\ op'[o].window = k /\ op'[o].ws = op[o].ws
      /\ op'[o].plan = op[o].plan /\ OpRev(o)' /\ EditKnows(o)'
  BY <1>1, GoesTo DEF Late
<1>3. mutated' = mutated \cup {c \in Flushers : flush[c].window = k}
  BY Noting DEF SwitchSwap
<1>4. live'[k] = op[o].plan.tabs /\ \A x \in Windows \ {k} : live'[x] = live[x]
  BY DEF SwitchSwap, Shape, Types, TypeOK
<1>5. Displaced(k)'
  BY <1>2 DEF Displaced
<1>6. ASSUME NEW d \in Flushers, flush[d].window = k PROVE flush[d].pc \notin {"commit", "save"} /\ d \in mutated'
  BY <1>3, <1>6 DEF FlushesServed, NoneWaits
<1>7. ASSUME NEW d \in Flushers, Active(d), flush[d].window = k PROVE FlushCarries(d)'
  <2> PICK e \in Binding : flush[d].expected = e
    BY <1>7, SpaceTypes
  <2>1. FlushCarries(d)
    BY DEF Known, Tabs
  <2> QED BY <1>1, <1>5, <1>6, <1>7, <2>1 DEF FlushCarries, Current
<1>8. ASSUME NEW d \in Flushers PROVE SwitchMeets(o, d)'
  <2>1. FlushRev(d)
    BY DEF Known, Revisions
  <2> QED BY <1>1, <1>2, <1>6, <2>1 DEF SwitchMeets, FlushRev
<1>9. SwitchCarries(o)'
  <2>1. SwitchCarries(o)
    BY DEF Known, Tabs
  <2> QED BY <1>1, <1>2, <1>4, <2>1 DEF SwitchCarries, Current
<1>10. BindingRev(k)' /\ JournalRev' /\ JournalCarries' /\ WindowShows(k)'
  BY <1>1, <1>5 DEF Known, Revisions, Tabs, BindingRev, JournalRev, JournalCarries, Current, WindowShows
<1>11. journal' # None => binding'[journal'.window] = None \/ binding'[journal'.window].ws \in {journal'.source, journal'.target}
  BY <1>1 DEF Known, SourceIsBound
<1>12. Switching(o) /\ mutated \subseteq mutated'
  BY <1>1, <1>3, LateKnows
<1> DEFINE n == op'[o]
<1>13. op' = [op EXCEPT ![o] = n] /\ n.pc \notin Early /\ n.pc \in SwitchPc /\ n.window = k
  BY <1>2 DEF Early, SwitchPc
<1> HIDE DEF n
<1> QED BY <1>1, <1>2, <1>4, <1>7, <1>8, <1>9, <1>10, <1>11, <1>12, <1>13, OneSwitchMoves

LEMMA SwitchBindKnown == ASSUME SwitchesRespected, Shape, Shape', Known, NEW o \in Ops, SwitchBind(o) PROVE Known'
<1>1. UNCHANGED <<canon, journal, live, loading, mutated, flush, interrupted>> /\ op[o].pc = "swapped" /\ op[o].pc \in Late
      /\ op' = [op EXCEPT ![o].pc = "bound"]
  BY DEF SwitchBind, browser, schedule, history, Late
<1> PICK k \in Windows : op[o].window = k
  BY <1>1, LateKnows
<1>2. /\ op' = [op EXCEPT ![o] = op'[o]] /\ op'[o].pc = "bound" /\ op'[o].window = k /\ op'[o].ws = op[o].ws
      /\ op'[o].plan = op[o].plan /\ OpRev(o)' /\ EditKnows(o)'
  <2>1. "bound" \in Late \ {"prepared"} /\ "bound" # "swapped"
    BY DEF Late
  <2> QED BY <1>1, <2>1, GoesTo
<1> DEFINE r == op[o].plan.rev  w == op[o].ws
<1>3. binding'[k] = [ws |-> w, rev |-> r, stale |-> FALSE] /\ \A x \in Windows \ {k} : binding'[x] = binding[x]
  BY DEF SwitchBind, Shape, Types, TypeOK
<1>4. OpRev(o) /\ SwitchCarries(o) /\ r \in Nat /\ journal.window = k /\ journal.target = w
  BY <1>1, LateKnows, SpaceTypes
<1>5. BindingRev(k)' /\ WindowShows(k)'
  BY <1>1, <1>3, <1>4 DEF BindingRev, OpRev, WindowShows, SwitchCarries, Current
<1>6. ASSUME NEW d \in Flushers, Active(d), flush[d].window = k PROVE FlushCarries(d)'
  <2> PICK e \in Binding : flush[d].expected = e
    BY <1>6, SpaceTypes
  <2>1. FlushCarries(d) /\ SwitchMeets(o, d)
    BY DEF Known, Tabs
  <2>2. flush[d].pc = "bind" => Passed(k, e)'
    BY <1>1, <1>3, <1>6, <2>1 DEF SwitchMeets, Passed
  <2> QED BY <1>1, <1>6, <2>1, <2>2 DEF FlushCarries, SwitchMeets, Current
<1>7. ASSUME NEW d \in Flushers PROVE SwitchMeets(o, d)'
  <2>1. SwitchMeets(o, d)
    BY DEF Known, Tabs
  <2> QED BY <1>1, <1>2, <2>1 DEF SwitchMeets
<1>8. SwitchCarries(o)' /\ JournalRev' /\ JournalCarries'
  BY <1>1, <1>2 DEF SwitchCarries, Known, Revisions, Tabs, JournalRev, JournalCarries, Current
<1>9. journal' # None => binding'[journal'.window] = None \/ binding'[journal'.window].ws \in {journal'.source, journal'.target}
  BY <1>1, <1>3, <1>4
<1> DEFINE n == op'[o]
<1>10. op' = [op EXCEPT ![o] = n] /\ n.pc \notin Early /\ n.pc \in SwitchPc /\ n.window = k
  BY <1>2 DEF Early, SwitchPc
<1>11. Switching(o)
  BY <1>1, LateKnows
<1> HIDE DEF n
<1> QED BY <1>1, <1>2, <1>3, <1>5, <1>6, <1>7, <1>8, <1>9, <1>10, <1>11, OneSwitchMoves

LEMMA SwitchFailKnown == ASSUME Shape, Shape', Known, NEW o \in Ops, SwitchFail(o) PROVE Known'
<1>1. UNCHANGED <<canon, journal, binding, live, loading, mutated, flush, interrupted>> /\ op[o].pc \in {"prepared", "swapped", "bound"}
      /\ op' = [op EXCEPT ![o].pc = "recover"] /\ op[o].pc \in Late
  BY DEF SwitchFail, store, browser, schedule, history, Late
<1> PICK k \in Windows : op[o].window = k
  BY <1>1, LateKnows
<1>2. /\ op' = [op EXCEPT ![o] = op'[o]] /\ op'[o].pc = "recover" /\ op'[o].window = k /\ op'[o].ws = op[o].ws
      /\ OpRev(o)' /\ EditKnows(o)'
  <2>1. "recover" \in Late \ {"prepared"} /\ "recover" # "swapped"
    BY DEF Late
  <2> QED BY <1>1, <2>1, GoesTo
<1>3. Displaced(k)' /\ Undoing(k)'
  BY <1>2 DEF Displaced, Undoing
<1>4. ASSUME NEW d \in Flushers, Active(d), flush[d].window = k PROVE FlushCarries(d)'
  <2> PICK e \in Binding : flush[d].expected = e
    BY <1>4, SpaceTypes
  <2>1. FlushCarries(d)
    BY DEF Known, Tabs
  <2> QED BY <1>1, <1>3, <1>4, <2>1 DEF FlushCarries, Current
<1>5. ASSUME NEW d \in Flushers PROVE SwitchMeets(o, d)'
  <2>1. SwitchMeets(o, d)
    BY DEF Known, Tabs
  <2> QED BY <1>1, <1>2, <2>1 DEF SwitchMeets
<1>6. BindingRev(k)' /\ WindowShows(k)' /\ SwitchCarries(o)' /\ JournalRev' /\ JournalCarries'
  BY <1>1, <1>2, <1>3 DEF SwitchCarries, Known, Revisions, Tabs, JournalRev, JournalCarries, Current, BindingRev, WindowShows
<1>7. journal' # None => binding'[journal'.window] = None \/ binding'[journal'.window].ws \in {journal'.source, journal'.target}
  BY <1>1 DEF Known, SourceIsBound
<1> DEFINE n == op'[o]
<1>8. op' = [op EXCEPT ![o] = n] /\ n.pc \notin Early /\ n.pc \in SwitchPc /\ n.window = k
  BY <1>2 DEF Early, SwitchPc
<1>9. Switching(o)
  BY <1>1, LateKnows
<1> HIDE DEF n
<1> QED BY <1>1, <1>2, <1>4, <1>5, <1>6, <1>7, <1>8, <1>9, OneSwitchMoves

LEMMA SwitchRestoreKnown == ASSUME Shape, Shape', Known, NEW o \in Ops, SwitchRestore(o) PROVE Known'
<1>1. UNCHANGED <<canon, journal, binding, flush, interrupted>> /\ op[o].pc = "recover"
      /\ op' = [op EXCEPT ![o].pc = "rebind"] /\ op[o].pc \in Late
  BY DEF SwitchRestore, store, history, Late
<1> PICK k \in Windows : op[o].window = k
  BY <1>1, LateKnows
<1>2. /\ op' = [op EXCEPT ![o] = op'[o]] /\ op'[o].pc = "rebind" /\ op'[o].window = k /\ op'[o].ws = op[o].ws
      /\ OpRev(o)' /\ EditKnows(o)'
  <2>1. "rebind" \in Late \ {"prepared"} /\ "rebind" # "swapped"
    BY DEF Late
  <2> QED BY <1>1, <2>1, GoesTo
<1>3. Displaced(k)'
  BY <1>2 DEF Displaced
<1>4. journal \in Journals /\ journal.window = k
  BY <1>1, LateKnows
<1>5. /\ live'[k] = journal.tabs /\ \A x \in Windows \ {k} : live'[x] = live[x]
      /\ loading' = loading \ {k} /\ mutated' = mutated \cup {c \in Flushers : flush[c].window = k}
  BY <1>4, RestoredTabs DEF SwitchRestore, Shape, Types, TypeOK
<1>6. ASSUME NEW d \in Flushers, Active(d), flush[d].window = k PROVE FlushCarries(d)'
  <2> PICK e \in Binding : flush[d].expected = e
    BY <1>6, SpaceTypes
  <2>1. FlushCarries(d) /\ SwitchMeets(o, d)
    BY DEF Known, Tabs
  <2> QED BY <1>1, <1>3, <1>5, <1>6, <2>1 DEF FlushCarries, SwitchMeets, Current
<1>7. ASSUME NEW d \in Flushers PROVE SwitchMeets(o, d)'
  BY <1>2 DEF SwitchMeets
<1>8. BindingRev(k)' /\ WindowShows(k)' /\ SwitchCarries(o)' /\ JournalRev' /\ JournalCarries'
  BY <1>1, <1>2, <1>3, <1>5 DEF SwitchCarries, Known, Revisions, Tabs, JournalRev, JournalCarries, Current, BindingRev, WindowShows
<1>9. journal' # None => binding'[journal'.window] = None \/ binding'[journal'.window].ws \in {journal'.source, journal'.target}
  BY <1>1 DEF Known, SourceIsBound
<1> DEFINE n == op'[o]
<1>10. op' = [op EXCEPT ![o] = n] /\ n.pc \notin Early /\ n.pc \in SwitchPc /\ n.window = k
  BY <1>2 DEF Early, SwitchPc
<1>11. Switching(o)
  BY <1>1, LateKnows
<1> HIDE DEF n
<1> QED BY <1>1, <1>2, <1>5, <1>6, <1>7, <1>8, <1>9, <1>10, <1>11, OneSwitchMoves

LEMMA SwitchDoneKnown == ASSUME Shape, Shape', Known, NEW o \in Ops, SwitchDone(o) PROVE Known'
<1>1. UNCHANGED <<canon, binding, live, loading, mutated, flush, interrupted>> /\ op[o].pc = "bound" /\ op[o].pc \in Late
      /\ journal' = None /\ SwitchEnd(o, TRUE, TRUE)
  BY DEF SwitchDone, browser, lines, history, Late
<1>2. Switching(o)
  BY <1>1, LateKnows
<1> PICK k \in Windows : op[o].window = k
  BY <1>1, LateKnows
<1>3. PICK n : /\ op' = [op EXCEPT ![o] = n] /\ op'[o] = n /\ n.pc \in {"done", "rollback"}
               /\ SourceOf(o)' /\ OpRev(o)' /\ EditKnows(o)'
  BY <1>1, <1>2, EndKnows
<1>4. ~Displaced(k) /\ ~Undoing(k)
  <2>1. ~RecoveryPending /\ \A p \in Ops \ {o} : op[p].pc \notin SwitchPc
    BY <1>1, LateKnows
  <2> QED BY <1>1, <2>1 DEF Displaced, Undoing, SwitchPc
<1>5. ASSUME NEW d \in Flushers, Active(d), flush[d].window = k PROVE FlushCarries(d)'
  <2> PICK e \in Binding : flush[d].expected = e
    BY <1>5, SpaceTypes
  <2>1. FlushCarries(d)
    BY DEF Known, Tabs
  <2>2. Passed(k, e) <=> Passed(k, e)'
    BY <1>1 DEF Passed
  <2> QED BY <1>1, <1>4, <1>5, <2>1, <2>2 DEF FlushCarries, Current
<1>6. (\A d \in Flushers : SwitchMeets(o, d)') /\ SwitchCarries(o)'
  BY <1>3 DEF SwitchMeets, SwitchCarries
<1>7. BindingRev(k)' /\ WindowShows(k)' /\ JournalRev' /\ JournalCarries'
  BY <1>1, <1>4 DEF Known, Revisions, Tabs, JournalRev, JournalCarries, Current, BindingRev, WindowShows
<1>8. n.pc \notin Early /\ n.pc \notin SwitchPc
  BY <1>3 DEF Early, SwitchPc
<1> QED BY <1>1, <1>2, <1>3, <1>5, <1>6, <1>7, <1>8, OneSwitchMoves

(* The binding that a recovery restores.                                    *)
LEMMA RestoredFacts ==
    ASSUME SwitchesRespected, Shape, JournalRev, journal \in Journals
    PROVE  RestoredBinding # None =>
             /\ RestoredBinding.ws = journal.source /\ RestoredBinding.rev = journal.rev
             /\ journal.source # None /\ journal.source \in Workspaces /\ journal.rev \in Nat
             /\ canon[journal.source].rev \in Nat /\ journal.rev <= canon[journal.source].rev
             /\ RestoredBinding.stale \/ journal.rev = canon[journal.source].rev
<1> SUFFICES ASSUME RestoredBinding # None
             PROVE  /\ RestoredBinding.ws = journal.source /\ RestoredBinding.rev = journal.rev
                    /\ journal.source # None /\ journal.source \in Workspaces /\ journal.rev \in Nat
                    /\ canon[journal.source].rev \in Nat /\ journal.rev <= canon[journal.source].rev
                    /\ RestoredBinding.stale \/ journal.rev = canon[journal.source].rev
  OBVIOUS
<1>1. journal.source # None /\ journal # None
      /\ RestoredBinding = [ws |-> journal.source, rev |-> journal.rev, stale |-> journal.rev # canon[journal.source].rev]
  <2>1. journal.source # None
    BY DEF RestoredBinding
  <2>2. RestoredBinding = [ws |-> journal.source, rev |-> journal.rev, stale |-> journal.rev # canon[journal.source].rev]
    BY DEF RestoredBinding
  <2>3. journal # None
    BY DEF SwitchesRespected
  <2> QED BY <2>1, <2>2, <2>3
<1>2. journal.source \in Workspaces /\ journal.rev \in Nat
  BY <1>1 DEF Journals, OrNone
<1> QED BY <1>1, <1>2, SpaceTypes DEF JournalRev

LEMMA SwitchRebindKnown == ASSUME SwitchesRespected, Shape, Shape', Known, NEW o \in Ops, SwitchRebind(o) PROVE Known'
<1>1. UNCHANGED <<canon, live, loading, mutated, flush, interrupted>> /\ op[o].pc = "rebind" /\ op[o].pc \in Late
      /\ journal' = None /\ \E superseded \in BOOLEAN : SwitchEnd(o, superseded, TRUE)
  BY DEF SwitchRebind, browser, history, Late
<1>2. Switching(o) /\ journal \in Journals /\ journal.window = op[o].window
  BY <1>1, LateKnows
<1> PICK k \in Windows : op[o].window = k
  BY <1>1, LateKnows
<1>3. PICK n : /\ op' = [op EXCEPT ![o] = n] /\ op'[o] = n /\ n.pc \in {"done", "rollback"}
               /\ SourceOf(o)' /\ OpRev(o)' /\ EditKnows(o)'
  BY <1>1, <1>2, EndKnows
<1>4. ~Undoing(k)
  <2>1. ~RecoveryPending /\ \A p \in Ops \ {o} : op[p].pc \notin SwitchPc
    BY <1>1, LateKnows
  <2> QED BY <1>1, <2>1 DEF Undoing, SwitchPc
<1>5. binding'[k] = RestoredBinding /\ \A x \in Windows \ {k} : binding'[x] = binding[x]
  BY <1>2 DEF SwitchRebind, Shape, Types, TypeOK
<1>6. JournalRev /\ JournalCarries /\ SwitchCarries(o)
  BY <1>1, LateKnows
<1>7. RestoredBinding # None =>
             /\ RestoredBinding.ws = journal.source /\ RestoredBinding.rev = journal.rev
             /\ journal.source # None /\ journal.source \in Workspaces /\ journal.rev \in Nat
             /\ canon[journal.source].rev \in Nat /\ journal.rev <= canon[journal.source].rev
             /\ RestoredBinding.stale \/ journal.rev = canon[journal.source].rev
  BY <1>2, <1>6, RestoredFacts
<1>8. BindingRev(k)'
  BY <1>1, <1>5, <1>7 DEF BindingRev
<1>9. WindowShows(k)'
  <2>1. journal.tabs \subseteq live[k] /\ journal # None
    BY <1>1, <1>6, LateKnows DEF SwitchCarries
  <2> QED BY <1>1, <1>5, <1>6, <1>7, <2>1 DEF WindowShows, JournalCarries, Current
<1>10. ASSUME NEW d \in Flushers, Active(d), flush[d].window = k PROVE FlushCarries(d)'
  <2> PICK e \in Binding : flush[d].expected = e
    BY <1>10, SpaceTypes
  <2>1. FlushCarries(d) /\ FlushRev(d) /\ e.rev \in Nat /\ e.ws \in Workspaces
    BY DEF Known, Tabs, Revisions, Binding
  <2>2. flush[d].pc = "bind" => Passed(k, e)'
    BY <1>5, <1>7, <2>1 DEF Passed, FlushRev
  <2> QED BY <1>1, <1>4, <1>10, <2>1, <2>2 DEF FlushCarries, Current
<1>11. (\A d \in Flushers : SwitchMeets(o, d)') /\ SwitchCarries(o)'
  BY <1>3 DEF SwitchMeets, SwitchCarries
<1>12. JournalRev' /\ JournalCarries'
  BY <1>1 DEF JournalRev, JournalCarries
<1>13. n.pc \notin Early /\ n.pc \notin SwitchPc
  BY <1>3 DEF Early, SwitchPc
<1> QED BY <1>1, <1>2, <1>3, <1>5, <1>8, <1>9, <1>10, <1>11, <1>12, <1>13, OneSwitchMoves

LEMMA SwitchKnown == ASSUME SwitchesRespected, FlushesServed, Shape, Shape', Known, NEW o \in Ops, SwitchStep(o) PROVE Known'
  BY SwitchBeginKnown, SwitchReserveKnown, SwitchFlushKnown, SwitchFlushedKnown, SwitchOwnKnown, SwitchSwapKnown,
     SwitchBindKnown, SwitchDoneKnown, SwitchFailKnown, SwitchRestoreKnown, SwitchRebindKnown DEF SwitchStep

-----------------------------------------------------------------------------
(* Restarts, and the recovery of a switch that one has cut.                 *)
LEMMA CrashKnown == ASSUME SwitchesRespected, Shape, Shape', Known, Crash PROVE Known'
<1>1. UNCHANGED <<canon, journal, binding, live, loading>>
      /\ interrupted' = interrupted \cup (IF journal = None THEN {} ELSE {journal.source, journal.target} \ {None})
  BY DEF Crash, store, browser
<1>2. \A d \in Flushers : flush'[d].pc = "idle"
  BY DEF Crash, NoFlush
<1>3. \A p \in Ops : op'[p].pc \in {"idle", "done"}
  BY DEF Crash, NoOp
<1>4. Newer
  BY <1>1 DEF Newer
<1>5. WindowsSwitching' = {}
  BY <1>3 DEF WindowsSwitching, Switching, SwitchPc
<1>6. SourceIsBound'
  BY <1>1, <1>3 DEF Known, SourceIsBound, SourceOf, Early
<1>7. Revisions'
  BY <1>1, <1>2, <1>3 DEF Known, Revisions, BindingRev, FlushRev, Active, JournalRev, OpRev, EditRunning, EditPcs, SwitchPc
<1>8. ASSUME NEW k \in Windows PROVE WindowShows(k)'
  <2>1. Displaced(k) => Displaced(k)'
    <3>1. CASE RecoveryPending /\ journal.window = k
      BY <1>1, <1>5, <3>1 DEF RecoveryPending, Displaced
    <3>2. ASSUME NEW p \in Ops, op[p].window = k, op[p].pc \in {"swapped", "recover", "rebind"} PROVE Displaced(k)'
      <4>1. journal # None /\ journal.window = k
        BY <3>2 DEF Shape, OneSwitch, Late
      <4> QED BY <1>1, <1>5, <4>1 DEF RecoveryPending, Displaced
    <3> QED BY <3>1, <3>2 DEF Displaced
  <2> QED BY <1>1, <2>1 DEF Known, Tabs, WindowShows, Current
<1>9. ASSUME NEW d \in Flushers PROVE FlushCarries(d)' /\ CutKnows(d)'
  BY <1>2 DEF FlushCarries, CutKnows, Active
<1>10. ASSUME NEW p \in Ops PROVE SwitchCarries(p)' /\ EditKnows(p)' /\ \A d \in Flushers : SwitchMeets(p, d)'
  BY <1>3 DEF SwitchCarries, EditKnows, SwitchMeets, EditRunning, EditPcs, SwitchPc
<1>11. JournalCarries'
  BY <1>1 DEF Known, Tabs, JournalCarries, Current
<1>12. CutIsKnown'
  <2>1. journal # None => /\ journal.window \in Windows /\ (journal.source # None => journal.source \in interrupted')
                          /\ journal.target \in Workspaces
    BY <1>1, SpaceTypes
  <2>2. journal # None /\ binding[journal.window] # None => binding[journal.window].ws \in {journal.source, journal.target} \ {None}
    BY <2>1, SpaceTypes, Members DEF Known, SourceIsBound
  <2> QED BY <1>1, <2>1, <2>2 DEF CutIsKnown, RecoveryPending, OrNone
<1> QED BY <1>6, <1>7, <1>8, <1>9, <1>10, <1>11, <1>12 DEF Known, Tabs

LEMMA NoLateOps ==
    ASSUME RecoveryPending
    PROVE  /\ \A p \in Ops : op[p].pc \notin SwitchPc
           /\ \A x : ~Undoing(x) /\ (Displaced(x) <=> x = journal.window)
<1>1. \A p \in Ops : op[p].pc \notin SwitchPc
  BY DEF RecoveryPending, WindowsSwitching, Switching
<1> QED BY <1>1 DEF Undoing, Displaced, SwitchPc

LEMMA RecoveryKnown == ASSUME SwitchesRespected, Shape, Shape', Known, RecoverTabs \/ RecoverBinding PROVE Known'
<1>1. UNCHANGED <<canon, flush, op, interrupted>> /\ RecoveryPending /\ journal # None
  BY DEF RecoverTabs, RecoverBinding, store, history, RecoveryPending
<1> PICK k \in Windows : journal.window = k
  BY <1>1, SpaceTypes
<1>2. journal \in Journals
  BY <1>1 DEF Shape, Types, OrNone
<1>3. \A p \in Ops : op[p].pc \notin SwitchPc
  BY <1>1, NoLateOps
<1>4. \A x \in Windows : ~Undoing(x) /\ ~Undoing(x)' /\ (x # k => ~Displaced(x))
  BY <1>1, <1>3, NoLateOps DEF Undoing, SwitchPc
<1>5. \A x \in Windows \ {k} : ~Displaced(x)'
  BY <1>1, <1>3 DEF Displaced, SwitchPc, RecoverTabs, RecoverBinding, RecoveryPending, store
<1>6. /\ \A x \in Windows \ {k} : binding'[x] = binding[x] /\ live'[x] = live[x]
      /\ loading' \subseteq loading /\ mutated \subseteq mutated'
      /\ \/ /\ UNCHANGED <<journal, binding>> /\ live'[k] = journal.tabs
            /\ \A d \in Flushers : flush[d].window = k => d \in mutated'
            /\ Displaced(k)'
         \/ /\ UNCHANGED <<live, loading, mutated>> /\ journal' = None /\ binding'[k] = RestoredBinding
  <2>1. CASE RecoverTabs
    <3>1. UNCHANGED <<journal, binding>> /\ RecoveryPending'
      BY <1>1, <2>1 DEF RecoverTabs, store, RecoveryPending, WindowsSwitching, Switching
    <3> QED BY <1>2, <2>1, <3>1, RestoredTabs DEF RecoverTabs, Displaced, Shape, Types, TypeOK
  <2>2. CASE RecoverBinding
    BY <2>2 DEF RecoverBinding, browser, schedule, Shape, Types, TypeOK
  <2> QED BY <2>1, <2>2
<1>7. RestoredBinding # None => /\ RestoredBinding.ws = journal.source /\ RestoredBinding.rev = journal.rev
                                /\ journal.source # None /\ journal.rev <= canon[journal.source].rev
                                /\ journal.source \in interrupted
  BY <1>1, <1>2, RestoredFacts DEF Known, Revisions, Tabs, CutIsKnown, OrNone
<1>8. SourceIsBound'
  BY <1>1, <1>3, <1>6 DEF Known, SourceIsBound, SourceOf, Early, SwitchPc
<1>9. Revisions'
  <2>1. ASSUME NEW x \in Windows PROVE BindingRev(x)'
    BY <1>1, <1>6, <1>7 DEF Known, Revisions, BindingRev
  <2>2. JournalRev'
    BY <1>1, <1>6 DEF Known, Revisions, JournalRev
  <2>3. ASSUME NEW d \in Flushers PROVE FlushRev(d)'
    BY <1>1 DEF Known, Revisions, FlushRev, Active
  <2>4. ASSUME NEW p \in Ops PROVE OpRev(p)'
    BY <1>1 DEF Known, Revisions, OpRev
  <2> QED BY <2>1, <2>2, <2>3, <2>4 DEF Revisions
<1>10. ASSUME NEW x \in Windows PROVE WindowShows(x)'
  <2>1. CASE x # k
    BY <1>1, <1>4, <1>6, <2>1 DEF Known, Tabs, WindowShows, Current
  <2>2. CASE x = k
    BY <1>1, <1>6, <1>7, <2>2 DEF WindowShows, Current
  <2> QED BY <2>1, <2>2
<1>11. ASSUME NEW d \in Flushers PROVE FlushCarries(d)' /\ CutKnows(d)'
  <2>1. CASE ~Active(d)
    BY <1>1, <2>1 DEF FlushCarries, CutKnows, Active
  <2>2. CASE Active(d)
    <3> PICK x \in Windows, e \in Binding : flush[d].window = x /\ flush[d].expected = e
      BY <2>2, SpaceTypes DEF Active
    <3>1. FlushCarries(d) /\ CutKnows(d)
      BY DEF Known, Tabs
    <3>2. x = k => e.ws \in interrupted
      BY <1>1, <2>2, <3>1 DEF CutKnows
    <3>3. CutKnows(d)'
      BY <1>1, <1>6, <3>2 DEF CutKnows, RecoveryPending
    <3>4. x # k => (Passed(x, e) <=> Passed(x, e)')
      BY <1>6 DEF Passed
    <3>5. FlushCarries(d)'
      <4>1. CASE x = k
        BY <1>1, <1>4, <1>6, <3>1, <3>2, <4>1 DEF FlushCarries, Current
      <4>2. CASE x # k
        BY <1>1, <1>4, <1>6, <3>1, <3>4, <4>2 DEF FlushCarries, Current
      <4> QED BY <4>1, <4>2
    <3> QED BY <3>3, <3>5
  <2> QED BY <2>1, <2>2
<1>12. ASSUME NEW p \in Ops PROVE SwitchCarries(p)' /\ EditKnows(p)' /\ \A d \in Flushers : SwitchMeets(p, d)'
  BY <1>1, <1>3 DEF SwitchCarries, EditKnows, SwitchMeets, SwitchPc, Known, Tabs
<1>13. JournalCarries' /\ CutIsKnown'
  BY <1>1, <1>6 DEF JournalCarries, CutIsKnown, Known, Tabs, RecoveryPending, Current
<1> QED BY <1>8, <1>9, <1>10, <1>11, <1>12, <1>13 DEF Known, Tabs

-----------------------------------------------------------------------------
(* The invariant, and what it is for.                                       *)
LEMMA KnownInit == ASSUME SwitchesRespected, Init PROVE Known
<1>1. \A c \in Flushers : flush[c].pc = "idle"
  BY DEF Init, NoFlush
<1>2. \A o \in Ops : op[o].pc = "idle"
  BY DEF Init, NoOp
<1>3. \A w \in Workspaces : canon[w].rev = 0 /\ canon[w].tabs = {}
  BY DEF Init
<1>4. \A k \in Windows : binding[k] # None => binding[k].ws \in Workspaces /\ binding[k].rev = 0
  BY DEF Init
<1>5. journal = None
  BY DEF Init
<1>6. SourceIsBound
  BY <1>2, <1>5 DEF SourceIsBound, SourceOf, Early
<1>7. Revisions
  BY <1>1, <1>2, <1>3, <1>4, <1>5 DEF Revisions, BindingRev, FlushRev, Active, JournalRev, OpRev, EditRunning, EditPcs, SwitchPc
<1>8. Tabs
  BY <1>1, <1>2, <1>3, <1>4, <1>5 DEF Tabs, WindowShows, FlushCarries, CutKnows, Active, SwitchMeets, SwitchCarries, EditKnows,
     EditRunning, EditPcs, SwitchPc, JournalCarries, CutIsKnown, RecoveryPending, Current
<1> QED BY <1>6, <1>7, <1>8 DEF Known

LEMMA StutterKnown == ASSUME Shape, Shape', Known, UNCHANGED vars PROVE Known'
<1>1. UNCHANGED <<canon, journal, binding, live, loading, interrupted, mutated, flush, op>>
  BY DEF vars, store, browser, schedule, history
<1>2. Calm /\ (\A x \in Windows : SameBinding(x)) /\ \A c \in Flushers : Steady(c)
  BY <1>1, Unchanging DEF Calm
<1> QED BY <1>1, <1>2, CalmKnown

LEMMA KnownNext == ASSUME SwitchesRespected, [FlushesServed]_vars, Shape, Shape', Known, [Next]_vars PROVE Known'
<1>1. ASSUME NEW k \in Windows, UserEdit(k) \/ TabsLoaded(k) PROVE Known'
  BY <1>1, UserKnown
<1>2. ASSUME NEW c \in Flushers, FlushStep(c) PROVE Known'
  BY <1>2, FlushKnown
<1>3. ASSUME NEW o \in Ops, NEW m \in Menu, OpBegin(o, m) PROVE Known'
  BY <1>3, OpBeginKnown
<1>4. ASSUME NEW o \in Ops, OpStep(o) \/ SwitchStep(o) PROVE Known'
  <2>1. CASE FlushesServed
    BY <1>4, <2>1, OpKnown, SwitchKnown
  <2>2. CASE UNCHANGED vars
    BY <2>2, StutterKnown
  <2> QED BY <2>1, <2>2
<1>5. CASE DrainStep
  BY <1>5, DrainKnown, DrainNextKnown DEF DrainStep
<1>6. CASE Crash \/ RecoverTabs \/ RecoverBinding
  BY <1>6, CrashKnown, RecoveryKnown
<1>7. CASE UNCHANGED vars
  BY <1>7, StutterKnown
<1> QED BY <1>1, <1>2, <1>3, <1>4, <1>5, <1>6, <1>7 DEF Next

LEMMA InductiveInvariant == ASSUME SwitchesRespected PROVE Spec /\ [][FlushesServed]_vars => []IInv
<1>1. Init => IInv
  BY ShapeInit, KnownInit DEF IInv, Known
<1>2. IInv /\ [Next]_vars /\ [FlushesServed]_vars => IInv'
  BY ShapeNext, KnownNext DEF IInv, Known
<1> QED BY <1>1, <1>2, PTL DEF Spec

LEMMA Owned == ASSUME IInv PROVE CopiesAreOwned
<1>1. ASSUME NEW k \in Windows \ InTransaction, binding[k] # None, binding[k].rev = canon[binding[k].ws].rev,
             binding[k].ws \notin interrupted
      PROVE  canon[binding[k].ws].tabs \subseteq live[k]
  <2>1. ~Displaced(k)
    <3>1. ASSUME NEW o \in Ops, op[o].window = k, op[o].pc \in {"swapped", "recover", "rebind"} PROVE FALSE
      BY <1>1, <3>1 DEF InTransaction, WindowsSwitching, Switching, SwitchPc
    <3>2. ~(RecoveryPending /\ journal.window = k)
      BY <1>1 DEF InTransaction, RecoveryPending
    <3> QED BY <3>1, <3>2 DEF Displaced
  <2> QED BY <1>1, <2>1 DEF IInv, Tabs, WindowShows, Current
<1>2. WritersAreCurrent
  BY <1>1 DEF WritersAreCurrent
<1>3. TypeOK
  BY DEF IInv, Shape, Types
<1> QED BY <1>2, <1>3 DEF CopiesAreOwned

(* As long as FlushesServed holds, of a window that may save and is not     *)
(* being switched, all that its workspace holds is in its tabs.             *)
THEOREM OwnedCopies == ASSUME SwitchesRespected PROVE Spec /\ [][FlushesServed]_vars => []CopiesAreOwned
<1>1. IInv => CopiesAreOwned
  BY Owned
<1> QED BY <1>1, InductiveInvariant, PTL

(* Only the saving of a flush, an operation and a rollback write the        *)
(* workspaces.                                                              *)
LEMMA Writers ==
    ASSUME [Next]_vars
    PROVE  \/ UNCHANGED canon
           \/ \E c \in Flushers : FlushSave(c)
           \/ \E o \in Ops : OpWrite(o) \/ OpRollback(o)
<1>1. ASSUME NEW k \in Windows, UserEdit(k) \/ TabsLoaded(k) PROVE UNCHANGED canon
  BY <1>1 DEF UserEdit, TabsLoaded, store
<1>2. ASSUME NEW c \in Flushers, FlushStep(c), ~FlushSave(c) PROVE UNCHANGED canon
  BY <1>2 DEF FlushStep, FlushSnapshot, FlushCapture, FlushCommit, FlushRebind, FlushMarkOthers, FlushFlag, store
<1>3. ASSUME NEW o \in Ops, NEW m \in Menu, OpBegin(o, m) PROVE UNCHANGED canon
  BY <1>3 DEF OpBegin, store
<1>4. ASSUME NEW o \in Ops, OpStep(o), ~OpWrite(o), ~OpRollback(o) PROVE UNCHANGED canon
  BY <1>4 DEF OpStep, OpFlushed, OpLook, OpMark, OpInvalidate, store
<1>5. ASSUME NEW o \in Ops, SwitchStep(o) PROVE UNCHANGED canon
  BY <1>5 DEF SwitchStep, SwitchBegin, SwitchReserve, SwitchFlush, SwitchFlushed, SwitchOwn, SwitchSwap, SwitchBind,
              SwitchDone, SwitchFail, SwitchRestore, SwitchRebind, store
<1>6. DrainStep => UNCHANGED canon
  BY DEF DrainStep, DrainPass, DrainFlushed, DrainEnd, DrainNext, store
<1>7. Crash \/ RecoverTabs \/ RecoverBinding => UNCHANGED canon
  BY DEF Crash, RecoverTabs, RecoverBinding, store
<1>8. UNCHANGED vars => UNCHANGED canon
  BY DEF vars, store
<1> QED BY <1>1, <1>2, <1>3, <1>4, <1>5, <1>6, <1>7, <1>8 DEF Next

LEMMA NothingLost ==
    ASSUME IInv, [Next]_vars
    PROVE  \A w \in Workspaces \ interrupted' : canon[w].tabs \ retracted' \subseteq canon'[w].tabs
<1>1. canon \in [Workspaces -> [tabs : SUBSET Change, rev : Nat, alive : BOOLEAN]]
  BY DEF IInv, Shape, Types, TypeOK
<1>2. ASSUME NEW c \in Flushers, FlushSave(c)
      PROVE  \A w \in Workspaces \ interrupted' : canon[w].tabs \subseteq canon'[w].tabs
  <2> PICK e \in Binding : flush[c].expected = e
    BY <1>2, SpaceTypes DEF FlushSave, Active, IInv
  <2>1. UNCHANGED interrupted /\ flush[c].pc = "save" /\ e.ws \in Workspaces
    BY <1>2 DEF FlushSave, history, Binding
  <2>2. canon'[e.ws].tabs = flush[c].tabs /\ \A w \in Workspaces \ {e.ws} : canon'[w] = canon[w]
    BY <1>1, <1>2, <2>1 DEF FlushSave
  <2>3. e.rev = canon[e.ws].rev /\ Current(e.ws, e.rev, flush[c].tabs)
    BY <2>1 DEF IInv, Revisions, FlushRev, Tabs, FlushCarries
  <2> QED BY <2>1, <2>2, <2>3 DEF Current
<1>3. ASSUME NEW o \in Ops, OpWrite(o)
      PROVE  \A w \in Workspaces : canon[w].tabs \subseteq canon'[w].tabs
  <2>1. op[o].ws \in Workspaces
    BY <1>3, SpaceTypes DEF OpWrite, IInv
  <2>2. CASE OpChange(o)
    BY <1>1, <2>1, <2>2 DEF OpChange
  <2>3. ASSUME NEW b \in BOOLEAN, canon' = [canon EXCEPT ![op[o].ws].alive = b]
        PROVE  \A w \in Workspaces : canon[w].tabs \subseteq canon'[w].tabs
    BY <1>1, <2>1, <2>3
  <2> QED BY <1>3, <2>2, <2>3 DEF OpWrite
<1>4. ASSUME NEW o \in Ops, OpRollback(o)
      PROVE  \A w \in Workspaces : canon[w].tabs \ retracted' \subseteq canon'[w].tabs
  <2>1. op[o].pc = "rollback" /\ op[o].ws \in Workspaces /\ op[o].kind = "edit"
    BY <1>4, SpaceTypes DEF OpRollback, IInv, Shape, OpShapes, EditPcs
  <2>2. CASE canon[op[o].ws].rev = op[o].rev
    <3>1. canon'[op[o].ws].tabs = op[o].tabs /\ op[o].change \in retracted'
          /\ \A w \in Workspaces \ {op[o].ws} : canon'[w] = canon[w]
      BY <1>1, <1>4, <2>1, <2>2 DEF OpRollback
    <3>2. canon[op[o].ws].tabs \subseteq op[o].tabs \cup {op[o].change}
      BY <2>1, <2>2 DEF IInv, Tabs, EditKnows, EditRunning, EditPcs
    <3> QED BY <3>1, <3>2
  <2>3. CASE UNCHANGED canon
    BY <2>3
  <2> QED BY <1>4, <2>2, <2>3 DEF OpRollback
<1> QED BY <1>2, <1>3, <1>4, Writers

(* As long as FlushesServed holds, a stale copy never overwrites newer      *)
(* data: no step drops a change from a workspace, except one that an        *)
(* operation takes back, or in a workspace of a switch that a restart cut.  *)
THEOREM NoChangeIsLost == ASSUME SwitchesRespected PROVE Spec /\ [][FlushesServed]_vars => NoStaleOverwrite
<1>1. IInv /\ [Next]_vars => [\A w \in Workspaces \ interrupted' : canon[w].tabs \ retracted' \subseteq canon'[w].tabs]_vars
  BY NothingLost
<1> QED BY <1>1, InductiveInvariant, PTL DEF Spec, NoStaleOverwrite

-----------------------------------------------------------------------------
(* The other copies are told.  A copy that may save and is behind its       *)
(* workspace is on somebody's list: whoever made the present revision, a    *)
(* flush or an edit, has still to mark it or to bind it again.              *)
Behind(k) ==
  binding[k] # None /\ ~binding[k].stale /\ binding[k].rev # canon[binding[k].ws].rev

FlushTells(c, k) ==
  LET f == flush[c]  e == f.expected IN
  /\ f.pc \in {"bind", "others"} /\ e.ws = binding[k].ws /\ e.rev + 1 = canon[e.ws].rev
  /\ f.window = k => f.pc = "bind" /\ binding[k].rev = e.rev

TellsAll == {"look", "mark", "invalidate"}
TellsOwn == {"queued", "reserve", "flushSource", "own", "prepared", "swapped", "recover", "rebind", "rollback"}
OpTells(o, k) ==
  /\ op[o].kind = "edit" /\ op[o].ws = binding[k].ws /\ op[o].rev = canon[binding[k].ws].rev
  /\ op[o].pc \in TellsAll \/ (op[o].window = k /\ op[o].pc \in TellsOwn)

CopiesAreTold ==
  \A k \in Windows :
    Behind(k) => (\E c \in Flushers : FlushTells(c, k)) \/ \E o \in Ops : OpTells(o, k)

(* The window whose flush is about to save is not behind, as long as it is  *)
(* bound to that workspace and may save.                                    *)
SavesFromCurrent ==
  \A c \in Flushers :
    LET b == binding[flush[c].window]  e == flush[c].expected IN
    flush[c].pc = "save" /\ b # None /\ b.ws = e.ws => b.stale \/ b.rev = e.rev

(* Only a switch to a workspace that comes from another has a flush of its  *)
(* own.                                                                     *)
SourceFlushes ==
  \A o \in Ops :
    op[o].pc = "flushSource" /\ flush[o].pc # "idle" => op[o].kind = "switch" /\ op[o].source # None

Telling == CopiesAreTold /\ SavesFromCurrent /\ SourceFlushes

(* What the following relies on: the worker is not terminated, a workspace  *)
(* does not change between the tabs of a switch and its binding, and no tab *)
(* is excluded from a workspace (that operation tells no copy).  Where the  *)
(* edits come from elsewhere it holds by itself (ElsewhereInTime).          *)
ToldInTime ==
  /\ ~Crash
  /\ \A o \in Ops : /\ SwitchBind(o) => canon[op[o].ws].rev = op[o].plan.rev
                    /\ OpWrite(o) => op[o].kind # "exclude"

(* All that is told stays so, or the copy has learnt it.                    *)
FlushStill(c, k) == FlushTells(c, k) => FlushTells(c, k)' \/ ~Behind(k)'
OpStill(o, k) == OpTells(o, k) => OpTells(o, k)' \/ ~Behind(k)'

LEMMA StillTold ==
    ASSUME CopiesAreTold,
           \A k \in Windows : Behind(k)' => Behind(k),
           \A k \in Windows, c \in Flushers : FlushStill(c, k),
           \A k \in Windows, o \in Ops : OpStill(o, k)
    PROVE  CopiesAreTold'
  BY DEF CopiesAreTold, FlushStill, OpStill

(* A binding that is taken over, or is at the present revision.             *)
Learnt(k) == binding'[k] = binding[k] \/ ~Behind(k)'

LEMMA FlushKept ==
    ASSUME Shape, NEW c \in Flushers, NEW k \in Windows, Learnt(k),
           \A w \in Workspaces : canon'[w].rev = canon[w].rev,
           flush[c].pc \in {"bind", "others"} => flush'[c] = flush[c]
    PROVE  FlushStill(c, k)
<1>1. flush[c].pc \in {"bind", "others"} => flush[c].expected.ws \in Workspaces
  BY SpaceTypes DEF Active
<1> QED BY <1>1 DEF FlushStill, FlushTells, Learnt

LEMMA MarkedLearns ==
    ASSUME Shape, NEW k \in Windows,
           binding'[k] = binding[k] \/ (binding[k] # None /\ binding'[k] = [binding[k] EXCEPT !.stale = TRUE])
    PROVE  Learnt(k)
<1>1. binding[k] # None => binding[k] \in Binding
  BY SpaceTypes
<1> QED BY <1>1 DEF Learnt, Behind, Binding

LEMMA BoundLearns ==
    ASSUME ToldInTime, Shape, NEW o \in Ops, SwitchBind(o)
    PROVE  \A k \in Windows : Learnt(k) /\ (k = op[o].window => ~Behind(k)')
<1> PICK k \in Windows : k = op[o].window
  BY SpaceTypes DEF SwitchBind, Switching, SwitchPc
<1> DEFINE b == [ws |-> op[o].ws, rev |-> op[o].plan.rev, stale |-> FALSE]
<1>1. canon[op[o].ws].rev = op[o].plan.rev /\ UNCHANGED canon
  BY DEF ToldInTime, SwitchBind
<1>2. binding' = [binding EXCEPT ![k] = b]
  BY DEF SwitchBind
<1>3. binding'[k] = b /\ \A x \in Windows \ {k} : binding'[x] = binding[x]
  BY <1>2 DEF Shape, Types, TypeOK
<1>4. ~Behind(k)'
  BY <1>1, <1>3 DEF Behind
<1> QED BY <1>3, <1>4 DEF Learnt

LEMMA RestoredLearns ==
    ASSUME SwitchesRespected, Shape, Known, journal # None, UNCHANGED canon,
           binding' = [binding EXCEPT ![journal.window] = RestoredBinding]
    PROVE  \A k \in Windows : Learnt(k) /\ (k = journal.window => ~Behind(k)')
<1>1. journal.window \in Windows /\ journal \in Journals /\ JournalRev
  BY SpaceTypes DEF Shape, Types, OrNone, Known, Revisions
<1> PICK k \in Windows : k = journal.window
  BY <1>1
<1>2. binding'[k] = RestoredBinding /\ \A x \in Windows \ {k} : binding'[x] = binding[x]
  BY DEF Shape, Types, TypeOK
<1>3. RestoredBinding # None => RestoredBinding.stale \/ RestoredBinding.rev = canon[RestoredBinding.ws].rev
  BY <1>1, RestoredFacts
<1>4. ~Behind(k)'
  BY <1>2, <1>3 DEF Behind
<1> QED BY <1>2, <1>4 DEF Learnt

OpKept(o) ==
  \/ op'[o] = op[o]
  \/ op[o].pc \notin TellsAll \cup TellsOwn \/ op[o].kind # "edit"
  \/ /\ op'[o].kind = op[o].kind /\ op'[o].window = op[o].window
     /\ op'[o].ws = op[o].ws /\ op'[o].rev = op[o].rev
     /\ op[o].pc \in TellsAll => op'[o].pc \in TellsAll
     /\ op[o].pc \in TellsOwn => op'[o].pc \in TellsOwn

LEMMA KeptOp ==
    ASSUME Shape, NEW o \in Ops, NEW k \in Windows, Learnt(k),
           \A w \in Workspaces : canon'[w].rev = canon[w].rev, OpKept(o)
    PROVE  OpStill(o, k)
<1>1. CASE ~Behind(k)'
  BY <1>1 DEF OpStill
<1>2. CASE binding'[k] = binding[k] /\ OpTells(o, k)
  <2>1. op[o].ws \in Workspaces
    BY <1>2, SpaceTypes DEF OpTells, TellsAll, TellsOwn
  <2>2. canon'[binding'[k].ws].rev = canon[binding[k].ws].rev
    BY <1>2, <2>1 DEF OpTells
  <2> QED BY <1>2, <2>2 DEF OpStill, OpTells, OpKept
<1> QED BY <1>1, <1>2 DEF OpStill, Learnt

(* The steps after which everybody who tells goes on telling.               *)
LEMMA QuietTold ==
    ASSUME Shape, CopiesAreTold,
           \A w \in Workspaces : canon'[w].rev = canon[w].rev,
           \A k \in Windows : Learnt(k),
           \A c \in Flushers : flush[c].pc \in {"bind", "others"} => flush'[c] = flush[c],
           \A o \in Ops : OpKept(o) \/ \A k \in Windows : OpStill(o, k)
    PROVE  CopiesAreTold'
<1>1. ASSUME NEW k \in Windows, Behind(k)' PROVE Behind(k)
  <2>1. binding'[k] = binding[k] /\ binding[k] # None
    BY <1>1 DEF Learnt, Behind
  <2>2. binding[k].ws \in Workspaces
    BY <2>1, SpaceTypes
  <2> QED BY <1>1, <2>1, <2>2 DEF Behind
<1>2. \A k \in Windows, c \in Flushers : FlushStill(c, k)
  BY FlushKept
<1>3. \A k \in Windows, o \in Ops : OpStill(o, k)
  BY KeptOp
<1> QED BY <1>1, <1>2, <1>3, StillTold


(* The steps of a flush.                                                    *)
LEMMA FlushTold ==
    ASSUME SwitchesRespected, Shape, Known, CopiesAreTold, NEW c \in Flushers, FlushStep(c), ~FlushSave(c)
    PROVE  CopiesAreTold'
<1>1. UNCHANGED <<canon, op>>
  BY DEF FlushStep, FlushSnapshot, FlushCapture, FlushCommit, FlushRebind, FlushMarkOthers, FlushFlag, store
<1>2. \A o \in Ops : OpKept(o)
  BY <1>1 DEF OpKept
<1>3. \A d \in Flushers \ {c} : flush'[d] = flush[d]
  BY DEF FlushStep, FlushSnapshot, FlushCapture, FlushCommit, FlushSave, FlushRebind, FlushMarkOthers, FlushFlag,
         Shape, Types
<1>4. CASE FlushSnapshot(c) \/ FlushCapture(c) \/ FlushCommit(c)
  <2>1. UNCHANGED binding /\ flush[c].pc \notin {"bind", "others"}
    BY <1>4 DEF FlushSnapshot, FlushCapture, FlushCommit, store
  <2>2. \A k \in Windows : Learnt(k)
    BY <2>1 DEF Learnt
  <2> QED BY <1>1, <1>2, <1>3, <2>1, <2>2, QuietTold
<1>5. CASE FlushRebind(c)
  <2>0. flush[c].window \in Windows /\ flush[c].expected \in Binding /\ flush[c].pc = "bind" /\ Active(c)
    BY <1>5, SpaceTypes DEF FlushRebind, Active
  <2> PICK k \in Windows, e \in Binding : flush[c].window = k /\ flush[c].expected = e
    BY <2>0
  <2>1. FlushRev(c) /\ flush[c] \in Flushes
    BY DEF Known, Revisions, Shape, Types
  <2>2. e.ws \in Workspaces /\ e.rev \in Nat /\ e.rev < canon[e.ws].rev /\ canon[e.ws].rev \in Nat
    BY <2>0, <2>1, SpaceTypes DEF FlushRev
  <2>3. flush'[c].pc = "others" /\ flush'[c].window = k /\ flush'[c].expected = e
    BY <1>5, <2>1 DEF FlushRebind, Shape, Types, Flushes
  <2>4. \A x \in Windows \ {k} : binding'[x] = binding[x]
    BY <1>5 DEF FlushRebind, Shape, Types, TypeOK
  <2>5. CASE ~Matches(binding[k], e)
    <3>1. UNCHANGED binding
      BY <1>5, <2>5 DEF FlushRebind
    <3>2. ASSUME NEW x \in Windows, FlushTells(c, x) PROVE FlushTells(c, x)' \/ ~Behind(x)'
      <4>1. CASE x = k
        BY <1>1, <2>0, <2>2, <2>5, <3>1, <3>2, <4>1 DEF FlushTells, Matches, Behind
      <4>2. CASE x # k
        BY <1>1, <2>3, <3>1, <3>2, <4>2 DEF FlushTells
      <4> QED BY <4>1, <4>2
    <3>3. ASSUME NEW x \in Windows, NEW d \in Flushers PROVE FlushStill(d, x)
      BY <1>1, <1>3, <3>1, <3>2 DEF FlushStill, FlushTells
    <3>4. \A x \in Windows : (Behind(x)' => Behind(x)) /\ \A o \in Ops : OpStill(o, x)
      BY <1>1, <3>1 DEF Behind, OpStill, OpTells
    <3> QED BY <3>3, <3>4, StillTold
  <2>6. CASE Matches(binding[k], e)
    <3>1. binding[k] # None /\ binding[k] \in Binding /\ binding[k].ws = e.ws /\ binding[k].rev = e.rev /\ ~binding[k].stale
      BY <2>6, SpaceTypes DEF Matches
    <3>2. binding'[k] = [binding[k] EXCEPT !.rev = e.rev + 1]
      BY <1>5, <2>6 DEF FlushRebind, Shape, Types, TypeOK
    <3>3. binding'[k].ws = e.ws /\ binding'[k].rev = e.rev + 1
      BY <3>1, <3>2 DEF Binding
    <3>4. Behind(k)
      BY <2>2, <3>1 DEF Behind
    <3>5. \A x \in Windows : binding'[x].ws = binding[x].ws
      BY <2>4, <3>1, <3>3
    <3>6. \A x \in Windows : Behind(x)' => Behind(x)
      BY <1>1, <2>4, <3>4 DEF Behind
    <3>7. e.rev + 1 = canon[e.ws].rev => ~Behind(k)'
      BY <1>1, <3>3 DEF Behind
    <3>8. ASSUME NEW x \in Windows, NEW d \in Flushers, FlushTells(d, x) PROVE FlushTells(d, x)' \/ ~Behind(x)'
      <4>1. CASE x = k /\ flush[d].window = k
        <5>1. flush[d].expected.ws = e.ws /\ flush[d].expected.rev = e.rev /\ e.rev + 1 = canon[e.ws].rev
          BY <3>1, <3>8, <4>1 DEF FlushTells
        <5> QED BY <3>7, <4>1, <5>1
      <4>2. CASE x # k /\ flush[d].window = x
        BY <1>1, <1>3, <2>4, <3>8, <4>2 DEF FlushTells
      <4>3. CASE flush[d].window # x
        <5>1. flush'[d].pc \in {"bind", "others"} /\ flush'[d].window # x /\ flush'[d].expected = flush[d].expected
          BY <1>3, <2>3, <3>8, <4>3 DEF FlushTells
        <5> QED BY <1>1, <3>5, <3>8, <5>1 DEF FlushTells
      <4> QED BY <4>1, <4>2, <4>3
    <3>9. \A x \in Windows, o \in Ops : OpStill(o, x)
      BY <1>1, <3>5 DEF OpStill, OpTells
    <3> QED BY <3>6, <3>8, <3>9, StillTold DEF FlushStill
  <2> QED BY <2>5, <2>6
<1>6. CASE FlushMarkOthers(c)
  <2>0. flush[c].pc = "others" /\ flush[c].expected \in Binding
    BY <1>6, SpaceTypes DEF FlushMarkOthers, Active
  <2>1. ASSUME NEW x \in Windows, x # flush[c].window, binding[x] # None, binding[x].ws = flush[c].expected.ws
        PROVE  ~Behind(x)'
    <3>1. binding'[x] = [binding[x] EXCEPT !.stale = TRUE] /\ binding[x] \in Binding
      BY <1>6, <2>1, SpaceTypes DEF FlushMarkOthers, OthersStale
    <3> QED BY <3>1 DEF Behind, Binding
  <2>2. ASSUME NEW x \in Windows PROVE Learnt(x)
    BY <1>6, <2>1 DEF Learnt, FlushMarkOthers, OthersStale
  <2>3. \A x \in Windows : Behind(x)' => Behind(x)
    BY <1>1, <2>2 DEF Learnt, Behind
  <2>4. ASSUME NEW x \in Windows, FlushTells(c, x) PROVE ~Behind(x)'
    <3>1. x # flush[c].window /\ flush[c].expected.ws = binding[x].ws
      BY <2>0, <2>4 DEF FlushTells
    <3>2. CASE binding[x] = None
      BY <1>6, <3>2 DEF FlushMarkOthers, OthersStale, Behind
    <3>3. CASE binding[x] # None
      BY <2>1, <3>1, <3>3
    <3> QED BY <3>2, <3>3
  <2>5. ASSUME NEW x \in Windows, NEW d \in Flushers \ {c} PROVE FlushStill(d, x)
    BY <1>1, <1>3, <2>2, FlushKept
  <2>6. \A x \in Windows, o \in Ops : OpStill(o, x)
    BY <1>1, <1>2, <2>2, KeptOp
  <2> QED BY <2>3, <2>4, <2>5, <2>6, StillTold DEF FlushStill
<1>7. CASE FlushFlag(c)
  <2>1. flush[c].pc = "flag"
    BY <1>7 DEF FlushFlag
  <2>2. ASSUME NEW x \in Windows PROVE Learnt(x)
    <3>1. binding'[x] = binding[x] \/ (binding[x] # None /\ binding'[x] = [binding[x] EXCEPT !.stale = TRUE])
      BY <1>7 DEF FlushFlag, Matches, Shape, Types, TypeOK
    <3>2. binding[x] # None => binding[x] \in Binding
      BY SpaceTypes
    <3> QED BY <3>1, <3>2 DEF Learnt, Behind, Binding
  <2> QED BY <1>1, <1>2, <1>3, <2>1, <2>2, QuietTold
<1> QED BY <1>4, <1>5, <1>6, <1>7 DEF FlushStep

(* The saving itself: from now on the flush has to tell everybody.          *)
LEMMA SaveTold ==
    ASSUME Shape, Known, Telling, NEW c \in Flushers, FlushSave(c)
    PROVE  CopiesAreTold'
<1>0. flush[c].expected \in Binding /\ flush[c].pc = "save" /\ flush[c].window \in Windows
  BY SpaceTypes DEF FlushSave, Active
<1> PICK e \in Binding : flush[c].expected = e
  BY <1>0
<1>1. UNCHANGED <<binding, op>> /\ \A d \in Flushers \ {c} : flush'[d] = flush[d]
  BY DEF FlushSave, Shape, Types
<1>2. flush'[c].pc = "bind" /\ flush'[c].window = flush[c].window /\ flush'[c].expected = e
  BY DEF FlushSave, Shape, Types, Flushes
<1>3. e.ws \in Workspaces /\ e.rev = canon[e.ws].rev /\ e.rev \in Nat
  BY <1>0 DEF Known, Revisions, FlushRev, Binding
<1>4. canon'[e.ws].rev = e.rev + 1 /\ \A w \in Workspaces \ {e.ws} : canon'[w] = canon[w]
  BY <1>3 DEF FlushSave, Shape, Types, TypeOK
<1>5. ASSUME NEW k \in Windows, Behind(k)'
      PROVE  (\E d \in Flushers : FlushTells(d, k)') \/ \E o \in Ops : OpTells(o, k)'
  <2>1. binding[k] # None /\ ~binding[k].stale /\ binding[k].ws \in Workspaces
    BY <1>1, <1>5, SpaceTypes DEF Behind
  <2>2. CASE binding[k].ws = e.ws
    <3>1. flush[c].window = k => binding[k].rev = e.rev
      BY <1>0, <2>1, <2>2 DEF Telling, SavesFromCurrent
    <3>2. FlushTells(c, k)'
      BY <1>1, <1>2, <1>4, <2>2, <3>1 DEF FlushTells
    <3> QED BY <3>2
  <2>3. CASE binding[k].ws # e.ws
    <3>1. canon'[binding[k].ws] = canon[binding[k].ws]
      BY <1>4, <2>1, <2>3
    <3>2. Behind(k)
      BY <1>1, <1>5, <2>1, <3>1 DEF Behind
    <3>3. ASSUME NEW d \in Flushers, FlushTells(d, k) PROVE FlushTells(d, k)'
      BY <1>0, <1>1, <3>1, <3>3 DEF FlushTells
    <3>4. \A o \in Ops : OpTells(o, k) => OpTells(o, k)'
      BY <1>1, <3>1 DEF OpTells
    <3> QED BY <3>2, <3>3, <3>4 DEF Telling, CopiesAreTold
  <2> QED BY <2>2, <2>3
<1> QED BY <1>5 DEF CopiesAreTold


(* The steps of the user and of the drain, and the beginning of operations. *)
LEMMA BeginningTold ==
    ASSUME Shape, NEW c \in Flushers, NEW k \in Windows, FlushBegin(c, k), flush[c].pc = "idle"
    PROVE  \A d \in Flushers : flush[d].pc \in {"bind", "others"} => flush'[d] = flush[d]
  BY Beginning DEF Shape, Types

LEMMA OutsideTold ==
    ASSUME Shape, CopiesAreTold, (\E k \in Windows : UserEdit(k) \/ TabsLoaded(k)) \/ DrainStep
    PROVE  CopiesAreTold'
<1>1. UNCHANGED <<canon, binding, op>>
  BY DEF UserEdit, TabsLoaded, DrainStep, DrainPass, DrainFlushed, DrainEnd, DrainNext, store
<1>2. ASSUME NEW d \in Flushers, flush[d].pc \in {"bind", "others"} PROVE flush'[d] = flush[d]
  <2>1. CASE \E k \in Windows : UserEdit(k) \/ TabsLoaded(k)
    BY <2>1 DEF UserEdit, TabsLoaded
  <2>2. CASE DrainPass \/ DrainEnd
    BY <2>2 DEF DrainPass, DrainEnd
  <2>3. CASE DrainFlushed
    BY <1>2, <2>3 DEF DrainFlushed, Shape, Types
  <2>4. ASSUME NEW k \in Windows, DrainNext(k) PROVE flush'[d] = flush[d]
    BY <1>2, <2>4, BeginningTold, Members DEF DrainNext
  <2> QED BY <2>1, <2>2, <2>3, <2>4 DEF DrainStep
<1> QED BY <1>1, <1>2, QuietTold DEF Learnt, OpKept

LEMMA OpBeginTold ==
    ASSUME Shape, CopiesAreTold, NEW o \in Ops, NEW m \in Menu, OpBegin(o, m)
    PROVE  CopiesAreTold'
<1>1. UNCHANGED <<canon, binding>> /\ op[o].pc = "idle" /\ flush[o].pc = "idle"
  BY IdleFlush DEF OpBegin, store
<1>2. \A p \in Ops \ {o} : op'[p] = op[p]
  BY DEF OpBegin, Shape, Types
<1>3. \A p \in Ops : OpKept(p)
  BY <1>1, <1>2 DEF OpKept, TellsAll, TellsOwn
<1>4. \A d \in Flushers : flush[d].pc \in {"bind", "others"} => flush'[d] = flush[d]
  <2>1. CASE UNCHANGED flush
    BY <2>1
  <2>2. CASE FlushBegin(o, m.window) /\ m.window # None
    BY <1>1, <2>2, BeginningTold, AutosaveConstants, Members
  <2> QED BY <2>1, <2>2 DEF OpBegin
<1> QED BY <1>1, <1>3, <1>4, QuietTold DEF Learnt

(* The steps of an operation outside its switch.                            *)
LEMMA OpWriteTold ==
    ASSUME ToldInTime, Shape, Known, CopiesAreTold, NEW o \in Ops, OpWrite(o)
    PROVE  CopiesAreTold'
<1>1. /\ UNCHANGED <<binding, flush>> /\ \A p \in Ops \ {o} : op'[p] = op[p]
      /\ op[o].pc = "write" /\ op[o].kind # "exclude" /\ op[o] \in Operations /\ op[o].ws \in Workspaces
  <2>1. UNCHANGED <<binding, flush>> /\ op[o].pc = "write"
    BY DEF OpWrite
  <2>2. \A p \in Ops \ {o} : op'[p] = op[p]
    BY DEF OpWrite, OpChange, OpDone, Shape, Types
  <2>3. op[o].kind # "exclude"
    BY DEF ToldInTime
  <2>4. op[o] \in Operations /\ op[o].ws \in Workspaces
    BY <2>1, SpaceTypes DEF Shape, Types
  <2> QED BY <2>1, <2>2, <2>3, <2>4
<1> PICK w \in Workspaces : op[o].ws = w
  BY <1>1
<1>2. \A p \in Ops : OpKept(p)
  BY <1>1 DEF OpKept, TellsAll, TellsOwn
<1>3. CASE OpChange(o) /\ op[o].kind = "edit"
  <2> DEFINE n == [op[o] EXCEPT !.pc = "look", !.tabs = canon[w].tabs, !.rev = canon[w].rev + 1,
                                !.change = edits + 1]
  <2>1. op' = [op EXCEPT ![o] = n]
    BY <1>3 DEF OpChange
  <2>2. op'[o].pc = "look" /\ op'[o].kind = "edit" /\ op'[o].ws = w /\ op'[o].rev = canon[w].rev + 1
    BY <1>1, <1>3, <2>1 DEF Shape, Types, Operations
  <2>3. canon'[w].rev = canon[w].rev + 1 /\ \A x \in Workspaces \ {w} : canon'[x] = canon[x]
    BY <1>3 DEF OpChange, Shape, Types, TypeOK
  <2>4. ASSUME NEW k \in Windows, Behind(k)'
        PROVE  (\E d \in Flushers : FlushTells(d, k)') \/ \E p \in Ops : OpTells(p, k)'
    <3>1. binding[k] # None /\ ~binding[k].stale /\ binding[k].ws \in Workspaces
      BY <1>1, <2>4, SpaceTypes DEF Behind
    <3>2. CASE binding[k].ws = w
      BY <1>1, <2>2, <2>3, <3>2 DEF OpTells, TellsAll
    <3>3. CASE binding[k].ws # w
      <4>1. canon'[binding[k].ws] = canon[binding[k].ws] /\ binding' = binding /\ flush' = flush
        BY <1>1, <2>3, <3>1, <3>3
      <4>2. Behind(k)
        BY <2>4, <3>1, <4>1 DEF Behind
      <4>3. \A d \in Flushers : FlushTells(d, k) => FlushTells(d, k)'
        BY <4>1 DEF FlushTells
      <4>4. ASSUME NEW p \in Ops, OpTells(p, k) PROVE OpTells(p, k)'
        BY <1>1, <4>1, <4>4 DEF OpTells, TellsAll, TellsOwn
      <4> QED BY <4>2, <4>3, <4>4 DEF CopiesAreTold
    <3> QED BY <3>2, <3>3
  <2> QED BY <2>4 DEF CopiesAreTold
<1>4. CASE \A x \in Workspaces : canon'[x].rev = canon[x].rev
  BY <1>1, <1>2, <1>4, QuietTold DEF Learnt
<1>5. ASSUME NEW b \in BOOLEAN, canon' = [canon EXCEPT ![w].alive = b]
      PROVE  \A x \in Workspaces : canon'[x].rev = canon[x].rev
  BY <1>5 DEF Shape, Types, TypeOK
<1> QED BY <1>1, <1>3, <1>4, <1>5 DEF OpWrite

LEMMA OpRollbackTold ==
    ASSUME Shape, Known, CopiesAreTold, NEW o \in Ops, OpRollback(o)
    PROVE  CopiesAreTold'
<1>1. /\ UNCHANGED <<binding, flush>> /\ \A p \in Ops \ {o} : op'[p] = op[p]
      /\ op[o].pc = "rollback" /\ op[o].kind = "edit" /\ op[o] \in Operations /\ op[o].ws \in Workspaces
  BY SpaceTypes DEF OpRollback, OpDone, Shape, Types, OpShapes, EditPcs
<1> PICK w \in Workspaces : op[o].ws = w
  BY <1>1
<1>2. CASE canon[w].rev = op[o].rev
  <2>1. op' = [op EXCEPT ![o] = [op[o] EXCEPT !.pc = "invalidate", !.rev = @ + 1]]
    BY <1>2 DEF OpRollback, Shape, Types
  <2>2. op'[o].pc = "invalidate" /\ op'[o].kind = "edit" /\ op'[o].ws = w /\ op'[o].rev = canon[w].rev + 1
    BY <1>1, <1>2, <2>1 DEF Shape, Types, Operations
  <2>3. canon'[w].rev = canon[w].rev + 1 /\ \A x \in Workspaces \ {w} : canon'[x] = canon[x]
    BY <1>2 DEF OpRollback, Shape, Types, TypeOK
  <2>4. ASSUME NEW k \in Windows, Behind(k)'
        PROVE  (\E d \in Flushers : FlushTells(d, k)') \/ \E p \in Ops : OpTells(p, k)'
    <3>1. binding[k] # None /\ ~binding[k].stale /\ binding[k].ws \in Workspaces
      BY <1>1, <2>4, SpaceTypes DEF Behind
    <3>2. CASE binding[k].ws = w
      BY <1>1, <2>2, <2>3, <3>2 DEF OpTells, TellsAll
    <3>3. CASE binding[k].ws # w
      <4>1. canon'[binding[k].ws] = canon[binding[k].ws] /\ binding' = binding /\ flush' = flush
        BY <1>1, <2>3, <3>1, <3>3
      <4>2. Behind(k)
        BY <2>4, <3>1, <4>1 DEF Behind
      <4>3. \A d \in Flushers : FlushTells(d, k) => FlushTells(d, k)'
        BY <4>1 DEF FlushTells
      <4>4. ASSUME NEW p \in Ops, OpTells(p, k) PROVE OpTells(p, k)'
        BY <1>1, <3>3, <4>1, <4>4 DEF OpTells
      <4> QED BY <4>2, <4>3, <4>4 DEF CopiesAreTold
    <3> QED BY <3>2, <3>3
  <2> QED BY <2>4 DEF CopiesAreTold
<1>3. CASE canon[w].rev # op[o].rev
  <2>1. UNCHANGED canon
    BY <1>3 DEF OpRollback
  <2>2. \A k \in Windows : OpStill(o, k)
    BY <1>3 DEF OpStill, OpTells
  <2> QED BY <1>1, <2>1, <2>2, QuietTold DEF Learnt, OpKept
<1> QED BY <1>2, <1>3

LEMMA OpMarkTold ==
    ASSUME Shape, Known, CopiesAreTold, NEW o \in Ops, OpMark(o) \/ OpInvalidate(o)
    PROVE  CopiesAreTold'
<1>1. /\ UNCHANGED <<canon, flush>> /\ \A p \in Ops \ {o} : op'[p] = op[p]
      /\ op[o] \in Operations
  BY DEF OpMark, OpInvalidate, OpDone, Shape, Types
<1>2. ASSUME NEW x \in Windows
      PROVE  binding'[x] = binding[x] \/ (binding[x] # None /\ binding'[x] = [binding[x] EXCEPT !.stale = TRUE])
  BY DEF OpMark, OpInvalidate, OthersStale
<1>3. ASSUME NEW x \in Windows, binding[x] # None, binding'[x] = [binding[x] EXCEPT !.stale = TRUE] PROVE ~Behind(x)'
  <2>1. binding[x] \in Binding
    BY <1>3, SpaceTypes
  <2> QED BY <1>3, <2>1 DEF Behind, Binding
<1>4. \A x \in Windows : Learnt(x)
  BY <1>2, <1>3 DEF Learnt
<1>5. ASSUME NEW k \in Windows, OpTells(o, k), Behind(k)' PROVE OpTells(o, k)'
  <2>1. binding'[k] = binding[k] /\ binding[k] # None
    BY <1>3, <1>4, <1>5 DEF Learnt, Behind
  <2>2. CASE OpInvalidate(o)
    <3>1. binding[k].rev < op[o].rev
      <4>1. binding[k].rev # canon[binding[k].ws].rev
        BY <1>1, <1>5, <2>1 DEF Behind
      <4> QED BY <1>5, <2>1, <4>1, SpaceTypes DEF OpTells, Known, Revisions, BindingRev
    <3>2. binding'[k] = [binding[k] EXCEPT !.stale = TRUE]
      BY <1>5, <2>1, <2>2, <3>1 DEF OpInvalidate, OpTells
    <3> QED BY <1>3, <1>5, <2>1, <3>2
  <2>3. CASE OpMark(o)
    <3> DEFINE own == op[o].source # None /\ op[o].source.ws = op[o].ws
    <3>1. k = op[o].window /\ own
      <4>1. ~(k # (IF own THEN op[o].window ELSE None))
        <5> SUFFICES ASSUME k # (IF own THEN op[o].window ELSE None) PROVE FALSE
          OBVIOUS
        <5>1. binding'[k] = [binding[k] EXCEPT !.stale = TRUE]
          BY <1>5, <2>1, <2>3 DEF OpMark, OthersStale, OpTells
        <5> QED BY <1>3, <1>5, <2>1, <5>1
      <4> QED BY <4>1, Members
    <3>2. op' = [op EXCEPT ![o] = [op[o] EXCEPT !.pc = "queued"]]
      BY <2>3, <3>1 DEF OpMark, Shape, Types
    <3>3. op'[o].pc = "queued" /\ op'[o].kind = op[o].kind /\ op'[o].ws = op[o].ws /\ op'[o].rev = op[o].rev
          /\ op'[o].window = op[o].window
      BY <1>1, <3>2 DEF Shape, Types, Operations
    <3> QED BY <1>1, <1>5, <2>1, <3>1, <3>3 DEF OpTells, TellsOwn
  <2> QED BY <2>2, <2>3
<1>6. \A p \in Ops : OpKept(p) \/ \A k \in Windows : OpStill(p, k)
  BY <1>1, <1>5 DEF OpKept, OpStill
<1> QED BY <1>1, <1>4, <1>6, QuietTold

(* What is left of an operation that goes on.                               *)
Onward(o, pc, source, plan) ==
  \/ op' = [op EXCEPT ![o].pc = pc, ![o].source = source]
  \/ op' = [op EXCEPT ![o].pc = pc, ![o].plan = plan]
  \/ op' = [op EXCEPT ![o].pc = pc]

LEMMA SameOperation ==
    ASSUME Shape, NEW o \in Ops, NEW pc, NEW source, NEW plan,
           Onward(o, pc, source, plan)
    PROVE  /\ op'[o].pc = pc /\ op'[o].kind = op[o].kind /\ op'[o].window = op[o].window /\ op'[o].ws = op[o].ws
           /\ op'[o].rev = op[o].rev /\ \A p \in Ops \ {o} : op'[p] = op[p]
<1>1. op[o] \in Operations
  BY DEF Shape, Types
<1>2. \A p \in Ops \ {o} : op'[p] = op[p]
  BY DEF Onward, Shape, Types
<1>3. CASE op' = [op EXCEPT ![o].pc = pc, ![o].source = source]
  <2>1. op' = [op EXCEPT ![o] = [op[o] EXCEPT !.pc = pc, !.source = source]]
    BY <1>3 DEF Shape, Types
  <2>2. op'[o] = [op[o] EXCEPT !.pc = pc, !.source = source]
    BY <2>1 DEF Shape, Types
  <2>3. op'[o].pc = pc /\ op'[o].kind = op[o].kind /\ op'[o].window = op[o].window /\ op'[o].ws = op[o].ws
        /\ op'[o].rev = op[o].rev
    BY <1>1, <2>2 DEF Operations
  <2> QED BY <1>2, <2>3
<1>4. CASE op' = [op EXCEPT ![o].pc = pc, ![o].plan = plan]
  <2>1. op' = [op EXCEPT ![o] = [op[o] EXCEPT !.pc = pc, !.plan = plan]]
    BY <1>4 DEF Shape, Types
  <2>2. op'[o] = [op[o] EXCEPT !.pc = pc, !.plan = plan]
    BY <2>1 DEF Shape, Types
  <2>3. op'[o].pc = pc /\ op'[o].kind = op[o].kind /\ op'[o].window = op[o].window /\ op'[o].ws = op[o].ws
        /\ op'[o].rev = op[o].rev
    BY <1>1, <2>2 DEF Operations
  <2> QED BY <1>2, <2>3
<1>5. CASE op' = [op EXCEPT ![o].pc = pc]
  <2>1. op' = [op EXCEPT ![o] = [op[o] EXCEPT !.pc = pc]]
    BY <1>5 DEF Shape, Types
  <2>2. op'[o] = [op[o] EXCEPT !.pc = pc]
    BY <2>1 DEF Shape, Types
  <2>3. op'[o].pc = pc /\ op'[o].kind = op[o].kind /\ op'[o].window = op[o].window /\ op'[o].ws = op[o].ws
        /\ op'[o].rev = op[o].rev
    BY <1>1, <2>2 DEF Operations
  <2> QED BY <1>2, <2>3
<1> QED BY <1>2, <1>3, <1>4, <1>5 DEF Onward

(* An operation goes on, for the same edit.                                 *)
LEMMA OnwardTold ==
    ASSUME Shape, CopiesAreTold, NEW o \in Ops, NEW pc, NEW source, NEW plan,
           Onward(o, pc, source, plan),
           op[o].pc \in TellsOwn => pc \in TellsOwn, op[o].pc \in TellsAll => pc \in TellsAll,
           UNCHANGED canon, \A k \in Windows : Learnt(k),
           \A d \in Flushers : flush[d].pc \in {"bind", "others"} => flush'[d] = flush[d]
    PROVE  CopiesAreTold'
<1>1. /\ op'[o].pc = pc /\ op'[o].kind = op[o].kind /\ op'[o].window = op[o].window /\ op'[o].ws = op[o].ws
      /\ op'[o].rev = op[o].rev /\ \A p \in Ops \ {o} : op'[p] = op[p]
  BY SameOperation
<1>2. OpKept(o)
  BY <1>1 DEF OpKept
<1> QED BY <1>1, <1>2, QuietTold DEF OpKept

LEMMA OpTold ==
    ASSUME ToldInTime, Shape, Known, CopiesAreTold, NEW o \in Ops, OpStep(o)
    PROVE  CopiesAreTold'
<1>1. CASE OpFlushed(o)
  <2>1. UNCHANGED <<canon, binding>> /\ op[o].pc = "flush" /\ flush[o].pc = "ended"
    BY <1>1 DEF OpFlushed, store
  <2>2. (\A p \in Ops \ {o} : op'[p] = op[p]) /\ (\A d \in Flushers \ {o} : flush'[d] = flush[d])
    BY <1>1 DEF OpFlushed, OpDone, Shape, Types
  <2>3. \A p \in Ops : OpKept(p)
    BY <2>1, <2>2 DEF OpKept, TellsAll, TellsOwn
  <2> QED BY <2>1, <2>2, <2>3, QuietTold DEF Learnt
<1>2. CASE OpLook(o)
  <2>1. UNCHANGED <<canon, binding, flush>> /\ op[o].pc = "look"
    BY <1>2 DEF OpLook, store
  <2> PICK s : op' = [op EXCEPT ![o].pc = "mark", ![o].source = s]
    BY <1>2 DEF OpLook
  <2>2. Onward(o, "mark", s, None)
    BY DEF Onward
  <2> QED BY <2>1, <2>2, OnwardTold DEF Learnt, TellsAll, TellsOwn
<1> QED BY <1>1, <1>2, OpWriteTold, OpMarkTold, OpRollbackTold DEF OpStep


(* The steps of a switch: it tells its own window by binding it again.      *)
LEMMA EndTold ==
    ASSUME Shape, NEW o \in Ops, Switching(o), NEW success, NEW discard, SwitchEnd(o, success, discard),
           NEW k \in Windows, binding'[k] = binding[k], UNCHANGED canon,
           op[o].pc \in TellsOwn,
           success /\ op[o].window = k => ~Behind(k)
    PROVE  OpStill(o, k) /\ \A p \in Ops \ {o} : op'[p] = op[p]
<1>1. PICK n \in Operations :
             /\ op' = [op EXCEPT ![o] = n] /\ n.pc \in {"done", "rollback"}
             /\ n.pc = "rollback" => /\ op[o].kind = "edit" /\ n.kind = "edit" /\ n.ws = op[o].ws
                                     /\ n.window = op[o].window /\ n.rev = op[o].rev
  BY Ending
<1>2. op'[o] = n /\ \A p \in Ops \ {o} : op'[p] = op[p]
  BY <1>1 DEF Shape, Types
<1>3. ASSUME OpTells(o, k) PROVE OpTells(o, k)' \/ ~Behind(k)'
  <2>1. op[o].window = k /\ op[o].kind = "edit"
    BY <1>3 DEF OpTells, TellsAll, TellsOwn
  <2>2. CASE success
    BY <2>1, <2>2 DEF Behind
  <2>3. CASE ~success
    <3>1. op' = [op EXCEPT ![o].pc = "rollback", ![o].source = None]
      BY <2>1, <2>3 DEF SwitchEnd
    <3>2. n.pc = "rollback"
      <4>1. op' = [op EXCEPT ![o] = [op[o] EXCEPT !.pc = "rollback", !.source = None]]
        BY <3>1 DEF Shape, Types
      <4>2. op'[o] = [op[o] EXCEPT !.pc = "rollback", !.source = None] /\ op[o] \in Operations
        BY <4>1 DEF Shape, Types
      <4> QED BY <1>2, <4>2 DEF Operations
    <3> QED BY <1>1, <1>2, <1>3, <2>1, <3>2 DEF OpTells, TellsOwn
  <2> QED BY <2>2, <2>3
<1> QED BY <1>2, <1>3 DEF OpStill

LEMMA SwitchEarlyTold ==
    ASSUME Shape, CopiesAreTold, SourceFlushes, NEW o \in Ops, SwitchBegin(o) \/ SwitchReserve(o) \/ SwitchFlush(o) \/ SwitchFlushed(o)
    PROVE  CopiesAreTold'
<1>1. UNCHANGED <<canon, binding>>
  BY DEF SwitchBegin, SwitchReserve, SwitchFlush, SwitchFlushed, store
<1>2. \A k \in Windows : Learnt(k)
  BY <1>1 DEF Learnt
<1>3. CASE SwitchBegin(o)
  <2>1. op' = [op EXCEPT ![o].pc = "reserve", ![o].source = binding[op[o].window]] /\ UNCHANGED flush /\ op[o].pc = "queued"
    BY <1>3 DEF SwitchBegin
  <2>2. Onward(o, "reserve", binding[op[o].window], None)
    BY <2>1 DEF Onward
  <2> QED BY <1>1, <1>2, <2>1, <2>2, OnwardTold DEF TellsOwn, TellsAll
<1>4. CASE SwitchReserve(o)
  <2>1. UNCHANGED flush /\ op[o].pc = "reserve" /\ Switching(o)
    BY <1>4 DEF SwitchReserve, Switching, SwitchPc
  <2>2. CASE op' = [op EXCEPT ![o].pc = "flushSource"]
    <3>1. Onward(o, "flushSource", None, None)
      BY <2>2 DEF Onward
    <3> QED BY <1>1, <1>2, <2>1, <3>1, OnwardTold DEF TellsOwn, TellsAll
  <2>3. CASE SwitchEnd(o, FALSE, FALSE)
    <3>1. (\A k \in Windows : OpStill(o, k)) /\ \A k \in Windows, p \in Ops \ {o} : op'[p] = op[p]
      BY <1>1, <2>1, <2>3, EndTold DEF TellsOwn
    <3>2. \A p \in Ops : OpKept(p) \/ \A k \in Windows : OpStill(p, k)
      BY <3>1 DEF OpKept
    <3> QED BY <1>1, <1>2, <2>1, <3>2, QuietTold
  <2> QED BY <1>4, <2>2, <2>3 DEF SwitchReserve
<1>5. CASE SwitchFlush(o)
  <2>1. UNCHANGED op /\ flush[o].pc = "idle" /\ FlushBegin(o, op[o].window) /\ op[o].pc \in SwitchPc
    BY <1>5 DEF SwitchFlush, SwitchPc
  <2>2. op[o].window \in Windows /\ o \in Flushers
    BY <2>1, Members DEF Shape, OpShapes
  <2>3. \A d \in Flushers : flush[d].pc \in {"bind", "others"} => flush'[d] = flush[d]
    BY <2>1, <2>2, BeginningTold
  <2> QED BY <1>1, <1>2, <2>1, <2>3, QuietTold DEF OpKept
<1>6. CASE SwitchFlushed(o)
  <2>1. flush' = [flush EXCEPT ![o] = NoFlush] /\ op[o].pc = "flushSource"
    BY <1>6 DEF SwitchFlushed
  <2>2. flush[o].pc \in {"idle", "ended"}
    BY <1>6 DEF SwitchFlushed, SourceFlushes
  <2>3. \A d \in Flushers : flush[d].pc \in {"bind", "others"} => flush'[d] = flush[d]
    BY <2>1, <2>2 DEF Shape, Types
  <2> DEFINE s == IF flush[o].pc = "ended" THEN binding[op[o].window] ELSE op[o].source
  <2>4. op' = [op EXCEPT ![o].pc = "own", ![o].source = s]
    BY <1>6 DEF SwitchFlushed, Shape, Types
  <2> HIDE DEF s
  <2>5. Onward(o, "own", s, None)
    BY <2>4 DEF Onward
  <2> QED BY <1>1, <1>2, <2>1, <2>3, <2>5, OnwardTold DEF TellsOwn, TellsAll
<1> QED BY <1>3, <1>4, <1>5, <1>6


LEMMA SwitchOwnTold ==
    ASSUME Shape, Known, CopiesAreTold, NEW o \in Ops, SwitchOwn(o)
    PROVE  CopiesAreTold'
<1> DEFINE w == op[o].ws  src == op[o].source  k == op[o].window
           current == src # None /\ src.ws = w /\ ~src.stale /\ src.rev = canon[w].rev
<1>1. UNCHANGED <<canon, binding, flush>> /\ op[o].pc = "own" /\ Switching(o)
  BY DEF SwitchOwn, Switching, SwitchPc
<1>2. k \in Windows /\ w \in Workspaces /\ canon[w].rev \in Nat
  BY <1>1, SpaceTypes
<1>3. CASE SwitchEnd(o, canon[w].alive, TRUE) /\ (~canon[w].alive \/ current)
  <2>1. canon[w].alive => ~Behind(k)
    <3> SUFFICES ASSUME current, binding[k] # None PROVE binding[k].rev = canon[binding[k].ws].rev
      BY <1>3 DEF Behind
    <3>1. binding[k].ws = w /\ binding[k].rev >= canon[w].rev
      BY <1>1 DEF Known, SourceIsBound, SourceOf, Early
    <3>2. binding[k].rev \in Nat /\ binding[k].rev <= canon[w].rev
      BY <1>2, <3>1, SpaceTypes DEF Known, Revisions, BindingRev
    <3> QED BY <1>2, <3>1, <3>2
  <2> DEFINE alive == canon[w].alive
  <2>2. SwitchEnd(o, alive, TRUE) /\ op[o].pc \in TellsOwn
    BY <1>1, <1>3 DEF TellsOwn
  <2>3. alive => ~Behind(k)
    BY <2>1
  <2> HIDE DEF alive, w, src
  <2>4. ASSUME NEW x \in Windows PROVE OpStill(o, x) /\ \A p \in Ops \ {o} : op'[p] = op[p]
    <3>1. alive /\ op[o].window = x => ~Behind(x)
      BY <2>3
    <3> QED BY <1>1, <2>2, <3>1, EndTold
  <2> QED BY <1>1, <1>2, <2>4, QuietTold DEF Learnt, OpKept
<1>4. CASE op' = [op EXCEPT ![o].pc = "prepared", ![o].plan = [tabs |-> canon[w].tabs, rev |-> canon[w].rev]]
  <2> DEFINE plan == [tabs |-> canon[w].tabs, rev |-> canon[w].rev]
  <2>1. op' = [op EXCEPT ![o].pc = "prepared", ![o].plan = plan]
    BY <1>4
  <2> HIDE DEF w, plan
  <2>2. Onward(o, "prepared", None, plan)
    BY <2>1 DEF Onward
  <2> QED BY <1>1, <2>2, OnwardTold DEF Learnt, TellsAll, TellsOwn
<1> QED BY <1>3, <1>4 DEF SwitchOwn

LEMMA SwitchLateTold ==
    ASSUME ToldInTime, SwitchesRespected, Shape, Known, CopiesAreTold, NEW o \in Ops,
           SwitchSwap(o) \/ SwitchBind(o) \/ SwitchDone(o) \/ SwitchFail(o) \/ SwitchRestore(o) \/ SwitchRebind(o)
    PROVE  CopiesAreTold'
<1>1. UNCHANGED <<canon, flush>> /\ op[o].pc \in Late
  BY DEF SwitchSwap, SwitchBind, SwitchDone, SwitchFail, SwitchRestore, SwitchRebind, store, Late
<1>2. /\ Switching(o) /\ op[o].window \in Windows /\ op[o].ws \in Workspaces
      /\ journal # None /\ journal \in Journals /\ journal.window = op[o].window /\ JournalRev
  BY <1>1, LateKnows
<1> PICK k \in Windows : k = op[o].window
  BY <1>2
<1>3. CASE SwitchSwap(o) \/ SwitchFail(o) \/ SwitchRestore(o)
  <2>1. UNCHANGED binding
    BY <1>3 DEF SwitchSwap, SwitchFail, SwitchRestore, store
  <2>2. PICK pc \in {"swapped", "recover", "rebind"} : op' = [op EXCEPT ![o].pc = pc]
    BY <1>3 DEF SwitchSwap, SwitchFail, SwitchRestore
  <2>3. Onward(o, pc, None, None)
    BY <2>2 DEF Onward
  <2> QED BY <1>1, <2>1, <2>3, OnwardTold DEF Learnt, TellsAll, TellsOwn, Late
<1>4. CASE SwitchBind(o)
  <2>1. ~Behind(k)' /\ \A x \in Windows : Learnt(x)
    BY <1>4, BoundLearns
  <2>2. \A p \in Ops \ {o} : op'[p] = op[p]
    BY <1>4 DEF SwitchBind, Shape, Types
  <2>3. \A x \in Windows : OpStill(o, x)
    BY <1>4, <2>1 DEF SwitchBind, OpStill, OpTells, TellsAll
  <2> QED BY <1>1, <2>1, <2>2, <2>3, QuietTold DEF OpKept
<1>5. CASE SwitchDone(o)
  <2>1. UNCHANGED binding /\ op[o].pc = "bound" /\ SwitchEnd(o, TRUE, TRUE)
    BY <1>5 DEF SwitchDone
  <2>2. \A p \in Ops \ {o} : op'[p] = op[p]
    BY <2>1 DEF SwitchEnd, OpDone, Shape, Types
  <2>3. \A p \in Ops : OpKept(p)
    BY <2>1, <2>2 DEF OpKept, TellsAll, TellsOwn
  <2> QED BY <1>1, <2>1, <2>3, QuietTold DEF Learnt
<1>6. CASE SwitchRebind(o)
  <2>1. ~Behind(k)' /\ \A x \in Windows : Learnt(x)
    BY <1>1, <1>2, <1>6, RestoredLearns DEF SwitchRebind
  <2>2. \A p \in Ops \ {o} : op'[p] = op[p]
    <3> PICK superseded \in BOOLEAN : SwitchEnd(o, superseded, TRUE)
      BY <1>6 DEF SwitchRebind
    <3> QED BY DEF SwitchEnd, OpDone, Shape, Types
  <2>3. \A x \in Windows : OpStill(o, x)
    BY <1>6, <2>1 DEF SwitchRebind, OpStill, OpTells, TellsAll
  <2> QED BY <1>1, <2>1, <2>2, <2>3, QuietTold DEF OpKept
<1> QED BY <1>3, <1>4, <1>5, <1>6

LEMMA RecoveryTold ==
    ASSUME SwitchesRespected, Shape, Known, CopiesAreTold, RecoverTabs \/ RecoverBinding
    PROVE  CopiesAreTold'
<1>1. UNCHANGED <<canon, flush, op>>
  BY DEF RecoverTabs, RecoverBinding, store
<1>2. CASE RecoverTabs
  BY <1>1, <1>2, QuietTold DEF RecoverTabs, store, Learnt, OpKept
<1>3. CASE RecoverBinding
  <2>1. \A x \in Windows : Learnt(x)
    BY <1>1, <1>3, RestoredLearns DEF RecoverBinding, RecoveryPending
  <2> QED BY <1>1, <2>1, QuietTold DEF OpKept
<1> QED BY <1>2, <1>3


(* What holds of a flush that is about to save.                             *)
LEMMA BindingsLearn ==
    ASSUME ToldInTime, SwitchesRespected, Shape, Known, [Next]_vars, \A c \in Flushers : ~FlushRebind(c)
    PROVE  UNCHANGED binding \/ (UNCHANGED canon /\ \A k \in Windows : Learnt(k))
<1>1. ASSUME NEW k \in Windows, UserEdit(k) \/ TabsLoaded(k) PROVE UNCHANGED binding
  BY <1>1 DEF UserEdit, TabsLoaded, store
<1>2. ASSUME NEW c \in Flushers, FlushStep(c)
      PROVE  UNCHANGED binding \/ (UNCHANGED canon /\ \A k \in Windows : Learnt(k))
  <2>1. CASE FlushMarkOthers(c) \/ FlushFlag(c)
    <3>1. ASSUME NEW k \in Windows
          PROVE  binding'[k] = binding[k] \/ (binding[k] # None /\ binding'[k] = [binding[k] EXCEPT !.stale = TRUE])
      BY <2>1 DEF FlushMarkOthers, FlushFlag, OthersStale, Matches, Shape, Types, TypeOK
    <3> QED BY <2>1, <3>1, MarkedLearns DEF FlushMarkOthers, FlushFlag
  <2>2. CASE FlushSnapshot(c) \/ FlushCapture(c) \/ FlushCommit(c) \/ FlushSave(c)
    BY <2>2 DEF FlushSnapshot, FlushCapture, FlushCommit, FlushSave, store
  <2> QED BY <1>2, <2>1, <2>2 DEF FlushStep
<1>3. ASSUME NEW o \in Ops, NEW m \in Menu, OpBegin(o, m) PROVE UNCHANGED binding
  BY <1>3 DEF OpBegin, store
<1>4. ASSUME NEW o \in Ops, OpStep(o)
      PROVE  UNCHANGED binding \/ (UNCHANGED canon /\ \A k \in Windows : Learnt(k))
  <2>1. CASE OpMark(o) \/ OpInvalidate(o)
    <3>1. ASSUME NEW k \in Windows
          PROVE  binding'[k] = binding[k] \/ (binding[k] # None /\ binding'[k] = [binding[k] EXCEPT !.stale = TRUE])
      BY <2>1 DEF OpMark, OpInvalidate, OthersStale
    <3> QED BY <2>1, <3>1, MarkedLearns DEF OpMark, OpInvalidate
  <2>2. CASE OpFlushed(o) \/ OpWrite(o) \/ OpLook(o) \/ OpRollback(o)
    BY <2>2 DEF OpFlushed, OpWrite, OpLook, OpRollback, store
  <2> QED BY <1>4, <2>1, <2>2 DEF OpStep
<1>5. ASSUME NEW o \in Ops, SwitchStep(o)
      PROVE  UNCHANGED binding \/ (UNCHANGED canon /\ \A k \in Windows : Learnt(k))
  <2>1. CASE SwitchBind(o)
    BY <2>1, BoundLearns DEF SwitchBind
  <2>2. CASE SwitchRebind(o)
    <3>1. journal # None
      BY <2>2, LateKnows DEF SwitchRebind, Late
    <3> QED BY <2>2, <3>1, RestoredLearns DEF SwitchRebind
  <2>3. CASE ~SwitchBind(o) /\ ~SwitchRebind(o)
    BY <1>5, <2>3 DEF SwitchStep, SwitchBegin, SwitchReserve, SwitchFlush, SwitchFlushed, SwitchOwn, SwitchSwap,
       SwitchDone, SwitchFail, SwitchRestore, store
  <2> QED BY <2>1, <2>2, <2>3
<1>6. CASE DrainStep
  BY <1>6 DEF DrainStep, DrainPass, DrainFlushed, DrainEnd, DrainNext, store
<1>7. CASE RecoverTabs
  BY <1>7 DEF RecoverTabs, store
<1>8. CASE RecoverBinding
  BY <1>8, RestoredLearns DEF RecoverBinding, RecoveryPending
<1>9. CASE UNCHANGED vars
  BY <1>9 DEF vars, store
<1>10. ~Crash
  BY DEF ToldInTime
<1> QED BY <1>1, <1>2, <1>3, <1>4, <1>5, <1>6, <1>7, <1>8, <1>9, <1>10 DEF Next

(* A flush gets to its saving by its commit only.                           *)
LEMMA SavesCommit ==
    ASSUME Shape, [Next]_vars, NEW c \in Flushers, flush'[c].pc = "save"
    PROVE  flush'[c] = flush[c] \/ FlushCommit(c)
<1>1. ASSUME NEW k \in Windows, UserEdit(k) \/ TabsLoaded(k) PROVE UNCHANGED flush
  BY <1>1 DEF UserEdit, TabsLoaded
<1>2. ASSUME NEW d \in Flushers, FlushStep(d) PROVE flush'[c] = flush[c] \/ FlushCommit(c)
  <2>1. CASE FlushCommit(d)
    BY <2>1 DEF FlushCommit, Shape, Types
  <2>2. CASE FlushSnapshot(d) \/ FlushRebind(d) \/ FlushSave(d)
    BY <2>2 DEF FlushSnapshot, FlushRebind, FlushSave, Shape, Types, Flushes
  <2>3. CASE FlushCapture(d) \/ FlushMarkOthers(d) \/ FlushFlag(d)
    BY <2>3 DEF FlushCapture, FlushMarkOthers, FlushFlag, Ended, Shape, Types, Flushes
  <2> QED BY <1>2, <2>1, <2>2, <2>3 DEF FlushStep
<1>3. ASSUME NEW d \in Flushers, NEW k \in Windows, FlushBegin(d, k) PROVE flush'[c] = flush[c]
  BY <1>3, Beginning DEF Shape, Types
<1>4. ASSUME NEW o \in Ops, NEW m \in Menu, OpBegin(o, m) PROVE flush'[c] = flush[c]
  BY <1>3, <1>4, AutosaveConstants, Members DEF OpBegin
<1>5. ASSUME NEW o \in Ops, OpStep(o) PROVE flush'[c] = flush[c]
  BY <1>5 DEF OpStep, OpFlushed, OpWrite, OpLook, OpMark, OpRollback, OpInvalidate, NoFlush, Shape, Types
<1>6. ASSUME NEW o \in Ops, SwitchStep(o) PROVE flush'[c] = flush[c]
  <2>1. CASE SwitchFlush(o)
    <3>1. op[o].window \in Windows /\ o \in Flushers
      BY <2>1, Members DEF SwitchFlush, SwitchPc, Shape, OpShapes
    <3> QED BY <1>3, <2>1, <3>1 DEF SwitchFlush
  <2>2. CASE SwitchFlushed(o)
    BY <2>2 DEF SwitchFlushed, NoFlush, Shape, Types
  <2>3. CASE ~SwitchFlush(o) /\ ~SwitchFlushed(o)
    BY <1>6, <2>3 DEF SwitchStep, SwitchBegin, SwitchReserve, SwitchOwn, SwitchSwap, SwitchBind, SwitchDone,
       SwitchFail, SwitchRestore, SwitchRebind
  <2> QED BY <2>1, <2>2, <2>3
<1>7. CASE DrainStep
  <2>1. CASE DrainPass \/ DrainEnd \/ DrainFlushed
    BY <2>1 DEF DrainPass, DrainEnd, DrainFlushed, NoFlush, Shape, Types
  <2>2. ASSUME NEW k \in Windows, DrainNext(k) PROVE flush'[c] = flush[c]
    BY <1>3, <2>2, Members DEF DrainNext
  <2> QED BY <1>7, <2>1, <2>2 DEF DrainStep
<1>8. CASE Crash \/ RecoverTabs \/ RecoverBinding
  BY <1>8 DEF Crash, RecoverTabs, RecoverBinding, NoFlush
<1>9. CASE UNCHANGED vars
  BY <1>9 DEF vars
<1> QED BY <1>1, <1>2, <1>4, <1>5, <1>6, <1>7, <1>8, <1>9 DEF Next

LEMMA SavesStay ==
    ASSUME ToldInTime, SwitchesRespected, Shape, Shape', Known, SavesFromCurrent, [Next]_vars
    PROVE  SavesFromCurrent'
<1> SUFFICES ASSUME NEW c \in Flushers, NEW k \in Windows, NEW e \in Binding,
                    flush'[c].pc = "save", flush'[c].window = k, flush'[c].expected = e,
                    binding'[k] # None, binding'[k].ws = e.ws
             PROVE  binding'[k].stale \/ binding'[k].rev = e.rev
  <2>1. \A c \in Flushers : flush'[c].pc = "save" => flush'[c].window \in Windows /\ flush'[c].expected \in Binding
    BY DEF Shape, FlushShapes, Active
  <2> QED BY <2>1 DEF SavesFromCurrent
<1>1. CASE FlushCommit(c)
  <2>1. UNCHANGED binding /\ flush' = [flush EXCEPT ![c].pc = "save"] /\ MayOverwrite(c)
    BY <1>1 DEF FlushCommit, Ended, Shape, Types, Flushes, store
  <2>2. flush[c].window = k /\ flush[c].expected = e
    BY <2>1 DEF Shape, Types, Flushes
  <2> QED BY <2>1, <2>2 DEF MayOverwrite, Matches
<1>2. CASE flush'[c] = flush[c]
  <2>1. flush[c].pc = "save" /\ flush[c].window = k /\ flush[c].expected = e
    BY <1>2
  <2>2. e.ws \in Workspaces /\ e.rev = canon[e.ws].rev
    BY <2>1 DEF Known, Revisions, FlushRev, Binding
  <2>3. binding[k] # None /\ binding[k].ws = e.ws => binding[k].stale \/ binding[k].rev = e.rev
    BY <2>1 DEF SavesFromCurrent
  <2>4. CASE UNCHANGED binding \/ (UNCHANGED canon /\ Learnt(k))
    BY <2>2, <2>3, <2>4 DEF Learnt, Behind
  <2>5. ASSUME NEW d \in Flushers, FlushRebind(d) PROVE binding'[k].stale \/ binding'[k].rev = e.rev
    <3>1. flush[d].expected \in Binding /\ flush[d].pc = "bind" /\ Active(d) /\ flush[d].window \in Windows
      BY <2>5, SpaceTypes DEF FlushRebind, Active
    <3> PICK g \in Binding : g = flush[d].expected
      BY <3>1
    <3>2. g.rev < canon[g.ws].rev
      BY <3>1 DEF Known, Revisions, FlushRev
    <3>3. CASE binding'[k] = binding[k]
      BY <2>3, <3>3
    <3>4. CASE binding'[k] # binding[k]
      <4>1. k = flush[d].window /\ Matches(binding[k], g)
        BY <2>5, <3>1, <3>4 DEF FlushRebind, Shape, Types, TypeOK
      <4>2. binding[k] # None /\ binding[k] \in Binding /\ binding[k].ws = g.ws /\ ~binding[k].stale /\ binding[k].rev = g.rev
        BY <4>1, SpaceTypes DEF Matches
      <4>3. binding'[k] = [binding[k] EXCEPT !.rev = g.rev + 1]
        BY <2>5, <4>1 DEF FlushRebind, Shape, Types, TypeOK
      <4>4. binding'[k].ws = g.ws
        BY <4>2, <4>3 DEF Binding
      <4>5. g.rev = e.rev /\ e.ws = g.ws /\ g.rev \in Nat
        BY <2>3, <4>2, <4>4 DEF Binding
      <4> QED BY <2>2, <3>2, <4>5
    <3> QED BY <3>3, <3>4
  <2> QED BY <2>4, <2>5, BindingsLearn
<1> QED BY <1>1, <1>2, SavesCommit


(* Only a switch begins a flush while its operation waits at its source.    *)
LEMMA SourcesStay ==
    ASSUME Shape, Shape', SourceFlushes, [Next]_vars
    PROVE  SourceFlushes'
<1> SUFFICES ASSUME NEW o \in Ops, op'[o].pc = "flushSource", flush'[o].pc # "idle"
             PROVE  op'[o].kind = "switch" /\ op'[o].source # None
  BY DEF SourceFlushes
<1>0. o \in Flushers
  BY Members
<1>1. CASE UNCHANGED op /\ (flush[o].pc = "idle" => flush'[o].pc = "idle")
  BY <1>1 DEF SourceFlushes
<1>2. ASSUME NEW k \in Windows, UserEdit(k) \/ TabsLoaded(k) PROVE UNCHANGED <<op, flush>>
  BY <1>2 DEF UserEdit, TabsLoaded
<1>3. ASSUME NEW c \in Flushers, FlushStep(c) PROVE UNCHANGED op /\ (flush[o].pc = "idle" => flush'[o].pc = "idle")
  <2>1. UNCHANGED op
    BY <1>3 DEF FlushStep, FlushSnapshot, FlushCapture, FlushCommit, FlushSave, FlushRebind, FlushMarkOthers, FlushFlag
  <2>2. flush[c].pc # "idle"
    BY <1>3 DEF FlushStep, FlushSnapshot, FlushCapture, FlushCommit, FlushSave, FlushRebind, FlushMarkOthers, FlushFlag
  <2>3. c # o => flush'[o] = flush[o]
    BY <1>0, <1>3 DEF FlushStep, FlushSnapshot, FlushCapture, FlushCommit, FlushSave, FlushRebind, FlushMarkOthers, FlushFlag,
       Shape, Types
  <2> QED BY <2>1, <2>2, <2>3
<1>4. CASE DrainStep
  <2>1. UNCHANGED op
    BY <1>4 DEF DrainStep, DrainPass, DrainFlushed, DrainEnd, DrainNext
  <2>2. flush'[o] = flush[o]
    <3>1. CASE DrainPass \/ DrainEnd
      BY <3>1 DEF DrainPass, DrainEnd
    <3>2. CASE DrainFlushed
      BY <1>0, <3>2, Members DEF DrainFlushed, Shape, Types
    <3>3. ASSUME NEW k \in Windows, DrainNext(k) PROVE flush'[o] = flush[o]
      BY <1>0, <3>3, Beginning, Members DEF DrainNext, Shape, Types
    <3> QED BY <1>4, <3>1, <3>2, <3>3 DEF DrainStep
  <2> QED BY <1>1, <2>1, <2>2
<1>5. CASE op'[o] = op[o] /\ flush'[o] = flush[o]
  BY <1>5 DEF SourceFlushes
<1>6. ASSUME NEW p \in Ops, p # o, (\E m \in Menu : OpBegin(p, m)) \/ OpStep(p) \/ SwitchStep(p)
      PROVE  op'[o] = op[o] /\ flush'[o] = flush[o]
  <2>0. p \in Flushers
    BY Members
  <2>1. ASSUME NEW m \in Menu, OpBegin(p, m) PROVE op'[o] = op[o] /\ flush'[o] = flush[o]
    <3>0. \E n : op' = [op EXCEPT ![p] = n]
      BY <2>1 DEF OpBegin
    <3>1. op'[o] = op[o]
      BY <1>6, <3>0 DEF Shape, Types
    <3>2. flush' = flush \/ (FlushBegin(p, m.window) /\ m.window \in Windows)
      BY <2>1, AutosaveConstants DEF OpBegin
    <3>3. flush'[o] = flush[o]
      BY <1>0, <1>6, <2>0, <3>2, Beginning DEF Shape, Types
    <3> QED BY <3>1, <3>3
  <2>2. CASE OpStep(p)
    BY <1>0, <1>6, <2>2 DEF OpStep, OpFlushed, OpWrite, OpChange, OpLook, OpMark, OpRollback, OpInvalidate, OpDone, Shape, Types
  <2>3. CASE SwitchStep(p)
    <3>1. op'[o] = op[o]
      BY <1>6, <2>3 DEF SwitchStep, SwitchBegin, SwitchReserve, SwitchFlush, SwitchFlushed, SwitchOwn, SwitchSwap, SwitchBind,
         SwitchDone, SwitchFail, SwitchRestore, SwitchRebind, SwitchEnd, OpDone, Shape, Types
    <3>2. CASE SwitchFlush(p)
      <4>1. op[p].window \in Windows
        BY <3>2 DEF SwitchFlush, SwitchPc, Shape, OpShapes
      <4>2. flush'[o] = flush[o]
        BY <1>0, <1>6, <2>0, <3>2, <4>1, Beginning DEF SwitchFlush, Shape, Types
      <4> QED BY <3>1, <4>2
    <3>3. CASE ~SwitchFlush(p)
      <4>1. flush'[o] = flush[o]
        BY <1>0, <1>6, <2>0, <2>3, <3>3 DEF SwitchStep, SwitchBegin, SwitchReserve, SwitchFlushed, SwitchOwn, SwitchSwap,
           SwitchBind, SwitchDone, SwitchFail, SwitchRestore, SwitchRebind, Shape, Types
      <4> QED BY <3>1, <4>1
    <3> QED BY <3>2, <3>3
  <2> QED BY <1>6, <2>1, <2>2, <2>3
<1>7. ASSUME (\E m \in Menu : OpBegin(o, m)) \/ OpStep(o) \/ (SwitchStep(o) /\ ~SwitchFlush(o)) PROVE FALSE
  <2>0. op[o] \in Operations /\ op \in [Ops -> Operations]
    BY DEF Shape, Types
  <2>1. ASSUME NEW n, op' = [op EXCEPT ![o] = n], n.pc # "flushSource" PROVE FALSE
    BY <2>0, <2>1
  <2>2. OpDone(o) => FALSE
    <3> DEFINE n == [NoOp EXCEPT !.pc = "done"]
    <3>1. n.pc = "done"
      BY DEF NoOp
    <3>2. OpDone(o) => op' = [op EXCEPT ![o] = n]
      BY DEF OpDone
    <3> HIDE DEF n
    <3> QED BY <2>1, <3>1, <3>2
  <2>3. ASSUME NEW pc, NEW source, NEW plan, pc # "flushSource", Onward(o, pc, source, plan)
        PROVE  FALSE
    BY <2>3, SameOperation
  <2>4. ASSUME NEW m \in Menu, OpBegin(o, m) PROVE FALSE
    <3> DEFINE start(pc) == [[NoOp EXCEPT !.kind = m.kind, !.window = m.window, !.ws = m.ws] EXCEPT !.pc = pc]
    <3>1. \A pc : start(pc).pc = pc
      BY DEF NoOp
    <3>2. PICK pc \in {"queued", "flush", "write"} : op' = [op EXCEPT ![o] = start(pc)]
      BY <2>4 DEF OpBegin
    <3> HIDE DEF start
    <3> QED BY <2>1, <3>1, <3>2
  <2>5. ASSUME OpChange(o) PROVE FALSE
    <3> DEFINE n == [op[o] EXCEPT !.pc = "look", !.tabs = canon[op[o].ws].tabs, !.rev = canon[op[o].ws].rev + 1,
                                  !.change = edits + 1]
    <3>1. n.pc = "look"
      BY <2>0 DEF Operations
    <3>2. op' = [op EXCEPT ![o] = n] \/ OpDone(o)
      BY <2>5 DEF OpChange, OpDone
    <3> HIDE DEF n
    <3> QED BY <2>1, <2>2, <3>1, <3>2
  <2>6. CASE OpRollback(o)
    <3> DEFINE n == [op[o] EXCEPT !.pc = "invalidate", !.rev = op[o].rev + 1]
    <3>1. n.pc = "invalidate"
      BY <2>0 DEF Operations
    <3>2. op' = [op EXCEPT ![o] = n] \/ OpDone(o)
      BY <2>0, <2>6 DEF OpRollback
    <3> HIDE DEF n
    <3> QED BY <2>1, <2>2, <3>1, <3>2
  <2>7. CASE OpLook(o)
    <3> PICK s : op' = [op EXCEPT ![o].pc = "mark", ![o].source = s]
      BY <2>7 DEF OpLook
    <3>1. Onward(o, "mark", s, None)
      BY DEF Onward
    <3> QED BY <2>3, <3>1
  <2>8. CASE OpFlushed(o) \/ OpWrite(o) \/ OpMark(o) \/ OpInvalidate(o)
    <3>1. OpDone(o) \/ OpChange(o) \/ op' = [op EXCEPT ![o].pc = "write"] \/ op' = [op EXCEPT ![o].pc = "queued"]
      BY <2>8 DEF OpFlushed, OpWrite, OpMark, OpInvalidate
    <3>2. \A pc : op' = [op EXCEPT ![o].pc = pc] => Onward(o, pc, None, None)
      BY DEF Onward
    <3>3. Onward(o, "write", None, None) \/ Onward(o, "queued", None, None) => FALSE
      BY <2>3
    <3> QED BY <2>2, <2>5, <3>1, <3>2, <3>3
  <2>9. ASSUME NEW success, NEW discard, SwitchEnd(o, success, discard) PROVE FALSE
    <3>1. OpDone(o) \/ op' = [op EXCEPT ![o].pc = "rollback", ![o].source = None]
      BY <2>9 DEF SwitchEnd
    <3>2. op' = [op EXCEPT ![o].pc = "rollback", ![o].source = None] => Onward(o, "rollback", None, None)
      BY DEF Onward
    <3>3. Onward(o, "rollback", None, None) => FALSE
      BY <2>3
    <3> QED BY <2>2, <3>1, <3>2, <3>3
  <2>10. CASE SwitchReserve(o)
    <3>1. op[o].pc = "reserve" /\ UNCHANGED flush
      BY <2>10 DEF SwitchReserve
    <3> QED BY <3>1, IdleFlush
  <2>11. CASE SwitchFlushed(o)
    <3> DEFINE s == IF flush[o].pc = "ended" THEN binding[op[o].window] ELSE op[o].source
    <3>1. op' = [op EXCEPT ![o].pc = "own", ![o].source = s]
      BY <2>11 DEF SwitchFlushed, Shape, Types
    <3> HIDE DEF s
    <3>2. Onward(o, "own", s, None)
      BY <3>1 DEF Onward
    <3> QED BY <2>3, <3>2
  <2>12. CASE SwitchBegin(o) \/ SwitchSwap(o) \/ SwitchBind(o) \/ SwitchDone(o) \/ SwitchFail(o) \/ SwitchRestore(o)
    <3>1. CASE SwitchBegin(o)
      <4>1. Onward(o, "reserve", binding[op[o].window], None)
        BY <3>1 DEF SwitchBegin, Onward
      <4> QED BY <2>3, <4>1
    <3>2. CASE SwitchDone(o)
      BY <2>9, <3>2 DEF SwitchDone
    <3>3. CASE SwitchSwap(o) \/ SwitchBind(o) \/ SwitchFail(o) \/ SwitchRestore(o)
      <4>1. PICK pc \in {"swapped", "bound", "recover", "rebind"} : op' = [op EXCEPT ![o].pc = pc]
        BY <3>3 DEF SwitchSwap, SwitchBind, SwitchFail, SwitchRestore
      <4>2. Onward(o, pc, None, None)
        BY <4>1 DEF Onward
      <4> QED BY <2>3, <4>2
    <3> QED BY <2>12, <3>1, <3>2, <3>3
  <2>13. CASE SwitchOwn(o)
    <3> PICK plan : \/ op' = [op EXCEPT ![o].pc = "prepared", ![o].plan = plan]
                    \/ SwitchEnd(o, canon[op[o].ws].alive, TRUE)
      BY <2>13 DEF SwitchOwn
    <3>1. op' = [op EXCEPT ![o].pc = "prepared", ![o].plan = plan] => Onward(o, "prepared", None, plan)
      BY DEF Onward
    <3>2. Onward(o, "prepared", None, plan) => FALSE
      BY <2>3
    <3> QED BY <2>9, <3>1, <3>2
  <2>14. CASE SwitchRebind(o)
    BY <2>9, <2>14 DEF SwitchRebind
  <2> QED BY <1>7, <2>4, <2>6, <2>7, <2>8, <2>10, <2>11, <2>12, <2>13, <2>14 DEF OpStep, SwitchStep
<1>8. CASE SwitchFlush(o)
  BY <1>8 DEF SwitchFlush
<1>9. CASE Crash
  BY <1>9 DEF Crash, NoOp
<1>10. CASE RecoverTabs \/ RecoverBinding \/ UNCHANGED vars
  BY <1>5, <1>10 DEF RecoverTabs, RecoverBinding, vars
<1> QED BY <1>1, <1>2, <1>3, <1>4, <1>5, <1>6, <1>7, <1>8, <1>9, <1>10 DEF Next

LEMMA ToldNext ==
    ASSUME [ToldInTime]_vars, SwitchesRespected, Shape, Shape', Known, Telling, [Next]_vars
    PROVE  Telling'
<1>1. CASE UNCHANGED vars
  <2>1. UNCHANGED <<canon, binding, flush, op>>
    BY <1>1 DEF vars, store
  <2> QED BY <2>1 DEF Telling, CopiesAreTold, SavesFromCurrent, SourceFlushes, Behind, FlushTells, OpTells
<1>2. CASE ToldInTime /\ Next
  <2>1. SourceFlushes'
    BY SourcesStay DEF Telling
  <2>2. SavesFromCurrent'
    BY <1>2, SavesStay DEF Telling
  <2>3. CopiesAreTold'
    <3>1. ASSUME (\E k \in Windows : UserEdit(k) \/ TabsLoaded(k)) \/ DrainStep PROVE CopiesAreTold'
      BY <3>1, OutsideTold DEF Telling
    <3>2. ASSUME NEW c \in Flushers, FlushStep(c) PROVE CopiesAreTold'
      BY <3>2, FlushTold, SaveTold DEF Telling
    <3>3. ASSUME NEW o \in Ops, NEW m \in Menu, OpBegin(o, m) PROVE CopiesAreTold'
      BY <3>3, OpBeginTold DEF Telling
    <3>4. ASSUME NEW o \in Ops, OpStep(o) PROVE CopiesAreTold'
      BY <1>2, <3>4, OpTold DEF Telling
    <3>5. ASSUME NEW o \in Ops, SwitchStep(o) PROVE CopiesAreTold'
      BY <1>2, <3>5, SwitchEarlyTold, SwitchOwnTold, SwitchLateTold DEF Telling, SwitchStep
    <3>6. CASE RecoverTabs \/ RecoverBinding
      BY <3>6, RecoveryTold DEF Telling
    <3>7. ~Crash
      BY <1>2 DEF ToldInTime
    <3> QED BY <1>2, <3>1, <3>2, <3>3, <3>4, <3>5, <3>6, <3>7 DEF Next
  <2> QED BY <2>1, <2>2, <2>3 DEF Telling
<1> QED BY <1>1, <1>2

LEMMA ToldInit == ASSUME Init PROVE Telling
<1>1. \A k \in Windows : binding[k] # None => binding[k].ws \in Workspaces /\ binding[k].rev = 0
  BY DEF Init
<1>2. \A w \in Workspaces : canon[w].rev = 0
  BY DEF Init
<1>3. (\A c \in Flushers : flush[c].pc = "idle") /\ \A o \in Ops : op[o].pc = "idle"
  BY DEF Init, NoFlush, NoOp
<1> QED BY <1>1, <1>2, <1>3 DEF Telling, CopiesAreTold, SavesFromCurrent, SourceFlushes, Behind

(* When nobody is at work nobody has anything left to tell.                 *)
LEMMA ToldMeans == ASSUME CopiesAreTold, Shape PROVE OldCopiesAreStale
<1> SUFFICES ASSUME Resting, NEW k \in Windows, Behind(k) PROVE FALSE
  <2>1. \A k \in Windows : binding[k] # None => binding[k] \in Binding
    BY SpaceTypes
  <2> QED BY <2>1 DEF OldCopiesAreStale, Behind, Binding
<1>1. ASSUME NEW c \in Flushers, FlushTells(c, k) PROVE FALSE
  BY <1>1 DEF FlushTells, Resting
<1>2. ASSUME NEW o \in Ops, OpTells(o, k) PROVE FALSE
  BY <1>2 DEF OpTells, TellsAll, TellsOwn, Resting
<1> QED BY <1>1, <1>2 DEF CopiesAreTold

-----------------------------------------------------------------------------
(* Edits from elsewhere: a worker that stays, and operations that come from *)
(* no window.  Then no timing has to be assumed.                            *)
FromElsewhere ==
  /\ MaxCrashes = 0
  /\ \A m \in Menu : m.window = None /\ m.kind \in {"edit", "trash", "restore"}

Elsewhere ==
  /\ crashes = 0
  /\ \A o \in Ops : op[o].window = None /\ op[o].kind \notin {"switch", "exclude"}

LEMMA NoneSwitches == ASSUME Shape, Elsewhere, NEW o \in Ops PROVE ~SwitchStep(o)
<1>1. op[o].pc \notin SwitchPc \cup {"queued"}
  BY AutosaveConstants DEF Elsewhere, Shape, OpShapes
<1> QED BY <1>1 DEF SwitchStep, SwitchBegin, SwitchReserve, SwitchFlush, SwitchFlushed, SwitchOwn, SwitchSwap, SwitchBind,
       SwitchDone, SwitchFail, SwitchRestore, SwitchRebind, SwitchPc

LEMMA ElsewhereInit == ASSUME Init PROVE Elsewhere
  BY DEF Init, NoOp, Elsewhere

LEMMA ElsewhereNext ==
    ASSUME FromElsewhere, Shape, Elsewhere, [Next]_vars
    PROVE  Elsewhere'
<1>1. crashes = 0 /\ ~Crash
  BY DEF Elsewhere, FromElsewhere, Crash
<1>2. ASSUME UNCHANGED <<crashes, op>> PROVE Elsewhere'
  BY <1>2 DEF Elsewhere
<1>3. ASSUME NEW k \in Windows, UserEdit(k) \/ TabsLoaded(k) PROVE UNCHANGED <<crashes, op>>
  BY <1>3 DEF UserEdit, TabsLoaded, history
<1>4. ASSUME NEW c \in Flushers, FlushStep(c) PROVE UNCHANGED <<crashes, op>>
  BY <1>4 DEF FlushStep, FlushSnapshot, FlushCapture, FlushCommit, FlushSave, FlushRebind, FlushMarkOthers, FlushFlag, history
<1>5. CASE DrainStep
  BY <1>2, <1>5 DEF DrainStep, DrainPass, DrainFlushed, DrainEnd, DrainNext, history
<1>6. CASE RecoverTabs \/ RecoverBinding \/ UNCHANGED vars
  BY <1>2, <1>6 DEF RecoverTabs, RecoverBinding, history, vars
<1>7. ASSUME NEW o \in Ops, NEW n, n.window = None, n.kind \notin {"switch", "exclude"}, op' = [op EXCEPT ![o] = n],
             UNCHANGED crashes
      PROVE  Elsewhere'
  <2>1. op'[o] = n /\ \A p \in Ops \ {o} : op'[p] = op[p]
    BY <1>7 DEF Shape, Types
  <2> QED BY <1>7, <2>1 DEF Elsewhere
<1>8. ASSUME NEW o \in Ops, NEW m \in Menu, OpBegin(o, m) PROVE Elsewhere'
  <2> DEFINE start(pc) == [[NoOp EXCEPT !.kind = m.kind, !.window = m.window, !.ws = m.ws] EXCEPT !.pc = pc]
  <2>1. \A pc : start(pc).window = m.window /\ start(pc).kind = m.kind
    BY DEF NoOp
  <2>2. UNCHANGED crashes /\ \E pc \in {"queued", "flush", "write"} : op' = [op EXCEPT ![o] = start(pc)]
    BY <1>8 DEF OpBegin, history
  <2>3. m.window = None /\ m.kind \notin {"switch", "exclude"}
    BY DEF FromElsewhere
  <2> HIDE DEF start
  <2> QED BY <1>7, <2>1, <2>2, <2>3
<1>9. ASSUME NEW o \in Ops, OpStep(o) PROVE Elsewhere'
  <2>0. op[o] \in Operations /\ op[o].window = None /\ op[o].kind \notin {"switch", "exclude"} /\ UNCHANGED crashes
    BY <1>9 DEF Elsewhere, Shape, Types, OpStep, OpFlushed, OpWrite, OpLook, OpMark, OpRollback, OpInvalidate, OpChange, history
  <2>1. OpDone(o) => Elsewhere'
    <3> DEFINE n == [NoOp EXCEPT !.pc = "done"]
    <3>1. n.window = None /\ n.kind = "none"
      BY DEF NoOp
    <3>2. OpDone(o) => op' = [op EXCEPT ![o] = n]
      BY DEF OpDone
    <3> HIDE DEF n
    <3> QED BY <1>7, <2>0, <3>1, <3>2
  <2>2. ASSUME NEW pc, NEW source, NEW plan, Onward(o, pc, source, plan) PROVE Elsewhere'
    BY <2>0, <2>2, SameOperation DEF Elsewhere
  <2>3. CASE OpLook(o)
    <3> PICK s : op' = [op EXCEPT ![o].pc = "mark", ![o].source = s]
      BY <2>3 DEF OpLook
    <3>1. Onward(o, "mark", s, None)
      BY DEF Onward
    <3> QED BY <2>2, <3>1
  <2>4. CASE OpRollback(o)
    <3> DEFINE n == [op[o] EXCEPT !.pc = "invalidate", !.rev = op[o].rev + 1]
    <3>1. n.window = op[o].window /\ n.kind = op[o].kind
      BY <2>0 DEF Operations
    <3>2. op' = [op EXCEPT ![o] = n] \/ OpDone(o)
      BY <2>0, <2>4 DEF OpRollback, Shape, Types
    <3> HIDE DEF n
    <3> QED BY <1>7, <2>0, <2>1, <3>1, <3>2
  <2>5. ASSUME OpChange(o) PROVE Elsewhere'
    <3> DEFINE n == [op[o] EXCEPT !.pc = "look", !.tabs = canon[op[o].ws].tabs, !.rev = canon[op[o].ws].rev + 1,
                                  !.change = edits + 1]
    <3>1. n.window = op[o].window /\ n.kind = op[o].kind
      BY <2>0 DEF Operations
    <3>2. op' = [op EXCEPT ![o] = n] \/ OpDone(o)
      BY <2>5 DEF OpChange, OpDone
    <3> HIDE DEF n
    <3> QED BY <1>7, <2>0, <2>1, <3>1, <3>2
  <2>6. CASE OpFlushed(o) \/ OpWrite(o) \/ OpMark(o) \/ OpInvalidate(o)
    <3>1. OpDone(o) \/ OpChange(o) \/ op' = [op EXCEPT ![o].pc = "write"] \/ op' = [op EXCEPT ![o].pc = "queued"]
      BY <2>6 DEF OpFlushed, OpWrite, OpMark, OpInvalidate
    <3>2. \A pc : op' = [op EXCEPT ![o].pc = pc] => Onward(o, pc, None, None)
      BY DEF Onward
    <3>3. Onward(o, "write", None, None) \/ Onward(o, "queued", None, None) => Elsewhere'
      BY <2>2
    <3> QED BY <2>1, <2>5, <3>1, <3>2, <3>3
  <2> QED BY <1>9, <2>3, <2>4, <2>6 DEF OpStep
<1> QED BY <1>1, <1>2, <1>3, <1>4, <1>5, <1>6, <1>8, <1>9, NoneSwitches DEF Next

LEMMA ElsewhereInTime ==
    ASSUME Shape, Elsewhere, FromElsewhere
    PROVE  FlushesServed /\ ToldInTime
<1>1. \A o \in Ops : ~SwitchSwap(o) /\ ~SwitchBind(o)
  BY NoneSwitches DEF SwitchStep
<1>2. ~Crash
  BY DEF Elsewhere, FromElsewhere, Crash
<1> QED BY <1>1, <1>2 DEF FlushesServed, ToldInTime, Elsewhere

(* The invariant of such a system, and its two steps.                       *)
EInv == IInv /\ Telling /\ Elsewhere

LEMMA ElsewhereStarts == ASSUME SwitchesRespected, Init PROVE EInv
  BY ShapeInit, KnownInit, ToldInit, ElsewhereInit DEF EInv, IInv, Known

LEMMA ElsewhereHolds ==
    ASSUME SwitchesRespected, FromElsewhere, EInv, [Next]_vars
    PROVE  EInv'
<1>1. FlushesServed /\ ToldInTime /\ Shape /\ Known
  BY ElsewhereInTime DEF EInv, IInv, Known
<1>2. Shape' /\ Elsewhere'
  BY ShapeNext, ElsewhereNext DEF EInv, IInv
<1>3. Known' /\ Telling'
  BY <1>1, <1>2, KnownNext, ToldNext DEF EInv
<1> QED BY <1>2, <1>3 DEF EInv, IInv, Known

LEMMA ElsewhereMarks == ASSUME EInv PROVE OldCopiesAreStale
  BY ToldMeans DEF EInv, IInv, Telling

=============================================================================
