------------------------ MODULE WorkspaceSwitch_proofs ------------------------
(***************************************************************************)
(* A switch of a window takes place entirely or not at all, no workspace   *)
(* is overwritten with the tabs of another, and requests are answered by   *)
(* the order of their calls: for every number of requests, windows,        *)
(* workspaces, edits, removals, aborts, closed windows, failing calls and  *)
(* restarts of the worker.                                                 *)
(***************************************************************************)
EXTENDS WorkspaceSwitch, SequenceTheorems, FiniteSetTheorems, TLAPS

OrNone(S) == S \cup {None}
Bindings == [ws : Workspaces, rev : Nat, stale : BOOLEAN]
Plans == [tabs : List, rev : Nat]
Journals == [run : Requests, window : Windows, target : Workspaces, source : OrNone(Workspaces),
             rev : Nat, tabs : List, failed : BOOLEAN]
Ids == {0} \cup {Cardinality(rs) + 1 : rs \in SUBSET Requests}
Inquiries == [pc : {"idle", "resolving", "waiting", "done"}, id : Ids, window : OrNone(Windows),
              target : OrNone(Workspaces),
              reason : {None, "superseded", "aborted", "timeout"},
              result : {"none", "ok", "failed", "superseded", "recovery_required", "lost"}]
Tasks == [kind : {"switch"}, who : Requests] \cup [kind : {"unbind"}, who : Windows]
         \cup {RecoverTask, Task("discard", None)}

Early == {"reserve", "flush", "own"}
Acting == {"prepare", "commit", "swap", "bind", "complete"}
Recovering == {"recover", "forget", "restore", "rebind", "clear"}
Quiet == {"recheck", "settle"} \cup Early
Runs == [stage : {"idle", "remove"} \cup Quiet \cup Acting \cup Recovering, after : {"end", "recheck", "answer"},
         source : OrNone(Bindings), reserved : BOOLEAN, plan : OrNone(Plans), before : List]

Shapes ==
  /\ TypeOK
  /\ req \in [Requests -> Inquiries]
  /\ \A r \in Requests : req[r].pc # "idle" => req[r].window \in Windows /\ req[r].target \in Workspaces
  /\ queue \in Seq(Tasks) /\ run \in Runs
  /\ spent \in [DOMAIN Limit -> Nat] /\ spent.edit <= MaxEdits

(* No binding, journal, plan or list is taken for none at all.              *)
NoneIsApart == None \notin Bindings \cup Journals \cup Plans \cup List

(* A request waits for its answer while it is in the queue, where it is     *)
(* once; the stages of the task at the head are those of its kind.          *)
QueueMatches ==
  /\ \A i \in 1 .. Len(queue) : queue[i].kind = "switch" => req[queue[i].who].pc = "waiting"
  /\ \A i, j \in 1 .. Len(queue) :
       queue[i].kind = "switch" /\ queue[j].kind = "switch" /\ queue[i].who = queue[j].who => i = j
  /\ IsHead("recover") => run.stage = "idle" \/ (run.stage \in Recovering /\ run.after = "end")
  /\ IsHead("switch") => /\ run.stage # "remove"
                         /\ run.stage \in Recovering => run.after \in {"recheck", "answer"}
  /\ IsHead("discard") => run.stage = "idle"
  /\ IsHead("unbind") => run.stage \in {"idle", "remove"}

(* The switch is past the writing of its journal and has not cleared it.    *)
Late == Running /\ (run.stage \in Acting \/ (run.stage \in Recovering /\ run.after = "answer"))

JournalMatches ==
  /\ run.stage \in Quiet => journal = None
  /\ Running /\ run.stage \in Early => RunWindow \in suppressed
  /\ Late => /\ journal # None /\ journal.run = Active /\ journal.window = RunWindow
             /\ journal.target = req[Active].target /\ RunWindow \in suppressed
  /\ journal # None => /\ req[journal.run].pc = "done" \/ (Late /\ journal.run = Active)
                       /\ journal.source # None => spoilt \/ journal.tabs.owner = journal.source

(* What follows holds until a window that was left behind is saved, or a    *)
(* journal is discarded.                                                    *)
OwnTabs == ~spoilt => OwnTabsOnly

(* A window shows tabs of the workspace it is bound to, or is journaled.    *)
Mismatch(k) == binding[k] # None /\ shows[k].owner # binding[k].ws
Matched == ~spoilt => \A k \in Windows : Mismatch(k) => Journaled(k)

StageMatches ==
  /\ run.stage = "own" /\ run.source # None => spoilt \/ shows[RunWindow].owner = run.source.ws
  /\ run.stage \in Acting => run.plan # None /\ (spoilt \/ run.plan.tabs.owner = req[Active].target)
  /\ run.stage \in {"bind", "complete"} => shows[RunWindow] = run.plan.tabs
  /\ run.stage \in {"swap", "bind", "complete"} => canon[req[Active].target].status = "live"
  /\ run.stage = "complete" /\ binding[RunWindow] # None => binding[RunWindow].ws = req[Active].target
  /\ run.stage = "forget" => journal.window \notin open /\ journal.tabs \in ledger \cup {Nothing}
  /\ run.stage \in {"rebind", "clear"} => shows[journal.window] = journal.tabs
  /\ run.stage = "clear" /\ binding[journal.window] # None => binding[journal.window].ws = journal.source

IInv == Shapes /\ QueueMatches /\ JournalMatches /\ Matched /\ OwnTabs /\ StageMatches

(* The workspace of a loading window is not deleted, so the journal takes   *)
(* no tabs at all only for what has no workspace.                           *)
LoadingBound ==
  \A k \in loading : ~Journaled(k) /\ binding[k] # None => canon[binding[k].ws].status # "gone"
SourceKnown ==
  /\ run.stage \in Early => shows[RunWindow] = run.before
  /\ run.stage = "own" /\ RunWindow \in open =>
       /\ run.source = None <=> binding[RunWindow] = None
       /\ run.source # None => run.source.ws = binding[RunWindow].ws
  /\ Late => \/ journal.tabs = run.before
             \/ run.source # None /\ journal.tabs.owner = run.source.ws
             \/ journal.source = None /\ journal.tabs = Nothing
  /\ run.stage = "complete" /\ RunWindow \in open => binding[RunWindow] # None
  /\ run.stage \in {"rebind", "clear"} => journal.window \notin loading
LInv == LoadingBound /\ SourceKnown
Known == ~spoilt => LInv

----------------------------------------------------------------------------
(* Tasks and stages.                                                        *)
LEMMA Lists == Nothing \in List /\ MaxEdits \in Nat /\ 0 \in 0 .. MaxEdits
BY SwitchConstants DEF Nothing, List

LEMMA SequenceEnds ==
    ASSUME NEW S, NEW q \in Seq(S)
    PROVE  /\ Len(q) \in Nat /\ (q # <<>> => Len(q) > 0) /\ (q = <<>> => Len(q) = 0)
           /\ \A i \in 1 .. Len(q) : q[i] \in S
           /\ q # <<>> => /\ Head(q) \in S /\ Head(q) = q[1] /\ Tail(q) \in Seq(S) /\ Len(Tail(q)) = Len(q) - 1
                          /\ \A i \in 1 .. Len(Tail(q)) : Tail(q)[i] = q[i + 1]
           /\ \A t \in S : /\ Append(q, t) \in Seq(S) /\ Append(q, t) # <<>>
                           /\ Len(Append(q, t)) = Len(q) + 1 /\ Append(q, t)[Len(q) + 1] = t
                           /\ \A i \in 1 .. Len(q) : Append(q, t)[i] = q[i]
                           /\ Head(Append(q, t)) = IF q = <<>> THEN t ELSE Head(q)
<1>1. Len(q) \in Nat /\ (q # <<>> => Len(q) > 0) /\ (q = <<>> => Len(q) = 0)
  BY EmptySeq, LenProperties
<1>2. q # <<>> => /\ Head(q) \in S /\ Tail(q) \in Seq(S) /\ Len(Tail(q)) = Len(q) - 1
                  /\ \A i \in 1 .. Len(Tail(q)) : Tail(q)[i] = q[i + 1]
  BY HeadTailProperties
<1>3. \A s \in Seq(S) : s # <<>> => Head(s) = s[1]
  OBVIOUS
<1>4. ASSUME NEW t \in S
      PROVE  /\ Append(q, t) \in Seq(S) /\ Append(q, t) # <<>>
             /\ Len(Append(q, t)) = Len(q) + 1 /\ Append(q, t)[Len(q) + 1] = t
             /\ \A i \in 1 .. Len(q) : Append(q, t)[i] = q[i]
             /\ Head(Append(q, t)) = IF q = <<>> THEN t ELSE Head(q)
  <2>1. /\ Append(q, t) \in Seq(S) /\ Append(q, t) # <<>>
        /\ Len(Append(q, t)) = Len(q) + 1 /\ Append(q, t)[Len(q) + 1] = t
        /\ \A i \in 1 .. Len(q) : Append(q, t)[i] = q[i]
    BY AppendProperties
  <2>2. Head(Append(q, t)) = Append(q, t)[1]
    BY <1>3, <2>1
  <2>3. CASE q = <<>>
    BY <1>1, <2>1, <2>2, <2>3
  <2>4. CASE q # <<>>
    <3>1. 1 \in 1 .. Len(q)
      BY <1>1, <2>4
    <3> QED BY <1>3, <2>1, <2>2, <2>4, <3>1
  <2> QED BY <2>1, <2>3, <2>4
<1>5. \A i \in 1 .. Len(q) : q[i] \in S
  BY ElementOfSeq
<1> QED BY <1>1, <1>2, <1>3, <1>4, <1>5

LEMMA TaskSequences ==
    ASSUME NEW q \in Seq(Tasks)
    PROVE  /\ Len(q) \in Nat /\ (q # <<>> => Len(q) > 0)
           /\ q # <<>> => /\ Head(q) \in Tasks /\ Head(q) = q[1] /\ Tail(q) \in Seq(Tasks) /\ Len(Tail(q)) = Len(q) - 1
                          /\ \A i \in 1 .. Len(Tail(q)) : Tail(q)[i] = q[i + 1]
           /\ \A t \in Tasks : /\ Append(q, t) \in Seq(Tasks) /\ Append(q, t) # <<>>
                               /\ Len(Append(q, t)) = Len(q) + 1 /\ Append(q, t)[Len(q) + 1] = t
                               /\ \A i \in 1 .. Len(q) : Append(q, t)[i] = q[i]
                               /\ Head(Append(q, t)) = IF q = <<>> THEN t ELSE Head(q)
BY SequenceEnds

LEMMA TaskKinds ==
    ASSUME NEW t \in Tasks
    PROVE  \/ t.kind = "switch" /\ t.who \in Requests
           \/ t.kind = "recover" /\ t = RecoverTask
           \/ t.kind = "discard"
           \/ t.kind = "unbind" /\ t.who \in Windows
BY DEF Tasks, RecoverTask, Task

(* The task at the head is a request that waits, or a recovery; the stages  *)
(* say which.                                                               *)
LEMMA ActiveWaits ==
    ASSUME Shapes, QueueMatches, IsHead("switch")
    PROVE  /\ Active \in Requests /\ req[Active].pc = "waiting" /\ RunWindow \in Windows
           /\ req[Active].target \in Workspaces /\ queue # <<>>
<1>1. Head(queue) \in Tasks /\ Head(queue) = queue[1] /\ Len(queue) > 0 /\ Len(queue) \in Nat
  BY TaskSequences DEF Shapes, IsHead
<1>2. Active \in Requests /\ req[Active].pc = "waiting"
  BY <1>1, TaskKinds DEF IsHead, QueueMatches, Active
<1> QED BY <1>2 DEF Shapes, RunWindow, IsHead

LEMMA StageKinds ==
    ASSUME Shapes, QueueMatches, run.stage # "idle"
    PROVE  /\ queue # <<>> /\ run \in Runs
           /\ \/ IsHead("switch") /\ Running
                 /\ (run.stage \in Recovering => run.after \in {"recheck", "answer"})
              \/ IsHead("recover") /\ run.stage \in Recovering /\ run.after = "end" /\ ~Running
              \/ IsHead("unbind") /\ run.stage = "remove" /\ ~Running
           /\ run.stage \in Quiet \cup Acting => IsHead("switch") /\ Running
<1>1. queue # <<>> /\ run \in Runs /\ Head(queue) \in Tasks
  BY TaskSequences DEF Shapes, TypeOK
<1>2. Head(queue).kind \in {"switch", "recover", "discard", "unbind"}
  BY <1>1, TaskKinds
<1> QED BY <1>1, <1>2 DEF QueueMatches, IsHead, Running, Recovering, Quiet, Acting, Early

(* Nothing of the storage, the windows and the running task changes, and    *)
(* the task stays where it is.                                              *)
LEMMA TaskUndisturbed ==
    ASSUME spoilt' \in BOOLEAN, spoilt => spoilt', IInv, Shapes', QueueMatches',
           UNCHANGED <<canon, ledger, journal, binding, open, shows, run, suppressed>>,
           queue # <<>> => queue' # <<>> /\ Head(queue') = Head(queue),
           \A r \in Requests : req[r].pc \in {"waiting", "done"} =>
             /\ req'[r].window = req[r].window /\ req'[r].target = req[r].target
             /\ req[r].pc = "done" => req'[r].pc = "done"
    PROVE  IInv'
<1>1. Shapes /\ QueueMatches /\ JournalMatches /\ StageMatches /\ Matched /\ OwnTabs
  BY DEF IInv
<1>2. run.stage # "idle" => queue # <<>> /\ queue' # <<>> /\ Head(queue') = Head(queue) /\ Active' = Active
  BY <1>1, StageKinds DEF Active
<1>3. IsHead("switch") => /\ RunWindow' = req'[Active].window /\ RunWindow = req[Active].window
                          /\ req'[Active].window = req[Active].window
                          /\ req'[Active].target = req[Active].target
                          /\ Active' = Active
  BY <1>1, ActiveWaits DEF RunWindow, Active, IsHead
<1>4. Running' = Running /\ Late' = Late
  BY <1>2 DEF Running, Late, IsHead
<1>5. run.stage \in Quiet \cup Acting => Running
  BY <1>1, StageKinds DEF Quiet, Acting, Early
<1>6. Running => /\ RunWindow' = RunWindow /\ Active' = Active
                 /\ req'[Active].target = req[Active].target
  BY <1>3 DEF Running
<1>7. JournalMatches'
  <2>1. journal # None => journal.run \in Requests
    BY <1>1 DEF Shapes, TypeOK
  <2>2. Late => Running
    BY DEF Late
  <2> QED BY <1>1, <1>4, <1>6, <2>1, <2>2 DEF JournalMatches
<1>8. Matched' /\ OwnTabs'
  BY <1>1 DEF Matched, Mismatch, Journaled, OwnTabs, OwnTabsOnly
<1>9. StageMatches'
  BY <1>1, <1>5, <1>6 DEF StageMatches, Acting, Quiet, Early
<1> QED BY <1>7, <1>8, <1>9 DEF IInv

----------------------------------------------------------------------------
(* Requests.                                                                *)
Events == {"edit", "removal", "abort", "discard", "unbind", "close", "fault", "recovery", "crash"}

LEMMA Spending ==
    ASSUME Shapes, NEW event \in Events, Spend(event)
    PROVE  /\ spent' \in [DOMAIN Limit -> Nat] /\ spent'.edit <= MaxEdits
           /\ event = "edit" => spent'.edit \in 0 .. MaxEdits
<1>1. DOMAIN Limit = Events /\ Limit.edit = MaxEdits
  BY DEF Limit, Events
<1>2. spent \in [Events -> Nat] /\ spent.edit <= MaxEdits /\ spent[event] < Limit[event]
      /\ spent' = [spent EXCEPT ![event] = @ + 1]
  BY <1>1 DEF Shapes, Spend
<1>3. spent' \in [Events -> Nat]
  BY <1>2
<1>4. CASE event = "edit"
  <2>1. spent["edit"] < MaxEdits /\ spent'["edit"] = spent["edit"] + 1 /\ spent["edit"] \in Nat
    BY <1>1, <1>2, <1>4 DEF Events
  <2> QED BY <1>1, <1>3, <2>1, Lists
<1>5. CASE event # "edit"
  <2>1. spent'["edit"] = spent["edit"]
    BY <1>2, <1>5 DEF Events
  <2> QED BY <1>1, <1>2, <1>3, <1>5, <2>1
<1> QED BY <1>4, <1>5

LEMMA Cancelling ==
    ASSUME Shapes, NEW rs, NEW reason \in {"superseded", "aborted", "timeout"}
    PROVE  /\ CancelAll(rs, reason) \in [Requests -> Inquiries]
           /\ \A r \in Requests : /\ CancelAll(rs, reason)[r].pc = req[r].pc
                                  /\ CancelAll(rs, reason)[r].window = req[r].window
                                  /\ CancelAll(rs, reason)[r].target = req[r].target
<1>1. \A r \in Requests : req[r] \in Inquiries
  BY DEF Shapes
<1>2. \A r \in Requests : CancelAll(rs, reason)[r] = IF r \in rs /\ req[r].reason = None
                            THEN [req[r] EXCEPT !.reason = reason] ELSE req[r]
  BY DEF CancelAll
<1>3. \A r \in Requests : LET q == [req[r] EXCEPT !.reason = reason]
                          IN  q \in Inquiries /\ q.pc = req[r].pc /\ q.window = req[r].window /\ q.target = req[r].target
  BY <1>1 DEF Inquiries
<1>4. CancelAll(rs, reason) = [r \in Requests |-> CancelAll(rs, reason)[r]]
  BY DEF CancelAll
<1>5. \A r \in Requests : CancelAll(rs, reason)[r] \in Inquiries
  BY <1>1, <1>2, <1>3
<1> QED BY <1>2, <1>3, <1>4, <1>5

(* A task is put at the end of the queue, or none is.                       *)
LEMMA Queueing ==
    ASSUME Shapes, QueueMatches, UNCHANGED run, NEW t \in Tasks,
           queue' = queue \/ queue' = Append(queue, t),
           \A r \in Requests : req[r].pc = "waiting" => req'[r].pc = "waiting",
           t.kind = "switch" => req[t.who].pc # "waiting" /\ req'[t.who].pc = "waiting"
    PROVE  /\ QueueMatches' /\ queue' \in Seq(Tasks)
           /\ queue # <<>> => queue' # <<>> /\ Head(queue') = Head(queue)
           /\ run.stage # "idle" => queue' # <<>>
<1>1. run.stage # "idle" => queue # <<>>
  BY DEF Shapes, TypeOK
<1>2. /\ Len(queue) \in Nat /\ queue \in Seq(Tasks)
      /\ \A i \in 1 .. Len(queue) : queue[i] \in Tasks
  BY TaskSequences, ElementOfSeq DEF Shapes
<1>3. \A i \in 1 .. Len(queue) : queue[i].kind = "switch" =>
        queue[i].who \in Requests /\ req[queue[i].who].pc = "waiting" /\ req'[queue[i].who].pc = "waiting"
  BY <1>2, TaskKinds DEF QueueMatches
<1>4. CASE queue' = queue
  BY <1>1, <1>2, <1>3, <1>4 DEF QueueMatches, IsHead
<1>5. CASE queue' = Append(queue, t)
  <2>1. /\ queue' \in Seq(Tasks) /\ queue' # <<>> /\ Len(queue') = Len(queue) + 1 /\ queue'[Len(queue) + 1] = t
        /\ \A i \in 1 .. Len(queue) : queue'[i] = queue[i]
        /\ Head(queue') = IF queue = <<>> THEN t ELSE Head(queue)
    BY <1>2, <1>5, TaskSequences
  <2>2. \A i \in 1 .. Len(queue') : i \in 1 .. Len(queue) \/ i = Len(queue) + 1
    BY <1>2, <2>1
  <2>3. \A i \in 1 .. Len(queue') : queue'[i].kind = "switch" => req'[queue'[i].who].pc = "waiting"
    BY <1>3, <2>1, <2>2
  <2>4. \A i, j \in 1 .. Len(queue') :
          queue'[i].kind = "switch" /\ queue'[j].kind = "switch" /\ queue'[i].who = queue'[j].who => i = j
    <3> SUFFICES ASSUME NEW i \in 1 .. Len(queue'), NEW j \in 1 .. Len(queue'),
                        queue'[i].kind = "switch", queue'[j].kind = "switch", queue'[i].who = queue'[j].who
                 PROVE  i = j
      OBVIOUS
    <3>1. CASE i \in 1 .. Len(queue) /\ j \in 1 .. Len(queue)
      BY <2>1, <3>1 DEF QueueMatches
    <3>2. CASE i = Len(queue) + 1 /\ j \in 1 .. Len(queue)
      BY <1>3, <2>1, <3>2
    <3>3. CASE i \in 1 .. Len(queue) /\ j = Len(queue) + 1
      BY <1>3, <2>1, <3>3
    <3> QED BY <2>2, <3>1, <3>2, <3>3
  <2>5. /\ IsHead("recover")' => run.stage = "idle" \/ (run.stage \in Recovering /\ run.after = "end")
        /\ IsHead("switch")' => /\ run.stage # "remove"
                                /\ run.stage \in Recovering => run.after \in {"recheck", "answer"}
        /\ IsHead("discard")' => run.stage = "idle"
        /\ IsHead("unbind")' => run.stage \in {"idle", "remove"}
    BY <1>1, <2>1 DEF QueueMatches, IsHead, Recovering
  <2> QED BY <1>1, <2>1, <2>3, <2>4, <2>5 DEF QueueMatches
<1> QED BY <1>4, <1>5

LEMMA RequestsInv ==
    ASSUME spoilt' \in BOOLEAN, spoilt => spoilt', IInv,
           \/ \E r \in Requests : Call(r) \/ Resolve(r) \/ Alarm(r)
           \/ Abort \/ Discard \/ StartAgain
           \/ \E k \in Windows : Unbind(k)
    PROVE  IInv'
<1>0. Shapes /\ QueueMatches /\ TypeOK /\ RecoverTask \in Tasks /\ RecoverTask.kind = "recover"
  BY DEF IInv, Shapes, Tasks, RecoverTask, Task
<1>2. ASSUME UNCHANGED <<canon, ledger, journal, binding, open, loading, shows, run, suppressed>>,
             alarms' \subseteq alarms, intent' \in [Windows -> OrNone(Requests)],
             spent' \in [DOMAIN Limit -> Nat], spent'.edit <= MaxEdits,
             req' \in [Requests -> Inquiries],
             \A r \in Requests : req'[r].pc # "idle" => req'[r].window \in Windows /\ req'[r].target \in Workspaces,
             queue' \in Seq(Tasks), run.stage # "idle" => queue' # <<>>
      PROVE  Shapes'
  BY <1>0, <1>2 DEF Shapes, TypeOK, OrNone
<1>3. ASSUME NEW r \in Requests, Call(r) PROVE IInv'
  <2>1. PICK k \in open, w \in Workspaces :
       req' = [req EXCEPT ![r] = [NoRequest EXCEPT !.pc = "resolving", !.id = Calls + 1, !.window = k, !.target = w]]
    BY <1>3 DEF Call
  <2> DEFINE q == [NoRequest EXCEPT !.pc = "resolving", !.id = Calls + 1, !.window = k, !.target = w]
  <2>2. UNCHANGED <<canon, ledger, journal, binding, alarms, open, shows, loading, latestId, intent, queue, run,
                    suppressed, spent>> /\ req[r].pc = "idle"
    BY <1>3 DEF Call, stored, browser
  <2>3. /\ req'[r].pc = "resolving" /\ req'[r].window = k /\ req'[r].target = w
        /\ \A s \in Requests : s # r => req'[s] = req[s]
    BY <1>0, <2>1 DEF Shapes, NoRequest
  <2>4. k \in Windows /\ Calls + 1 \in Ids
    BY <1>0 DEF TypeOK, Calls, Ids
  <2>5. q \in Inquiries
    BY <2>4 DEF NoRequest, Inquiries, OrNone
  <2> HIDE DEF q
  <2>6. req' \in [Requests -> Inquiries] /\ queue \in Seq(Tasks) /\ (run.stage # "idle" => queue # <<>>)
    BY <1>0, <2>1, <2>5 DEF Shapes, TypeOK, q
  <2>7. Shapes'
    BY <1>0, <1>2, <2>2, <2>3, <2>4, <2>6 DEF Shapes, TypeOK, OrNone
  <2>8. QueueMatches'
    <3>1. \A s \in Requests : req[s].pc = "waiting" => req'[s].pc = "waiting"
      BY <2>2, <2>3
    <3> QED BY <1>0, <2>2, <3>1, Queueing
  <2> QED BY <2>2, <2>3, <2>7, <2>8, TaskUndisturbed
<1>4. ASSUME NEW r \in Requests, Resolve(r) PROVE IInv'
  <2> DEFINE k == req[r].window
             t == Task("switch", r)
  <2>1. /\ req[r].pc = "resolving" /\ k \in Windows /\ req[r].target \in Workspaces /\ req[r] \in Inquiries
        /\ t \in Tasks /\ t.kind = "switch" /\ t.who = r
    BY <1>0, <1>4 DEF Resolve, Shapes, Tasks, Task
  <2>2. UNCHANGED <<canon, ledger, journal, binding, alarms, open, shows, loading, run, suppressed, spent>>
    BY <1>4 DEF Resolve, stored, browser
  <2>3. ASSUME NEW result \in {"failed", "superseded"},
               req' = [req EXCEPT ![r] = Answered(@, result)], UNCHANGED <<latestId, intent, queue>>
        PROVE  IInv'
    <3>1. Answered(req[r], result) \in Inquiries /\ Answered(req[r], result).pc = "done"
          /\ Answered(req[r], result).window = k /\ Answered(req[r], result).target = req[r].target
      BY <2>1 DEF Answered, Inquiries
    <3>2. /\ req' \in [Requests -> Inquiries] /\ req'[r] = Answered(req[r], result)
          /\ \A s \in Requests : s # r => req'[s] = req[s]
      BY <1>0, <2>3, <3>1 DEF Shapes
    <3>3. Shapes'
      BY <1>0, <1>2, <2>1, <2>2, <2>3, <3>1, <3>2 DEF Shapes, TypeOK, OrNone
    <3>4. QueueMatches'
      <4>1. \A s \in Requests : req[s].pc = "waiting" => req'[s].pc = "waiting"
        BY <2>1, <3>2
      <4> QED BY <1>0, <2>2, <2>3, <4>1, Queueing
    <3> QED BY <2>1, <2>2, <2>3, <3>1, <3>2, <3>3, <3>4, TaskUndisturbed
  <2>4. ASSUME latestId' = [latestId EXCEPT ![k] = req[r].id], intent' = [intent EXCEPT ![k] = r],
               req' = [CancelAll({intent[k]}, "superseded") EXCEPT ![r].pc = "waiting"],
               queue' = Append(queue, t)
        PROVE  IInv'
    <3> DEFINE c == CancelAll({intent[k]}, "superseded")
    <3>1. c \in [Requests -> Inquiries] /\ \A s \in Requests :
            c[s].pc = req[s].pc /\ c[s].window = req[s].window /\ c[s].target = req[s].target
      BY <1>0, Cancelling
    <3>2. req' = [c EXCEPT ![r].pc = "waiting"]
      BY <2>4
    <3> HIDE DEF c
    <3>3. /\ req' \in [Requests -> Inquiries]
          /\ \A s \in Requests : /\ s = r => req'[s].pc = "waiting"
                                 /\ s # r => req'[s].pc = req[s].pc
                                 /\ req'[s].window = req[s].window /\ req'[s].target = req[s].target
      <4>1. [c[r] EXCEPT !.pc = "waiting"] \in Inquiries /\ [c[r] EXCEPT !.pc = "waiting"].pc = "waiting"
            /\ [c[r] EXCEPT !.pc = "waiting"].window = c[r].window /\ [c[r] EXCEPT !.pc = "waiting"].target = c[r].target
        BY <3>1 DEF Inquiries
      <4>2. \A s \in Requests : req'[s] = IF s = r THEN [c[r] EXCEPT !.pc = "waiting"] ELSE c[s]
        BY <3>1, <3>2
      <4>3. req' \in [Requests -> Inquiries]
        BY <3>1, <3>2, <4>1
      <4> QED BY <3>1, <4>1, <4>2, <4>3
    <3>4. intent' \in [Windows -> OrNone(Requests)]
      BY <1>0, <2>1, <2>4 DEF TypeOK, OrNone
    <3>5. QueueMatches' /\ queue' \in Seq(Tasks) /\ (queue # <<>> => queue' # <<>> /\ Head(queue') = Head(queue))
          /\ (run.stage # "idle" => queue' # <<>>)
      <4>1. \A s \in Requests : req[s].pc = "waiting" => req'[s].pc = "waiting"
        BY <3>3
      <4>2. req[t.who].pc # "waiting" /\ req'[t.who].pc = "waiting"
        BY <2>1, <3>3
      <4> HIDE DEF t
      <4> QED BY <1>0, <2>1, <2>2, <2>4, <4>1, <4>2, Queueing
    <3>6. Shapes'
      BY <1>0, <1>2, <2>1, <2>2, <3>3, <3>4, <3>5 DEF Shapes
    <3> QED BY <2>1, <2>2, <3>3, <3>5, <3>6, TaskUndisturbed
  <2> QED BY <1>4, <2>3, <2>4 DEF Resolve
<1>5. ASSUME NEW x \in Requests, Alarm(x) PROVE IInv'
  <2>1. UNCHANGED <<canon, ledger, journal, binding, open, shows, loading, latestId, intent, run, suppressed, spent>>
        /\ alarms' \subseteq alarms
    BY <1>5 DEF Alarm, browser
  <2>2. /\ req' \in [Requests -> Inquiries]
        /\ \A s \in Requests : /\ req'[s].pc = req[s].pc
                               /\ req'[s].window = req[s].window /\ req'[s].target = req[s].target
    BY <1>0, <1>5, Cancelling DEF Alarm, Shapes
  <2>3. queue' = queue \/ queue' = Append(queue, RecoverTask)
    BY <1>5 DEF Alarm, Enqueue
  <2>4. QueueMatches' /\ queue' \in Seq(Tasks) /\ (queue # <<>> => queue' # <<>> /\ Head(queue') = Head(queue))
        /\ (run.stage # "idle" => queue' # <<>>)
    BY <1>0, <2>1, <2>2, <2>3, Queueing
  <2>5. Shapes'
    BY <1>0, <1>2, <2>1, <2>2, <2>4 DEF Shapes, TypeOK, OrNone
  <2> QED BY <2>1, <2>2, <2>4, <2>5, TaskUndisturbed
<1>6. CASE Abort
  <2>1. UNCHANGED <<canon, ledger, journal, binding, alarms, open, shows, loading, latestId, intent, queue, run, suppressed>>
    BY <1>6 DEF Abort, stored, browser
  <2>2. /\ req' \in [Requests -> Inquiries]
        /\ \A s \in Requests : /\ req'[s].pc = req[s].pc
                               /\ req'[s].window = req[s].window /\ req'[s].target = req[s].target
    BY <1>0, <1>6, Cancelling DEF Abort
  <2>3. spent' \in [DOMAIN Limit -> Nat] /\ spent'.edit <= MaxEdits
    BY <1>0, <1>6, Spending DEF Abort, Intervene, Events
  <2>4. QueueMatches' /\ queue' \in Seq(Tasks) /\ (run.stage # "idle" => queue' # <<>>)
    BY <1>0, <2>1, <2>2, Queueing
  <2>5. Shapes'
    BY <1>0, <1>2, <2>1, <2>2, <2>3, <2>4 DEF Shapes, TypeOK, OrNone
  <2> QED BY <2>1, <2>2, <2>4, <2>5, TaskUndisturbed
<1>7. ASSUME NEW t \in Tasks, t.kind # "switch", Enqueue(t),
             UNCHANGED <<stored, browser, intents, run, suppressed>>,
             spent' \in [DOMAIN Limit -> Nat], spent'.edit <= MaxEdits
      PROVE  IInv'
  <2>1. UNCHANGED <<canon, ledger, journal, binding, alarms, open, shows, loading, req, intent, run, suppressed>>
    BY <1>7 DEF stored, browser, intents
  <2>2. QueueMatches' /\ queue' \in Seq(Tasks) /\ (queue # <<>> => queue' # <<>> /\ Head(queue') = Head(queue))
        /\ (run.stage # "idle" => queue' # <<>>)
    BY <1>0, <1>7, <2>1, Queueing DEF Enqueue
  <2>3. Shapes'
    BY <1>0, <1>2, <1>7, <2>1, <2>2 DEF Shapes, TypeOK, OrNone
  <2> QED BY <2>1, <2>2, <2>3, TaskUndisturbed
<1>8. CASE Discard
  <2>1. Task("discard", None) \in Tasks /\ Task("discard", None).kind # "switch"
    BY DEF Tasks, Task
  <2>2. spent' \in [DOMAIN Limit -> Nat] /\ spent'.edit <= MaxEdits
    BY <1>0, <1>8, Spending DEF Discard, Intervene, Events
  <2> QED BY <1>7, <1>8, <2>1, <2>2 DEF Discard
<1>9. ASSUME NEW k \in Windows, Unbind(k) PROVE IInv'
  <2>1. Task("unbind", k) \in Tasks /\ Task("unbind", k).kind # "switch"
    BY DEF Tasks, Task
  <2>2. spent' \in [DOMAIN Limit -> Nat] /\ spent'.edit <= MaxEdits
    BY <1>0, <1>9, Spending DEF Unbind, Intervene, Events
  <2> QED BY <1>7, <1>9, <2>1, <2>2 DEF Unbind
<1>10. CASE StartAgain
  <2>1. spent' \in [DOMAIN Limit -> Nat] /\ spent'.edit <= MaxEdits
    BY <1>0, <1>10 DEF StartAgain, Shapes
  <2> QED BY <1>0, <1>7, <1>10, <2>1 DEF StartAgain, Enqueue
<1> QED BY <1>3, <1>4, <1>5, <1>6, <1>8, <1>9, <1>10

----------------------------------------------------------------------------
(* The user, the autosave and the other parts of the extension.             *)
LEMMA WorldUndisturbed ==
    ASSUME spoilt' \in BOOLEAN, spoilt => spoilt', IInv, UNCHANGED <<req, queue, run, suppressed, journal>>,
           Shapes', Matched', OwnTabs', StageMatches'
    PROVE  IInv'
<1>1. QueueMatches'
  BY DEF IInv, QueueMatches, IsHead
<1>2. JournalMatches'
  BY DEF IInv, JournalMatches, Late, Running, IsHead, RunWindow, Active
<1> QED BY <1>1, <1>2 DEF IInv

(* A binding that is marked as stale, or saved once more.                   *)
LEMMA BindingFields ==
    ASSUME NEW c \in Bindings
    PROVE  /\ c.ws \in Workspaces /\ c.rev \in Nat
           /\ [c EXCEPT !.stale = TRUE] \in Bindings
           /\ [c EXCEPT !.stale = TRUE].ws = c.ws
           /\ [c EXCEPT !.rev = c.rev + 1] \in Bindings
           /\ [c EXCEPT !.rev = c.rev + 1].ws = c.ws
<1>1. [c EXCEPT !.stale = TRUE] \in Bindings /\ [c EXCEPT !.stale = TRUE].ws = c.ws
  BY DEF Bindings
<1>2. c.ws \in Workspaces /\ c.rev \in Nat /\ c.rev + 1 \in Nat
  BY DEF Bindings
<1>3. [c EXCEPT !.rev = c.rev + 1] \in Bindings /\ [c EXCEPT !.rev = c.rev + 1].ws = c.ws
  BY <1>2 DEF Bindings
<1> QED BY <1>1, <1>2, <1>3

(* A window is saved that shows its own tabs: no workspace gets another's.  *)
LEMMA Saving ==
    ASSUME NoneIsApart, IInv, NEW k \in Windows, SaveWindow(k)
    PROVE  /\ canon' \in [Workspaces -> [tabs : List, rev : Nat, status : {"live", "trashed", "gone"}]]
           /\ binding' \in [Windows -> OrNone(Bindings)]
           /\ \A w \in Workspaces : canon'[w].status = canon[w].status
           /\ UNCHANGED canon \/ (~spoilt /\ ~Mismatch(k)) => OwnTabs /\ (~spoilt => OwnTabsOnly')
           /\ \A x \in Windows : /\ binding'[x] = None <=> binding[x] = None
                                 /\ binding[x] # None => binding'[x].ws = binding[x].ws
<1>1. /\ canon \in [Workspaces -> [tabs : List, rev : Nat, status : {"live", "trashed", "gone"}]]
      /\ binding \in [Windows -> OrNone(Bindings)] /\ shows \in [Windows -> List]
      /\ OwnTabs
  BY DEF IInv, Shapes, TypeOK, OrNone, Bindings
<1>a. \A x \in Windows : binding[x] = None \/ binding[x] \in Bindings
  BY <1>1 DEF OrNone
<1>2. CASE ~Saves(k)
  BY <1>1, <1>2 DEF SaveWindow, OwnTabs, OwnTabsOnly
<1>3. CASE Saves(k)
  <2> DEFINE b == binding[k]
             old(x) == [binding[x] EXCEPT !.stale = TRUE]
             new == [b EXCEPT !.rev = b.rev + 1]
             w == b.ws
             c == [tabs |-> shows[k], rev |-> canon[w].rev + 1, status |-> canon[w].status]
  <2>1. b \in Bindings /\ w \in Workspaces /\ b.rev \in Nat /\ shows[k] \in List /\ (~Mismatch(k) => shows[k].owner = w)
    BY <1>1, <1>a, <1>3, BindingFields DEF Saves, Mismatch
  <2>2. new \in Bindings /\ new.ws = b.ws /\ new # None
    BY <2>1, BindingFields DEF NoneIsApart
  <2>3. \A x \in Windows : binding[x] # None =>
           binding[x] \in Bindings /\ old(x) \in Bindings /\ old(x).ws = binding[x].ws /\ old(x) # None
    BY <1>a, BindingFields DEF NoneIsApart
  <2>4. c \in [tabs : List, rev : Nat, status : {"live", "trashed", "gone"}]
        /\ c.tabs = shows[k] /\ c.status = canon[w].status
    BY <1>1, <2>1
  <2>5. \/ UNCHANGED <<canon, binding>>
        \/ binding' = [binding EXCEPT ![k] = old(k)] /\ UNCHANGED canon
        \/ /\ canon' = [canon EXCEPT ![w] = c]
           /\ binding' = [x \in Windows |-> IF x = k THEN new
                                            ELSE IF binding[x] # None /\ binding[x].ws = w THEN old(x) ELSE binding[x]]
    <3>1. canon[w] = [tabs |-> canon[w].tabs, rev |-> canon[w].rev, status |-> canon[w].status]
      BY <1>1, <2>1
    <3>2. [canon EXCEPT ![w].tabs = shows[k], ![w].rev = @ + 1] = [canon EXCEPT ![w] = c]
      BY <1>1, <2>1, <3>1
    <3> QED BY <1>3, <3>2 DEF SaveWindow
  <2> HIDE DEF b, new, w, c, old
  <2>6. CASE UNCHANGED <<canon, binding>>
    BY <1>1, <2>6 DEF OwnTabs, OwnTabsOnly
  <2>7. CASE binding' = [binding EXCEPT ![k] = old(k)] /\ UNCHANGED canon
    <3>1. b = binding[k] /\ binding[k] # None
      BY <1>3 DEF Saves, b
    <3>2. /\ binding' \in [Windows -> OrNone(Bindings)]
          /\ \A x \in Windows : /\ binding'[x] = None <=> binding[x] = None
                                /\ binding[x] # None => binding'[x].ws = binding[x].ws
      BY <1>1, <2>3, <2>7, <3>1 DEF OrNone
    <3> QED BY <1>1, <2>7, <3>2 DEF OwnTabs, OwnTabsOnly
  <2>8. CASE /\ canon' = [canon EXCEPT ![w] = c]
             /\ binding' = [x \in Windows |-> IF x = k THEN new
                                              ELSE IF binding[x] # None /\ binding[x].ws = w THEN old(x) ELSE binding[x]]
    <3>1. b = binding[k] /\ b # None
      BY <1>3 DEF Saves, b
    <3>2. binding' \in [Windows -> OrNone(Bindings)]
      BY <1>1, <2>2, <2>3, <2>8 DEF OrNone
    <3>3. \A x \in Windows : /\ binding'[x] = None <=> binding[x] = None
                             /\ binding[x] # None => binding'[x].ws = binding[x].ws
      BY <2>2, <2>3, <2>8, <3>1
    <3>4. canon' \in [Workspaces -> [tabs : List, rev : Nat, status : {"live", "trashed", "gone"}]]
          /\ \A x \in Workspaces : /\ canon'[x].status = canon[x].status
                                   /\ canon'[x].tabs = IF x = w THEN shows[k] ELSE canon[x].tabs
      BY <1>1, <2>1, <2>4, <2>8
    <3>5. ASSUME ~spoilt, UNCHANGED canon \/ ~Mismatch(k) PROVE OwnTabsOnly'
      BY <1>1, <2>1, <3>4, <3>5 DEF OwnTabs, OwnTabsOnly
    <3> QED BY <1>1, <3>2, <3>3, <3>4, <3>5
  <2> QED BY <2>5, <2>6, <2>7, <2>8
<1> QED BY <1>2, <1>3

(* A window that shows tabs of another workspace and is not journaled by    *)
(* the running switch, which suppresses its autosave, was left behind.      *)
LEMMA AutoSaved ==
    ASSUME IInv, ~spoilt, NEW k \in Windows, AutoSave(k), ~LeftBehind(k)
    PROVE  ~Mismatch(k)
<1>1. SUFFICES ASSUME Mismatch(k) PROVE FALSE
  OBVIOUS
<1>2. Journaled(k) /\ Shapes /\ QueueMatches
  BY <1>1 DEF IInv, Matched
<1>3. Running /\ journal.run = Active /\ journal # None /\ journal.window = k
  BY <1>2 DEF LeftBehind, Journaled
<1>4. req[Active].pc = "waiting"
  BY <1>2, <1>3, ActiveWaits DEF Running
<1>5. Late /\ RunWindow \in suppressed /\ journal.window = RunWindow
  BY <1>3, <1>4 DEF IInv, JournalMatches
<1> QED BY <1>3, <1>5 DEF AutoSave

LEMMA StageFacts ==
    ASSUME IInv
    PROVE  /\ run.stage \in Quiet \cup Acting =>
                Running /\ Active \in Requests /\ RunWindow \in Windows /\ req[Active].target \in Workspaces
           /\ run.stage \in Acting => /\ journal # None /\ journal.window = RunWindow /\ journal.run = Active
                                      /\ journal.target = req[Active].target
           /\ run.stage \in Recovering => journal # None
           /\ journal # None => journal \in Journals /\ journal.window \in Windows /\ journal.run \in Requests
           /\ \A k \in Windows : binding[k] \in OrNone(Bindings) /\ shows[k] \in List
           /\ run.stage \in Quiet => journal = None
<1>1. run.stage \in Quiet \cup Acting => run.stage # "idle"
  BY DEF Quiet, Acting, Early
<1>2. run.stage \in Quiet \cup Acting =>
          Running /\ Active \in Requests /\ RunWindow \in Windows /\ req[Active].target \in Workspaces
  BY <1>1, StageKinds, ActiveWaits DEF IInv
<1>3. run.stage \in Acting => Late
  BY <1>2 DEF Late
<1> QED BY <1>2, <1>3 DEF IInv, JournalMatches, Shapes, TypeOK, Journals, OrNone, Bindings, Recovering

LEMMA WorldInv ==
    ASSUME spoilt' \in BOOLEAN, spoilt => spoilt', NoneIsApart, IInv,
           \/ \E k \in Windows : Edit(k) \/ Loaded(k) \/ CloseWindow(k) \/ AutoSave(k)
           \/ \E w \in Workspaces : DataEdit(w) \/ Remove(w),
           ~spoilt' => ~Spoils
    PROVE  IInv'
<1>0. /\ Shapes /\ Matched /\ OwnTabs /\ StageMatches /\ TypeOK /\ JournalMatches
      /\ shows \in [Windows -> List] /\ binding \in [Windows -> OrNone(Bindings)]
      /\ canon \in [Workspaces -> [tabs : List, rev : Nat, status : {"live", "trashed", "gone"}]]
  BY DEF IInv, Shapes, TypeOK, OrNone, Bindings
<1>a. UNCHANGED <<req, queue, run, suppressed, journal, ledger, alarms, intent>>
  BY DEF Edit, Loaded, CloseWindow, AutoSave, DataEdit, Remove, stored, intents, browser
<1>b. UNCHANGED <<Active, RunWindow, Running>>
  BY <1>a DEF Active, RunWindow, Running, IsHead
<1>1. ASSUME NEW k \in Windows, Edit(k) PROVE IInv'
  <2>1. /\ UNCHANGED <<canon, binding, open, loading>> /\ ~InSwitch(k) /\ shows' = [shows EXCEPT ![k].stamp = spent'.edit]
        /\ spent' \in [DOMAIN Limit -> Nat] /\ spent'.edit <= MaxEdits /\ spent'.edit \in 0 .. MaxEdits
    BY <1>0, <1>1, Spending DEF Edit, stored, Events
  <2> DEFINE new == [shows[k] EXCEPT !.stamp = spent'.edit]
  <2>2. new \in List /\ new.owner = shows[k].owner
    BY <1>0, <2>1 DEF List
  <2>3. shows' = [shows EXCEPT ![k] = new]
    BY <2>1
  <2> HIDE DEF new
  <2>4. shows' \in [Windows -> List] /\ \A x \in Windows : shows'[x].owner = shows[x].owner /\ (x # k => shows'[x] = shows[x])
    BY <1>0, <2>2, <2>3
  <2>5. Shapes'
    BY <1>0, <1>a, <2>1, <2>4 DEF Shapes, TypeOK
  <2>6. Matched' /\ OwnTabs'
    BY <1>0, <1>a, <2>1, <2>4 DEF Matched, Mismatch, Journaled, OwnTabs, OwnTabsOnly
  <2>7. StageMatches'
    <3>1. (run.stage \in Quiet \cup Acting => RunWindow # k) /\ (journal # None => journal.window # k)
      BY <2>1, StageFacts DEF InSwitch, Journaled
    <3> QED BY <1>0, <1>a, <1>b, <2>1, <2>4, <3>1, StageFacts DEF StageMatches, Quiet, Acting, Early, Recovering
  <2> QED BY <1>a, <2>5, <2>6, <2>7, WorldUndisturbed
<1>2. ASSUME NEW k \in Windows, Loaded(k) PROVE IInv'
  <2>1. UNCHANGED <<canon, binding, open, shows, spent>> /\ loading' \subseteq loading
    BY <1>2 DEF Loaded, stored
  <2>2. Shapes' /\ Matched' /\ OwnTabs' /\ StageMatches'
    BY <1>0, <1>a, <1>b, <2>1 DEF Shapes, TypeOK, Matched, Mismatch, Journaled, OwnTabs, OwnTabsOnly, StageMatches
  <2> QED BY <1>a, <2>2, WorldUndisturbed
<1>3. ASSUME NEW k \in Windows, CloseWindow(k) PROVE IInv'
  <2>1. /\ UNCHANGED <<canon, shows>> /\ open' = open \ {k} /\ loading' = loading \ {k}
        /\ binding' = [binding EXCEPT ![k] = None]
        /\ spent' \in [DOMAIN Limit -> Nat] /\ spent'.edit <= MaxEdits
    BY <1>0, <1>3, Spending DEF CloseWindow, Events
  <2>2. binding' \in [Windows -> OrNone(Bindings)] /\ \A x \in Windows : binding'[x] = IF x = k THEN None ELSE binding[x]
    BY <1>0, <2>1 DEF OrNone
  <2>3. Shapes'
    BY <1>0, <1>a, <2>1, <2>2 DEF Shapes, TypeOK, OrNone, Bindings
  <2>4. Matched' /\ OwnTabs'
    BY <1>0, <1>a, <2>1, <2>2 DEF Matched, Mismatch, Journaled, OwnTabs, OwnTabsOnly
  <2>5. StageMatches'
    BY <1>0, <1>a, <1>b, <2>1, <2>2, StageFacts DEF StageMatches, Quiet, Acting, Early, Recovering
  <2> QED BY <1>a, <2>3, <2>4, <2>5, WorldUndisturbed
<1>4. ASSUME NEW k \in Windows, AutoSave(k) PROVE IInv'
  <2>1. UNCHANGED <<open, loading, shows, spent>> /\ SaveWindow(k)
    BY <1>4 DEF AutoSave, browser
  <2>2. /\ canon' \in [Workspaces -> [tabs : List, rev : Nat, status : {"live", "trashed", "gone"}]]
        /\ binding' \in [Windows -> OrNone(Bindings)]
        /\ \A w \in Workspaces : canon'[w].status = canon[w].status
        /\ UNCHANGED canon \/ (~spoilt /\ ~Mismatch(k)) => OwnTabs /\ (~spoilt => OwnTabsOnly')
        /\ \A x \in Windows : /\ binding'[x] = None <=> binding[x] = None
                              /\ binding[x] # None => binding'[x].ws = binding[x].ws
    BY <2>1, Saving
  <2>3. Shapes'
    BY <1>0, <1>a, <2>1, <2>2 DEF Shapes, TypeOK, OrNone, Bindings
  <2>4. Matched'
    BY <1>0, <1>a, <2>1, <2>2 DEF Matched, Mismatch, Journaled
  <2>5. OwnTabs'
    <3>1. ASSUME ~spoilt' PROVE OwnTabsOnly'
      <4>1. ~spoilt /\ (UNCHANGED canon \/ ~LeftBehind(k))
        BY <1>4, <3>1 DEF Spoils
      <4> QED BY <1>4, <2>2, <4>1, AutoSaved
    <3> QED BY <3>1 DEF OwnTabs
  <2>6. StageMatches'
    BY <1>0, <1>a, <1>b, <2>1, <2>2, StageFacts DEF StageMatches, Quiet, Acting, Early, Recovering
  <2> QED BY <1>a, <2>3, <2>4, <2>5, <2>6, WorldUndisturbed
<1>5. ASSUME NEW w \in Workspaces, DataEdit(w) PROVE IInv'
  <2>1. /\ UNCHANGED <<open, loading, shows>>
        /\ canon' = [canon EXCEPT ![w].tabs.stamp = spent'.edit, ![w].rev = @ + 1]
        /\ binding' = [k \in Windows |-> IF binding[k] # None /\ binding[k].ws = w
                                         THEN [binding[k] EXCEPT !.stale = TRUE] ELSE binding[k]]
        /\ spent' \in [DOMAIN Limit -> Nat] /\ spent'.edit <= MaxEdits /\ spent'.edit \in 0 .. MaxEdits
    BY <1>0, <1>5, Spending DEF DataEdit, browser, Events
  <2> DEFINE c == [canon[w] EXCEPT !.tabs.stamp = spent'.edit, !.rev = @ + 1]
  <2>2. c \in [tabs : List, rev : Nat, status : {"live", "trashed", "gone"}] /\ c.status = canon[w].status
        /\ c.tabs.owner = canon[w].tabs.owner
    BY <1>0, <2>1 DEF List
  <2>3. canon' = [canon EXCEPT ![w] = c]
    BY <1>0, <2>1
  <2> HIDE DEF c
  <2>4. /\ canon' \in [Workspaces -> [tabs : List, rev : Nat, status : {"live", "trashed", "gone"}]]
        /\ \A x \in Workspaces : canon'[x].tabs.owner = canon[x].tabs.owner /\ canon'[x].status = canon[x].status
    BY <1>0, <2>2, <2>3
  <2>5. /\ binding' \in [Windows -> OrNone(Bindings)]
        /\ \A x \in Windows : /\ binding'[x] = None <=> binding[x] = None
                              /\ binding[x] # None => binding'[x].ws = binding[x].ws
    <3>1. \A b \in Bindings : [b EXCEPT !.stale = TRUE] \in Bindings /\ [b EXCEPT !.stale = TRUE].ws = b.ws
      BY DEF Bindings
    <3> QED BY <1>0, <2>1, <3>1 DEF OrNone, NoneIsApart
  <2>6. Shapes'
    BY <1>0, <1>a, <2>1, <2>4, <2>5 DEF Shapes, TypeOK, OrNone, Bindings
  <2>7. Matched' /\ OwnTabs'
    BY <1>0, <1>a, <2>1, <2>4, <2>5 DEF Matched, Mismatch, Journaled, OwnTabs, OwnTabsOnly
  <2>8. StageMatches'
    BY <1>0, <1>a, <1>b, <2>1, <2>4, <2>5, StageFacts DEF StageMatches, Quiet, Acting, Early, Recovering
  <2> QED BY <1>a, <2>6, <2>7, <2>8, WorldUndisturbed
<1>6. ASSUME NEW w \in Workspaces, Remove(w) PROVE IInv'
  <2>1. /\ UNCHANGED <<open, loading, shows, binding>> /\ w \notin Busy
        /\ canon' = [canon EXCEPT ![w].status = IF @ = "live" THEN "trashed" ELSE "gone"]
        /\ spent' \in [DOMAIN Limit -> Nat] /\ spent'.edit <= MaxEdits
    BY <1>0, <1>6, Spending DEF Remove, browser, Events
  <2> DEFINE c == [canon[w] EXCEPT !.status = IF @ = "live" THEN "trashed" ELSE "gone"]
  <2>2. c \in [tabs : List, rev : Nat, status : {"live", "trashed", "gone"}] /\ c.tabs = canon[w].tabs
    BY <1>0
  <2>3. canon' = [canon EXCEPT ![w] = c]
    BY <1>0, <2>1
  <2> HIDE DEF c
  <2>4. /\ canon' \in [Workspaces -> [tabs : List, rev : Nat, status : {"live", "trashed", "gone"}]]
        /\ \A x \in Workspaces : canon'[x].tabs = canon[x].tabs /\ (x # w => canon'[x] = canon[x])
    BY <1>0, <2>2, <2>3
  <2>5. Shapes'
    BY <1>0, <1>a, <2>1, <2>4 DEF Shapes, TypeOK
  <2>6. Matched' /\ OwnTabs'
    BY <1>0, <1>a, <2>1, <2>4 DEF Matched, Mismatch, Journaled, OwnTabs, OwnTabsOnly
  <2>7. StageMatches'
    <3>1. journal # None => w # journal.target
      BY <2>1 DEF Busy
    <3>2. run.stage \in Acting => w # req[Active].target
      BY <3>1, StageFacts
    <3> QED BY <1>0, <1>a, <1>b, <2>1, <2>4, <3>2, StageFacts DEF StageMatches, Quiet, Acting, Early, Recovering
  <2> QED BY <1>a, <2>5, <2>6, <2>7, WorldUndisturbed
<1> QED BY <1>1, <1>2, <1>3, <1>4, <1>5, <1>6
----------------------------------------------------------------------------
(* The task at the head of the queue goes on, or ends.                      *)
World ==
  /\ canon \in [Workspaces -> [tabs : List, rev : Nat, status : {"live", "trashed", "gone"}]]
  /\ ledger \subseteq List /\ journal \in OrNone(Journals)
  /\ binding \in [Windows -> OrNone(Bindings)]
  /\ alarms \subseteq Requests /\ open \subseteq Windows /\ loading \subseteq open
  /\ shows \in [Windows -> List]
  /\ spent \in [DOMAIN Limit -> Nat] /\ spent.edit <= MaxEdits

LEMMA WorldOf ==
    ASSUME Shapes
    PROVE  World
BY DEF Shapes, TypeOK, World, OrNone, Journals, Bindings

LEMMA ShapesOf ==
    ASSUME spoilt' \in BOOLEAN, spoilt => spoilt', Shapes, World', UNCHANGED intent \/ intent' \in [Windows -> OrNone(Requests)],
           req' \in [Requests -> Inquiries],
           \A r \in Requests : req'[r].pc # "idle" => req'[r].window \in Windows /\ req'[r].target \in Workspaces,
           queue' \in Seq(Tasks), run' \in Runs, suppressed' \subseteq Windows,
           run'.stage \in Recovering => journal' # None,
           run'.stage # "idle" => queue' # <<>>
    PROVE  Shapes'
BY DEF Shapes, TypeOK, World, OrNone, Journals, Bindings, Recovering

JournalHolds ==
  journal # None => /\ req[journal.run].pc = "done"
                    /\ journal.source # None => spoilt \/ journal.tabs.owner = journal.source

LEMMA Idling ==
    ASSUME spoilt' \in BOOLEAN, spoilt => spoilt', IInv, queue # <<>>, queue' = Tail(queue), run' = NoRun,
           World', Matched', OwnTabs', JournalHolds',
           intent' \in [Windows -> OrNone(Requests)], suppressed' \subseteq Windows,
           req' \in [Requests -> Inquiries],
           \A r \in Requests : req'[r].window = req[r].window /\ req'[r].target = req[r].target
                               /\ (req'[r].pc = "idle" => req[r].pc = "idle")
                               /\ (req[r].pc = "idle" => req'[r].pc = "idle"),
           \A r \in Requests : req[r].pc = "waiting" => req'[r].pc = "waiting" \/ (IsHead("switch") /\ r = Active)
    PROVE  IInv'
<1>1. Shapes /\ QueueMatches
  BY DEF IInv
<1>2. /\ Len(queue) \in Nat /\ Len(queue) > 0 /\ queue' \in Seq(Tasks) /\ Len(queue') = Len(queue) - 1
      /\ Head(queue) = queue[1] /\ \A i \in 1 .. Len(queue') : queue'[i] = queue[i + 1]
      /\ \A i \in 1 .. Len(queue) : queue[i] \in Tasks
  BY <1>1, TaskSequences, ElementOfSeq DEF Shapes
<1>3. run'.stage = "idle" /\ run'.after = "end" /\ run' \in Runs
  BY Lists DEF NoRun, Runs, OrNone
<1>4. \A i \in 1 .. Len(queue') : queue'[i].kind = "switch" => req'[queue'[i].who].pc = "waiting"
  <2> SUFFICES ASSUME NEW i \in 1 .. Len(queue'), queue'[i].kind = "switch"
               PROVE  req'[queue'[i].who].pc = "waiting"
    OBVIOUS
  <2>1. i + 1 \in 1 .. Len(queue) /\ 1 \in 1 .. Len(queue) /\ i + 1 # 1 /\ queue'[i] = queue[i + 1]
    BY <1>2
  <2>2. queue[i + 1].who \in Requests /\ req[queue[i + 1].who].pc = "waiting"
    BY <1>1, <1>2, <2>1, TaskKinds DEF QueueMatches
  <2>3. ~(IsHead("switch") /\ queue[i + 1].who = Active)
    BY <1>1, <1>2, <2>1 DEF QueueMatches, IsHead, Active
  <2> QED BY <2>1, <2>2, <2>3
<1>5. \A i, j \in 1 .. Len(queue') :
        queue'[i].kind = "switch" /\ queue'[j].kind = "switch" /\ queue'[i].who = queue'[j].who => i = j
  <2> SUFFICES ASSUME NEW i \in 1 .. Len(queue'), NEW j \in 1 .. Len(queue'),
                      queue'[i].kind = "switch", queue'[j].kind = "switch", queue'[i].who = queue'[j].who
               PROVE  i = j
    OBVIOUS
  <2>1. i + 1 \in 1 .. Len(queue) /\ j + 1 \in 1 .. Len(queue) /\ queue'[i] = queue[i + 1] /\ queue'[j] = queue[j + 1]
    BY <1>2
  <2>2. i + 1 = j + 1
    BY <1>1, <2>1 DEF QueueMatches
  <2> QED BY <2>2
<1>6. QueueMatches'
  BY <1>3, <1>4, <1>5 DEF QueueMatches, Recovering
<1>7. Shapes'
  <2>1. \A r \in Requests : req'[r].pc # "idle" => req'[r].window \in Windows /\ req'[r].target \in Workspaces
    BY <1>1 DEF Shapes
  <2> QED BY <1>1, <1>2, <1>3, <2>1, ShapesOf DEF Recovering
<1>8. JournalMatches' /\ StageMatches'
  BY <1>3 DEF JournalMatches, StageMatches, JournalHolds, Late, Running, Quiet, Early, Acting, Recovering
<1> QED BY <1>6, <1>7, <1>8 DEF IInv

Results == {"ok", "failed", "superseded", "recovery_required"}

(* The switch at the head is answered.                                      *)
LEMMA Finishing ==
    ASSUME spoilt' \in BOOLEAN, spoilt => spoilt', IInv, IsHead("switch"), NEW result \in Results, Finish(result), World', Matched', OwnTabs',
           journal' # None => /\ journal'.run \in Requests
                              /\ req[journal'.run].pc = "done" \/ journal'.run = Active
                              /\ journal'.source # None => spoilt' \/ journal'.tabs.owner = journal'.source
    PROVE  IInv'
<1>1. Shapes /\ QueueMatches
  BY DEF IInv
<1>2. Active \in Requests /\ req[Active].pc = "waiting" /\ queue # <<>> /\ req[Active] \in Inquiries
  BY <1>1, ActiveWaits DEF Shapes
<1> DEFINE q == Answered(req[Active], result)
<1>3. q \in Inquiries /\ q.pc = "done" /\ q.window = req[Active].window /\ q.target = req[Active].target
  BY <1>2 DEF Answered, Inquiries, Results
<1>4. req' = [req EXCEPT ![Active] = q]
  BY DEF Finish
<1> HIDE DEF q
<1>5. /\ req' \in [Requests -> Inquiries] /\ req'[Active].pc = "done"
      /\ \A r \in Requests : /\ r # Active => req'[r] = req[r]
                             /\ req'[r].window = req[r].window /\ req'[r].target = req[r].target
  BY <1>1, <1>2, <1>3, <1>4 DEF Shapes
<1>6. JournalHolds'
  BY <1>5 DEF JournalHolds
<1>7. intent' \in [Windows -> OrNone(Requests)] /\ suppressed' \subseteq Windows
      /\ queue' = Tail(queue) /\ run' = NoRun
  BY <1>1 DEF Finish, Shapes, TypeOK, OrNone
<1>8. \A r \in Requests : /\ req'[r].pc = "idle" <=> req[r].pc = "idle"
                          /\ req[r].pc = "waiting" => req'[r].pc = "waiting" \/ r = Active
  BY <1>2, <1>5
<1> QED BY <1>2, <1>5, <1>6, <1>7, <1>8, Idling

(* It goes on.                                                              *)
LEMMA Continuing ==
    ASSUME spoilt' \in BOOLEAN, spoilt => spoilt', IInv, queue # <<>>, UNCHANGED <<req, queue, intent>>, World', Matched', OwnTabs', StageMatches',
           JournalMatches', run' \in Runs, suppressed' \subseteq Windows, run'.stage \in Recovering => journal' # None,
           \/ /\ IsHead("switch") /\ run'.stage # "remove"
              /\ run'.stage \in Recovering => run'.after \in {"recheck", "answer"}
           \/ IsHead("recover") /\ run'.stage \in Recovering /\ run'.after = "end"
           \/ IsHead("unbind") /\ run'.stage = "remove"
    PROVE  IInv'
<1>1. Shapes /\ QueueMatches
  BY DEF IInv
<1>2. Shapes'
  BY <1>1, ShapesOf DEF Shapes
<1>3. QueueMatches'
  BY <1>1 DEF QueueMatches, IsHead
<1> QED BY <1>2, <1>3 DEF IInv

LEMMA JournalStays ==
    ASSUME spoilt' \in BOOLEAN, spoilt => spoilt', IInv, UNCHANGED <<req, queue, journal, suppressed>>,
           run'.stage \in Quiet => run.stage \in Quiet,
           Running' /\ run'.stage \in Early => Running /\ run.stage \in Early,
           Late' <=> Late
    PROVE  JournalMatches'
<1>1. UNCHANGED <<Active, RunWindow>>
  BY DEF Active, RunWindow
<1> QED BY <1>1 DEF IInv, JournalMatches

LEMMA RunFields ==
    ASSUME run \in Runs, NEW stage \in {"idle", "remove"} \cup Quiet \cup Acting \cup Recovering, Enter(stage)
    PROVE  /\ run' \in Runs /\ run'.stage = stage
           /\ run'.after = run.after /\ run'.source = run.source /\ run'.plan = run.plan /\ run'.before = run.before
BY DEF Runs, Enter

LEMMA CrashInv ==
    ASSUME spoilt' \in BOOLEAN, spoilt => spoilt', IInv, Crash
    PROVE  IInv'
<1>1. Shapes /\ QueueMatches /\ World /\ TypeOK
  BY WorldOf DEF IInv, Shapes
<1>2. /\ UNCHANGED <<canon, ledger, journal, binding, alarms, open, shows, loading>>
      /\ queue' = <<RecoverTask>> /\ run' = NoRun /\ suppressed' = {}
      /\ spent' \in [DOMAIN Limit -> Nat] /\ spent'.edit <= MaxEdits
  BY <1>1, Spending DEF Crash, stored, browser, Events
<1>3. run'.stage = "idle" /\ run' \in Runs
  BY <1>2, Lists DEF NoRun, Runs, OrNone
<1>4. \A r \in Requests : /\ req'[r] \in Inquiries /\ req'[r].window = req[r].window /\ req'[r].target = req[r].target
                          /\ req'[r].pc = IF req[r].pc \in {"resolving", "waiting"} THEN "done" ELSE req[r].pc
  <2> SUFFICES ASSUME NEW r \in Requests
               PROVE  /\ req'[r] \in Inquiries /\ req'[r].window = req[r].window /\ req'[r].target = req[r].target
                      /\ req'[r].pc = IF req[r].pc \in {"resolving", "waiting"} THEN "done" ELSE req[r].pc
    OBVIOUS
  <2>1. Answered(req[r], "lost") \in Inquiries /\ Answered(req[r], "lost").pc = "done"
        /\ Answered(req[r], "lost").window = req[r].window /\ Answered(req[r], "lost").target = req[r].target
    BY <1>1 DEF Answered, Inquiries, Shapes
  <2>2. req'[r] = IF req[r].pc \in {"resolving", "waiting"} THEN Answered(req[r], "lost") ELSE req[r]
    BY DEF Crash
  <2> QED BY <1>1, <2>1, <2>2 DEF Shapes
<1>5. req' \in [Requests -> Inquiries]
  <2>1. req' = [r \in Requests |-> IF req[r].pc \in {"resolving", "waiting"} THEN Answered(req[r], "lost") ELSE req[r]]
    BY DEF Crash
  <2>2. req' = [r \in Requests |-> req'[r]]
    BY <2>1
  <2> QED BY <1>4, <2>2
<1>6. intent' \in [Windows -> OrNone(Requests)]
  BY DEF Crash, OrNone
<1>7. RecoverTask \in Tasks /\ RecoverTask.kind = "recover" /\ queue' \in Seq(Tasks) /\ Len(queue') = 1
      /\ queue'[1] = RecoverTask
  BY <1>2 DEF Tasks, RecoverTask, Task
<1>8. QueueMatches'
  BY <1>3, <1>7 DEF QueueMatches, Recovering
<1>9. Shapes'
  <2>1. World'
    BY <1>1, <1>2 DEF World
  <2>2. \A r \in Requests : req'[r].pc # "idle" => req'[r].window \in Windows /\ req'[r].target \in Workspaces
    BY <1>1, <1>4 DEF Shapes
  <2> QED BY <1>1, <1>2, <1>3, <1>5, <1>6, <1>7, <2>1, <2>2, ShapesOf DEF Recovering
<1>10. JournalMatches' /\ StageMatches'
  <2>1. journal # None => journal.run \in Requests
    BY <1>1 DEF World, OrNone, Journals
  <2>2. Late => Active \in Requests /\ req[Active].pc = "waiting"
    BY <1>1, ActiveWaits DEF Late, Running
  <2> QED BY <1>2, <1>3, <1>4, <2>1, <2>2
          DEF IInv, JournalMatches, StageMatches, Late, Running, Quiet, Early, Acting, Recovering
<1>11. Matched' /\ OwnTabs'
  BY <1>2 DEF IInv, Matched, Mismatch, Journaled, OwnTabs, OwnTabsOnly
<1> QED BY <1>8, <1>9, <1>10, <1>11 DEF IInv
LEMMA WorldStays ==
    ASSUME spoilt' \in BOOLEAN, spoilt => spoilt', IInv, UNCHANGED <<stored, browser, spent>>
    PROVE  /\ World' /\ Matched' /\ OwnTabs'
           /\ journal' # None => /\ journal'.run \in Requests
                                 /\ req[journal'.run].pc = "done" \/ journal'.run = Active
                                 /\ journal'.source # None => spoilt' \/ journal'.tabs.owner = journal'.source
<1>1. World /\ UNCHANGED <<canon, ledger, journal, binding, alarms, open, shows, loading, spent>>
  BY WorldOf DEF IInv, stored, browser
<1>2. World' /\ Matched' /\ OwnTabs'
  BY <1>1 DEF World, IInv, Matched, Mismatch, Journaled, OwnTabs, OwnTabsOnly
<1> QED BY <1>1, <1>2 DEF IInv, JournalMatches, World, Journals, OrNone

LEMMA FailingEarly ==
    ASSUME spoilt' \in BOOLEAN, spoilt => spoilt', IInv, run.stage \in Early \cup {"idle", "recheck"}, IsHead("switch"), FailEarly,
           UNCHANGED <<stored, browser, spent>>
    PROVE  IInv'
<1>1. PICK result \in Results : Finish(result)
  BY DEF FailEarly, Results
<1> QED BY <1>1, WorldStays, Finishing

LEMMA FailingLate ==
    ASSUME spoilt' \in BOOLEAN, spoilt => spoilt', IInv, run.stage \in Acting, FailLate, World', Matched', OwnTabs', UNCHANGED journal
    PROVE  IInv'
<1>1. /\ Running /\ queue # <<>> /\ run \in Runs /\ Shapes /\ JournalMatches
  BY StageKinds DEF IInv, Acting, Shapes
<1>2. run' \in Runs /\ run'.stage = "recover" /\ run'.after = "answer"
  BY <1>1 DEF FailLate, Runs, Recovering
<1>3. UNCHANGED <<req, queue, intent, suppressed>>
  BY DEF FailLate, SameTask, intents
<1>4. Late /\ Late' /\ Running' /\ journal # None
  BY <1>1, <1>2, <1>3 DEF Late, Running, IsHead, Recovering, JournalMatches
<1>5. JournalMatches'
  BY <1>2, <1>3, <1>4, JournalStays DEF Quiet, Early
<1>6. StageMatches'
  BY <1>2 DEF StageMatches, Acting
<1>7. IsHead("switch") /\ suppressed \subseteq Windows
  BY <1>1 DEF Running, Shapes, TypeOK
<1> QED BY <1>1, <1>2, <1>3, <1>4, <1>5, <1>6, <1>7, Continuing

LEMMA BeginSwitchInv ==
    ASSUME spoilt' \in BOOLEAN, spoilt => spoilt', IInv, BeginSwitch
    PROVE  IInv'
<1>0. /\ Shapes /\ QueueMatches /\ JournalMatches /\ run \in Runs /\ queue # <<>>
      /\ IsHead("switch") /\ run.stage \in {"idle", "recheck"} /\ UNCHANGED <<stored, browser, spent>>
      /\ suppressed \subseteq Windows /\ journal' = journal
  BY DEF IInv, Shapes, TypeOK, BeginSwitch, IsHead, stored
<1>1. Active \in Requests /\ RunWindow \in Windows /\ ~IsHead("recover")
  BY <1>0, ActiveWaits DEF IsHead
<1>2. World /\ World' /\ Matched' /\ OwnTabs' /\ ~Late
  BY <1>0, WorldOf, WorldStays DEF Late, Running, Acting, Recovering
<1>3. CASE FinishCancelled
  BY <1>0, <1>3, FailingEarly DEF FinishCancelled, FailEarly
<1>4. CASE run.stage = "idle" /\ journal # None /\ run' = [NoRun EXCEPT !.stage = "recover", !.after = "recheck"] /\ SameTask
  <2>1. run' \in Runs /\ run'.stage = "recover" /\ run'.after = "recheck"
    BY <1>4, Lists DEF NoRun, Runs, OrNone, Recovering
  <2>2. UNCHANGED <<req, queue, intent, suppressed>>
    BY <1>4 DEF SameTask, intents
  <2>3. JournalMatches'
    <3>1. ~Late'
      BY <2>1 DEF Late, Acting
    <3> QED BY <1>0, <1>2, <2>1, <2>2, <3>1, JournalStays DEF Quiet, Early
  <2>4. StageMatches'
    BY <2>1 DEF StageMatches, Acting
  <2> QED BY <1>0, <1>1, <1>2, <1>4, <2>1, <2>2, <2>3, <2>4, Continuing
<1>5. CASE /\ run.stage = "idle" => journal = None
           /\ run' = [NoRun EXCEPT !.stage = "reserve", !.source = binding[RunWindow], !.before = shows[RunWindow]]
           /\ suppressed' = suppressed \cup {RunWindow}
           /\ UNCHANGED <<intents, queue, started>>
  <2>1. binding[RunWindow] \in OrNone(Bindings) /\ shows[RunWindow] \in List
    BY <1>1, <1>2 DEF World
  <2>2. run' \in Runs /\ run'.stage = "reserve"
    BY <1>5, <2>1 DEF NoRun, Runs, OrNone, Early, Quiet
  <2>3. UNCHANGED <<req, queue, intent, Active, RunWindow>> /\ suppressed' \subseteq Windows
    BY <1>0, <1>1, <1>5 DEF intents, Active, RunWindow
  <2>4. journal = None
    BY <1>0, <1>5 DEF JournalMatches, Quiet
  <2>5. ~Late'
    BY <2>2 DEF Late, Acting, Recovering
  <2>6. JournalMatches'
    BY <1>0, <1>5, <2>2, <2>3, <2>4, <2>5 DEF JournalMatches
  <2>7. StageMatches'
    BY <2>2 DEF StageMatches, Acting
  <2>8. run'.stage \notin Recovering
    BY <2>2 DEF Recovering
  <2> QED BY <1>0, <1>1, <1>2, <2>2, <2>3, <2>6, <2>7, <2>8, Continuing
<1> QED BY <1>0, <1>3, <1>4, <1>5 DEF BeginSwitch

LEMMA ReserveInv ==
    ASSUME spoilt' \in BOOLEAN, spoilt => spoilt', IInv, Reserve
    PROVE  IInv'
<1>0. /\ run.stage = "reserve" /\ queue # <<>> /\ UNCHANGED <<stored, browser, spent>>
      /\ run \in Runs /\ suppressed \subseteq Windows /\ journal' = journal
  BY DEF Reserve, Stage, IInv, Shapes, TypeOK, stored
<1>1. IsHead("switch") /\ ~IsHead("recover") /\ Running
  BY <1>0, StageKinds DEF IInv, Quiet, Early, IsHead
<1>2. World' /\ Matched' /\ OwnTabs'
  BY <1>0, WorldStays
<1>3. CASE FailEarly
  BY <1>0, <1>1, <1>3, FailingEarly DEF Early
<1>4. CASE run' = [run EXCEPT !.stage = "flush", !.reserved = TRUE] /\ SameTask
  <2>1. run' \in Runs /\ run'.stage = "flush"
    BY <1>0, <1>4 DEF Runs, Quiet, Early
  <2>2. UNCHANGED <<req, queue, intent, suppressed>>
    BY <1>4 DEF SameTask, intents
  <2>3. ~Late /\ ~Late'
    BY <1>0, <2>1 DEF Late, Acting, Recovering
  <2>4. JournalMatches' /\ StageMatches'
    BY <1>0, <1>1, <2>1, <2>2, <2>3, JournalStays DEF Quiet, Early, StageMatches, Acting
  <2>5. run'.stage \notin Recovering
    BY <2>1 DEF Recovering
  <2> QED BY <1>0, <1>1, <1>2, <2>1, <2>2, <2>4, <2>5, Continuing
<1> QED BY <1>3, <1>4 DEF Reserve

LEMMA FlushSourceInv ==
    ASSUME spoilt' \in BOOLEAN, spoilt => spoilt', NoneIsApart, IInv, FlushSource
    PROVE  IInv'
<1>0. /\ run.stage = "flush" /\ queue # <<>> /\ UNCHANGED <<journal, alarms, browser, spent>>
      /\ run \in Runs /\ suppressed \subseteq Windows /\ World
  BY WorldOf DEF FlushSource, Stage, IInv, Shapes, TypeOK
<1>1. /\ IsHead("switch") /\ ~IsHead("recover") /\ Running
      /\ RunWindow \in Windows /\ journal = None
  BY <1>0, StageKinds, StageFacts DEF IInv, Quiet, Early, IsHead
<1>2. CASE FailEarly /\ UNCHANGED <<canon, ledger, binding>>
  BY <1>0, <1>1, <1>2, FailingEarly DEF Early, stored
<1>3. CASE /\ SaveWindow(RunWindow)
           /\ ledger' = IF binding'[RunWindow] # None /\ binding'[RunWindow].stale /\ RunWindow \notin loading
                        THEN ledger \cup {shows[RunWindow]} ELSE ledger
           /\ run' = [run EXCEPT !.stage = "own", !.source = binding'[RunWindow]]
           /\ SameTask
  <2>1. ~spoilt => \A x \in Windows : ~Mismatch(x)
    BY <1>1 DEF IInv, Matched, Journaled
  <2>2. /\ canon' \in [Workspaces -> [tabs : List, rev : Nat, status : {"live", "trashed", "gone"}]]
        /\ binding' \in [Windows -> OrNone(Bindings)]
        /\ \A w \in Workspaces : canon'[w].status = canon[w].status
        /\ ~spoilt => OwnTabsOnly'
        /\ \A x \in Windows : /\ binding'[x] = None <=> binding[x] = None
                              /\ binding[x] # None => binding'[x].ws = binding[x].ws
    BY <1>1, <1>3, <2>1, Saving
  <2>3. World'
    <3>1. ledger' \subseteq List
      BY <1>0, <1>1, <1>3 DEF World
    <3> QED BY <1>0, <2>2, <3>1 DEF World, browser
  <2>4. Matched' /\ OwnTabs'
    BY <1>0, <2>1, <2>2 DEF Matched, Mismatch, OwnTabs, OwnTabsOnly, browser
  <2>5. binding'[RunWindow] \in OrNone(Bindings)
    BY <1>1, <2>2
  <2>6. run' \in Runs /\ run'.stage = "own" /\ run'.source = binding'[RunWindow]
    BY <1>0, <1>3, <2>5 DEF Runs, Quiet, Early
  <2>7. UNCHANGED <<req, queue, intent, suppressed, Active, RunWindow>>
    BY <1>3 DEF SameTask, intents, Active, RunWindow
  <2>8. ~Late /\ ~Late' /\ run'.stage \notin Recovering
    BY <1>0, <2>6 DEF Late, Acting, Recovering
  <2>9. JournalMatches'
    BY <1>0, <1>1, <2>6, <2>7, <2>8, JournalStays DEF Quiet, Early
  <2>10. StageMatches'
    BY <1>0, <1>1, <2>1, <2>2, <2>6, <2>7 DEF StageMatches, Acting, Mismatch, browser
  <2> QED BY <1>0, <1>1, <2>3, <2>4, <2>6, <2>7, <2>8, <2>9, <2>10, Continuing
<1> QED BY <1>2, <1>3 DEF FlushSource
LEMMA OwnInv ==
    ASSUME spoilt' \in BOOLEAN, spoilt => spoilt', NoneIsApart, IInv, Own
    PROVE  IInv'
<1> DEFINE k == RunWindow
           w == req[Active].target
           b == run.source
           source == IF b # None /\ (b # None => canon[b.ws].status # "gone") THEN b.ws ELSE None
<1>0. /\ run.stage = "own" /\ queue # <<>> /\ UNCHANGED <<canon, ledger, binding, browser, spent>>
      /\ run \in Runs /\ suppressed \subseteq Windows /\ World /\ Shapes /\ QueueMatches
  BY WorldOf DEF Own, Stage, IInv, Shapes, TypeOK
<1>1. /\ IsHead("switch") /\ ~IsHead("recover") /\ Running
      /\ k \in Windows /\ w \in Workspaces /\ journal = None /\ Active \in Requests /\ k \in suppressed
  BY <1>0, StageKinds, StageFacts DEF IInv, Quiet, Early, IsHead, JournalMatches
<1>2. CASE FailEarly /\ UNCHANGED <<journal, alarms>>
  BY <1>0, <1>1, <1>2, FailingEarly DEF Early, stored
<1>3. CASE Finish("ok") /\ UNCHANGED <<journal, alarms>>
  BY <1>0, <1>1, <1>3, WorldStays, Finishing DEF Results, stored
<1>4. CASE /\ journal' = [run |-> Active, window |-> k, target |-> w, source |-> source,
                          rev |-> IF b = None THEN 0 ELSE b.rev,
                          tabs |-> Snapshot(k, source), failed |-> FALSE]
           /\ alarms' = alarms \cup {Active}
           /\ run' = [run EXCEPT !.stage = "prepare",
                                 !.plan = [tabs |-> canon[w].tabs, rev |-> canon[w].rev]]
           /\ SameTask
  <2>1. b = None \/ (b \in Bindings /\ b.ws \in Workspaces /\ b.rev \in Nat)
    BY <1>0 DEF Runs, OrNone, Bindings
  <2>2. source \in OrNone(Workspaces) /\ (source # None => b # None /\ source = b.ws)
    BY <2>1 DEF OrNone
  <2>3. b # None => spoilt \/ shows[k].owner = b.ws
    BY <1>0 DEF IInv, StageMatches
  <2> HIDE DEF b, source
  <2>4. Snapshot(k, source) \in List /\ (source # None => spoilt \/ Snapshot(k, source).owner = source)
    <3>1. shows[k] \in List /\ Nothing \in List
      BY <1>0, <1>1, Lists DEF World
    <3>2. source # None => source \in Workspaces /\ canon[source].tabs \in List /\ (spoilt \/ canon[source].tabs.owner = source)
      BY <1>0, <2>2 DEF World, IInv, OwnTabs, OwnTabsOnly, OrNone
    <3> QED BY <2>2, <2>3, <3>1, <3>2 DEF Snapshot
  <2>5. (IF b = None THEN 0 ELSE b.rev) \in Nat
    BY <2>1
  <2>6. /\ journal' \in Journals /\ journal' # None
        /\ journal'.run = Active /\ journal'.window = k /\ journal'.target = w
        /\ journal'.source = source /\ journal'.tabs = Snapshot(k, source)
    <3>1. journal' \in Journals
      BY <1>1, <1>4, <2>2, <2>4, <2>5 DEF Journals
    <3>2. /\ journal'.run = Active /\ journal'.window = k /\ journal'.target = w
          /\ journal'.source = source /\ journal'.tabs = Snapshot(k, source)
      BY <1>4
    <3> QED BY <3>1, <3>2 DEF NoneIsApart
  <2>7. /\ run' \in Runs /\ run'.stage = "prepare"
        /\ run'.plan # None /\ (spoilt' \/ run'.plan.tabs.owner = w)
    <3> DEFINE p == [tabs |-> canon[w].tabs, rev |-> canon[w].rev]
    <3>1. p \in Plans /\ p # None /\ (spoilt \/ p.tabs.owner = w)
      BY <1>0, <1>1 DEF World, Plans, NoneIsApart, IInv, OwnTabs, OwnTabsOnly
    <3>2. run' = [run EXCEPT !.stage = "prepare", !.plan = p]
      BY <1>4
    <3> HIDE DEF p
    <3> QED BY <1>0, <3>1, <3>2 DEF Runs, Acting, OrNone
  <2>8. UNCHANGED <<req, queue, intent, suppressed, Active, RunWindow>>
    BY <1>4 DEF SameTask, intents, Active, RunWindow
  <2>9. World'
    BY <1>0, <1>1, <1>4, <2>6 DEF World, OrNone, browser
  <2>10. Matched' /\ OwnTabs'
    BY <1>0, <1>1 DEF IInv, Matched, Mismatch, Journaled, OwnTabs, OwnTabsOnly, browser
  <2>11. Late' /\ run'.stage \notin Quiet /\ run'.stage \notin Early /\ run'.stage \notin Recovering
    BY <1>1, <2>7, <2>8 DEF Late, Running, IsHead, Acting, Quiet, Early, Recovering
  <2>12. JournalMatches'
    BY <1>1, <2>4, <2>6, <2>8, <2>11 DEF JournalMatches
  <2>13. StageMatches'
    BY <2>7, <2>8 DEF StageMatches
  <2> QED BY <1>0, <1>1, <2>7, <2>8, <2>9, <2>10, <2>11, <2>12, <2>13, Continuing
<1> QED BY <1>2, <1>3, <1>4 DEF Own

(* After the journal has been written.                                      *)
LEMMA ActingOn ==
    ASSUME spoilt' \in BOOLEAN, spoilt => spoilt', IInv, run.stage \in Acting, NEW stage \in Acting, Enter(stage), SameTask, UNCHANGED journal,
           World', Matched', OwnTabs', StageMatches'
    PROVE  IInv'
<1>1. /\ run \in Runs /\ queue # <<>> /\ IsHead("switch") /\ ~IsHead("recover") /\ Running /\ suppressed \subseteq Windows
  BY StageKinds DEF IInv, Shapes, TypeOK, Acting, IsHead
<1>2. run' \in Runs /\ run'.stage = stage
  BY <1>1, RunFields
<1>3. UNCHANGED <<req, queue, intent, suppressed>>
  BY DEF SameTask, intents
<1>4. Late /\ Late' /\ stage \notin Quiet /\ stage \notin Early /\ stage \notin Recovering /\ stage # "remove"
  BY <1>1, <1>2, <1>3 DEF Late, Running, IsHead, Acting, Quiet, Early, Recovering
<1>5. JournalMatches'
  BY <1>2, <1>3, <1>4, JournalStays
<1> QED BY <1>1, <1>2, <1>3, <1>4, <1>5, Continuing

LEMMA ActingFacts ==
    ASSUME IInv, run.stage \in Acting
    PROVE  /\ run \in Runs /\ World /\ StageMatches /\ Matched /\ OwnTabs
           /\ IsHead("switch") /\ ~IsHead("recover") /\ Running /\ queue # <<>>
           /\ Active \in Requests /\ RunWindow \in Windows /\ req[Active].target \in Workspaces
           /\ journal # None /\ journal.window = RunWindow /\ Journaled(RunWindow)
           /\ run.plan \in Plans /\ run.plan # None /\ run.plan.tabs \in List /\ run.plan.rev \in Nat
           /\ spoilt \/ run.plan.tabs.owner = req[Active].target
           /\ SameTask => UNCHANGED <<req, queue, intent, suppressed, Active, RunWindow>>
<1>1. run \in Runs /\ World /\ StageMatches /\ Matched /\ OwnTabs /\ Shapes /\ QueueMatches
  BY WorldOf DEF IInv, Shapes
<1>2. IsHead("switch") /\ ~IsHead("recover") /\ Running /\ queue # <<>>
  BY <1>1, StageKinds DEF Acting, IsHead
<1>3. run.plan \in Plans /\ run.plan # None
  BY <1>1 DEF StageMatches, Runs, OrNone
<1> QED BY <1>1, <1>2, <1>3, StageFacts DEF Plans, StageMatches, Journaled, SameTask, intents, Active, RunWindow

LEMMA PrepareInv ==
    ASSUME spoilt' \in BOOLEAN, spoilt => spoilt', IInv, Prepare
    PROVE  IInv'
<1>0. run.stage = "prepare" /\ run.stage \in Acting /\ UNCHANGED stored /\ Shapes
  BY DEF Prepare, Stage, Acting, IInv
<1>1. UNCHANGED <<canon, ledger, journal, binding, alarms, open, shows>> /\ loading' \subseteq open
      /\ spent' \in [DOMAIN Limit -> Nat] /\ spent'.edit <= MaxEdits
  <2>1. loading \subseteq open /\ spent \in [DOMAIN Limit -> Nat] /\ spent.edit <= MaxEdits
    BY <1>0, WorldOf DEF World
  <2> QED BY <1>0, <2>1, Spending DEF Prepare, stored, browser, Events
<1>2. World' /\ Matched' /\ OwnTabs'
  BY <1>0, <1>1, WorldOf DEF World, IInv, Matched, Mismatch, Journaled, OwnTabs, OwnTabsOnly
<1>3. CASE FailLate
  BY <1>0, <1>1, <1>2, <1>3, FailingLate
<1>4. CASE Enter("commit") /\ SameTask
  <2>1. StageMatches'
    BY <1>0, <1>4, ActingFacts, RunFields DEF StageMatches, Acting
  <2> QED BY <1>0, <1>1, <1>2, <1>4, <2>1, ActingOn DEF Acting
<1> QED BY <1>3, <1>4 DEF Prepare

LEMMA CommitInv ==
    ASSUME spoilt' \in BOOLEAN, spoilt => spoilt', IInv, Commit
    PROVE  IInv'
<1>0. run.stage = "commit" /\ run.stage \in Acting /\ UNCHANGED <<stored, browser, spent>> /\ journal' = journal
  BY DEF Commit, Stage, Acting, stored
<1>1. World' /\ Matched' /\ OwnTabs'
  BY <1>0, WorldStays
<1>2. CASE FailLate
  BY <1>0, <1>1, <1>2, FailingLate
<1>3. CASE canon[req[Active].target].status = "live" /\ Enter("swap") /\ SameTask
  <2>1. StageMatches'
    BY <1>0, <1>3, ActingFacts, RunFields DEF StageMatches, Acting, stored
  <2> QED BY <1>0, <1>1, <1>3, <2>1, ActingOn DEF Acting
<1> QED BY <1>2, <1>3 DEF Commit

LEMMA SwapInv ==
    ASSUME spoilt' \in BOOLEAN, spoilt => spoilt', IInv, Swap
    PROVE  IInv'
<1>0. /\ run.stage = "swap" /\ run.stage \in Acting /\ UNCHANGED <<stored, open, loading>> /\ journal' = journal
      /\ UNCHANGED <<canon, ledger, binding, alarms>> /\ Shapes
  BY DEF Swap, Stage, Acting, stored, IInv
<1>1. /\ spent' \in [DOMAIN Limit -> Nat] /\ spent'.edit <= MaxEdits
      /\ shows' = shows \/ \E left \in List : shows' = [shows EXCEPT ![RunWindow] = left]
  <2>1. spent \in [DOMAIN Limit -> Nat] /\ spent.edit <= MaxEdits /\ shows[RunWindow] \in List /\ run.plan.tabs \in List
    BY <1>0, ActingFacts DEF World
  <2> QED BY <1>0, <2>1, Spending, Lists DEF Swap, Events
<1>2. World' /\ Matched' /\ OwnTabs'
  <2>1. shows' \in [Windows -> List] /\ \A x \in Windows : x # RunWindow => shows'[x] = shows[x]
    BY <1>0, <1>1, ActingFacts DEF World
  <2> QED BY <1>0, <1>1, <2>1, ActingFacts DEF World, Matched, Mismatch, Journaled, OwnTabs, OwnTabsOnly
<1>3. CASE FailLate
  BY <1>0, <1>2, <1>3, FailingLate
<1>4. CASE shows' = [shows EXCEPT ![RunWindow] = run.plan.tabs] /\ Enter("bind") /\ SameTask
  <2>1. shows'[RunWindow] = run.plan.tabs
    BY <1>0, <1>4, ActingFacts DEF World
  <2>2. StageMatches'
    BY <1>0, <1>4, <2>1, ActingFacts, RunFields DEF StageMatches, Acting
  <2> QED BY <1>0, <1>2, <1>4, <2>2, ActingOn DEF Acting
<1> QED BY <1>3, <1>4 DEF Swap

LEMMA BindInv ==
    ASSUME spoilt' \in BOOLEAN, spoilt => spoilt', NoneIsApart, IInv, Bind
    PROVE  IInv'
<1>0. /\ run.stage = "bind" /\ run.stage \in Acting /\ UNCHANGED <<canon, ledger, journal, alarms, browser, spent>>
  BY DEF Bind, Stage, Acting
<1>1. CASE FailLate /\ UNCHANGED binding
  <2>1. World' /\ Matched' /\ OwnTabs'
    BY <1>0, <1>1, WorldStays DEF stored
  <2> QED BY <1>0, <1>1, <2>1, FailingLate
<1>2. CASE /\ binding' = [binding EXCEPT ![RunWindow] = [ws |-> req[Active].target, rev |-> run.plan.rev, stale |-> FALSE]]
           /\ Enter("complete") /\ SameTask
  <2> DEFINE b == [ws |-> req[Active].target, rev |-> run.plan.rev, stale |-> FALSE]
  <2>a. req[Active].target \in Workspaces /\ run.plan.rev \in Nat
    BY <1>0, ActingFacts
  <2>b. b \in Bindings
    BY <2>a DEF Bindings
  <2>1. b \in Bindings /\ b.ws = req[Active].target /\ b # None
    BY <2>b DEF NoneIsApart
  <2>2. binding' = [binding EXCEPT ![RunWindow] = b]
    BY <1>2
  <2> HIDE DEF b
  <2>3. binding' \in [Windows -> OrNone(Bindings)] /\ binding'[RunWindow] = b
        /\ \A x \in Windows : x # RunWindow => binding'[x] = binding[x]
    BY <1>0, <2>1, <2>2, ActingFacts DEF World, OrNone
  <2>4. World' /\ Matched' /\ OwnTabs'
    BY <1>0, <2>3, ActingFacts DEF World, Matched, Mismatch, Journaled, OwnTabs, OwnTabsOnly, browser
  <2>5. StageMatches'
    BY <1>0, <1>2, <2>1, <2>3, ActingFacts, RunFields DEF StageMatches, Acting, browser
  <2> QED BY <1>0, <1>2, <2>4, <2>5, ActingOn DEF Acting
<1> QED BY <1>1, <1>2 DEF Bind

LEMMA CompleteInv ==
    ASSUME spoilt' \in BOOLEAN, spoilt => spoilt', NoneIsApart, IInv, Complete
    PROVE  IInv'
<1>0. /\ run.stage = "complete" /\ run.stage \in Acting /\ UNCHANGED <<canon, ledger, binding, alarms, browser>> /\ SameTask
      /\ Shapes /\ suppressed \subseteq Windows
  BY DEF Complete, Stage, Acting, IInv, Shapes, TypeOK
<1>1. CASE Spend("fault") /\ FailLate /\ UNCHANGED journal
  <2>1. spent' \in [DOMAIN Limit -> Nat] /\ spent'.edit <= MaxEdits
    BY <1>0, <1>1, Spending DEF Events
  <2>2. World' /\ Matched' /\ OwnTabs'
    BY <1>0, <1>1, <2>1, ActingFacts DEF World, Matched, Mismatch, Journaled, OwnTabs, OwnTabsOnly, browser
  <2> QED BY <1>0, <1>1, <2>2, FailingLate
<1>2. CASE journal' = None /\ Enter("settle") /\ UNCHANGED spent
  <2>1. ~spoilt => ~Mismatch(RunWindow)
    BY <1>0, ActingFacts DEF Mismatch, StageMatches, Acting
  <2>2. World' /\ Matched' /\ OwnTabs'
    BY <1>0, <1>2, <2>1, ActingFacts DEF World, Matched, Mismatch, Journaled, OwnTabs, OwnTabsOnly, browser, OrNone
  <2>3. run' \in Runs /\ run'.stage = "settle"
    BY <1>0, <1>2, ActingFacts, RunFields DEF Quiet
  <2>4. JournalMatches' /\ StageMatches'
    BY <1>2, <2>3 DEF JournalMatches, StageMatches, Late, Quiet, Early, Acting, Recovering
  <2> QED BY <1>0, <2>2, <2>3, <2>4, ActingFacts, Continuing DEF Recovering
<1> QED BY <1>1, <1>2 DEF Complete

LEMMA SettleInv ==
    ASSUME spoilt' \in BOOLEAN, spoilt => spoilt', IInv, Settle
    PROVE  IInv'
<1>1. /\ run.stage = "settle" /\ UNCHANGED <<canon, ledger, journal, binding, browser, spent>>
      /\ alarms' = alarms \ {Active} /\ Finish("ok") /\ Shapes /\ QueueMatches /\ World
  BY WorldOf DEF Settle, Stage, IInv
<1>2. IsHead("switch") /\ journal = None
  BY <1>1, StageKinds, StageFacts DEF Quiet
<1>3. World' /\ Matched' /\ OwnTabs'
  BY <1>1 DEF World, IInv, Matched, Mismatch, Journaled, OwnTabs, OwnTabsOnly, browser
<1> QED BY <1>1, <1>2, <1>3, Finishing DEF Results
----------------------------------------------------------------------------
(* The recovery.                                                            *)
LEMMA RecoveringFacts ==
    ASSUME IInv, run.stage \in Recovering
    PROVE  /\ run \in Runs /\ World /\ Shapes /\ QueueMatches /\ StageMatches /\ Matched /\ OwnTabs /\ queue # <<>>
           /\ journal # None /\ journal \in Journals /\ journal.window \in Windows /\ Journaled(journal.window)
           /\ journal.run \in Requests /\ (req[journal.run].pc = "done" \/ (Late /\ journal.run = Active))
           /\ journal.tabs \in List /\ journal.source \in OrNone(Workspaces) /\ journal.rev \in Nat
           /\ journal.source # None => spoilt \/ journal.tabs.owner = journal.source
           /\ suppressed \subseteq Windows
           /\ \/ IsHead("switch") /\ ~IsHead("recover") /\ Running /\ run.after \in {"recheck", "answer"}
              \/ IsHead("recover") /\ ~IsHead("switch") /\ ~Running /\ run.after = "end"
<1>1. run \in Runs /\ World /\ Shapes /\ QueueMatches /\ run.stage # "idle" /\ suppressed \subseteq Windows
  BY WorldOf DEF IInv, Shapes, TypeOK, Recovering
<1>2. \/ IsHead("switch") /\ ~IsHead("recover") /\ Running /\ run.after \in {"recheck", "answer"}
      \/ IsHead("recover") /\ ~IsHead("switch") /\ ~Running /\ run.after = "end"
  BY <1>1, StageKinds DEF IsHead, Recovering
<1>3. journal # None /\ journal \in Journals
  BY StageFacts
<1> QED BY <1>1, <1>2, <1>3, StageKinds DEF IInv, JournalMatches, Journals, Journaled

LEMMA RecoveringOn ==
    ASSUME spoilt' \in BOOLEAN, spoilt => spoilt', IInv, run.stage \in Recovering, NEW stage \in Recovering, Enter(stage), SameTask, UNCHANGED journal,
           World', Matched', OwnTabs', StageMatches'
    PROVE  IInv'
<1>1. run' \in Runs /\ run'.stage = stage /\ run'.after = run.after
  BY RecoveringFacts, RunFields
<1>2. UNCHANGED <<req, queue, intent, suppressed>>
  BY DEF SameTask, intents
<1>3. stage # "idle" /\ run.stage # "idle" /\ stage \notin Quiet /\ stage \notin Early /\ stage \notin Acting
      /\ run.stage \notin Acting
  BY DEF Quiet, Early, Acting, Recovering
<1>4. Late' <=> Late
  BY <1>1, <1>2, <1>3 DEF Late, Running, IsHead
<1>5. JournalMatches'
  BY <1>1, <1>2, <1>3, <1>4, JournalStays
<1>6. stage # "remove"
  BY DEF Recovering
<1> QED BY <1>1, <1>2, <1>5, <1>6, RecoveringFacts, Continuing

LEMMA RecoveryEnds ==
    ASSUME spoilt' \in BOOLEAN, spoilt => spoilt', IInv, run.stage \in Recovering, NEW result \in BOOLEAN, Recovered(result), result => journal' = None,
           journal' # None => journal'.run = journal.run /\ journal'.source = journal.source /\ journal'.tabs = journal.tabs,
           World', Matched', OwnTabs'
    PROVE  IInv'
<1>1. run.stage # "idle" /\ run.stage \notin Acting
  BY DEF Recovering, Acting
<1>2. journal' # None => /\ journal'.run \in Requests
                         /\ req[journal'.run].pc = "done" \/ (Late /\ journal'.run = Active)
                         /\ journal'.source # None => spoilt' \/ journal'.tabs.owner = journal'.source
  BY RecoveringFacts
<1>3. ASSUME NEW answer \in Results, Finish(answer), IsHead("switch") PROVE IInv'
  BY <1>2, <1>3, Finishing
<1>4. CASE run.after = "recheck"
  <2>1. IF result THEN Enter("recheck") /\ SameTask ELSE Finish("recovery_required")
    BY <1>4 DEF Recovered
  <2>2. IsHead("switch") /\ ~IsHead("recover") /\ queue # <<>> /\ suppressed \subseteq Windows
    BY <1>4, RecoveringFacts
  <2>3. CASE ~result
    BY <1>3, <2>1, <2>2, <2>3 DEF Results
  <2>4. CASE result
    <3>1. run' \in Runs /\ run'.stage = "recheck" /\ run'.stage \notin Recovering /\ run'.stage \notin Acting
          /\ run'.stage \notin Early
      BY <2>1, <2>4, RecoveringFacts, RunFields DEF Quiet, Recovering, Early, Acting
    <3>2. UNCHANGED <<req, queue, intent, suppressed>> /\ journal' = None
      BY <2>1, <2>4 DEF SameTask, intents
    <3>3. JournalMatches' /\ StageMatches'
      BY <3>1, <3>2 DEF JournalMatches, StageMatches, Late
    <3> QED BY <2>2, <3>1, <3>2, <3>3, Continuing
  <2> QED BY <2>3, <2>4
<1>5. CASE run.after = "answer"
  <2>1. IsHead("switch")
    BY <1>5, RecoveringFacts
  <2>2. Finish(IF ~result THEN "recovery_required"
                ELSE IF req[Active].reason = "superseded" THEN "superseded" ELSE "failed")
    BY <1>5 DEF Recovered
  <2> QED BY <1>3, <2>1, <2>2 DEF Results
<1>6. CASE run.after # "recheck" /\ run.after # "answer"
  <2>1. ~Running /\ queue # <<>> /\ ~IsHead("switch")
    BY <1>6, RecoveringFacts
  <2>2. queue' = Tail(queue) /\ run' = NoRun /\ UNCHANGED <<intents, suppressed>>
    BY <1>6 DEF Recovered
  <2>3. UNCHANGED <<req, intent>>
    BY <2>2 DEF intents
  <2>4. JournalHolds'
    BY <1>2, <2>1, <2>3 DEF JournalHolds, Late
  <2>5. intent' \in [Windows -> OrNone(Requests)] /\ suppressed' \subseteq Windows /\ req' \in [Requests -> Inquiries]
    BY <2>2, <2>3, RecoveringFacts DEF Shapes, TypeOK, OrNone
  <2> QED BY <2>1, <2>2, <2>3, <2>4, <2>5, Idling
<1> QED BY <1>4, <1>5, <1>6

LEMMA BeginRecoveryInv ==
    ASSUME spoilt' \in BOOLEAN, spoilt => spoilt', IInv, BeginRecovery
    PROVE  IInv'
<1>1. /\ IsHead("recover") /\ ~IsHead("switch") /\ queue # <<>> /\ run.stage = "idle" /\ UNCHANGED <<stored, browser, spent>>
      /\ UNCHANGED intents /\ UNCHANGED <<req, intent, journal, suppressed>> /\ Shapes /\ suppressed \subseteq Windows
  BY DEF BeginRecovery, IsHead, Pop, SameTask, intents, stored, IInv, Shapes, TypeOK
<1>2. /\ World' /\ Matched' /\ OwnTabs' /\ ~Running
      /\ journal # None => /\ journal.run \in Requests /\ req[journal.run].pc = "done"
                           /\ journal.source # None => spoilt \/ journal.tabs.owner = journal.source
  BY <1>1, WorldStays DEF Running, IInv, JournalMatches, Late
<1>3. CASE journal = None /\ Pop
  <2>1. JournalHolds' /\ queue' = Tail(queue) /\ run' = NoRun
    BY <1>1, <1>3 DEF JournalHolds, Pop
  <2>2. intent' \in [Windows -> OrNone(Requests)] /\ req' \in [Requests -> Inquiries]
    BY <1>1 DEF Shapes, TypeOK, OrNone
  <2> QED BY <1>1, <1>2, <2>1, <2>2, Idling
<1>4. CASE journal # None /\ run' = [NoRun EXCEPT !.stage = "recover"] /\ SameTask
  <2>1. run' \in Runs /\ run'.stage = "recover" /\ run'.after = "end"
    BY <1>4, Lists DEF NoRun, Runs, OrNone, Recovering
  <2>2. UNCHANGED <<queue, Running>> \/ (queue' = queue /\ ~Running')
    BY <1>1, <1>4 DEF SameTask, Running, IsHead
  <2>3. queue' = queue /\ ~Running'
    BY <1>1, <1>4 DEF SameTask, Running, IsHead
  <2>4. JournalMatches' /\ StageMatches'
    BY <1>1, <1>2, <2>1, <2>3 DEF JournalMatches, StageMatches, Late, Quiet, Early, Acting
  <2> QED BY <1>1, <1>2, <1>4, <2>1, <2>3, <2>4, Continuing DEF Recovering
<1> QED BY <1>1, <1>3, <1>4 DEF BeginRecovery

LEMMA PreserveInv ==
    ASSUME spoilt' \in BOOLEAN, spoilt => spoilt', IInv, Preserve
    PROVE  IInv'
<1>1. /\ run.stage = "recover" /\ run.stage \in Recovering /\ journal.window \notin open
      /\ ledger' = ledger \cup ({journal.tabs} \ {Nothing}) /\ Enter("forget") /\ SameTask
      /\ UNCHANGED <<canon, journal, binding, alarms, browser, spent>>
      /\ UNCHANGED <<open, shows, loading>>
  BY DEF Preserve, Stage, Recovering, browser
<1>2. World' /\ Matched' /\ OwnTabs'
  BY <1>1, RecoveringFacts DEF World, Matched, Mismatch, Journaled, OwnTabs, OwnTabsOnly
<1>3. StageMatches'
  BY <1>1, RecoveringFacts, RunFields DEF StageMatches, Acting, Recovering
<1> QED BY <1>1, <1>2, <1>3, RecoveringOn DEF Recovering

LEMMA ForgetInv ==
    ASSUME spoilt' \in BOOLEAN, spoilt => spoilt', IInv, Forget
    PROVE  IInv'
<1>1. /\ run.stage = "forget" /\ run.stage \in Recovering /\ binding' = [binding EXCEPT ![journal.window] = None]
      /\ journal' = None /\ alarms' = alarms \ {journal.run} /\ Recovered(TRUE)
      /\ UNCHANGED <<canon, ledger, open, shows, loading, spent>>
  BY DEF Forget, Stage, Recovering, browser
<1>2. binding' \in [Windows -> OrNone(Bindings)]
      /\ \A x \in Windows : binding'[x] = IF x = journal.window THEN None ELSE binding[x]
  BY <1>1, RecoveringFacts DEF World, OrNone
<1>3. World' /\ Matched' /\ OwnTabs'
  BY <1>1, <1>2, RecoveringFacts DEF World, Matched, Mismatch, Journaled, OwnTabs, OwnTabsOnly, OrNone
<1> QED BY <1>1, <1>3, RecoveryEnds

LEMMA CheckWindowInv ==
    ASSUME spoilt' \in BOOLEAN, spoilt => spoilt', IInv, CheckWindow
    PROVE  IInv'
<1>1. /\ run.stage = "recover" /\ run.stage \in Recovering /\ Enter("restore") /\ SameTask
      /\ UNCHANGED <<stored, browser, spent>> /\ journal' = journal
  BY DEF CheckWindow, Stage, Recovering, stored
<1>2. World' /\ Matched' /\ OwnTabs'
  BY <1>1, WorldStays
<1>3. StageMatches'
  BY <1>1, RecoveringFacts, RunFields DEF StageMatches, Acting, Recovering
<1> QED BY <1>1, <1>2, <1>3, RecoveringOn DEF Recovering

LEMMA RestoreInv ==
    ASSUME spoilt' \in BOOLEAN, spoilt => spoilt', IInv, Restore
    PROVE  IInv'
<1>1. /\ run.stage = "restore" /\ run.stage \in Recovering /\ shows' = [shows EXCEPT ![journal.window] = journal.tabs]
      /\ loading' = loading \ {journal.window} /\ Enter("rebind") /\ SameTask
      /\ UNCHANGED <<canon, ledger, journal, binding, alarms, open, spent>>
  BY DEF Restore, Stage, Recovering, stored
<1>2. shows' \in [Windows -> List]
      /\ \A x \in Windows : shows'[x] = IF x = journal.window THEN journal.tabs ELSE shows[x]
  BY <1>1, RecoveringFacts DEF World
<1>3. World' /\ Matched' /\ OwnTabs'
  BY <1>1, <1>2, RecoveringFacts DEF World, Matched, Mismatch, Journaled, OwnTabs, OwnTabsOnly
<1>4. StageMatches'
  BY <1>1, <1>2, RecoveringFacts, RunFields DEF StageMatches, Acting, Recovering
<1> QED BY <1>1, <1>3, <1>4, RecoveringOn DEF Recovering

LEMMA RestoreFailsInv ==
    ASSUME spoilt' \in BOOLEAN, spoilt => spoilt', NoneIsApart, IInv, RestoreFails
    PROVE  IInv'
<1>1. /\ run.stage = "restore" /\ run.stage \in Recovering
      /\ journal' = [journal EXCEPT !.failed = TRUE] /\ Recovered(FALSE)
      /\ UNCHANGED <<canon, ledger, binding, alarms, open, loading>>
  BY DEF RestoreFails, Stage, Recovering
<1>2. /\ spent' \in [DOMAIN Limit -> Nat] /\ spent'.edit <= MaxEdits
      /\ shows' = shows \/ \E left \in List : shows' = [shows EXCEPT ![journal.window] = left]
  <2>1. spent \in [DOMAIN Limit -> Nat] /\ spent.edit <= MaxEdits /\ shows[journal.window] \in List
    BY <1>1, RecoveringFacts DEF World
  <2>2. Shapes
    BY <1>1, RecoveringFacts
  <2> QED BY <2>1, <2>2, Spending, Lists DEF RestoreFails, Events
<1>3. shows' \in [Windows -> List] /\ \A x \in Windows : x # journal.window => shows'[x] = shows[x]
  BY <1>1, <1>2, RecoveringFacts DEF World
<1>4. /\ journal' \in Journals /\ journal' # None
      /\ journal'.run = journal.run /\ journal'.window = journal.window
      /\ journal'.source = journal.source /\ journal'.tabs = journal.tabs
  <2>1. journal' \in Journals
    BY <1>1, RecoveringFacts DEF Journals
  <2>2. /\ journal'.run = journal.run /\ journal'.window = journal.window
        /\ journal'.source = journal.source /\ journal'.tabs = journal.tabs
    BY <1>1, RecoveringFacts DEF Journals
  <2> QED BY <2>1, <2>2 DEF NoneIsApart
<1>5. World' /\ Matched' /\ OwnTabs'
  BY <1>1, <1>2, <1>3, <1>4, RecoveringFacts DEF World, Matched, Mismatch, Journaled, OwnTabs, OwnTabsOnly, OrNone
<1> QED BY <1>1, <1>4, <1>5, RecoveryEnds

(* The journal of a recovery that has failed.                               *)
LEMMA JournalFails ==
    ASSUME NoneIsApart, IInv, run.stage \in Recovering, journal' = [journal EXCEPT !.failed = TRUE]
    PROVE  /\ journal' \in Journals /\ journal' # None
           /\ journal'.run = journal.run /\ journal'.window = journal.window
           /\ journal'.source = journal.source /\ journal'.tabs = journal.tabs
<1>1. journal' \in Journals
  BY RecoveringFacts DEF Journals
<1>2. /\ journal'.run = journal.run /\ journal'.window = journal.window
      /\ journal'.source = journal.source /\ journal'.tabs = journal.tabs
  BY RecoveringFacts DEF Journals
<1> QED BY <1>1, <1>2 DEF NoneIsApart

LEMMA RebindFailsInv ==
    ASSUME spoilt' \in BOOLEAN, spoilt => spoilt', NoneIsApart, IInv, RebindFails
    PROVE  IInv'
<1>1. /\ run.stage \in Recovering
      /\ journal' = [journal EXCEPT !.failed = TRUE] /\ Recovered(FALSE)
      /\ UNCHANGED <<canon, binding, alarms, open, shows, loading>>
      /\ ledger' \in {ledger, ledger \cup ({journal.tabs} \ {Nothing})}
  BY DEF RebindFails, Stage, Recovering, browser
<1>2. spent' \in [DOMAIN Limit -> Nat] /\ spent'.edit <= MaxEdits
  <2>1. Shapes
    BY DEF IInv
  <2> QED BY <2>1, Spending DEF RebindFails, Events
<1>3. World' /\ Matched' /\ OwnTabs'
  BY <1>1, <1>2, JournalFails, RecoveringFacts DEF World, Matched, Mismatch, Journaled, OwnTabs, OwnTabsOnly, OrNone
<1> QED BY <1>1, <1>3, JournalFails, RecoveryEnds

LEMMA PreserveThrowsInv ==
    ASSUME spoilt' \in BOOLEAN, spoilt => spoilt', NoneIsApart, IInv, PreserveThrows
    PROVE  IInv'
<1>1. /\ run.stage \in Recovering
      /\ binding' \in {binding, [binding EXCEPT ![journal.window] = None]}
      /\ UNCHANGED <<canon, ledger, journal, alarms, open, shows, loading>>
  BY DEF PreserveThrows, Stage, Recovering, browser
<1>2. spent' \in [DOMAIN Limit -> Nat] /\ spent'.edit <= MaxEdits
  <2>1. Shapes
    BY DEF IInv
  <2> QED BY <2>1, Spending DEF PreserveThrows, Events
<1>3. /\ binding' \in [Windows -> OrNone(Bindings)]
      /\ \A x \in Windows : binding'[x] = binding[x] \/ binding'[x] = None
  BY <1>1, RecoveringFacts DEF World, OrNone
<1>4. World' /\ Matched' /\ OwnTabs'
  BY <1>1, <1>2, <1>3, RecoveringFacts DEF World, Matched, Mismatch, Journaled, OwnTabs, OwnTabsOnly
<1>5. CASE run.after = "end" /\ queue' = Tail(queue) /\ run' = NoRun /\ UNCHANGED <<intents, suppressed, started>>
  <2>1. ~Running /\ queue # <<>> /\ ~IsHead("switch")
    BY <1>1, <1>5, RecoveringFacts
  <2>2. UNCHANGED <<req, intent, suppressed>>
    BY <1>5 DEF intents
  <2>3. JournalHolds'
    BY <1>1, <2>1, <2>2, RecoveringFacts DEF JournalHolds, Late
  <2>4. intent' \in [Windows -> OrNone(Requests)] /\ suppressed' \subseteq Windows /\ req' \in [Requests -> Inquiries]
    BY <1>1, <2>2, RecoveringFacts DEF Shapes, TypeOK, OrNone
  <2> QED BY <1>4, <1>5, <2>1, <2>2, <2>3, <2>4, Idling
<1>6. CASE run.after # "end" /\ Finish("failed")
  <2>1. IsHead("switch")
    BY <1>1, <1>6, RecoveringFacts
  <2> QED BY <1>1, <1>4, <1>6, <2>1, RecoveringFacts, Finishing DEF Results, Late
<1> QED BY <1>5, <1>6 DEF PreserveThrows

LEMMA RebindInv ==
    ASSUME spoilt' \in BOOLEAN, spoilt => spoilt', NoneIsApart, IInv, Rebind
    PROVE  IInv'
<1> DEFINE k == journal.window
           w == journal.source
           b == [ws |-> w, rev |-> journal.rev, stale |-> journal.rev # canon[w].rev]
<1>1. /\ run.stage = "rebind" /\ run.stage \in Recovering /\ Enter("clear") /\ SameTask
      /\ UNCHANGED <<canon, journal, alarms, browser, spent>> /\ UNCHANGED <<open, shows, loading>>
  BY DEF Rebind, Stage, Recovering, browser
<1>2. \/ w # None /\ binding' = [binding EXCEPT ![k] = b] /\ UNCHANGED ledger
      \/ /\ binding' = [binding EXCEPT ![k] = None]
         /\ ledger' = ledger \/ ledger' = ledger \cup ({journal.tabs} \ {Nothing})
  BY DEF Rebind
<1>3. w # None => b \in Bindings /\ b.ws = w /\ b # None
  <2>1. w # None => w \in Workspaces /\ journal.rev \in Nat /\ (journal.rev # canon[w].rev) \in BOOLEAN
    BY <1>1, RecoveringFacts DEF OrNone
  <2>2. w # None => b \in Bindings
    BY <2>1 DEF Bindings
  <2> QED BY <2>2 DEF NoneIsApart
<1> HIDE DEF b
<1>4. /\ binding' \in [Windows -> OrNone(Bindings)]
      /\ \A x \in Windows : x # k => binding'[x] = binding[x]
      /\ binding'[k] # None => binding'[k].ws = w
  BY <1>1, <1>2, <1>3, RecoveringFacts DEF World, OrNone
<1>5. ledger' \subseteq List
  BY <1>1, <1>2, RecoveringFacts DEF World
<1>6. World' /\ Matched' /\ OwnTabs'
  BY <1>1, <1>4, <1>5, RecoveringFacts DEF World, Matched, Mismatch, Journaled, OwnTabs, OwnTabsOnly
<1>7. StageMatches'
  BY <1>1, <1>4, RecoveringFacts, RunFields DEF StageMatches, Acting, Recovering
<1> QED BY <1>1, <1>6, <1>7, RecoveringOn DEF Recovering

LEMMA ClearJournalInv ==
    ASSUME spoilt' \in BOOLEAN, spoilt => spoilt', IInv, ClearJournal
    PROVE  IInv'
<1>1. /\ run.stage = "clear" /\ run.stage \in Recovering
      /\ journal' = None /\ alarms' = alarms \ {journal.run} /\ Recovered(TRUE)
      /\ UNCHANGED <<canon, ledger, binding, open, shows, loading, spent>>
  BY DEF ClearJournal, Stage, Recovering, browser
<1>2. ~spoilt => ~Mismatch(journal.window)
  <2>1. \A k \in Windows : binding[k] # None => binding[k].ws \in Workspaces /\ binding[k].ws # None
    BY <1>1, RecoveringFacts, SwitchConstants DEF World, OrNone, Bindings
  <2> QED BY <1>1, <2>1, RecoveringFacts DEF StageMatches, Mismatch
<1>3. World' /\ Matched' /\ OwnTabs'
  BY <1>1, <1>2, RecoveringFacts DEF World, Matched, Mismatch, Journaled, OwnTabs, OwnTabsOnly, OrNone
<1> QED BY <1>1, <1>3, RecoveryEnds
----------------------------------------------------------------------------
(* The other tasks of the queue.                                            *)
LEMMA OtherTask ==
    ASSUME IInv, IsHead("discard") \/ IsHead("unbind")
    PROVE  /\ Shapes /\ World /\ queue # <<>> /\ ~IsHead("switch") /\ ~IsHead("recover") /\ ~Running
           /\ run.stage \in {"idle", "remove"} /\ (IsHead("discard") => run.stage = "idle")
           /\ run \in Runs /\ JournalHolds
           /\ IsHead("unbind") => Head(queue).who \in Windows
           /\ UNCHANGED intents => UNCHANGED <<req, intent>>
           /\ intent \in [Windows -> OrNone(Requests)] /\ suppressed \subseteq Windows
           /\ req \in [Requests -> Inquiries]
<1>1. Shapes /\ World /\ QueueMatches /\ queue # <<>> /\ Head(queue) \in Tasks
  BY WorldOf, TaskSequences DEF IInv, Shapes, IsHead
<1>2. ~IsHead("switch") /\ ~IsHead("recover") /\ ~Running /\ (IsHead("unbind") => Head(queue).who \in Windows)
  BY <1>1, TaskKinds DEF IsHead, Running
<1>3. JournalHolds
  BY <1>2 DEF IInv, JournalMatches, JournalHolds, Late
<1> QED BY <1>1, <1>2, <1>3 DEF QueueMatches, Shapes, TypeOK, OrNone, intents

LEMMA DiscardJournalInv ==
    ASSUME spoilt' \in BOOLEAN, spoilt => spoilt', ~spoilt' => ~Spoils, IInv, DiscardJournal
    PROVE  IInv'
<1>1. /\ IsHead("discard") /\ journal' = None /\ queue' = Tail(queue) /\ run' = NoRun
      /\ UNCHANGED <<canon, ledger, binding, open, shows, loading, spent, intents, suppressed>>
      /\ alarms' \subseteq alarms
  BY DEF DiscardJournal, Pop, browser
<1>2. World' /\ JournalHolds'
  BY <1>1, OtherTask DEF World, OrNone, JournalHolds
<1>3. Matched' /\ OwnTabs'
  <2>1. ~spoilt' => ~spoilt /\ UNCHANGED journal
    BY <1>1 DEF Spoils
  <2> QED BY <1>1, <2>1 DEF IInv, Matched, Mismatch, Journaled, OwnTabs, OwnTabsOnly
<1> QED BY <1>1, <1>2, <1>3, OtherTask, Idling

LEMMA FlushUnboundInv ==
    ASSUME spoilt' \in BOOLEAN, spoilt => spoilt', ~spoilt' => ~Spoils, NoneIsApart, IInv, FlushUnbound
    PROVE  IInv'
<1> DEFINE k == Head(queue).who
<1>1. /\ IsHead("unbind") /\ run.stage = "idle" /\ k \in Windows
      /\ UNCHANGED <<ledger, journal, alarms, open, shows, loading, spent>>
  BY OtherTask DEF FlushUnbound, browser
<1>2. CASE Pop /\ UNCHANGED <<canon, binding>>
  <2>1. World' /\ Matched' /\ OwnTabs'
    BY <1>1, <1>2, OtherTask DEF World, IInv, Matched, Mismatch, Journaled, OwnTabs, OwnTabsOnly
  <2>2. queue' = Tail(queue) /\ run' = NoRun /\ UNCHANGED <<req, intent, suppressed>>
    BY <1>1, <1>2, OtherTask DEF Pop
  <2>3. JournalHolds'
    BY <1>1, <2>2, OtherTask DEF JournalHolds
  <2> QED BY <1>1, <2>1, <2>2, <2>3, OtherTask, Idling
<1>3. CASE SaveWindow(k) /\ Enter("remove") /\ UNCHANGED <<intents, queue, suppressed>>
  <2>1. /\ canon' \in [Workspaces -> [tabs : List, rev : Nat, status : {"live", "trashed", "gone"}]]
        /\ binding' \in [Windows -> OrNone(Bindings)]
        /\ UNCHANGED canon \/ (~spoilt /\ ~Mismatch(k)) => OwnTabs /\ (~spoilt => OwnTabsOnly')
        /\ \A x \in Windows : /\ binding'[x] = None <=> binding[x] = None
                              /\ binding[x] # None => binding'[x].ws = binding[x].ws
    BY <1>1, <1>3, Saving
  <2>2. World'
    BY <1>1, <2>1, OtherTask DEF World
  <2>3. Matched'
    BY <1>1, <2>1 DEF IInv, Matched, Mismatch, Journaled
  <2>4. OwnTabs'
    <3>1. ASSUME ~spoilt' PROVE OwnTabsOnly'
      <4>1. ~spoilt /\ (UNCHANGED canon \/ ~LeftBehind(k))
        BY <1>1, <3>1 DEF Spoils
      <4>2. ~LeftBehind(k) => ~Mismatch(k)
        BY <1>1, <4>1, OtherTask DEF IInv, Matched, LeftBehind
      <4> QED BY <2>1, <4>1, <4>2
    <3> QED BY <3>1 DEF OwnTabs
  <2>5. run' \in Runs /\ run'.stage = "remove"
    BY <1>1, <1>3, OtherTask, RunFields
  <2>6. UNCHANGED <<req, queue, intent, suppressed>> /\ ~Running /\ ~Running'
    BY <1>1, <1>3, OtherTask DEF Running, IsHead
  <2>7. JournalMatches' /\ StageMatches'
    BY <1>1, <2>5, <2>6, OtherTask
    DEF JournalMatches, JournalHolds, StageMatches, Late, Quiet, Early, Acting, Recovering
  <2> QED BY <1>1, <2>2, <2>3, <2>4, <2>5, <2>6, <2>7, OtherTask, Continuing DEF Recovering
<1> QED BY <1>2, <1>3 DEF FlushUnbound

LEMMA RemoveBindingInv ==
    ASSUME spoilt' \in BOOLEAN, spoilt => spoilt', IInv, RemoveBinding
    PROVE  IInv'
<1>1. /\ IsHead("unbind") /\ queue' = Tail(queue) /\ run' = NoRun
      /\ binding' = [binding EXCEPT ![Head(queue).who] = None]
      /\ UNCHANGED <<canon, ledger, journal, alarms, open, shows, loading, spent, intents, suppressed>>
  BY DEF RemoveBinding, Pop, browser
<1>2. /\ binding' \in [Windows -> OrNone(Bindings)]
      /\ \A x \in Windows : binding'[x] = binding[x] \/ binding'[x] = None
  BY <1>1, OtherTask DEF World, OrNone
<1>3. World' /\ Matched' /\ OwnTabs'
  BY <1>1, <1>2, OtherTask DEF World, IInv, Matched, Mismatch, Journaled, OwnTabs, OwnTabsOnly
<1>4. JournalHolds' /\ UNCHANGED <<req, intent>>
  BY <1>1, OtherTask DEF JournalHolds
<1> QED BY <1>1, <1>3, <1>4, OtherTask, Idling

(* What a step does to spoilt.                                              *)
LEMMA Spoiling ==
    ASSUME Shapes, [Next]_vars
    PROVE  spoilt' \in BOOLEAN /\ (spoilt => spoilt') /\ ([Step]_vars /\ (Next => (~spoilt' => ~Spoils)))
<1>1. spoilt \in BOOLEAN
  BY DEF Shapes, TypeOK
<1>2. CASE Next
  <2>1. spoilt' = (spoilt \/ Spoils) /\ Step
    BY <1>2 DEF Next
  <2> QED BY <1>1, <2>1, Zenon
<1>3. CASE UNCHANGED vars
  <2>1. spoilt' = spoilt
    BY <1>3 DEF vars
  <2> QED BY <1>1, <1>3, <2>1, <1>2
<1> QED BY <1>2, <1>3

LEMMA NextInv ==
    ASSUME NoneIsApart, IInv, [Next]_vars
    PROVE  IInv'
<1>1. Shapes
  BY DEF IInv
<1>a. spoilt' \in BOOLEAN /\ (spoilt => spoilt')
  BY <1>1, Spoiling
<1>b. ASSUME Next PROVE Step /\ (~spoilt' => ~Spoils)
  BY <1>1, <1>b, Spoiling DEF Next
<1>2. CASE UNCHANGED vars
  <2>1. UNCHANGED <<canon, ledger, journal, binding, alarms, open, shows, loading, req, intent, queue, run,
                    suppressed, spent, spoilt>>
    BY <1>2 DEF vars, stored, browser, intents
  <2>2. World' /\ Matched' /\ OwnTabs'
    BY <2>1, <1>1, WorldOf DEF World, IInv, Matched, Mismatch, Journaled, OwnTabs, OwnTabsOnly
  <2>3. Shapes' /\ QueueMatches'
    BY <2>1, <1>1 DEF Shapes, TypeOK, IInv, QueueMatches, IsHead
  <2>4. queue # <<>> => queue' # <<>> /\ Head(queue') = Head(queue)
    BY <2>1
  <2> QED BY <1>a, <2>1, <2>3, <2>4, TaskUndisturbed
<1>3. CASE \/ \E r \in Requests : Call(r) \/ Resolve(r) \/ Alarm(r)
           \/ Abort \/ Discard \/ StartAgain
           \/ \E k \in Windows : Unbind(k)
  BY <1>a, <1>3, RequestsInv
<1>4. CASE SwitchStep
  BY <1>a, <1>4, BeginSwitchInv, ReserveInv, FlushSourceInv, OwnInv, PrepareInv, CommitInv, SwapInv, BindInv, CompleteInv,
     SettleInv DEF SwitchStep
<1>5. CASE RecoveryStep
  BY <1>a, <1>5, BeginRecoveryInv, PreserveInv, ForgetInv, CheckWindowInv, RestoreInv, RestoreFailsInv, RebindInv,
     RebindFailsInv, PreserveThrowsInv,
     ClearJournalInv DEF RecoveryStep
<1>6. CASE Next /\ (DiscardJournal \/ FlushUnbound \/ RemoveBinding)
  BY <1>a, <1>b, <1>6, DiscardJournalInv, FlushUnboundInv, RemoveBindingInv
<1>8. CASE Crash
  BY <1>a, <1>8, CrashInv
<1>9. CASE Next /\
         \/ \E k \in Windows : Edit(k) \/ Loaded(k) \/ CloseWindow(k) \/ AutoSave(k)
         \/ \E w \in Workspaces : DataEdit(w) \/ Remove(w)
  BY <1>a, <1>b, <1>9, WorldInv
<1> QED BY <1>2, <1>3, <1>4, <1>5, <1>6, <1>8, <1>9, <1>b DEF Step, QueueStep

LEMMA InitInv ==
    ASSUME NoneIsApart, Init
    PROVE  IInv
<1>1. /\ canon = [w \in Workspaces |-> [tabs |-> [owner |-> w, stamp |-> 0], rev |-> 0, status |-> "live"]]
      /\ ledger = {} /\ journal = None /\ alarms = {} /\ open = Windows /\ loading = InitLoading
      /\ shows = [k \in Windows |-> [owner |-> IF binding[k] = None THEN k ELSE binding[k].ws, stamp |-> 0]]
      /\ req = [r \in Requests |-> NoRequest] /\ intent = [k \in Windows |-> None]
      /\ queue = <<>> /\ run = NoRun /\ suppressed = {} /\ spent = [e \in DOMAIN Limit |-> 0]
      /\ spoilt = FALSE
  BY DEF Init
<1>2. binding \in [Windows -> OrNone(Bindings)]
  <2>1. \A b \in [ws : Workspaces, rev : {0}, stale : {FALSE}] : b \in Bindings
    <3> SUFFICES ASSUME NEW b \in [ws : Workspaces, rev : {0}, stale : {FALSE}]
                 PROVE  b \in Bindings
      OBVIOUS
    <3>1. b = [ws |-> b.ws, rev |-> b.rev, stale |-> b.stale]
      OBVIOUS
    <3>2. b.ws \in Workspaces /\ b.rev \in Nat
      OBVIOUS
    <3>3. b.stale \in {FALSE}
      OBVIOUS
    <3>4. b.stale \in BOOLEAN
      BY <3>3, Zenon
    <3> QED BY <3>1, <3>2, <3>4 DEF Bindings
  <2>2. binding \in [Windows -> {None} \cup [ws : Workspaces, rev : {0}, stale : {FALSE}]]
    BY DEF Init
  <2> QED BY <2>1, <2>2 DEF OrNone
<1>3. \A k \in Windows : binding[k] = None \/ binding[k].ws \in Workspaces
  BY <1>2 DEF OrNone, Bindings
<1>4. canon \in [Workspaces -> [tabs : List, rev : Nat, status : {"live", "trashed", "gone"}]] /\ OwnTabs
  BY <1>1, Lists DEF List, OwnTabs, OwnTabsOnly
<1>5. shows \in [Windows -> List]
  BY <1>1, <1>3, Lists DEF List
<1>6. run \in Runs /\ run.stage = "idle"
  BY <1>1, Lists DEF NoRun, Runs, OrNone
<1>7. NoRequest \in Inquiries /\ NoRequest.pc = "idle"
  BY DEF NoRequest, Inquiries, Ids, OrNone
<1>8. queue \in Seq(Tasks) /\ Len(queue) = 0 /\ spent \in [DOMAIN Limit -> Nat] /\ spent.edit <= MaxEdits
  BY <1>1, Lists DEF Limit
<1>9. Shapes
  BY <1>1, <1>2, <1>4, <1>5, <1>6, <1>7, <1>8, SwitchConstants DEF Shapes, TypeOK, OrNone, Bindings
<1>10. QueueMatches
  BY <1>1, <1>6, <1>8 DEF QueueMatches, IsHead
<1>11. JournalMatches /\ StageMatches
  BY <1>1, <1>6 DEF JournalMatches, StageMatches, Late, Running, IsHead, Quiet, Early, Acting, Recovering
<1>12. Matched
  BY <1>1 DEF Matched, Mismatch
<1> QED BY <1>4, <1>9, <1>10, <1>11, <1>12 DEF IInv

LEMMA Invariance ==
    ASSUME NoneIsApart
    PROVE  Spec => []IInv
<1>1. Init => IInv
  BY InitInv
<1>2. IInv /\ [Next]_vars => IInv'
  BY NextInv
<1> QED BY <1>1, <1>2, PTL DEF Spec

(* No workspace is overwritten with the tabs of another, and a window that  *)
(* could do it has the journal that puts it right: for every number of      *)
(* windows, workspaces, requests, failing calls and restarts, until a       *)
(* window that was left behind is saved or its journal discarded (spoilt).  *)
THEOREM NoWorkspaceIsOverwritten ==
    ASSUME NoneIsApart
    PROVE  Spec => []WindowsMatch
<1>1. IInv => WindowsMatch
  BY DEF IInv, WindowsMatch, Shapes, TypeOK, MismatchIsJournaled, Matched, Mismatch, Journaled, Saves, OwnTabs
<1> QED BY <1>1, Invariance, PTL

----------------------------------------------------------------------------
(* The workspaces that a window is bound to.                                *)
StaysBound(k) == binding'[k] = None \/ (binding[k] # None /\ binding'[k].ws = binding[k].ws)
KeptOrLive(k) == StaysBound(k) \/ canon[binding'[k].ws].status = "live"

LEMMA UntouchedBinding ==
    ASSUME UNCHANGED binding
    PROVE  \A k \in Windows : StaysBound(k)
BY DEF StaysBound

LEMMA BindsToLive ==
    ASSUME NoneIsApart, IInv, [Next]_vars, NEW k \in Windows
    PROVE  KeptOrLive(k)
<1>0. Shapes /\ World
  BY WorldOf DEF IInv
<1>1. CASE UNCHANGED binding
  BY <1>1, UntouchedBinding DEF KeptOrLive
<1>2. ASSUME NEW x \in Windows, SaveWindow(x) PROVE StaysBound(k)
  BY <1>2, Saving DEF StaysBound
<1>3. CASE (\E r \in Requests : Call(r) \/ Resolve(r) \/ Alarm(r)) \/ Abort \/ Discard \/ StartAgain \/ Crash
  <2>1. UNCHANGED binding
    BY <1>3 DEF Call, Resolve, Alarm, Abort, Discard, StartAgain, Crash, stored
  <2> QED BY <1>1, <2>1
<1>4. CASE BeginSwitch \/ Reserve \/ Own \/ Prepare \/ Commit \/ Swap \/ Complete \/ Settle
  <2>1. UNCHANGED binding
    BY <1>4 DEF BeginSwitch, Reserve, Own, Prepare, Commit, Swap, Complete, Settle, stored
  <2> QED BY <1>1, <2>1
<1>5. CASE BeginRecovery \/ Preserve \/ CheckWindow \/ Restore \/ RestoreFails \/ RebindFails
           \/ ClearJournal \/ DiscardJournal
  <2>1. UNCHANGED binding
    BY <1>5 DEF BeginRecovery, Preserve, CheckWindow, Restore, RestoreFails, RebindFails, ClearJournal, DiscardJournal,
               stored
  <2> QED BY <1>1, <2>1
<1>6. CASE FlushSource
  <2>1. run.stage = "flush" /\ (UNCHANGED binding \/ SaveWindow(RunWindow))
    BY <1>6 DEF FlushSource, Stage
  <2>2. RunWindow \in Windows
    BY <2>1, StageFacts DEF Quiet, Early
  <2> QED BY <1>1, <1>2, <2>1, <2>2 DEF KeptOrLive
<1>7. CASE Bind
  <2>1. run.stage = "bind" /\ run.stage \in Acting
        /\ \/ UNCHANGED binding
           \/ binding' = [binding EXCEPT ![RunWindow] = [ws |-> req[Active].target, rev |-> run.plan.rev, stale |-> FALSE]]
    BY <1>7 DEF Bind, Stage, Acting
  <2>2. canon[req[Active].target].status = "live"
    BY <2>1, ActingFacts DEF StageMatches
  <2>3. CASE binding' = [binding EXCEPT ![RunWindow] = [ws |-> req[Active].target, rev |-> run.plan.rev, stale |-> FALSE]]
    <3>1. CASE k = RunWindow
      <4>1. binding'[k].ws = req[Active].target
        BY <1>0, <2>3, <3>1 DEF World
      <4> QED BY <2>2, <4>1 DEF KeptOrLive
    <3>2. CASE k # RunWindow
      <4>1. binding'[k] = binding[k]
        BY <1>0, <2>3, <3>2 DEF World
      <4> QED BY <4>1 DEF KeptOrLive, StaysBound
    <3> QED BY <3>1, <3>2
  <2> QED BY <1>1, <2>1, <2>3
<1>8. CASE Forget \/ PreserveThrows \/ RemoveBinding \/ \E x \in Windows : CloseWindow(x)
  <2>1. CASE UNCHANGED binding
    BY <1>1, <2>1
  <2>2. ASSUME NEW x, binding' = [binding EXCEPT ![x] = None] PROVE KeptOrLive(k)
    BY <1>0, <2>2 DEF World, KeptOrLive, StaysBound
  <2>3. UNCHANGED binding \/ \E x : binding' = [binding EXCEPT ![x] = None]
    BY <1>8 DEF Forget, PreserveThrows, RemoveBinding, CloseWindow
  <2> QED BY <2>1, <2>2, <2>3
<1>9. CASE Rebind
  <2> DEFINE x == journal.window
             w == journal.source
             b == [ws |-> w, rev |-> journal.rev, stale |-> journal.rev # canon[w].rev]
  <2>1. \/ w # None /\ canon[w].status = "live" /\ binding' = [binding EXCEPT ![x] = b]
        \/ binding' = [binding EXCEPT ![x] = None]
    BY <1>9 DEF Rebind
  <2>2. b.ws = w
    OBVIOUS
  <2> HIDE DEF b, x, w
  <2>3. \/ binding'[k] = None \/ binding'[k] = binding[k]
        \/ binding'[k].ws = w /\ canon[w].status = "live"
    BY <1>0, <2>1, <2>2 DEF World
  <2> QED BY <2>3 DEF KeptOrLive, StaysBound
<1>10. CASE \E x \in Windows : Unbind(x) \/ Edit(x) \/ Loaded(x)
  <2>1. UNCHANGED binding
    BY <1>10 DEF Unbind, Edit, Loaded, stored
  <2> QED BY <1>1, <2>1
<1>11. CASE \E x \in Windows : AutoSave(x)
  <2>1. PICK x \in Windows : AutoSave(x)
    BY <1>11
  <2> QED BY <1>2, <2>1 DEF AutoSave, KeptOrLive
<1>12. CASE \E w \in Workspaces : DataEdit(w) \/ Remove(w)
  <2>1. PICK w \in Workspaces : \/ UNCHANGED binding
                                \/ binding' = [x \in Windows |-> IF binding[x] # None /\ binding[x].ws = w
                                                 THEN [binding[x] EXCEPT !.stale = TRUE] ELSE binding[x]]
    BY <1>12 DEF DataEdit, Remove
  <2>2. binding[k] # None => [binding[k] EXCEPT !.stale = TRUE].ws = binding[k].ws
    BY <1>0, BindingFields DEF World, OrNone
  <2> QED BY <1>1, <2>1, <2>2 DEF KeptOrLive, StaysBound
<1>13. CASE UNCHANGED vars
  BY <1>1, <1>13 DEF vars, stored
<1>14. CASE FlushUnbound
  <2>1. Head(queue).who \in Windows
    BY <1>14, OtherTask DEF FlushUnbound
  <2>2. UNCHANGED binding \/ SaveWindow(Head(queue).who)
    BY <1>14 DEF FlushUnbound
  <2> QED BY <1>1, <1>2, <2>1, <2>2 DEF KeptOrLive
<1>15. [Step]_vars
  BY <1>0, Spoiling
<1> QED BY <1>3, <1>4, <1>5, <1>6, <1>7, <1>8, <1>9, <1>10, <1>11, <1>12, <1>13, <1>14, <1>15
        DEF Step, QueueStep, SwitchStep, RecoveryStep

(* No window is ever bound to a workspace that is in the trash or deleted:  *)
(* a switch, the recovery of an interrupted one and a removal exclude each  *)
(* other, in every order.                                                   *)
THEOREM RemovalsAndSwitchesExclude ==
    ASSUME NoneIsApart
    PROVE  Spec => BoundToLive
<1>1. ASSUME IInv, [Next]_vars
      PROVE  [\A k \in Windows :
                binding'[k] # None /\ (binding'[k] # None => binding[k] = None \/
                                        (binding[k] # None => binding'[k].ws # binding[k].ws))
                  => canon[binding'[k].ws].status = "live"]_vars
  BY <1>1, BindsToLive DEF KeptOrLive, StaysBound
<1> QED BY <1>1, Invariance, PTL DEF Spec, BoundToLive
----------------------------------------------------------------------------
(* What the journal takes from the window, and what comes of it.            *)
LEMMA RequestsFacts ==
    ASSUME IInv, (\E r \in Requests : Call(r) \/ Resolve(r) \/ Alarm(r)) \/ Abort \/ Discard \/ StartAgain
             \/ \E k \in Windows : Unbind(k)
    PROVE  /\ UNCHANGED <<canon, ledger, journal, binding, open, shows, loading, run>>
           /\ Running => UNCHANGED <<Active, RunWindow>>
           /\ Late' <=> Late
<1>0. /\ Shapes /\ QueueMatches /\ RecoverTask \in Tasks /\ Task("discard", None) \in Tasks
      /\ \A r \in Requests : Task("switch", r) \in Tasks
      /\ \A k \in Windows : Task("unbind", k) \in Tasks
  BY DEF IInv, Tasks, RecoverTask, Task
<1>1. UNCHANGED <<canon, ledger, journal, binding, open, shows, loading, run>>
  BY DEF Call, Resolve, Alarm, Abort, Discard, StartAgain, Unbind, stored, browser
<1>2. queue' = queue \/ \E t \in Tasks : queue' = Append(queue, t)
  BY <1>0 DEF Call, Resolve, Alarm, Abort, Discard, StartAgain, Unbind, Enqueue
<1>3. queue # <<>> => queue' # <<>> /\ Head(queue') = Head(queue)
  BY <1>0, <1>2, TaskSequences DEF Shapes
<1>4. \A s \in Requests : req[s].pc = "waiting" => req'[s].window = req[s].window
  <2>1. ASSUME NEW r \in Requests, Call(r) \/ Resolve(r), NEW s \in Requests, req[s].pc = "waiting"
        PROVE  req'[s].window = req[s].window
    <3>1. s # r /\ req[r].pc \in {"idle", "resolving"}
      BY <2>1 DEF Call, Resolve
    <3>2. CASE Call(r)
      <4>1. \E q : req' = [req EXCEPT ![r] = q]
        BY <3>2 DEF Call
      <4> QED BY <1>0, <3>1, <4>1 DEF Shapes
    <3>3. CASE Resolve(r)
      <4>1. \/ \E q : req' = [req EXCEPT ![r] = q]
            \/ req' = [CancelAll({intent[req[r].window]}, "superseded") EXCEPT ![r].pc = "waiting"]
        BY <3>3 DEF Resolve
      <4>2. /\ CancelAll({intent[req[r].window]}, "superseded") \in [Requests -> Inquiries]
            /\ CancelAll({intent[req[r].window]}, "superseded")[s].window = req[s].window
        BY <1>0, Cancelling
      <4> QED BY <1>0, <3>1, <4>1, <4>2 DEF Shapes
    <3> QED BY <2>1, <3>2, <3>3
  <2>2. ASSUME NEW r \in Requests, Alarm(r) PROVE \A s \in Requests : req'[s].window = req[s].window
    BY <1>0, <2>2, Cancelling DEF Alarm
  <2>3. ASSUME Abort PROVE \A s \in Requests : req'[s].window = req[s].window
    BY <1>0, <2>3, Cancelling DEF Abort
  <2>4. ASSUME Discard \/ StartAgain \/ \E k \in Windows : Unbind(k) PROVE UNCHANGED req
    BY <2>4 DEF Discard, StartAgain, Unbind, intents
  <2> QED BY <2>1, <2>2, <2>3, <2>4
<1>5. run.stage # "idle" => queue # <<>>
  BY <1>0 DEF Shapes, TypeOK
<1>6. Running' <=> Running
  BY <1>1, <1>3, <1>5 DEF Running, IsHead
<1>7. Running => UNCHANGED <<Active, RunWindow>>
  <2>1. ASSUME Running PROVE UNCHANGED <<Active, RunWindow>>
    <3>1. Active \in Requests /\ req[Active].pc = "waiting" /\ queue # <<>>
      BY <1>0, <2>1, ActiveWaits DEF Running
    <3>2. Active' = Active
      BY <1>3, <3>1 DEF Active
    <3> QED BY <1>4, <3>1, <3>2 DEF RunWindow
  <2> QED BY <2>1
<1> QED BY <1>1, <1>6, <1>7 DEF Late

LEMMA IdleIsKnown ==
    ASSUME LoadingBound, UNCHANGED loading, run'.stage \in {"idle", "remove", "recheck", "settle"},
           \A k \in loading : ~Journaled(k)' => ~Journaled(k),
           \A k \in loading : binding'[k] # None => binding[k] # None /\ binding'[k].ws = binding[k].ws,
           \A k \in loading : binding[k] # None => canon'[binding[k].ws].status = canon[binding[k].ws].status
    PROVE  LInv'
<1>1. LoadingBound'
  BY DEF LoadingBound
<1>2. SourceKnown'
  BY DEF SourceKnown, Late, Early, Acting, Recovering
<1> QED BY <1>1, <1>2 DEF LInv

LEMMA WorldIsKnown ==
    ASSUME NoneIsApart, IInv, LInv,
           \/ \E k \in Windows : Edit(k) \/ Loaded(k) \/ CloseWindow(k) \/ AutoSave(k)
           \/ \E w \in Workspaces : DataEdit(w) \/ Remove(w)
    PROVE  LInv'
<1>0. /\ Shapes /\ World /\ LoadingBound /\ SourceKnown /\ \A k \in loading : k \in Windows /\ k \in open
      /\ \A k \in Windows : binding[k] # None => binding[k] \in Bindings /\ binding[k].ws \in Workspaces
  BY WorldOf DEF IInv, LInv, World, OrNone, Bindings
<1>a. UNCHANGED <<req, queue, run, journal>>
  BY DEF Edit, Loaded, CloseWindow, AutoSave, DataEdit, Remove, stored, intents, browser
<1>b. UNCHANGED <<Active, RunWindow, Running, Late>>
  BY <1>a DEF Active, RunWindow, Running, Late, IsHead
<1>c. \A k : Journaled(k)' <=> Journaled(k)
  BY <1>a DEF Journaled
<1>d. /\ run.stage \in Early \cup Acting => Running /\ RunWindow \in Windows
      /\ run.stage \in {"own", "complete"} => run.stage \in Early \cup Acting
  BY StageFacts DEF Quiet, Early, Acting
<1>1. ASSUME NEW k \in Windows, Edit(k) PROVE LInv'
  <2>1. /\ UNCHANGED <<canon, binding, open, loading>>
        /\ run.stage \in Early => shows'[RunWindow] = shows[RunWindow]
    BY <1>0, <1>1, <1>d DEF Edit, InSwitch, stored, World
  <2>2. LoadingBound' /\ SourceKnown'
    BY <1>0, <1>a, <1>b, <1>c, <2>1 DEF LoadingBound, SourceKnown
  <2> QED BY <2>2 DEF LInv
<1>2. ASSUME NEW k \in Windows, Loaded(k) PROVE LInv'
  <2>1. UNCHANGED <<canon, binding, open, shows>> /\ loading' \subseteq loading
    BY <1>2 DEF Loaded, stored
  <2>2. LoadingBound' /\ SourceKnown'
    BY <1>0, <1>a, <1>b, <1>c, <2>1 DEF LoadingBound, SourceKnown
  <2> QED BY <2>2 DEF LInv
<1>3. ASSUME NEW k \in Windows, CloseWindow(k) PROVE LInv'
  <2>1. /\ UNCHANGED <<canon, shows>> /\ open' = open \ {k} /\ loading' = loading \ {k}
        /\ \A x \in Windows : x # k => binding'[x] = binding[x]
    BY <1>0, <1>3 DEF CloseWindow, World
  <2>2. LoadingBound'
    BY <1>0, <1>c, <2>1 DEF LoadingBound
  <2>3. SourceKnown'
    BY <1>0, <1>a, <1>b, <1>d, <2>1 DEF SourceKnown
  <2> QED BY <2>2, <2>3 DEF LInv
<1>4. ASSUME UNCHANGED <<open, shows, loading>>,
             \A w \in Workspaces : canon'[w].status = canon[w].status,
             \A x \in Windows : /\ binding'[x] = None <=> binding[x] = None
                                /\ binding[x] # None => binding'[x].ws = binding[x].ws
      PROVE  LInv'
  <2>1. LoadingBound'
    BY <1>0, <1>c, <1>4 DEF LoadingBound
  <2>2. SourceKnown'
    BY <1>0, <1>a, <1>b, <1>d, <1>4 DEF SourceKnown
  <2> QED BY <2>1, <2>2 DEF LInv
<1>5. ASSUME NEW k \in Windows, AutoSave(k) PROVE LInv'
  <2>1. UNCHANGED <<open, loading, shows>> /\ SaveWindow(k)
    BY <1>5 DEF AutoSave, browser
  <2>2. /\ \A w \in Workspaces : canon'[w].status = canon[w].status
        /\ \A x \in Windows : /\ binding'[x] = None <=> binding[x] = None
                              /\ binding[x] # None => binding'[x].ws = binding[x].ws
    BY <2>1, Saving
  <2> QED BY <1>4, <2>1, <2>2
<1>6. ASSUME NEW w \in Workspaces, DataEdit(w) PROVE LInv'
  <2>1. /\ UNCHANGED <<open, loading, shows>>
        /\ canon' = [canon EXCEPT ![w].tabs.stamp = spent'.edit, ![w].rev = @ + 1]
        /\ binding' = [k \in Windows |-> IF binding[k] # None /\ binding[k].ws = w
                                         THEN [binding[k] EXCEPT !.stale = TRUE] ELSE binding[k]]
    BY <1>6 DEF DataEdit, browser
  <2>2. \A x \in Workspaces : canon'[x].status = canon[x].status
    BY <1>0, <2>1 DEF World
  <2>3. \A k \in Windows : binding[k] # None => /\ [binding[k] EXCEPT !.stale = TRUE].ws = binding[k].ws
                                                /\ [binding[k] EXCEPT !.stale = TRUE] # None
    BY <1>0, BindingFields DEF NoneIsApart
  <2>4. \A x \in Windows : /\ binding'[x] = None <=> binding[x] = None
                           /\ binding[x] # None => binding'[x].ws = binding[x].ws
    BY <2>1, <2>3
  <2> QED BY <1>4, <2>1, <2>2, <2>4
<1>7. ASSUME NEW w \in Workspaces, Remove(w) PROVE LInv'
  <2>1. /\ UNCHANGED <<open, loading, shows, binding>> /\ w \notin Busy
        /\ \A x \in Workspaces : x # w => canon'[x] = canon[x]
    BY <1>0, <1>7 DEF Remove, browser, World
  <2>2. \A k \in loading : binding[k] # None => binding[k].ws # w
    BY <1>0, <2>1 DEF Busy
  <2>3. LoadingBound'
    BY <1>0, <1>c, <2>1, <2>2 DEF LoadingBound
  <2>4. SourceKnown'
    BY <1>0, <1>a, <1>b, <2>1 DEF SourceKnown
  <2> QED BY <2>3, <2>4 DEF LInv
<1> QED BY <1>1, <1>2, <1>3, <1>5, <1>6, <1>7
LEMMA FinishIsIdle ==
    ASSUME NEW result, Finish(result)
    PROVE  run'.stage = "idle"
BY DEF Finish, NoRun

LEMMA RecoveredIsIdle ==
    ASSUME run \in Runs, NEW result \in BOOLEAN, Recovered(result)
    PROVE  run'.stage \in {"idle", "recheck"}
<1>1. ASSUME Enter("recheck") PROVE run'.stage = "recheck"
  BY <1>1, RunFields DEF Quiet
<1>2. ASSUME run' = NoRun PROVE run'.stage = "idle"
  BY <1>2 DEF NoRun
<1>3. ASSUME NEW answer, Finish(answer) PROVE run'.stage = "idle"
  BY <1>3, FinishIsIdle
<1>4. CASE run.after = "recheck"
  BY <1>1, <1>3, <1>4 DEF Recovered
<1>5. CASE run.after = "answer"
  BY <1>3, <1>5 DEF Recovered
<1>6. CASE run.after # "recheck" /\ run.after # "answer"
  BY <1>2, <1>6 DEF Recovered
<1> QED BY <1>4, <1>5, <1>6

(* After the journal has been written, until it is cleared.                 *)
LEMMA LateIsKnown ==
    ASSUME IInv, SourceKnown, LoadingBound', SameTask, UNCHANGED <<journal, open>>, Late' => Late,
           run'.before = run.before, run'.source = run.source, run'.stage \in Acting \cup Recovering,
           run'.stage = "complete" /\ RunWindow \in open => binding'[RunWindow] # None,
           run'.stage \in {"rebind", "clear"} => journal.window \notin loading'
    PROVE  LInv'
<1>1. UNCHANGED <<Active, RunWindow>>
  BY DEF SameTask, intents, Active, RunWindow
<1>2. run'.stage \notin Early /\ run'.stage # "own"
  BY DEF Early, Acting, Recovering
<1>3. SourceKnown'
  BY <1>1, <1>2 DEF SourceKnown
<1> QED BY <1>3 DEF LInv

LEMMA ActingIsKnown ==
    ASSUME IInv, LInv, run.stage \in Acting, UNCHANGED <<canon, journal, open>>, loading' \subseteq loading \cup {RunWindow},
           \A k \in Windows : k # RunWindow => binding'[k] = binding[k],
           \/ FailLate
           \/ \E stage \in Acting : /\ Enter(stage) /\ SameTask
                                    /\ stage = "complete" => binding'[RunWindow] # None
    PROVE  LInv'
<1>1. /\ run \in Runs /\ Running /\ Journaled(RunWindow) /\ Late /\ \A k \in loading : k \in Windows
  BY ActingFacts DEF Late, World
<1>2. LoadingBound'
  <2>1. \A k : Journaled(k)' <=> Journaled(k)
    BY DEF Journaled
  <2> QED BY <1>1, <2>1 DEF LInv, LoadingBound
<1>3. CASE FailLate
  <2>1. run'.stage = "recover" /\ run'.before = run.before /\ run'.source = run.source /\ SameTask
    BY <1>1, <1>3 DEF FailLate, Runs
  <2> QED BY <1>1, <1>2, <2>1, LateIsKnown DEF LInv, Recovering
<1>4. CASE \E stage \in Acting : /\ Enter(stage) /\ SameTask
                                 /\ stage = "complete" => binding'[RunWindow] # None
  <2>1. PICK stage \in Acting : /\ Enter(stage) /\ SameTask
                                /\ stage = "complete" => binding'[RunWindow] # None
    BY <1>4
  <2>2. run'.stage = stage /\ run'.before = run.before /\ run'.source = run.source
    BY <1>1, <2>1, RunFields
  <2> QED BY <1>1, <1>2, <2>1, <2>2, LateIsKnown DEF LInv, Acting
<1> QED BY <1>3, <1>4

LEMMA EarlyIsKnown ==
    ASSUME NoneIsApart, IInv, LInv, BeginSwitch \/ Reserve \/ FlushSource
    PROVE  LInv'
<1>0. /\ World /\ run \in Runs /\ QueueMatches /\ Shapes /\ LoadingBound /\ SourceKnown
      /\ \A k \in loading : k \in Windows /\ k \in open
      /\ UNCHANGED <<journal, open, shows, loading>> /\ \A k : Journaled(k)' <=> Journaled(k)
  BY WorldOf DEF IInv, Shapes, LInv, World, BeginSwitch, Reserve, FlushSource, stored, browser, Journaled
<1>1. ASSUME NEW result, Finish(result), UNCHANGED <<canon, binding>> PROVE LInv'
  BY <1>0, <1>1, FinishIsIdle, IdleIsKnown
<1>2. CASE BeginSwitch
  <2>1. UNCHANGED <<canon, binding>> /\ IsHead("switch")
    BY <1>2 DEF BeginSwitch, stored
  <2>2. LoadingBound'
    BY <1>0, <2>1 DEF LoadingBound
  <2>3. CASE FinishCancelled
    BY <1>1, <2>1, <2>3 DEF FinishCancelled
  <2>4. CASE run' = [NoRun EXCEPT !.stage = "recover", !.after = "recheck"]
    <3>1. run'.stage = "recover" /\ run'.after = "recheck"
      BY <2>4 DEF NoRun
    <3> QED BY <2>2, <3>1 DEF LInv, SourceKnown, Late, Early, Acting
  <2>5. CASE /\ run' = [NoRun EXCEPT !.stage = "reserve", !.source = binding[RunWindow], !.before = shows[RunWindow]]
             /\ UNCHANGED <<intents, queue>>
    <3>1. run'.stage = "reserve" /\ run'.before = shows[RunWindow]
      BY <2>5 DEF NoRun
    <3>2. UNCHANGED RunWindow
      BY <2>5 DEF intents, RunWindow, Active
    <3> QED BY <1>0, <2>2, <3>1, <3>2 DEF LInv, SourceKnown, Late, Acting, Recovering
  <2> QED BY <1>2, <2>3, <2>4, <2>5 DEF BeginSwitch
<1>3. CASE Reserve
  <2>1. UNCHANGED <<canon, binding>> /\ run.stage = "reserve"
    BY <1>3 DEF Reserve, stored, Stage
  <2>2. LoadingBound'
    BY <1>0, <2>1 DEF LoadingBound
  <2>3. CASE FailEarly
    BY <1>1, <2>1, <2>3 DEF FailEarly
  <2>4. CASE run' = [run EXCEPT !.stage = "flush", !.reserved = TRUE] /\ SameTask
    <3>1. run'.stage = "flush" /\ run'.before = run.before
      BY <1>0, <2>4 DEF Runs
    <3>2. UNCHANGED RunWindow
      BY <2>4 DEF intents, RunWindow, Active, SameTask
    <3> QED BY <1>0, <2>1, <2>2, <3>1, <3>2 DEF LInv, SourceKnown, Late, Acting, Recovering, Early
  <2> QED BY <1>3, <2>3, <2>4 DEF Reserve
<1>4. CASE FlushSource
  <2>1. run.stage = "flush" /\ RunWindow \in Windows
    BY <1>4, StageFacts DEF FlushSource, Stage, Quiet, Early
  <2>2. CASE FailEarly /\ UNCHANGED <<canon, binding>>
    BY <1>1, <2>2 DEF FailEarly
  <2>3. CASE /\ SaveWindow(RunWindow) /\ SameTask
             /\ run' = [run EXCEPT !.stage = "own", !.source = binding'[RunWindow]]
    <3>1. /\ \A w \in Workspaces : canon'[w].status = canon[w].status
          /\ \A x \in Windows : /\ binding'[x] = None <=> binding[x] = None
                                /\ binding[x] # None => binding'[x].ws = binding[x].ws
      BY <2>1, <2>3, Saving
    <3>2. \A k \in Windows : binding[k] # None => binding[k].ws \in Workspaces
      BY <1>0 DEF World, OrNone, Bindings
    <3>3. LoadingBound'
      BY <1>0, <3>1, <3>2 DEF LoadingBound
    <3>4. run'.stage = "own" /\ run'.before = run.before /\ run'.source = binding'[RunWindow]
      BY <1>0, <2>3 DEF Runs
    <3>5. UNCHANGED RunWindow
      BY <2>3 DEF intents, RunWindow, Active, SameTask
    <3> QED BY <1>0, <2>1, <3>3, <3>4, <3>5 DEF LInv, SourceKnown, Late, Acting, Recovering, Early
  <2> QED BY <1>4, <2>2, <2>3 DEF FlushSource
<1> QED BY <1>2, <1>3, <1>4

(* The journal of a loading window has the saved copy of its workspace.     *)
LEMMA OwnIsKnown ==
    ASSUME NoneIsApart, ~spoilt, IInv, LInv, Own
    PROVE  LInv'
<1> DEFINE k == RunWindow
           w == req[Active].target
           b == run.source
           source == IF b # None /\ (b # None => canon[b.ws].status # "gone") THEN b.ws ELSE None
<1>0. /\ World /\ run \in Runs /\ LoadingBound /\ SourceKnown /\ OwnTabsOnly
      /\ \A x \in loading : x \in Windows /\ x \in open
      /\ run.stage = "own" /\ UNCHANGED <<canon, binding, open, shows, loading>>
  BY WorldOf DEF IInv, Shapes, LInv, World, Own, Stage, browser, OwnTabs
<1>1. /\ k \in Windows /\ journal = None /\ Running
      /\ b \in OrNone(Bindings) /\ binding[k] \in OrNone(Bindings)
  BY <1>0, StageFacts DEF Quiet, Early, Runs
<1>2. ASSUME NEW result, Finish(result), UNCHANGED journal PROVE LInv'
  BY <1>0, <1>1, <1>2, FinishIsIdle, IdleIsKnown DEF Journaled
<1>3. CASE /\ journal' = [run |-> Active, window |-> k, target |-> w, source |-> source,
                          rev |-> IF b = None THEN 0 ELSE b.rev,
                          tabs |-> Snapshot(k, source), failed |-> FALSE]
           /\ run' = [run EXCEPT !.stage = "prepare", !.plan = [tabs |-> canon[w].tabs, rev |-> canon[w].rev]]
  <2>1. journal'.window = k /\ journal'.tabs = Snapshot(k, source) /\ journal'.source = source
    BY <1>3
  <2>2. run'.stage = "prepare" /\ run'.before = run.before /\ run'.source = b
    BY <1>0, <1>3 DEF Runs
  <2>3. LoadingBound'
    BY <1>0, <1>1 DEF LoadingBound, Journaled
  <2>4. \/ Snapshot(k, source) = run.before
        \/ b # None /\ Snapshot(k, source).owner = b.ws
        \/ source = None /\ Snapshot(k, source) = Nothing
    <3>1. CASE k \notin loading
      BY <1>0, <3>1 DEF Snapshot, SourceKnown, Early
    <3>2. CASE k \in loading /\ binding[k] = None
      <4>1. b = None /\ source = None
        BY <1>0, <1>1, <3>2 DEF SourceKnown
      <4> QED BY <3>2, <4>1 DEF Snapshot
    <3>3. CASE k \in loading /\ binding[k] # None
      <4>1. k \in open /\ binding[k] # None /\ canon[binding[k].ws].status # "gone"
        BY <1>0, <1>1, <3>3 DEF LoadingBound, Journaled
      <4>2. b # None /\ b.ws = binding[k].ws /\ b.ws \in Workspaces
        BY <1>0, <1>1, <4>1 DEF SourceKnown, OrNone, Bindings
      <4>3. source = b.ws /\ source # None
        BY <4>1, <4>2, SwitchConstants
      <4>4. Snapshot(k, source) = canon[source].tabs
        BY <3>3, <4>3 DEF Snapshot
      <4> QED BY <1>0, <4>2, <4>3, <4>4 DEF OwnTabsOnly
    <3> QED BY <3>1, <3>2, <3>3
  <2> HIDE DEF b, source
  <2> QED BY <2>1, <2>2, <2>3, <2>4 DEF LInv, SourceKnown, Early, b
<1> QED BY <1>2, <1>3 DEF Own, FailEarly

LEMMA LateStepsAreKnown ==
    ASSUME NoneIsApart, IInv, LInv, Prepare \/ Commit \/ Swap \/ Bind \/ Complete \/ Settle
    PROVE  LInv'
<1>0. World /\ LoadingBound /\ SourceKnown /\ \A x \in loading : x \in Windows /\ x \in open
  BY WorldOf DEF IInv, LInv, World
<1>1. CASE Prepare \/ Commit \/ Swap
  <2>1. run.stage \in Acting /\ UNCHANGED <<canon, journal, open, binding>> /\ loading' \subseteq loading \cup {RunWindow}
    BY <1>1 DEF Prepare, Commit, Swap, Stage, Acting, stored, browser
  <2>2. FailLate \/ \E stage \in {"commit", "swap", "bind"} : Enter(stage) /\ SameTask
    BY <1>1 DEF Prepare, Commit, Swap
  <2> QED BY <2>1, <2>2, ActingIsKnown DEF Acting
<1>2. CASE Bind
  <2>1. run.stage \in Acting /\ UNCHANGED <<canon, journal, open, loading>>
    BY <1>2 DEF Bind, Stage, Acting, browser
  <2>2. \/ FailLate /\ UNCHANGED binding
        \/ /\ binding' = [binding EXCEPT ![RunWindow] = [ws |-> req[Active].target, rev |-> run.plan.rev, stale |-> FALSE]]
           /\ Enter("complete") /\ SameTask
    BY <1>2 DEF Bind
  <2>3. [ws |-> req[Active].target, rev |-> run.plan.rev, stale |-> FALSE] # None
    <3>1. req[Active].target \in Workspaces /\ run.plan.rev \in Nat
      BY <2>1, ActingFacts
    <3>2. [ws |-> req[Active].target, rev |-> run.plan.rev, stale |-> FALSE] \in Bindings
      BY <3>1 DEF Bindings
    <3> QED BY <3>2 DEF NoneIsApart
  <2>4. RunWindow \in Windows
    BY <2>1, ActingFacts
  <2>5. \A k \in Windows : k # RunWindow => binding'[k] = binding[k]
    BY <1>0, <2>2 DEF World
  <2>6. FailLate \/ (Enter("complete") /\ SameTask /\ binding'[RunWindow] # None)
    BY <1>0, <2>2, <2>3, <2>4 DEF World
  <2> QED BY <2>1, <2>5, <2>6, ActingIsKnown DEF Acting
<1>3. CASE Complete
  <2>1. run.stage = "complete" /\ run.stage \in Acting /\ UNCHANGED <<canon, binding, open, loading>>
        /\ ((FailLate /\ UNCHANGED journal) \/ (journal' = None /\ Enter("settle")))
    BY <1>3 DEF Complete, Stage, Acting, browser
  <2>2. CASE FailLate /\ UNCHANGED journal
    BY <2>1, <2>2, ActingIsKnown
  <2>3. CASE journal' = None /\ Enter("settle")
    <3>1. run'.stage = "settle"
      BY <2>1, <2>3, ActingFacts, RunFields DEF Quiet
    <3>2. RunWindow \in loading => binding[RunWindow] # None /\ canon[binding[RunWindow].ws].status # "gone"
      BY <1>0, <2>1, ActingFacts DEF SourceKnown, StageMatches
    <3>3. \A k \in loading : k # RunWindow => ~Journaled(k)
      BY <2>1, ActingFacts DEF Journaled
    <3>4. LoadingBound'
      BY <1>0, <2>1, <3>2, <3>3 DEF LoadingBound
    <3>5. SourceKnown'
      BY <3>1 DEF SourceKnown, Late, Early, Acting, Recovering
    <3> QED BY <3>4, <3>5 DEF LInv
  <2> QED BY <2>1, <2>2, <2>3
<1>4. CASE Settle
  <2>1. Finish("ok") /\ UNCHANGED <<canon, journal, binding, loading>>
    BY <1>4 DEF Settle, browser
  <2> QED BY <1>0, <2>1, FinishIsIdle, IdleIsKnown DEF Journaled
<1> QED BY <1>1, <1>2, <1>3, <1>4
LEMMA RecoveryIsKnown ==
    ASSUME NoneIsApart, IInv, LInv, RecoveryStep
    PROVE  LInv'
<1>0. World /\ LoadingBound /\ SourceKnown /\ \A x \in loading : x \in Windows /\ x \in open
  BY WorldOf DEF IInv, LInv, World
<1>a. ASSUME run.stage \in Recovering, NEW stage \in Recovering, Enter(stage), SameTask
      PROVE  /\ Late' => Late
             /\ run'.before = run.before /\ run'.source = run.source /\ run'.stage = stage
             /\ run'.stage \in Acting \cup Recovering /\ stage # "complete"
  <2>1. run' \in Runs /\ run'.stage = stage /\ run'.after = run.after /\ run'.before = run.before
        /\ run'.source = run.source
    BY <1>a, RecoveringFacts, RunFields
  <2>2. UNCHANGED <<Active, queue>> /\ run.stage # "idle" /\ stage \notin Acting /\ stage # "complete"
    BY <1>a DEF SameTask, Active, Recovering, Acting
  <2> QED BY <1>a, <2>1, <2>2 DEF Late, Running, IsHead
<1>b. ASSUME run.stage \in Recovering, NEW result \in BOOLEAN, Recovered(result), UNCHANGED <<canon, loading>>,
             \A k \in loading : ~Journaled(k)' => ~Journaled(k),
             \A k \in loading : binding'[k] = binding[k] \/ binding'[k] = None
      PROVE  LInv'
  <2>1. run'.stage \in {"idle", "recheck"}
    BY <1>b, RecoveringFacts, RecoveredIsIdle
  <2> QED BY <1>0, <1>b, <2>1, IdleIsKnown
<1>1. CASE BeginRecovery
  <2>1. UNCHANGED <<canon, binding, loading, journal>> /\ IsHead("recover") /\ queue # <<>>
        /\ run'.stage \in {"idle", "recover"} /\ (run'.stage = "recover" => run'.after = "end")
    BY <1>1 DEF BeginRecovery, stored, browser, Pop, NoRun, IsHead
  <2>2. LoadingBound'
    BY <1>0, <2>1 DEF LoadingBound, Journaled
  <2>3. SourceKnown'
    BY <2>1 DEF SourceKnown, Late, Running, Early, Acting, Recovering
  <2> QED BY <2>2, <2>3 DEF LInv
<1>2. CASE Preserve \/ CheckWindow
  <2>1. /\ run.stage = "recover" /\ run.stage \in Recovering /\ UNCHANGED <<canon, binding, journal, open, loading>>
        /\ SameTask /\ (Enter("forget") \/ Enter("restore"))
    BY <1>2 DEF Preserve, CheckWindow, Stage, Recovering, stored, browser
  <2>2. LoadingBound'
    BY <1>0, <2>1 DEF LoadingBound, Journaled
  <2> QED BY <1>0, <1>a, <2>1, <2>2, LateIsKnown DEF Recovering
<1>3. CASE Forget
  <2>1. /\ run.stage = "forget" /\ run.stage \in Recovering /\ binding' = [binding EXCEPT ![journal.window] = None]
        /\ journal' = None /\ Recovered(TRUE) /\ UNCHANGED <<canon, loading>>
    BY <1>3 DEF Forget, Stage, Recovering, browser
  <2>2. journal.window \notin loading
    BY <1>0, <2>1, RecoveringFacts DEF StageMatches
  <2>3. \A k \in loading : binding'[k] = binding[k] /\ ~Journaled(k)
    BY <1>0, <2>1, <2>2 DEF World, Journaled
  <2> QED BY <1>b, <2>1, <2>3
<1>4. CASE Restore
  <2>1. /\ run.stage = "restore" /\ run.stage \in Recovering /\ UNCHANGED <<canon, binding, journal, open>>
        /\ loading' = loading \ {journal.window} /\ Enter("rebind") /\ SameTask
    BY <1>4 DEF Restore, Stage, Recovering, stored
  <2>2. LoadingBound'
    BY <1>0, <2>1 DEF LoadingBound, Journaled
  <2> QED BY <1>0, <1>a, <2>1, <2>2, LateIsKnown DEF Recovering
<1>5. CASE RestoreFails \/ RebindFails
  <2>1. /\ run.stage \in Recovering /\ journal' = [journal EXCEPT !.failed = TRUE]
        /\ Recovered(FALSE) /\ UNCHANGED <<canon, binding, loading>>
    BY <1>5 DEF RestoreFails, RebindFails, Stage, Recovering, browser
  <2>2. journal'.window = journal.window /\ journal' # None
    BY <2>1, JournalFails
  <2>3. \A k \in loading : ~Journaled(k)' => ~Journaled(k)
    BY <2>2 DEF Journaled
  <2> QED BY <1>b, <2>1, <2>3
<1>6. CASE Rebind
  <2> DEFINE b == [ws |-> journal.source, rev |-> journal.rev, stale |-> journal.rev # canon[journal.source].rev]
  <2>1. /\ run.stage = "rebind" /\ run.stage \in Recovering /\ UNCHANGED <<canon, journal, open, loading>>
        /\ Enter("clear") /\ SameTask
        /\ binding' = [binding EXCEPT ![journal.window] = b] \/ binding' = [binding EXCEPT ![journal.window] = None]
    BY <1>6 DEF Rebind, Stage, Recovering, browser
  <2> HIDE DEF b
  <2>2. \A k \in Windows : k # journal.window => binding'[k] = binding[k]
    BY <1>0, <2>1 DEF World
  <2>3. LoadingBound' /\ journal.window \notin loading
    BY <1>0, <2>1, <2>2, RecoveringFacts DEF LoadingBound, Journaled, SourceKnown
  <2> QED BY <1>0, <1>a, <2>1, <2>3, LateIsKnown DEF Recovering
<1>7. CASE ClearJournal
  <2>1. /\ run.stage = "clear" /\ run.stage \in Recovering /\ UNCHANGED <<canon, binding, loading>> /\ Recovered(TRUE)
    BY <1>7 DEF ClearJournal, Stage, Recovering, browser
  <2>2. \A k \in loading : ~Journaled(k)
    BY <1>0, <2>1 DEF SourceKnown, Journaled
  <2> QED BY <1>b, <2>1, <2>2
<1>8. CASE PreserveThrows
  <2>1. /\ run.stage \in Recovering /\ UNCHANGED <<canon, journal, loading>> /\ run'.stage = "idle"
        /\ binding' \in {binding, [binding EXCEPT ![journal.window] = None]}
    BY <1>8, FinishIsIdle DEF PreserveThrows, Stage, Recovering, browser, NoRun
  <2>2. \A k \in loading : binding'[k] = binding[k] \/ binding'[k] = None
    BY <1>0, <2>1, RecoveringFacts DEF World
  <2> QED BY <1>0, <2>1, <2>2, IdleIsKnown DEF Journaled
<1> QED BY <1>1, <1>2, <1>3, <1>4, <1>5, <1>6, <1>7, <1>8 DEF RecoveryStep

LEMMA NextKnown ==
    ASSUME NoneIsApart, IInv, LInv, ~spoilt, ~spoilt', [Next]_vars
    PROVE  LInv'
<1>0. Shapes /\ World /\ LoadingBound /\ SourceKnown /\ \A x \in loading : x \in Windows
  BY WorldOf DEF IInv, LInv, World
<1>a. [Step]_vars /\ (Next => ~Spoils)
  BY <1>0, Spoiling
<1>1. ASSUME UNCHANGED <<canon, journal, binding, open, shows, loading, run>>,
             Running => UNCHANGED <<Active, RunWindow>>, Late' <=> Late
      PROVE  LInv'
  <2>1. LoadingBound'
    BY <1>0, <1>1 DEF LoadingBound, Journaled
  <2>2. run.stage \in Early \cup {"own", "complete"} => Running
    BY StageFacts DEF Quiet, Early, Acting
  <2>3. SourceKnown'
    BY <1>0, <1>1, <2>2 DEF SourceKnown
  <2> QED BY <2>1, <2>3 DEF LInv
<1>2. CASE UNCHANGED vars
  <2>1. UNCHANGED <<canon, journal, binding, open, shows, loading, run, queue, req>>
    BY <1>2 DEF vars, stored, browser, intents
  <2>2. UNCHANGED <<Active, RunWindow, Late>>
    BY <2>1 DEF Active, RunWindow, Late, Running, IsHead
  <2> QED BY <1>1, <2>1, <2>2
<1>3. CASE (\E r \in Requests : Call(r) \/ Resolve(r) \/ Alarm(r)) \/ Abort \/ Discard \/ StartAgain
           \/ \E k \in Windows : Unbind(k)
  BY <1>1, <1>3, RequestsFacts
<1>4. CASE SwitchStep
  BY <1>4, EarlyIsKnown, OwnIsKnown, LateStepsAreKnown DEF SwitchStep
<1>5. CASE RecoveryStep
  BY <1>5, RecoveryIsKnown
<1>6. CASE ~Spoils /\ DiscardJournal
  <2>1. UNCHANGED <<canon, binding, loading, journal>> /\ run'.stage = "idle"
    BY <1>6 DEF DiscardJournal, Spoils, Pop, browser, NoRun
  <2> QED BY <1>0, <2>1, IdleIsKnown DEF Journaled
<1>7. CASE FlushUnbound \/ RemoveBinding
  <2>1. Head(queue).who \in Windows /\ run \in Runs /\ UNCHANGED <<loading, journal>>
    BY <1>7, OtherTask DEF FlushUnbound, RemoveBinding, browser
  <2>2. run'.stage \in {"idle", "remove"}
    BY <1>7, <2>1, RunFields DEF FlushUnbound, RemoveBinding, Pop, NoRun
  <2>3. CASE UNCHANGED <<canon, binding>>
    BY <1>0, <2>1, <2>2, <2>3, IdleIsKnown DEF Journaled
  <2>4. CASE SaveWindow(Head(queue).who)
    <3>1. /\ \A w \in Workspaces : canon'[w].status = canon[w].status
          /\ \A x \in Windows : /\ binding'[x] = None <=> binding[x] = None
                                /\ binding[x] # None => binding'[x].ws = binding[x].ws
      BY <2>1, <2>4, Saving
    <3>2. \A x \in Windows : binding[x] # None => binding[x].ws \in Workspaces
      BY <1>0 DEF World, OrNone, Bindings
    <3> QED BY <1>0, <2>1, <2>2, <3>1, <3>2, IdleIsKnown DEF Journaled
  <2>5. CASE UNCHANGED canon /\ binding' = [binding EXCEPT ![Head(queue).who] = None]
    <3>1. \A x \in Windows : binding'[x] = binding[x] \/ binding'[x] = None
      BY <1>0, <2>5 DEF World
    <3> QED BY <1>0, <2>1, <2>2, <2>5, <3>1, IdleIsKnown DEF Journaled
  <2> QED BY <1>7, <2>3, <2>4, <2>5 DEF FlushUnbound, RemoveBinding
<1>8. CASE Crash
  <2>1. UNCHANGED <<canon, binding, loading, journal>> /\ run'.stage = "idle"
    BY <1>8 DEF Crash, stored, browser, NoRun
  <2> QED BY <1>0, <2>1, IdleIsKnown DEF Journaled
<1>9. CASE \/ \E k \in Windows : Edit(k) \/ Loaded(k) \/ CloseWindow(k) \/ AutoSave(k)
           \/ \E w \in Workspaces : DataEdit(w) \/ Remove(w)
  BY <1>9, WorldIsKnown
<1> QED BY <1>a, <1>2, <1>3, <1>4, <1>5, <1>6, <1>7, <1>8, <1>9 DEF Next, Step, QueueStep

LEMMA KnownInvariance ==
    ASSUME NoneIsApart
    PROVE  Spec => [](IInv /\ Known)
<1>1. Init => IInv /\ Known
  <2> SUFFICES ASSUME Init PROVE IInv /\ Known
    OBVIOUS
  <2>1. IInv /\ World /\ loading \subseteq Windows
    BY InitInv, WorldOf, SwitchConstants DEF IInv, Init
  <2>2. \A w \in Workspaces : canon[w].status = "live"
    BY DEF Init
  <2>3. LoadingBound
    BY <2>1, <2>2 DEF LoadingBound, World, OrNone, Bindings
  <2>4. run.stage = "idle"
    BY DEF Init, NoRun
  <2>5. SourceKnown
    BY <2>4 DEF SourceKnown, Late, Early, Acting, Recovering
  <2> QED BY <2>1, <2>3, <2>5 DEF Known, LInv
<1>2. (IInv /\ Known) /\ [Next]_vars => (IInv /\ Known)'
  <2>1. ASSUME IInv, Known, [Next]_vars, ~spoilt' PROVE LInv'
    <3>1. Shapes
      BY <2>1 DEF IInv
    <3>2. ~spoilt
      BY <2>1, <3>1, Spoiling
    <3> QED BY <2>1, <3>2, NextKnown DEF Known
  <2> QED BY <2>1, NextInv DEF Known
<1> QED BY <1>1, <1>2, PTL DEF Spec
----------------------------------------------------------------------------
(* The tabs that a window had.                                              *)
Kept ==
  journal # None /\ journal' = None =>
    LET k == journal.window IN
    \/ run.stage = "complete" /\ shows[k] = run.plan.tabs
    \/ shows[k] = journal.tabs
    \/ spoilt'
    \/ journal.tabs \in ledger' \cup {Nothing}

LEMMA JournalIsGivenUp ==
    ASSUME NoneIsApart, IInv, [Next]_vars
    PROVE  Kept
<1>1. CASE UNCHANGED journal
  BY <1>1 DEF Kept
<1>2. CASE journal' # None
  BY <1>2 DEF Kept
<1>3. ASSUME ~UNCHANGED journal, journal' = None PROVE spoilt' \/ Complete \/ Forget \/ ClearJournal
  <2>a. [Step]_vars /\ spoilt' \in BOOLEAN /\ (Next => (~spoilt' => ~Spoils))
    <3>1. Shapes
      BY DEF IInv
    <3> QED BY <3>1, Spoiling
  <2>1. CASE \E r \in Requests : Call(r) \/ Resolve(r) \/ Alarm(r)
    BY <1>3, <2>1 DEF Call, Resolve, Alarm, stored
  <2>2. CASE SwitchStep
    <3>1. ~(BeginSwitch \/ Reserve \/ FlushSource \/ Prepare \/ Commit \/ Swap \/ Bind \/ Settle)
      BY <1>3 DEF BeginSwitch, Reserve, FlushSource, Prepare, Commit, Swap, Bind, Settle, stored
    <3>2. ~Own
      <4>1. Own => journal = None
        BY StageFacts DEF Own, Stage, Quiet, Early
      <4> QED BY <1>3, <4>1
    <3> QED BY <2>2, <3>1, <3>2 DEF SwitchStep
  <2>3. CASE RecoveryStep
    <3>1. ~(BeginRecovery \/ Preserve \/ PreserveThrows \/ CheckWindow \/ Restore \/ Rebind)
      BY <1>3 DEF BeginRecovery, Preserve, PreserveThrows, CheckWindow, Restore, Rebind, stored
    <3>2. ASSUME RestoreFails \/ RebindFails PROVE FALSE
      <4>1. journal' = [journal EXCEPT !.failed = TRUE] /\ run.stage \in Recovering
        BY <3>2 DEF RestoreFails, RebindFails, Stage, Recovering
      <4> QED BY <1>3, <4>1, JournalFails
    <3> QED BY <2>3, <3>1, <3>2 DEF RecoveryStep
  <2>4. CASE Abort \/ Discard \/ StartAgain \/ Crash \/ FlushUnbound \/ RemoveBinding
    BY <1>3, <2>4 DEF Abort, Discard, StartAgain, Crash, FlushUnbound, RemoveBinding, stored
  <2>5. CASE \E k \in Windows : Unbind(k) \/ Edit(k) \/ Loaded(k) \/ CloseWindow(k) \/ AutoSave(k)
    BY <1>3, <2>5 DEF Unbind, Edit, Loaded, CloseWindow, AutoSave, stored
  <2>6. CASE \E w \in Workspaces : DataEdit(w) \/ Remove(w)
    BY <1>3, <2>6 DEF DataEdit, Remove
  <2>7. CASE UNCHANGED vars
    BY <1>3, <2>7 DEF vars, stored
  <2>8. CASE Next /\ DiscardJournal
    BY <1>3, <2>a, <2>8 DEF Spoils
  <2> QED BY <2>a, <2>1, <2>2, <2>3, <2>4, <2>5, <2>6, <2>7, <2>8 DEF Next, Step, QueueStep
<1>4. CASE Complete
  <2>1. run.stage = "complete" /\ run.stage \in Acting
    BY <1>4 DEF Complete, Stage, Acting
  <2> QED BY <2>1, ActingFacts DEF Kept, StageMatches
<1>5. CASE Forget
  <2>1. run.stage = "forget" /\ run.stage \in Recovering /\ ledger' = ledger
    BY <1>5 DEF Forget, Stage, Recovering
  <2> QED BY <2>1, RecoveringFacts DEF Kept, StageMatches
<1>6. CASE ClearJournal
  <2>1. run.stage = "clear" /\ run.stage \in Recovering
    BY <1>6 DEF ClearJournal, Stage, Recovering
  <2> QED BY <2>1, RecoveringFacts DEF Kept, StageMatches
<1> QED BY <1>1, <1>2, <1>3, <1>4, <1>5, <1>6 DEF Kept

PutBack ==
  run.stage = "restore" /\ run.after = "answer" /\ run'.stage = "rebind" =>
    LET k == journal.window IN
    \/ shows'[k] = run.before
    \/ run.source # None /\ shows'[k].owner = run.source.ws
    \/ journal.source = None /\ journal.tabs = Nothing
    \/ spoilt'

LEMMA RestorePutsBack ==
    ASSUME NoneIsApart, IInv, Known, [Next]_vars
    PROVE  PutBack
<1>a. Shapes
  BY DEF IInv
<1>b. [Step]_vars /\ spoilt' \in BOOLEAN /\ (spoilt => spoilt')
  BY <1>a, Spoiling
<1> SUFFICES ASSUME run.stage = "restore", run.after = "answer", run'.stage = "rebind", ~spoilt'
             PROVE  LET k == journal.window IN
                    \/ shows'[k] = run.before
                    \/ run.source # None /\ shows'[k].owner = run.source.ws
                    \/ journal.source = None /\ journal.tabs = Nothing
  BY <1>b DEF PutBack
<1>1. run.stage \in Recovering /\ run.stage \notin Acting /\ run \in Runs
  BY RecoveringFacts DEF Recovering, Acting
<1>2. Restore
  <2>1. run' # run
    OBVIOUS
  <2>2. ~(\E r \in Requests : Call(r) \/ Resolve(r) \/ Alarm(r))
    BY <2>1 DEF Call, Resolve, Alarm
  <2>3. ~SwitchStep
    BY DEF SwitchStep, BeginSwitch, Reserve, FlushSource, Own, Prepare, Commit, Swap, Bind, Complete, Settle, Stage
  <2>4. ~(BeginRecovery \/ Preserve \/ Forget \/ PreserveThrows \/ CheckWindow \/ Rebind \/ RebindFails \/ ClearJournal)
    BY DEF BeginRecovery, Preserve, Forget, PreserveThrows, CheckWindow, Rebind, RebindFails, ClearJournal, Stage
  <2>5. ~RestoreFails
    <3>1. RestoreFails => run'.stage \in {"idle", "recheck"}
      BY <1>1, RecoveredIsIdle DEF RestoreFails
    <3> QED BY <3>1
  <2>6. ~(Abort \/ Discard \/ StartAgain)
    BY <2>1 DEF Abort, Discard, StartAgain
  <2>7. ~Crash
    BY DEF Crash, NoRun
  <2>8. ~\E k \in Windows : Unbind(k) \/ Edit(k) \/ Loaded(k) \/ CloseWindow(k) \/ AutoSave(k)
    BY <2>1 DEF Unbind, Edit, Loaded, CloseWindow, AutoSave
  <2>9. ~\E w \in Workspaces : DataEdit(w) \/ Remove(w)
    BY <2>1 DEF DataEdit, Remove
  <2>10. ~UNCHANGED vars
    BY <2>1 DEF vars
  <2>11. ~(DiscardJournal \/ FlushUnbound \/ RemoveBinding)
    BY <1>1, OtherTask DEF DiscardJournal, FlushUnbound, RemoveBinding
  <2> QED BY <1>b, <2>2, <2>3, <2>4, <2>5, <2>6, <2>7, <2>8, <2>9, <2>10, <2>11 DEF Step, QueueStep, RecoveryStep
<1>3. Late
  BY <1>1, RecoveringFacts DEF Late
<1>4. shows'[journal.window] = journal.tabs
  BY <1>1, <1>2, RecoveringFacts DEF Restore, World
<1> QED BY <1>b, <1>3, <1>4 DEF Known, LInv, SourceKnown

(* A failed switch puts back the tabs that the window had, and a journal is *)
(* given up only when it is done, undone or kept in a history: whatever     *)
(* fails, and wherever the worker stops, until all is spoilt.               *)
THEOREM SwitchesLoseNoTabs ==
    ASSUME NoneIsApart
    PROVE  Spec => NoTabsAreLost
<1>1. IInv /\ Known /\ [Next]_vars =>
        [journal # None /\ journal' = None =>
           LET k == journal.window IN
           \/ run.stage = "complete" /\ shows[k] = run.plan.tabs
           \/ shows[k] = journal.tabs
           \/ spoilt'
           \/ journal.tabs \in ledger' \cup {Nothing}]_vars
  BY JournalIsGivenUp DEF Kept
<1>2. IInv /\ Known /\ [Next]_vars =>
        [run.stage = "restore" /\ run.after = "answer" /\ run'.stage = "rebind" =>
           LET k == journal.window IN
           shows'[k] = run.before
             \/ (run.source # None /\ shows'[k].owner = run.source.ws)
             \/ (journal.source = None /\ journal.tabs = Nothing)
             \/ spoilt']_vars
  BY RestorePutsBack DEF PutBack
<1>3. Spec => SnapshotIsKept
  BY <1>1, KnownInvariance, PTL DEF Spec, SnapshotIsKept
<1>4. Spec => RollbackKeepsTabs
  BY <1>2, KnownInvariance, PTL DEF Spec, RollbackKeepsTabs
<1> QED BY <1>3, <1>4 DEF NoTabsAreLost
----------------------------------------------------------------------------
(* What a window durably is changes as AtomicSwitch says.                   *)
BoundTo(k) == IF binding[k] = None THEN None ELSE binding[k].ws

LEMMA Places ==
    ASSUME NEW k \in Windows
    PROVE  /\ Place[k] = IF k \notin open THEN [tabs |-> None, ws |-> None, loads |-> FALSE]
                         ELSE IF Journaled(k) THEN [tabs |-> journal.tabs, ws |-> journal.source, loads |-> FALSE]
                         ELSE [tabs |-> shows[k], ws |-> BoundTo(k), loads |-> k \in loading]
           /\ Place'[k] = IF k \notin open' THEN [tabs |-> None, ws |-> None, loads |-> FALSE]
                          ELSE IF Journaled(k)' THEN [tabs |-> journal'.tabs, ws |-> journal'.source, loads |-> FALSE]
                          ELSE [tabs |-> shows'[k], ws |-> BoundTo(k)', loads |-> k \in loading']
BY DEF Place, Journaled, BoundTo

(* A window is what it was.                                                 *)
Same(k) ==
  /\ k \in open' <=> k \in open
  /\ k \in open => /\ Journaled(k)' <=> Journaled(k)
                   /\ Journaled(k) => journal'.tabs = journal.tabs /\ journal'.source = journal.source
                   /\ ~Journaled(k) => /\ shows'[k] = shows[k] /\ BoundTo(k)' = BoundTo(k)
                                       /\ k \in loading' <=> k \in loading

LEMMA SamePlace ==
    ASSUME NEW k \in Windows, Same(k)
    PROVE  Place'[k] = Place[k]
<1>1. (k \in loading' <=> k \in loading) => (k \in loading') = (k \in loading)
  OBVIOUS
<1> QED BY <1>1, Places DEF Same

LEMMA AllTheSame ==
    ASSUME \A k \in Windows : Same(k)
    PROVE  Place' = Place
<1>1. \A k \in Windows : Place'[k] = Place[k]
  BY SamePlace
<1>2. Place = [k \in Windows |-> Place[k]] /\ Place' = [k \in Windows |-> Place'[k]]
  BY DEF Place
<1> QED BY <1>1, <1>2

(* A window changes in one of the ways there are, and the others do not.    *)
LEMMA OneChanges ==
    ASSUME NEW k \in Windows, \A x \in Windows \ {k} : Same(x),
           \/ Place'[k] = Place[k]
           \/ Abstract!Switch(k) \/ Abstract!Edit(k) \/ Abstract!Unbind(k) \/ Abstract!Forgo(k)
           \/ Abstract!Close(k)
    PROVE  [Abstract!Next]_Place
<1>1. \A x \in Windows \ {k} : Place'[x] = Place[x]
  BY SamePlace
<1>2. CASE Place'[k] = Place[k]
  <2>1. \A x \in Windows : Place'[x] = Place[x]
    BY <1>1, <1>2
  <2>2. Place = [x \in Windows |-> Place[x]] /\ Place' = [x \in Windows |-> Place'[x]]
    BY DEF Place
  <2> QED BY <2>1, <2>2
<1>3. CASE Abstract!Switch(k) \/ Abstract!Edit(k) \/ Abstract!Unbind(k) \/ Abstract!Forgo(k) \/ Abstract!Close(k)
  BY <1>1, <1>3 DEF Abstract!Next, Abstract!Only
<1> QED BY <1>2, <1>3

(* Nothing that is seen of a window changes, but perhaps a binding that is  *)
(* saved or goes stale.                                                     *)
LEMMA OnlyTheRest ==
    ASSUME UNCHANGED <<open, journal, shows, loading>>,
           \A k \in Windows : ~Journaled(k) => BoundTo(k)' = BoundTo(k)
    PROVE  [Abstract!Next]_Place
<1>1. \A k \in Windows : Same(k)
  BY DEF Same, Journaled
<1> QED BY <1>1, AllTheSame

LEMMA SavedBinding ==
    ASSUME \A x \in Windows : /\ binding'[x] = None <=> binding[x] = None
                              /\ binding[x] # None => binding'[x].ws = binding[x].ws
    PROVE  \A k \in Windows : BoundTo(k)' = BoundTo(k)
BY DEF BoundTo

LEMMA AtomicWorld ==
    ASSUME NoneIsApart, IInv,
           \/ \E k \in Windows : Edit(k) \/ Loaded(k) \/ CloseWindow(k) \/ AutoSave(k)
           \/ \E w \in Workspaces : DataEdit(w) \/ Remove(w)
    PROVE  [Abstract!Next]_Place
<1>0. Shapes /\ World /\ \A k \in Windows : binding[k] # None => binding[k] \in Bindings
  BY WorldOf DEF IInv, World, OrNone
<1>1. ASSUME NEW k \in Windows, Edit(k) PROVE [Abstract!Next]_Place
  <2>1. /\ UNCHANGED <<open, journal, binding, loading>> /\ k \in open /\ ~Journaled(k)
        /\ shows' = [shows EXCEPT ![k].stamp = spent'.edit] /\ spent'.edit \in 0 .. MaxEdits
    BY <1>0, <1>1, Spending DEF Edit, InSwitch, stored, Events
  <2>2. /\ \A x \in Windows : x # k => shows'[x] = shows[x]
        /\ shows[k] \in List /\ shows'[k] \in List /\ shows'[k].owner = shows[k].owner
    BY <1>0, <2>1 DEF World, List
  <2>3. \A x \in Windows \ {k} : Same(x)
    BY <2>1, <2>2 DEF Same, Journaled, BoundTo
  <2>4. /\ Place[k] = [tabs |-> shows[k], ws |-> BoundTo(k), loads |-> k \in loading]
        /\ Place'[k] = [tabs |-> shows'[k], ws |-> BoundTo(k)', loads |-> k \in loading']
    BY <2>1, Places DEF Journaled
  <2>5. BoundTo(k)' = BoundTo(k) /\ shows[k] # None /\ shows'[k] # None
    BY <2>1, <2>2 DEF BoundTo, NoneIsApart
  <2>6. Abstract!Edit(k)
    BY <2>2, <2>4, <2>5 DEF Abstract!Edit
  <2> QED BY <2>3, <2>6, OneChanges
<1>2. ASSUME NEW k \in Windows, Loaded(k) PROVE [Abstract!Next]_Place
  <2>1. UNCHANGED <<open, journal, binding, shows>> /\ k \in open /\ ~Journaled(k) /\ loading' = loading \ {k}
    BY <1>2 DEF Loaded, InSwitch, stored
  <2>2. \A x \in Windows \ {k} : Same(x)
    BY <2>1 DEF Same, Journaled, BoundTo
  <2>3. /\ Place[k] = [tabs |-> shows[k], ws |-> BoundTo(k), loads |-> k \in loading]
        /\ Place'[k] = [tabs |-> shows[k], ws |-> BoundTo(k), loads |-> k \in loading']
    BY <2>1, Places DEF Journaled, BoundTo
  <2>4. shows[k] # None
    BY <1>0 DEF World, NoneIsApart
  <2>5. Abstract!Edit(k)
    BY <2>3, <2>4 DEF Abstract!Edit
  <2> QED BY <2>2, <2>5, OneChanges
<1>3. ASSUME NEW k \in Windows, CloseWindow(k) PROVE [Abstract!Next]_Place
  <2>1. /\ UNCHANGED <<journal, shows>> /\ open' = open \ {k} /\ loading' = loading \ {k}
        /\ \A x \in Windows : x # k => binding'[x] = binding[x]
    BY <1>0, <1>3 DEF CloseWindow, World
  <2>2. \A x \in Windows \ {k} : Same(x)
    BY <2>1 DEF Same, Journaled, BoundTo
  <2>3. Abstract!Close(k)
    BY <2>1, Places DEF Abstract!Close, Abstract!Gone
  <2> QED BY <2>2, <2>3, OneChanges
<1>4. ASSUME NEW k \in Windows, AutoSave(k) PROVE [Abstract!Next]_Place
  <2>1. UNCHANGED <<open, journal, shows, loading>> /\ SaveWindow(k)
    BY <1>4 DEF AutoSave, browser
  <2> QED BY <2>1, Saving, SavedBinding, OnlyTheRest
<1>5. ASSUME NEW w \in Workspaces, DataEdit(w) PROVE [Abstract!Next]_Place
  <2>1. /\ UNCHANGED <<open, journal, shows, loading>>
        /\ binding' = [k \in Windows |-> IF binding[k] # None /\ binding[k].ws = w
                                         THEN [binding[k] EXCEPT !.stale = TRUE] ELSE binding[k]]
    BY <1>5 DEF DataEdit, browser
  <2>2. \A k \in Windows : binding[k] # None => /\ [binding[k] EXCEPT !.stale = TRUE].ws = binding[k].ws
                                                /\ [binding[k] EXCEPT !.stale = TRUE] # None
    BY <1>0, BindingFields DEF NoneIsApart
  <2>3. \A x \in Windows : /\ binding'[x] = None <=> binding[x] = None
                           /\ binding[x] # None => binding'[x].ws = binding[x].ws
    BY <2>1, <2>2
  <2> QED BY <2>1, <2>3, SavedBinding, OnlyTheRest
<1>6. ASSUME NEW w \in Workspaces, Remove(w) PROVE [Abstract!Next]_Place
  BY <1>6, OnlyTheRest DEF Remove, browser, BoundTo
<1> QED BY <1>1, <1>2, <1>3, <1>4, <1>5, <1>6

(* The journal takes the place of the window, which may lose a workspace    *)
(* that is gone, and a loading window falls back to its saved tabs.         *)
LEMMA AtomicOwn ==
    ASSUME NoneIsApart, ~spoilt, IInv, LInv, Own
    PROVE  [Abstract!Next]_Place
<1> DEFINE k == RunWindow
           b == run.source
           source == IF b # None /\ (b # None => canon[b.ws].status # "gone") THEN b.ws ELSE None
<1>0. /\ World /\ run \in Runs /\ LoadingBound /\ SourceKnown /\ OwnTabsOnly /\ StageMatches
      /\ run.stage = "own" /\ UNCHANGED <<binding, open, shows, loading>>
  BY WorldOf DEF IInv, Shapes, LInv, Own, Stage, browser, OwnTabs
<1>1. /\ k \in Windows /\ journal = None /\ shows[k] \in List /\ \A x : ~Journaled(x)
      /\ b = None \/ (b \in Bindings /\ b.ws \in Workspaces)
  BY <1>0, StageFacts DEF Quiet, Early, Runs, OrNone, Bindings, World, Journaled
<1>2. CASE UNCHANGED journal
  BY <1>0, <1>2, OnlyTheRest DEF BoundTo
<1>3. CASE journal' = [run |-> Active, window |-> k, target |-> req[Active].target, source |-> source,
                       rev |-> IF b = None THEN 0 ELSE b.rev,
                       tabs |-> Snapshot(k, source), failed |-> FALSE]
  <2>1. journal'.window = k /\ journal'.source = source /\ journal'.tabs = Snapshot(k, source)
    BY <1>3
  <2>2. \A x \in Windows \ {k} : Same(x)
    BY <1>0, <1>1, <2>1 DEF Same, Journaled, BoundTo
  <2>3. CASE k \notin open
    BY <1>0, <1>1, <2>2, <2>3, Places, OneChanges
  <2>4. CASE journal' = None
    BY <1>0, <1>1, <2>4, OnlyTheRest DEF BoundTo
  <2>5. CASE k \in open /\ journal' # None
    <3>1. /\ Place[k] = [tabs |-> shows[k], ws |-> BoundTo(k), loads |-> k \in loading]
          /\ Place'[k] = [tabs |-> Snapshot(k, source), ws |-> source, loads |-> FALSE]
      BY <1>0, <1>1, <2>1, <2>5, Places DEF Journaled
    <3>2. BoundTo(k) = IF b = None THEN None ELSE b.ws
      BY <1>0, <2>5 DEF SourceKnown, BoundTo
    <3>3. CASE source # None
      <4>1. b # None /\ source = b.ws /\ source \in Workspaces /\ BoundTo(k) = source
        BY <1>1, <3>2, <3>3
      <4>2. shows[k].owner = source
        BY <1>0, <4>1 DEF StageMatches
      <4>3. canon[source].tabs \in List /\ canon[source].tabs.owner = source
        BY <1>0, <4>1 DEF World, OwnTabsOnly
      <4>4. Snapshot(k, source) \in List /\ Snapshot(k, source).owner = source
        BY <1>1, <3>3, <4>2, <4>3 DEF Snapshot
      <4>5. Abstract!Edit(k)
        BY <1>1, <3>1, <4>1, <4>2, <4>4 DEF Abstract!Edit, NoneIsApart
      <4> QED BY <1>1, <2>2, <4>5, OneChanges
    <3>4. CASE source = None /\ k \in loading
      <4>1. b = None \/ canon[b.ws].status = "gone"
        BY <1>1, <3>4, SwitchConstants
      <4>2. BoundTo(k) = None
        BY <1>0, <1>1, <2>5, <3>2, <3>4, <4>1 DEF LoadingBound, SourceKnown, BoundTo
      <4>3. Snapshot(k, source) = Nothing /\ Nothing # None /\ Nothing.owner = None
        BY <3>4, Lists DEF Snapshot, Nothing, NoneIsApart
      <4>5. /\ Place[k].loads = (k \in loading) /\ Place[k].ws = None
            /\ Place'[k].tabs = Nothing /\ Place'[k].ws = None
        BY <3>1, <3>4, <4>2, <4>3
      <4>6. Place[k].loads
        BY <3>4, <4>5
      <4>4. Abstract!Forgo(k)
        BY <4>3, <4>5, <4>6 DEF Abstract!Forgo
      <4> QED BY <1>1, <2>2, <4>4, OneChanges
    <3>5. CASE source = None /\ k \notin loading
      <4>3. Snapshot(k, source) = shows[k]
        BY <3>5 DEF Snapshot
      <4>4. Abstract!Unbind(k)
        BY <1>1, <3>1, <3>5, <4>3 DEF Abstract!Unbind, NoneIsApart
      <4> QED BY <1>1, <2>2, <4>4, OneChanges
    <3> QED BY <3>3, <3>4, <3>5
  <2> QED BY <2>3, <2>4, <2>5
<1> QED BY <1>2, <1>3 DEF Own

LEMMA AtomicComplete ==
    ASSUME NoneIsApart, ~spoilt, IInv, LInv, Complete
    PROVE  [Abstract!Next]_Place
<1> DEFINE k == RunWindow
<1>0. /\ World /\ SourceKnown /\ StageMatches
      /\ run.stage = "complete" /\ run.stage \in Acting /\ UNCHANGED <<binding, open, shows, loading>>
  BY WorldOf DEF IInv, Shapes, LInv, Complete, Stage, browser, Acting
<1>1. k \in Windows /\ Journaled(k) /\ (journal' = None \/ UNCHANGED journal)
      /\ \A x : Journaled(x) => x = k
  BY <1>0, ActingFacts DEF Complete, Journaled
<1>2. CASE UNCHANGED journal
  BY <1>0, <1>2, OnlyTheRest DEF BoundTo
<1>3. CASE journal' = None
  <2>1. \A x \in Windows \ {k} : Same(x)
    BY <1>0, <1>1, <1>3 DEF Same, Journaled, BoundTo
  <2>2. CASE k \notin open
    BY <1>0, <1>1, <2>1, <2>2, Places, OneChanges
  <2>3. CASE k \in open
    <3>1. binding[k] # None /\ binding[k].ws = req[Active].target /\ shows[k] = run.plan.tabs
      BY <1>0, <2>3 DEF SourceKnown, StageMatches
    <3>2. req[Active].target \in Workspaces /\ shows[k] # None /\ shows[k].owner = req[Active].target
      BY <1>0, <3>1, ActingFacts DEF NoneIsApart
    <3>3. Place'[k] = [tabs |-> shows[k], ws |-> req[Active].target, loads |-> k \in loading]
      BY <1>0, <1>1, <1>3, <2>3, <3>1, Places DEF Journaled, BoundTo
    <3>4. Abstract!Switch(k)
      BY <3>2, <3>3 DEF Abstract!Switch
    <3> QED BY <1>1, <2>1, <3>4, OneChanges
  <2> QED BY <2>2, <2>3
<1> QED BY <1>1, <1>2, <1>3

LEMMA AtomicSteps ==
    ASSUME NoneIsApart, IInv, LInv,
           BeginSwitch \/ Reserve \/ FlushSource \/ Prepare \/ Commit \/ Swap \/ Bind \/ Settle
    PROVE  [Abstract!Next]_Place
<1>0. World
  BY WorldOf DEF IInv
<1>1. CASE BeginSwitch \/ Reserve \/ Commit \/ Settle
  <2>1. UNCHANGED <<journal, open, shows, binding, loading>>
    BY <1>1 DEF BeginSwitch, Reserve, Commit, Settle, stored, browser
  <2> QED BY <2>1, OnlyTheRest DEF BoundTo
<1>2. CASE FlushSource
  <2>1. run.stage = "flush" /\ UNCHANGED <<journal, open, shows, loading>> /\ (UNCHANGED binding \/ SaveWindow(RunWindow))
    BY <1>2 DEF FlushSource, Stage, browser
  <2>2. RunWindow \in Windows
    BY <2>1, StageFacts DEF Quiet, Early
  <2>3. \A k \in Windows : BoundTo(k)' = BoundTo(k)
    <3>1. CASE UNCHANGED binding
      BY <3>1 DEF BoundTo
    <3>2. CASE SaveWindow(RunWindow)
      BY <2>2, <3>2, Saving, SavedBinding
    <3> QED BY <2>1, <3>1, <3>2
  <2> QED BY <2>1, <2>3, OnlyTheRest
<1>3. CASE Prepare \/ Swap \/ Bind
  <2>1. run.stage \in Acting /\ UNCHANGED <<journal, open>>
    BY <1>3 DEF Prepare, Swap, Bind, Stage, Acting, stored, browser
  <2>2. Journaled(RunWindow)
    BY <2>1, ActingFacts
  <2>3. \A x \in Windows : x # RunWindow =>
          shows'[x] = shows[x] /\ binding'[x] = binding[x] /\ (x \in loading' <=> x \in loading)
    BY <1>0, <1>3 DEF Prepare, Swap, Bind, World, stored, browser
  <2>4. \A x \in Windows : Same(x)
    BY <2>1, <2>2, <2>3 DEF Same, Journaled, BoundTo
  <2> QED BY <2>4, AllTheSame
<1> QED BY <1>1, <1>2, <1>3

LEMMA AtomicRecovery ==
    ASSUME NoneIsApart, IInv, LInv, RecoveryStep
    PROVE  [Abstract!Next]_Place
<1>0. World
  BY WorldOf DEF IInv
<1>1. CASE BeginRecovery \/ Preserve \/ CheckWindow
  <2>1. UNCHANGED <<journal, open, shows, binding, loading>>
    BY <1>1 DEF BeginRecovery, Preserve, CheckWindow, stored, browser
  <2> QED BY <2>1, OnlyTheRest DEF BoundTo
<1>2. CASE Restore \/ Rebind \/ RestoreFails \/ RebindFails
  <2>1. run.stage \in Recovering /\ UNCHANGED open
    BY <1>2 DEF Restore, Rebind, RestoreFails, RebindFails, Stage, Recovering, browser
  <2>2. UNCHANGED journal \/ journal' = [journal EXCEPT !.failed = TRUE]
    BY <1>2 DEF Restore, Rebind, RestoreFails, RebindFails, stored
  <2>3. /\ journal' # None /\ journal # None /\ journal'.window = journal.window
        /\ journal'.tabs = journal.tabs /\ journal'.source = journal.source
    BY <2>1, <2>2, RecoveringFacts, JournalFails
  <2>4. \A x \in Windows : x # journal.window =>
          shows'[x] = shows[x] /\ binding'[x] = binding[x] /\ (x \in loading' <=> x \in loading)
    <3>1. CASE Restore
      BY <1>0, <3>1 DEF Restore, World, stored
    <3>2. CASE RestoreFails
      BY <1>0, <3>2 DEF RestoreFails, World
    <3>3. CASE Rebind
      <4>1. UNCHANGED <<shows, loading>> /\ \E b : binding' = [binding EXCEPT ![journal.window] = b]
        BY <3>3 DEF Rebind, browser
      <4> QED BY <1>0, <4>1 DEF World
    <3>4. CASE RebindFails
      BY <3>4 DEF RebindFails, browser
    <3> QED BY <1>2, <3>1, <3>2, <3>3, <3>4
  <2>5. \A x \in Windows : Same(x)
    BY <2>1, <2>3, <2>4 DEF Same, Journaled, BoundTo
  <2> QED BY <2>5, AllTheSame
<1>3. CASE Forget \/ (PreserveThrows /\ run.stage = "forget")
  <2>1. /\ run.stage = "forget" /\ run.stage \in Recovering /\ UNCHANGED <<open, shows, loading>>
        /\ journal' = None \/ UNCHANGED journal
        /\ binding' \in {binding, [binding EXCEPT ![journal.window] = None]}
    BY <1>3 DEF Forget, PreserveThrows, Stage, Recovering, browser
  <2>2. journal.window \notin open /\ \A x \in Windows : x # journal.window => binding'[x] = binding[x]
    BY <1>0, <2>1, RecoveringFacts DEF World, StageMatches
  <2>3. \A x \in Windows : Same(x)
    BY <2>1, <2>2 DEF Same, Journaled, BoundTo
  <2> QED BY <2>3, AllTheSame
<1>4. CASE ClearJournal
  <2> DEFINE k == journal.window
  <2>1. /\ run.stage = "clear" /\ run.stage \in Recovering /\ UNCHANGED <<open, shows, binding, loading>> /\ journal' = None
    BY <1>4 DEF ClearJournal, Stage, Recovering, browser
  <2>2. /\ k \in Windows /\ Journaled(k) /\ shows[k] = journal.tabs
        /\ binding[k] # None => binding[k].ws = journal.source
        /\ journal.tabs # None
    BY <2>1, RecoveringFacts DEF StageMatches, NoneIsApart
  <2>3. \A x \in Windows \ {k} : Same(x)
    BY <2>1, <2>2 DEF Same, Journaled, BoundTo
  <2>4. CASE k \notin open
    BY <2>1, <2>2, <2>3, <2>4, Places, OneChanges
  <2>5. CASE k \in open
    <3>1. Place[k] = [tabs |-> journal.tabs, ws |-> journal.source, loads |-> FALSE]
      BY <2>2, <2>5, Places
    <3>2. Place'[k] = [tabs |-> journal.tabs, ws |-> BoundTo(k), loads |-> k \in loading]
      BY <2>1, <2>2, <2>5, Places DEF Journaled, BoundTo
    <3>3. CASE binding[k] # None
      <4>1. Abstract!Edit(k)
        BY <2>2, <3>1, <3>2, <3>3 DEF Abstract!Edit, BoundTo
      <4> QED BY <2>2, <2>3, <4>1, OneChanges
    <3>4. CASE binding[k] = None
      <4>1. Abstract!Unbind(k)
        BY <2>2, <3>1, <3>2, <3>4 DEF Abstract!Unbind, BoundTo
      <4> QED BY <2>2, <2>3, <4>1, OneChanges
    <3> QED BY <3>3, <3>4
  <2> QED BY <2>4, <2>5
<1>5. CASE PreserveThrows /\ run.stage # "forget"
  <2>1. UNCHANGED <<journal, open, shows, binding, loading>>
    BY <1>5 DEF PreserveThrows, browser
  <2> QED BY <2>1, OnlyTheRest DEF BoundTo
<1> QED BY <1>1, <1>2, <1>3, <1>4, <1>5 DEF RecoveryStep

LEMMA AtomicNext ==
    ASSUME NoneIsApart, IInv, Known, [Next]_vars
    PROVE  [Abstract!Next]_Place
<1>0. Shapes /\ World
  BY WorldOf DEF IInv
<1>a. [Step]_vars /\ (spoilt => spoilt') /\ (Next => (~spoilt' => ~Spoils))
  BY <1>0, Spoiling
<1>b. CASE spoilt'
  BY <1>b DEF Abstract!Next
<1>c. ASSUME ~spoilt' PROVE ~spoilt /\ LInv /\ (Next => ~Spoils)
  BY <1>a, <1>c DEF Known
<1>1. CASE UNCHANGED vars \/ (\E r \in Requests : Call(r) \/ Resolve(r) \/ Alarm(r)) \/ Abort \/ Discard \/ StartAgain \/ Crash
           \/ \E k \in Windows : Unbind(k)
  <2>1. UNCHANGED <<journal, open, shows, binding, loading>>
    BY <1>1 DEF vars, Call, Resolve, Alarm, Abort, Discard, StartAgain, Crash, Unbind, stored, browser
  <2> QED BY <2>1, OnlyTheRest DEF BoundTo
<1>2. CASE SwitchStep /\ ~spoilt'
  BY <1>c, <1>2, AtomicOwn, AtomicComplete, AtomicSteps DEF SwitchStep
<1>3. CASE RecoveryStep /\ ~spoilt'
  BY <1>c, <1>3, AtomicRecovery
<1>4. CASE \/ \E k \in Windows : Edit(k) \/ Loaded(k) \/ CloseWindow(k) \/ AutoSave(k)
           \/ \E w \in Workspaces : DataEdit(w) \/ Remove(w)
  BY <1>4, AtomicWorld
<1>5. CASE Next /\ DiscardJournal /\ ~spoilt'
  <2>1. UNCHANGED <<journal, open, shows, binding, loading>>
    BY <1>c, <1>5 DEF DiscardJournal, Spoils, browser
  <2> QED BY <2>1, OnlyTheRest DEF BoundTo
<1>6. CASE FlushUnbound
  <2>1. Head(queue).who \in Windows /\ UNCHANGED <<journal, open, shows, loading>>
    BY <1>6, OtherTask DEF FlushUnbound, browser
  <2>2. \A k \in Windows : BoundTo(k)' = BoundTo(k)
    <3>1. CASE UNCHANGED binding
      BY <3>1 DEF BoundTo
    <3>2. CASE SaveWindow(Head(queue).who)
      BY <2>1, <3>2, Saving, SavedBinding
    <3> QED BY <1>6, <3>1, <3>2 DEF FlushUnbound
  <2> QED BY <2>1, <2>2, OnlyTheRest
<1>7. CASE RemoveBinding
  <2>1. PICK k \in Windows : UNCHANGED <<journal, open, shows, loading>> /\ binding' = [binding EXCEPT ![k] = None]
    BY <1>7, OtherTask DEF RemoveBinding, browser
  <2>2. binding'[k] = None /\ \A x \in Windows \ {k} : binding'[x] = binding[x]
    BY <1>0, <2>1 DEF World
  <2>3. \A x \in Windows \ {k} : Same(x)
    BY <2>1, <2>2 DEF Same, Journaled, BoundTo
  <2>4. CASE k \notin open \/ Journaled(k)
    <3>1. Same(k)
      BY <2>1, <2>4 DEF Same, Journaled
    <3> QED BY <2>3, <3>1, AllTheSame
  <2>5. CASE k \in open /\ ~Journaled(k)
    <3>1. /\ Place[k] = [tabs |-> shows[k], ws |-> BoundTo(k), loads |-> k \in loading]
          /\ Place'[k] = [tabs |-> shows[k], ws |-> None, loads |-> k \in loading]
      BY <2>1, <2>2, <2>5, Places DEF Journaled, BoundTo
    <3>2. shows[k] # None
      BY <1>0, <2>1 DEF World, NoneIsApart
    <3>3. Abstract!Unbind(k)
      BY <3>1, <3>2 DEF Abstract!Unbind
    <3> QED BY <2>1, <2>3, <3>3, OneChanges
  <2> QED BY <2>4, <2>5
<1> QED BY <1>a, <1>b, <1>1, <1>2, <1>3, <1>4, <1>5, <1>6, <1>7 DEF Next, Step, QueueStep

(* A switch takes place entirely or not at all: what a window durably is    *)
(* changes only as AtomicSwitch says, in every order of requests, failures, *)
(* removals and restarts, for windows that are loading too, until a window  *)
(* left behind is saved or its journal discarded.                           *)
THEOREM SwitchesAreAtomic ==
    ASSUME NoneIsApart
    PROVE  Spec => SwitchIsAtomic
<1>1. Init => Abstract!Init
  <2>1. ASSUME Init, NEW k \in Windows PROVE Place[k] # Abstract!Gone
    <3>1. World
      BY <2>1, InitInv, WorldOf DEF IInv
    <3>2. shows[k] # None
      BY <3>1 DEF World, NoneIsApart
    <3>3. k \in open /\ ~Journaled(k)
      BY <2>1 DEF Init, Journaled
    <3>4. Place[k] = [tabs |-> shows[k], ws |-> BoundTo(k), loads |-> k \in loading]
      BY <2>1, <3>3, Places
    <3> QED BY <3>2, <3>4 DEF Abstract!Gone
  <2> QED BY <2>1 DEF Init, Abstract!Init
<1>2. (IInv /\ Known) /\ [Next]_vars => [Abstract!Next]_Place
  BY AtomicNext
<1> QED BY <1>1, <1>2, KnownInvariance, PTL DEF Spec, SwitchIsAtomic, Abstract!Spec

----------------------------------------------------------------------------
(* The order of the requests.  Here the user may unbind windows and discard *)
(* a failed recovery too.                                                   *)

(* A binding, a journal or a reason is not taken for none at all.           *)
NoneIsOnlyNone ==
  /\ None # "superseded"
  /\ \A w, v, s : None # [ws |-> w, rev |-> v, stale |-> s]
  /\ \A r, k, w, s, v, t, f :
       None # [run |-> r, window |-> k, target |-> w, source |-> s, rev |-> v, tabs |-> t, failed |-> f]

Asked == [pc : {"idle", "resolving", "waiting", "done"}, id : Nat, window : OrNone(Windows),
          target : OrNone(Workspaces), reason : {None, "superseded", "aborted", "timeout"},
          result : {"none", "ok", "failed", "superseded", "recovery_required", "lost"}]
Called == {r \in Requests : req[r].id > 0}

(* Requests are numbered in the order of their calls.                       *)
Numbered ==
  /\ req \in [Requests -> Asked]
  /\ IsFiniteSet(Called)
  /\ \A r \in Requests : req[r].pc = "idle" => req[r] = NoRequest
  /\ \A r \in Requests : req[r].pc # "idle" =>
       req[r].window \in Windows /\ req[r].target \in Workspaces /\ req[r].id \in 1 .. Calls
  /\ \A r, s \in Requests : req[r].id = req[s].id => r = s \/ req[r].id = 0
  /\ \A r \in Requests : req[r].result # "none" => req[r].pc = "done"

AnyTask ==
  [kind : {"switch"}, who : Requests] \cup [kind : {"unbind"}, who : Windows]
    \cup {RecoverTask, Task("discard", None)}

(* The requests that wait are in the queue, those of a window in the order  *)
(* of their calls.                                                          *)
QueuedInOrder ==
  /\ queue \in Seq(AnyTask)
  /\ \A r \in Requests : req[r].pc = "waiting" => \E i \in 1 .. Len(queue) : queue[i] = Task("switch", r)
  /\ \A i \in 1 .. Len(queue) : queue[i].kind = "switch" => req[queue[i].who].pc = "waiting"
  /\ \A i, j \in 1 .. Len(queue) :
       queue[i].kind = "switch" /\ queue[j].kind = "switch" /\ i < j
         /\ req[queue[i].who].window = req[queue[j].who].window
       => req[queue[i].who].id < req[queue[j].who].id
  /\ \A i \in 1 .. Len(queue) : queue[i].kind = "unbind" => spent.unbind > 0

(* The stages of the task at the head are those of its kind.                *)
HeadAtWork ==
  /\ run = [stage |-> run.stage, after |-> run.after, source |-> run.source, reserved |-> run.reserved,
            plan |-> run.plan, before |-> run.before]
  /\ run.stage \in {"idle", "remove"} \cup Quiet \cup Acting \cup Recovering
  /\ run.stage \in Quiet \cup Acting => IsHead("switch")
  /\ run.stage \in Recovering => \/ IsHead("switch") /\ run.after \in {"recheck", "answer"}
                                 \/ IsHead("recover") /\ run.after = "end"
  /\ run.stage = "remove" => IsHead("unbind")

(* The journal is written after the stages before it and cleared before the *)
(* answer.                                                                  *)
JournalByStage ==
  /\ run.stage \in Quiet => journal = None
  /\ run.stage \in Acting \cup Recovering => journal # None
  /\ journal # None => /\ journal.window \in Windows
                       /\ journal = [run |-> journal.run, window |-> journal.window, target |-> journal.target,
                                     source |-> journal.source, rev |-> journal.rev, tabs |-> journal.tabs,
                                     failed |-> journal.failed]

(* latestId and intent name the latest request whose window has been found; *)
(* a request whose window is being found is later than those that have      *)
(* theirs, or will give up.                                                 *)
LatestIsKnown ==
  /\ latestId \in [Windows -> Nat] /\ intent \in [Windows -> OrNone(Requests)]
  /\ \A k \in Windows : latestId[k] > 0 => \E r \in Requests : req[r].window = k /\ req[r].id = latestId[k]
  /\ \A k \in Windows : intent[k] # None => /\ req[intent[k]].window = k /\ req[intent[k]].id = latestId[k]
                                          /\ req[intent[k]].pc # "resolving"
  /\ \A r \in Requests : req[r].pc = "waiting" => req[r].id <= latestId[req[r].window]
  /\ \A r, s \in Requests :
       /\ req[r].pc = "waiting" \/ req[r].result = "ok"
       /\ req[s].pc = "resolving" /\ req[s].window = req[r].window
       => req[r].id < req[s].id \/ req[s].id < latestId[req[s].window]

SupersededIsOlder ==
  \A r \in Requests : req[r].reason = "superseded" \/ req[r].result = "superseded" => ~Latest(r)

Bound(k, w) == binding[k] # None /\ binding[k].ws = w

(* What succeeded stays: the journal of a later request takes its place, or *)
(* none does.                                                               *)
Succeeded ==
  /\ \A r, s \in Requests :
       req[r].result = "ok" /\ req[s].pc = "waiting" /\ req[s].window = req[r].window => req[r].id < req[s].id
  /\ \A r \in Requests : req[r].result = "ok" /\ Latest(r) =>
       /\ req[r].window \in open /\ spent.unbind = 0 => Bound(req[r].window, req[r].target)
       /\ journal # None => journal.window # req[r].window

BindingsAre ==
  /\ open \subseteq Windows
  /\ spent \in [DOMAIN Limit -> Nat]
  /\ binding = [k \in Windows |-> binding[k]]
  /\ \A k \in Windows : binding[k] # None =>
       binding[k] = [ws |-> binding[k].ws, rev |-> binding[k].rev, stale |-> binding[k].stale]

(* The window of a switch that is about to succeed is bound to its target.  *)
AboutToSucceed ==
  /\ run.stage = "own" /\ RunWindow \in open /\ run.source # None => Bound(RunWindow, run.source.ws)
  /\ run.stage \in {"complete", "settle"} /\ RunWindow \in open => Bound(RunWindow, req[Active].target)

OrderInv ==
  /\ Numbered /\ QueuedInOrder /\ HeadAtWork /\ JournalByStage
  /\ LatestIsKnown /\ SupersededIsOlder /\ Succeeded /\ BindingsAre /\ AboutToSucceed

(* Numbers, windows and targets of the requests stay: only a call gives     *)
(* them.                                                                    *)
SameCalls == \A r \in Requests : /\ req'[r].id = req[r].id /\ req'[r].window = req[r].window
                                 /\ req'[r].target = req[r].target

LEMMA CallsStay ==
    ASSUME SameCalls
    PROVE  Called' = Called /\ Calls' = Calls /\ \A r \in Requests : Latest(r)' <=> Latest(r)
<1>1. Called' = Called
  BY DEF SameCalls, Called
<1>2. {r \in Requests : req[r].id > 0}' = {r \in Requests : req[r].id > 0}
  BY DEF SameCalls
<1> QED BY <1>1, <1>2 DEF SameCalls, Calls, Latest

(* Two requests of one window of which none is latest: the later one.       *)
LEMMA OlderIsNotLatest ==
    ASSUME Numbered, NEW r \in Requests, NEW s \in Requests, req[s].window = req[r].window, req[r].id < req[s].id
    PROVE  ~Latest(r)
<1>1. req[r].id \in Nat /\ req[s].id \in Nat
  BY DEF Numbered, Asked
<1> QED BY <1>1 DEF Latest

LEMMA AskedCancels ==
    ASSUME Numbered, NEW rs, NEW reason \in {"superseded", "aborted", "timeout"}
    PROVE  /\ CancelAll(rs, reason) \in [Requests -> Asked]
           /\ \A r \in Requests : LET c == CancelAll(rs, reason)[r] IN
                /\ c.pc = req[r].pc /\ c.id = req[r].id /\ c.window = req[r].window /\ c.target = req[r].target
                /\ c.result = req[r].result
                /\ c.reason = IF r \in rs /\ req[r].reason = None THEN reason ELSE req[r].reason
<1>1. \A r \in Requests : req[r] \in Asked
  BY DEF Numbered
<1>2. \A r \in Requests : CancelAll(rs, reason)[r] = IF r \in rs /\ req[r].reason = None
                            THEN [req[r] EXCEPT !.reason = reason] ELSE req[r]
  BY DEF CancelAll
<1>3. \A r \in Requests : LET q == [req[r] EXCEPT !.reason = reason]
                          IN  q \in Asked /\ q.pc = req[r].pc /\ q.window = req[r].window /\ q.target = req[r].target
                              /\ q.id = req[r].id /\ q.result = req[r].result /\ q.reason = reason
  BY <1>1 DEF Asked
<1>4. CancelAll(rs, reason) = [r \in Requests |-> CancelAll(rs, reason)[r]]
  BY DEF CancelAll
<1>5. \A r \in Requests : CancelAll(rs, reason)[r] \in Asked
  BY <1>1, <1>2, <1>3
<1> QED BY <1>2, <1>3, <1>4, <1>5

LEMMA AskedAnswers ==
    ASSUME Numbered, NEW r \in Requests,
           NEW result \in {"ok", "failed", "superseded", "recovery_required", "lost"}
    PROVE  LET a == Answered(req[r], result) IN
           /\ a \in Asked /\ a.pc = "done" /\ a.result = result
           /\ a.id = req[r].id /\ a.window = req[r].window /\ a.target = req[r].target
           /\ a.reason = req[r].reason
BY DEF Numbered, Answered, Asked

LEMMA NumbersStay ==
    ASSUME Numbered, SameCalls, req' \in [Requests -> Asked],
           \A r \in Requests : /\ req[r].pc = "idle" => req'[r] = req[r]
                               /\ req'[r].pc = "idle" => req[r].pc = "idle"
                               /\ req'[r].result # "none" => req'[r].pc = "done"
    PROVE  Numbered'
<1>1. Called' = Called /\ Calls' = Calls
  BY CallsStay
<1>2. \A r \in Requests : req'[r].pc # "idle" =>
        req'[r].window \in Windows /\ req'[r].target \in Workspaces /\ req'[r].id \in 1 .. Calls
  BY DEF Numbered, SameCalls
<1>3. \A r, s \in Requests : req'[r].id = req'[s].id => r = s \/ req'[r].id = 0
  BY DEF Numbered, SameCalls
<1>4. \A r \in Requests : req'[r].pc = "idle" => req'[r] = NoRequest
  BY DEF Numbered
<1> QED BY <1>1, <1>2, <1>3, <1>4 DEF Numbered

LEMMA TasksAre ==
    ASSUME NEW t \in AnyTask
    PROVE  /\ t.kind = "switch" => t.who \in Requests /\ t = Task("switch", t.who)
           /\ t.kind = "unbind" => t.who \in Windows
           /\ t.kind \in {"switch", "unbind", "recover", "discard"}
           /\ \A r : t = Task("switch", r) => t.kind = "switch" /\ t.who = r
BY DEF AnyTask, Task, RecoverTask

LEMMA EveryTask ==
    /\ RecoverTask \in AnyTask /\ Task("discard", None) \in AnyTask
    /\ \A r \in Requests : Task("switch", r) \in AnyTask
    /\ \A k \in Windows : Task("unbind", k) \in AnyTask
    /\ RecoverTask.kind = "recover" /\ Task("discard", None).kind = "discard"
    /\ \A w : /\ Task("switch", w).kind = "switch" /\ Task("switch", w).who = w
              /\ Task("unbind", w).kind = "unbind" /\ Task("unbind", w).who = w
BY DEF AnyTask, Task, RecoverTask

(* The request of the running switch waits, and those behind it in the      *)
(* queue for the same window are later.                                     *)
LEMMA HeadWaits ==
    ASSUME Numbered, QueuedInOrder, IsHead("switch")
    PROVE  /\ queue # <<>> /\ Active \in Requests /\ req[Active].pc = "waiting" /\ RunWindow \in Windows
           /\ RunWindow = req[Active].window /\ req[Active].target \in Workspaces
           /\ \A r \in Requests : req[r].pc = "waiting" /\ req[r].window = RunWindow /\ r # Active
                => req[Active].id < req[r].id
<1>1. queue # <<>> /\ Head(queue) = queue[1] /\ Head(queue) \in AnyTask /\ Len(queue) \in Nat /\ Len(queue) > 0
      /\ 1 \in 1 .. Len(queue)
  BY SequenceEnds DEF IsHead, QueuedInOrder
<1>2. Active \in Requests /\ req[Active].pc = "waiting" /\ Active = queue[1].who /\ queue[1].kind = "switch"
  BY <1>1, TasksAre DEF IsHead, Active, QueuedInOrder
<1>3. RunWindow = req[Active].window /\ RunWindow \in Windows /\ req[Active].target \in Workspaces
  BY <1>2 DEF RunWindow, Numbered
<1>4. ASSUME NEW r \in Requests, req[r].pc = "waiting", req[r].window = RunWindow, r # Active
      PROVE  req[Active].id < req[r].id
  <2>1. PICK i \in 1 .. Len(queue) : queue[i] = Task("switch", r)
    BY <1>4 DEF QueuedInOrder
  <2>2. queue[i].kind = "switch" /\ queue[i].who = r
    BY <2>1, EveryTask
  <2>3. 1 < i
    BY <1>1, <1>2, <1>4, <2>2
  <2> QED BY <1>1, <1>2, <1>3, <1>4, <2>2, <2>3 DEF QueuedInOrder
<1> QED BY <1>1, <1>2, <1>3, <1>4

LEMMA QueueGrows ==
    ASSUME Numbered, QueuedInOrder, SameCalls, NEW t \in AnyTask,
           queue' = queue \/ queue' = Append(queue, t),
           \A r \in Requests : req[r].pc = "waiting" => req'[r].pc = "waiting",
           \A r \in Requests : req'[r].pc = "waiting" =>
             req[r].pc = "waiting" \/ (queue' = Append(queue, t) /\ t = Task("switch", r)),
           t.kind = "switch" /\ queue' = Append(queue, t) =>
             /\ req'[t.who].pc = "waiting"
             /\ \A r \in Requests :
                  req[r].pc = "waiting" /\ req[r].window = req[t.who].window => req[r].id < req[t.who].id,
           spent.unbind > 0 => spent'.unbind > 0,
           t.kind = "unbind" => spent'.unbind > 0
    PROVE  QueuedInOrder'
<1>1. CASE queue' = queue
  <2>1. \A i \in 1 .. Len(queue) : queue[i].kind = "switch" => queue[i].who \in Requests
    BY SequenceEnds, TasksAre DEF QueuedInOrder
  <2>2. queue' \in Seq(AnyTask)
    BY <1>1 DEF QueuedInOrder
  <2>3. \A r \in Requests : req'[r].pc = "waiting" => \E i \in 1 .. Len(queue') : queue'[i] = Task("switch", r)
    <3> SUFFICES ASSUME NEW r \in Requests, req'[r].pc = "waiting"
                 PROVE  \E i \in 1 .. Len(queue) : queue[i] = Task("switch", r)
      BY <1>1
    <3>1. CASE req[r].pc = "waiting"
      BY <3>1 DEF QueuedInOrder
    <3>2. CASE queue' = Append(queue, t)
      BY <1>1, <3>2, SequenceEnds DEF QueuedInOrder
    <3> QED BY <3>1, <3>2
  <2>4. \A i, j \in 1 .. Len(queue) :
       queue[i].kind = "switch" /\ queue[j].kind = "switch" /\ i < j
         /\ req'[queue[i].who].window = req'[queue[j].who].window
       => req'[queue[i].who].id < req'[queue[j].who].id
    BY <2>1 DEF QueuedInOrder, SameCalls
  <2> QED BY <1>1, <2>1, <2>2, <2>3, <2>4 DEF QueuedInOrder
<1>2. CASE queue' # queue
  <2>1. /\ queue' \in Seq(AnyTask) /\ Len(queue') = Len(queue) + 1 /\ queue'[Len(queue) + 1] = t
        /\ Len(queue) \in Nat
        /\ \A i \in 1 .. Len(queue) : queue'[i] = queue[i]
        /\ \A i \in 1 .. Len(queue) : queue[i] \in AnyTask
    BY <1>2, SequenceEnds DEF QueuedInOrder
  <2>2. \A i \in 1 .. Len(queue') : i \in 1 .. Len(queue) \/ i = Len(queue) + 1
    BY <2>1
  <2>3. \A i \in 1 .. Len(queue) : queue[i].kind = "switch" => queue[i].who \in Requests /\ req[queue[i].who].pc = "waiting"
    BY <2>1, TasksAre DEF QueuedInOrder
  <2>4. \A r \in Requests : req'[r].pc = "waiting" => \E i \in 1 .. Len(queue') : queue'[i] = Task("switch", r)
    <3> SUFFICES ASSUME NEW r \in Requests, req'[r].pc = "waiting"
                 PROVE  \E i \in 1 .. Len(queue') : queue'[i] = Task("switch", r)
      OBVIOUS
    <3>1. CASE req[r].pc = "waiting"
      <4>1. PICK i \in 1 .. Len(queue) : queue[i] = Task("switch", r)
        BY <3>1 DEF QueuedInOrder
      <4>2. i \in 1 .. Len(queue') /\ queue'[i] = Task("switch", r)
        BY <2>1, <4>1
      <4> QED BY <4>2
    <3>2. CASE t = Task("switch", r)
      <4>1. Len(queue) + 1 \in 1 .. Len(queue')
        BY <2>1
      <4> QED BY <2>1, <3>2, <4>1
    <3> QED BY <3>1, <3>2
  <2>5. \A i \in 1 .. Len(queue') : queue'[i].kind = "switch" => req'[queue'[i].who].pc = "waiting"
    BY <1>2, <2>1, <2>2, <2>3
  <2>6. \A i, j \in 1 .. Len(queue') :
       queue'[i].kind = "switch" /\ queue'[j].kind = "switch" /\ i < j
         /\ req'[queue'[i].who].window = req'[queue'[j].who].window
       => req'[queue'[i].who].id < req'[queue'[j].who].id
    <3> SUFFICES ASSUME NEW i \in 1 .. Len(queue'), NEW j \in 1 .. Len(queue'),
                        queue'[i].kind = "switch", queue'[j].kind = "switch", i < j,
                        req'[queue'[i].who].window = req'[queue'[j].who].window
                 PROVE  req'[queue'[i].who].id < req'[queue'[j].who].id
      OBVIOUS
    <3>1. i \in 1 .. Len(queue) /\ queue'[i] = queue[i]
      BY <2>1, <2>2
    <3>2. CASE j \in 1 .. Len(queue)
      BY <2>1, <2>3, <3>1, <3>2 DEF QueuedInOrder, SameCalls
    <3>3. CASE j = Len(queue) + 1
      <4>1. queue'[j] = t /\ t.kind = "switch" /\ t.who \in Requests
        BY <2>1, <3>3, TasksAre
      <4> QED BY <1>2, <2>3, <3>1, <4>1 DEF SameCalls
    <3> QED BY <2>2, <3>2, <3>3
  <2>7. \A i \in 1 .. Len(queue') : queue'[i].kind = "unbind" => spent'.unbind > 0
    BY <2>1, <2>2 DEF QueuedInOrder
  <2> QED BY <2>1, <2>4, <2>5, <2>6, <2>7 DEF QueuedInOrder
<1> QED BY <1>1, <1>2

LEMMA QueueShrinks ==
    ASSUME Numbered, QueuedInOrder, SameCalls, queue # <<>>, queue' = Tail(queue),
           spent.unbind > 0 => spent'.unbind > 0,
           \A r \in Requests : Head(queue) # Task("switch", r) => req'[r].pc = req[r].pc,
           \A r \in Requests : Head(queue) = Task("switch", r) => req'[r].pc # "waiting"
    PROVE  QueuedInOrder'
<1>1. /\ queue' \in Seq(AnyTask) /\ Len(queue') = Len(queue) - 1 /\ Len(queue) \in Nat /\ Len(queue) > 0
      /\ \A i \in 1 .. Len(queue') : queue'[i] = queue[i + 1]
      /\ \A i \in 1 .. Len(queue) : queue[i] \in AnyTask
      /\ Head(queue) = queue[1]
  BY SequenceEnds DEF QueuedInOrder
<1>2. \A i \in 1 .. Len(queue') : i + 1 \in 1 .. Len(queue) /\ 1 < i + 1
  BY <1>1
<1>3. \A i \in 1 .. Len(queue) : queue[i].kind = "switch" => queue[i].who \in Requests /\ req[queue[i].who].pc = "waiting"
  BY <1>1, TasksAre DEF QueuedInOrder
<1>4. \A r \in Requests : req'[r].pc = "waiting" => \E i \in 1 .. Len(queue') : queue'[i] = Task("switch", r)
  <2> SUFFICES ASSUME NEW r \in Requests, req'[r].pc = "waiting"
               PROVE  \E i \in 1 .. Len(queue') : queue'[i] = Task("switch", r)
    OBVIOUS
  <2>1. Head(queue) # Task("switch", r) /\ req[r].pc = "waiting"
    OBVIOUS
  <2>2. PICK i \in 1 .. Len(queue) : queue[i] = Task("switch", r)
    BY <2>1 DEF QueuedInOrder
  <2>3. i # 1
    BY <1>1, <2>1, <2>2
  <2>4. i - 1 \in 1 .. Len(queue') /\ queue'[i - 1] = queue[i]
    BY <1>1, <2>3
  <2> QED BY <2>2, <2>4
<1>5. \A i \in 1 .. Len(queue') : queue'[i].kind = "switch" => req'[queue'[i].who].pc = "waiting"
  <2> SUFFICES ASSUME NEW i \in 1 .. Len(queue'), queue'[i].kind = "switch"
               PROVE  req'[queue'[i].who].pc = "waiting"
    OBVIOUS
  <2>1. /\ queue'[i] = queue[i + 1] /\ i + 1 \in 1 .. Len(queue) /\ 1 < i + 1
        /\ queue[i + 1].who \in Requests /\ req[queue[i + 1].who].pc = "waiting" /\ queue[i + 1].kind = "switch"
    BY <1>1, <1>2, <1>3
  <2>2. Head(queue) # Task("switch", queue[i + 1].who)
    <3> SUFFICES ASSUME Head(queue) = Task("switch", queue[i + 1].who)
                 PROVE  FALSE
      OBVIOUS
    <3>1. queue[1].kind = "switch" /\ queue[1].who = queue[i + 1].who /\ 1 \in 1 .. Len(queue)
      BY <1>1, EveryTask
    <3>2. req[queue[1].who].id < req[queue[i + 1].who].id
      BY <2>1, <3>1 DEF QueuedInOrder
    <3>3. req[queue[1].who].id \in Nat
      BY <2>1, <3>1 DEF Numbered, Asked
    <3> QED BY <3>1, <3>2, <3>3
  <2> QED BY <2>1, <2>2
<1>6. \A i, j \in 1 .. Len(queue') :
       queue'[i].kind = "switch" /\ queue'[j].kind = "switch" /\ i < j
         /\ req'[queue'[i].who].window = req'[queue'[j].who].window
       => req'[queue'[i].who].id < req'[queue'[j].who].id
  <2> SUFFICES ASSUME NEW i \in 1 .. Len(queue'), NEW j \in 1 .. Len(queue'),
                      queue'[i].kind = "switch", queue'[j].kind = "switch", i < j,
                      req'[queue'[i].who].window = req'[queue'[j].who].window
               PROVE  req'[queue'[i].who].id < req'[queue'[j].who].id
    OBVIOUS
  <2>1. i + 1 < j + 1 /\ i + 1 \in 1 .. Len(queue) /\ j + 1 \in 1 .. Len(queue)
        /\ queue'[i] = queue[i + 1] /\ queue'[j] = queue[j + 1]
    BY <1>1, <1>2
  <2>2. queue[i + 1].who \in Requests /\ queue[j + 1].who \in Requests
    BY <1>3, <2>1
  <2>3. \A m, n \in 1 .. Len(queue) : queue[m].kind = "switch" /\ queue[n].kind = "switch" /\ m < n
          /\ req[queue[m].who].window = req[queue[n].who].window => req[queue[m].who].id < req[queue[n].who].id
    BY DEF QueuedInOrder
  <2> HIDE DEF QueuedInOrder
  <2> QED BY <2>1, <2>2, <2>3 DEF SameCalls
<1>7. \A i \in 1 .. Len(queue') : queue'[i].kind = "unbind" => spent'.unbind > 0
  BY <1>1, <1>2 DEF QueuedInOrder
<1> QED BY <1>1, <1>4, <1>5, <1>6, <1>7 DEF QueuedInOrder

LEMMA RunningIsLater ==
    ASSUME Numbered, QueuedInOrder, Succeeded, IsHead("switch"),
           NEW r \in Requests, req[r].result = "ok", req[r].window = RunWindow
    PROVE  ~Latest(r) /\ req[r].id < req[Active].id
<1>1. Active \in Requests /\ req[Active].pc = "waiting" /\ req[Active].window = RunWindow
  BY HeadWaits
<1>2. req[r].id < req[Active].id
  BY <1>1 DEF Succeeded
<1> QED BY <1>1, <1>2, OlderIsNotLatest

(* A step that takes no binding away but in the window of the journal or of *)
(* the running switch, where no request that succeeded is the latest.       *)
SameBinding(k) == binding'[k] # None /\ binding'[k].ws = binding[k].ws
Harmless ==
  /\ open' \subseteq open
  /\ BindingsAre' /\ (spent.unbind > 0 => spent'.unbind > 0)
  /\ \A k \in open' : binding[k] # None /\ spent'.unbind = 0 =>
       \/ SameBinding(k)
       \/ journal # None /\ k = journal.window
       \/ IsHead("switch") /\ k = RunWindow
  /\ journal' # None => \/ journal # None /\ journal'.window = journal.window
                        \/ IsHead("switch") /\ journal'.window = RunWindow

LEMMA SuccessStays ==
    ASSUME Numbered, QueuedInOrder, Succeeded, BindingsAre, SameCalls, Harmless, NEW r \in Requests,
           req[r].result = "ok", Latest(r)
    PROVE  /\ req[r].window \in open' /\ spent'.unbind = 0 =>
                binding'[req[r].window] # None /\ binding'[req[r].window].ws = req[r].target
           /\ journal' # None => journal'.window # req[r].window
<1>1. IsHead("switch") => req[r].window # RunWindow
  BY RunningIsLater
<1>2. spent.unbind \in Nat
  BY DEF BindingsAre, Limit
<1>3. journal # None => journal.window # req[r].window
  BY DEF Succeeded
<1>4. ASSUME req[r].window \in open', spent'.unbind = 0
      PROVE  binding'[req[r].window] # None /\ binding'[req[r].window].ws = req[r].target
  <2>1. spent.unbind = 0 /\ req[r].window \in open
    BY <1>2, <1>4 DEF Harmless
  <2>2. binding[req[r].window] # None /\ binding[req[r].window].ws = req[r].target
    BY <2>1 DEF Succeeded, Bound
  <2> QED BY <1>1, <1>3, <1>4, <2>2 DEF Harmless, SameBinding
<1>5. journal' # None => journal'.window # req[r].window
  BY <1>1, <1>3 DEF Harmless
<1> QED BY <1>4, <1>5

LEMMA SuccessesStay ==
    ASSUME Numbered, QueuedInOrder, Succeeded, BindingsAre, SameCalls, Harmless,
           \A r \in Requests : /\ req'[r].result = "ok" => req[r].result = "ok"
                               /\ req'[r].pc = "waiting" => req[r].pc = "waiting"
    PROVE  Succeeded'
<1>1. \A r \in Requests : Latest(r)' <=> Latest(r)
  BY CallsStay
<1>2. \A r, s \in Requests :
        req'[r].result = "ok" /\ req'[s].pc = "waiting" /\ req'[s].window = req'[r].window => req'[r].id < req'[s].id
  BY DEF Succeeded, SameCalls
<1>3. ASSUME NEW r \in Requests, req'[r].result = "ok", Latest(r)'
      PROVE  /\ req'[r].window \in open' /\ spent'.unbind = 0 =>
                  Bound(req[r].window, req[r].target)'
             /\ journal' # None => journal'.window # req'[r].window
  <2>1. req[r].result = "ok" /\ Latest(r) /\ req'[r].window = req[r].window /\ req'[r].target = req[r].target
    BY <1>1, <1>3 DEF SameCalls
  <2> QED BY <2>1, SuccessStays DEF Bound
<1> QED BY <1>2, <1>3 DEF Succeeded, Bound

(* The running task goes on, or something else happens meanwhile.           *)
LEMMA TaskGoesOn ==
    ASSUME OrderInv, UNCHANGED <<req, latestId, intent, queue>>, Harmless, HeadAtWork', JournalByStage', AboutToSucceed'
    PROVE  OrderInv'
<1>1. SameCalls
  BY DEF SameCalls
<1>2. Numbered' /\ LatestIsKnown' /\ SupersededIsOlder'
  <2>1. Numbered /\ LatestIsKnown /\ SupersededIsOlder
    BY DEF OrderInv
  <2>2. Called' = Called /\ Calls' = Calls /\ \A r \in Requests : Latest(r)' <=> Latest(r)
    BY <1>1, CallsStay
  <2>3. Numbered'
    BY <2>1, <2>2 DEF Numbered
  <2>4. LatestIsKnown'
    BY <2>1 DEF LatestIsKnown
  <2>5. SupersededIsOlder'
    BY <2>1, <2>2 DEF SupersededIsOlder
  <2> QED BY <2>3, <2>4, <2>5
<1>3. QueuedInOrder'
  <2>1. QueuedInOrder /\ (spent.unbind > 0 => spent'.unbind > 0)
    BY DEF OrderInv, Harmless
  <2> QED BY <2>1 DEF QueuedInOrder
<1>4. Succeeded'
  BY <1>1, SuccessesStay DEF OrderInv
<1>5. BindingsAre'
  BY DEF Harmless
<1> QED BY <1>2, <1>3, <1>4, <1>5 DEF OrderInv

(* What the latest requests of the windows are stays known while requests   *)
(* only stop to wait.                                                       *)
LEMMA LatestStaysKnown ==
    ASSUME Numbered, LatestIsKnown, SameCalls, UNCHANGED latestId,
           \A k \in Windows : intent'[k] \in {intent[k], None}, intent' = [k \in Windows |-> intent'[k]],
           \A r \in Requests : /\ req'[r].result = "ok" => req[r].result = "ok" \/ req[r].pc = "waiting"
                               /\ req'[r].pc = "waiting" => req[r].pc = "waiting"
                               /\ req'[r].pc = "resolving" => req[r].pc = "resolving"
    PROVE  LatestIsKnown'
<1>1. \A k \in Windows : intent[k] # None => intent[k] \in Requests
  BY DEF LatestIsKnown, OrNone
<1>2. intent' \in [Windows -> OrNone(Requests)] /\ latestId' \in [Windows -> Nat]
  BY DEF LatestIsKnown, OrNone
<1>3. \A k \in Windows : latestId'[k] > 0 => \E r \in Requests : req'[r].window = k /\ req'[r].id = latestId'[k]
  BY DEF LatestIsKnown, SameCalls
<1>4. \A k \in Windows : intent'[k] # None => /\ req'[intent'[k]].window = k /\ req'[intent'[k]].id = latestId'[k]
                                              /\ req'[intent'[k]].pc # "resolving"
  BY <1>1 DEF LatestIsKnown, SameCalls
<1>5. \A r \in Requests : req'[r].pc = "waiting" => req'[r].id <= latestId'[req'[r].window]
  BY DEF LatestIsKnown, SameCalls
<1>6. \A r, s \in Requests :
        /\ req'[r].pc = "waiting" \/ req'[r].result = "ok"
        /\ req'[s].pc = "resolving" /\ req'[s].window = req'[r].window
        => req'[r].id < req'[s].id \/ req'[s].id < latestId'[req'[s].window]
  BY DEF LatestIsKnown, SameCalls
<1> QED BY <1>2, <1>3, <1>4, <1>5, <1>6 DEF LatestIsKnown

(* The journal stays, is cleared, or is marked as failed.                   *)
JournalGoesOn ==
  \/ journal' = None
  \/ journal # None /\ journal' = journal
  \/ journal # None /\ journal' = [journal EXCEPT !.failed = TRUE]

LEMMA JournalIsWhole ==
    ASSUME NoneIsOnlyNone, JournalByStage, JournalGoesOn
    PROVE  journal' # None => /\ journal # None /\ journal'.window = journal.window /\ journal'.window \in Windows
                              /\ journal' = [run |-> journal'.run, window |-> journal'.window, target |-> journal'.target,
                                     source |-> journal'.source, rev |-> journal'.rev, tabs |-> journal'.tabs,
                                     failed |-> journal'.failed]
BY DEF JournalByStage, JournalGoesOn

LEMMA NothingRuns ==
    ASSUME NoneIsOnlyNone, JournalByStage, JournalGoesOn, run' = NoRun
    PROVE  HeadAtWork' /\ JournalByStage' /\ AboutToSucceed'
<1>1. run'.stage = "idle" /\ run' = [stage |-> run'.stage, after |-> run'.after, source |-> run'.source,
                                     reserved |-> run'.reserved, plan |-> run'.plan, before |-> run'.before]
  BY DEF NoRun
<1>2. HeadAtWork'
  BY <1>1 DEF HeadAtWork, Quiet, Early, Acting, Recovering
<1>3. JournalByStage'
  BY <1>1, JournalIsWhole DEF JournalByStage, Quiet, Early, Acting, Recovering
<1>4. AboutToSucceed'
  BY <1>1 DEF AboutToSucceed
<1> QED BY <1>2, <1>3, <1>4

LEMMA TaskAnswers ==
    ASSUME NoneIsOnlyNone, OrderInv, IsHead("switch"), JournalGoesOn, Harmless,
           NEW result \in {"ok", "failed", "superseded", "recovery_required"}, Finish(result),
           result = "superseded" => req[Active].reason = "superseded",
           result = "ok" => /\ journal' = None
                            /\ RunWindow \in open' => binding'[RunWindow] # None
                                                      /\ binding'[RunWindow].ws = req[Active].target
    PROVE  OrderInv'
<1> DEFINE r == Active
<1>0. /\ Numbered /\ QueuedInOrder /\ HeadAtWork /\ JournalByStage
      /\ LatestIsKnown /\ SupersededIsOlder /\ Succeeded /\ BindingsAre
  BY DEF OrderInv
<1>1. /\ queue # <<>> /\ r \in Requests /\ req[r].pc = "waiting" /\ RunWindow \in Windows
      /\ RunWindow = req[r].window /\ req[r].target \in Workspaces
      /\ \A s \in Requests : req[s].pc = "waiting" /\ req[s].window = RunWindow /\ s # r => req[r].id < req[s].id
  BY <1>0, HeadWaits
<1>2. req' = [req EXCEPT ![r] = Answered(@, result)] /\ queue' = Tail(queue) /\ run' = NoRun
      /\ intent' = [k \in Windows |-> IF intent[k] = r THEN None ELSE intent[k]] /\ UNCHANGED latestId
  BY DEF Finish
<1> HIDE DEF r
<1>3. LET a == Answered(req[r], result) IN
           /\ a \in Asked /\ a.pc = "done" /\ a.result = result
           /\ a.id = req[r].id /\ a.window = req[r].window /\ a.target = req[r].target
           /\ a.reason = req[r].reason
  BY <1>0, <1>1, AskedAnswers
<1>4. /\ req' \in [Requests -> Asked]
      /\ req'[r].pc = "done" /\ req'[r].result = result /\ req'[r].reason = req[r].reason
      /\ req'[r].id = req[r].id /\ req'[r].window = req[r].window /\ req'[r].target = req[r].target
      /\ \A s \in Requests : s # r => req'[s] = req[s]
  <2>1. \A s \in Requests : req'[s] = IF s = r THEN Answered(req[r], result) ELSE req[s]
    BY <1>0, <1>2 DEF Numbered
  <2>2. req' \in [Requests -> Asked]
    BY <1>0, <1>1, <1>2, <1>3 DEF Numbered
  <2> QED BY <1>1, <1>3, <2>1, <2>2
<1>5. SameCalls
  BY <1>4 DEF SameCalls
<1>6. Numbered'
  BY <1>0, <1>1, <1>4, <1>5, NumbersStay DEF Numbered
<1>7. QueuedInOrder'
  <2>1. Head(queue) = Task("switch", r)
    BY <1>0, <1>1, SequenceEnds, TasksAre DEF QueuedInOrder, IsHead, r, Active
  <2>2. \A s \in Requests : Head(queue) = Task("switch", s) => s = r
    BY <1>1, <2>1, EveryTask
  <2>3. \A s \in Requests : Head(queue) # Task("switch", s) => req'[s].pc = req[s].pc
    BY <1>4, <2>1
  <2>4. \A s \in Requests : Head(queue) = Task("switch", s) => req'[s].pc # "waiting"
    BY <1>4, <2>2
  <2> QED BY <1>0, <1>1, <1>2, <1>5, <2>3, <2>4, QueueShrinks DEF Harmless
<1>8. LatestIsKnown'
  <2>1. \A k \in Windows : intent'[k] \in {intent[k], None}
    BY <1>2
  <2>2. intent' = [k \in Windows |-> intent'[k]]
    BY <1>2
  <2> QED BY <1>0, <1>1, <1>2, <1>4, <1>5, <2>1, <2>2, LatestStaysKnown
<1>9. SupersededIsOlder'
  <2>1. \A s \in Requests : Latest(s)' <=> Latest(s)
    BY <1>5, CallsStay
  <2> SUFFICES ASSUME NEW s \in Requests, req'[s].reason = "superseded" \/ req'[s].result = "superseded"
               PROVE  ~Latest(s)
    BY <2>1 DEF SupersededIsOlder
  <2>2. req[s].reason = "superseded" \/ req[s].result = "superseded"
    BY <1>1, <1>4 DEF r
  <2> QED BY <1>0, <2>2 DEF SupersededIsOlder
<1>10. Succeeded'
  <2>1. CASE result # "ok"
    <3>1. \A s \in Requests : /\ req'[s].result = "ok" => req[s].result = "ok"
                              /\ req'[s].pc = "waiting" => req[s].pc = "waiting"
      BY <1>4, <2>1
    <3> QED BY <1>0, <1>5, <3>1, SuccessesStay
  <2>2. CASE result = "ok"
    <3>1. \A s \in Requests : Latest(s)' <=> Latest(s)
      BY <1>5, CallsStay
    <3>2. \A s, t \in Requests :
            req'[s].result = "ok" /\ req'[t].pc = "waiting" /\ req'[t].window = req'[s].window => req'[s].id < req'[t].id
      <4> SUFFICES ASSUME NEW s \in Requests, NEW t \in Requests,
                          req'[s].result = "ok", req'[t].pc = "waiting", req'[t].window = req'[s].window
                   PROVE  req[s].id < req[t].id
        BY <1>5 DEF SameCalls
      <4>1. t # r /\ req[t].pc = "waiting" /\ req[t].window = req[s].window
        BY <1>4, <1>5 DEF SameCalls
      <4>2. CASE s = r
        BY <1>1, <4>1, <4>2
      <4>3. CASE s # r
        BY <1>0, <1>4, <4>1, <4>3 DEF Succeeded
      <4> QED BY <4>2, <4>3
    <3>3. ASSUME NEW s \in Requests, req'[s].result = "ok", Latest(s)
          PROVE  /\ req'[s].window \in open' /\ spent'.unbind = 0 => Bound(req[s].window, req[s].target)'
                 /\ journal' # None => journal'.window # req'[s].window
      <4>1. CASE s = r
        BY <1>1, <1>4, <2>2, <4>1 DEF Bound, r
      <4>2. CASE s # r
        <5>1. req[s].result = "ok"
          BY <1>4, <3>3, <4>2
        <5>2. req'[s].window = req[s].window /\ req'[s].target = req[s].target
          BY <1>5 DEF SameCalls
        <5> QED BY <1>0, <1>5, <3>3, <5>1, <5>2, SuccessStays DEF Bound
      <4> QED BY <4>1, <4>2
    <3> QED BY <3>1, <3>2, <3>3 DEF Succeeded, Bound
  <2> QED BY <2>1, <2>2
<1>11. HeadAtWork' /\ JournalByStage' /\ AboutToSucceed'
  BY <1>0, <1>2, NothingRuns
<1>12. BindingsAre'
  BY DEF Harmless
<1> QED BY <1>6, <1>7, <1>8, <1>9, <1>10, <1>11, <1>12 DEF OrderInv

LEMMA TaskIsOver ==
    ASSUME NoneIsOnlyNone, OrderInv, queue # <<>>, ~IsHead("switch"), JournalGoesOn, Harmless,
           queue' = Tail(queue), run' = NoRun, UNCHANGED <<req, latestId, intent>>
    PROVE  OrderInv'
<1>0. /\ Numbered /\ QueuedInOrder /\ HeadAtWork /\ JournalByStage
      /\ LatestIsKnown /\ SupersededIsOlder /\ Succeeded /\ BindingsAre
  BY DEF OrderInv
<1>1. SameCalls
  BY DEF SameCalls
<1>2. Numbered' /\ SupersededIsOlder' /\ LatestIsKnown'
  <2>1. Called' = Called /\ Calls' = Calls /\ \A r \in Requests : Latest(r)' <=> Latest(r)
    BY <1>1, CallsStay
  <2> QED BY <1>0, <2>1 DEF Numbered, SupersededIsOlder, LatestIsKnown
<1>3. QueuedInOrder'
  <2>1. \A r \in Requests : Head(queue) # Task("switch", r)
    BY EveryTask DEF IsHead
  <2> QED BY <1>0, <1>1, <2>1, QueueShrinks DEF Harmless
<1>4. Succeeded'
  BY <1>0, <1>1, SuccessesStay
<1>5. HeadAtWork' /\ JournalByStage' /\ AboutToSucceed'
  BY <1>0, NothingRuns
<1> QED BY <1>2, <1>3, <1>4, <1>5 DEF OrderInv, Harmless

(* Something is put at the end of the queue, or requests are cancelled,     *)
(* while the running task is where it was.                                  *)
OnlyReasons ==
  /\ req' \in [Requests -> Asked]
  /\ \A r \in Requests : /\ req'[r].pc = req[r].pc /\ req'[r].result = req[r].result
                         /\ req'[r].reason = "superseded" => req[r].reason = "superseded"
                         /\ req'[r].id = req[r].id /\ req'[r].window = req[r].window
                         /\ req'[r].target = req[r].target
                         /\ req[r].pc = "idle" => req'[r] = req[r]

LEMMA CancelledForAReason ==
    ASSUME Numbered, NEW rs, NEW reason \in {"aborted", "timeout"}, req' = CancelAll(rs, reason),
           \A r \in Requests : r \in rs => req[r].pc # "idle"
    PROVE  OnlyReasons
<1>1. \A r \in Requests : req[r].pc = "idle" => req'[r] = req[r]
  BY DEF CancelAll
<1> QED BY <1>1, AskedCancels DEF OnlyReasons

LEMMA TaskIsInterrupted ==
    ASSUME OrderInv, UNCHANGED <<run, journal, latestId, intent, binding, open>>, OnlyReasons \/ req' = req,
           NEW t \in AnyTask, t.kind # "switch", queue' = queue \/ queue' = Append(queue, t),
           spent' \in [DOMAIN Limit -> Nat], spent.unbind > 0 \/ t.kind = "unbind" => spent'.unbind > 0
    PROVE  OrderInv'
<1>0. /\ Numbered /\ QueuedInOrder /\ HeadAtWork /\ JournalByStage
      /\ LatestIsKnown /\ SupersededIsOlder /\ Succeeded /\ BindingsAre /\ AboutToSucceed
  BY DEF OrderInv
<1>1. /\ req' \in [Requests -> Asked]
      /\ \A r \in Requests : /\ req'[r].pc = req[r].pc /\ req'[r].result = req[r].result
                             /\ req'[r].reason = "superseded" => req[r].reason = "superseded"
                             /\ req'[r].id = req[r].id /\ req'[r].window = req[r].window
                             /\ req'[r].target = req[r].target
                             /\ req[r].pc = "idle" => req'[r] = req[r]
  BY <1>0 DEF Numbered, OnlyReasons
<1>2. SameCalls
  BY <1>1 DEF SameCalls
<1>3. Numbered'
  BY <1>0, <1>1, <1>2, NumbersStay DEF Numbered
<1>4. QueuedInOrder'
  BY <1>0, <1>1, <1>2, QueueGrows
<1>5. /\ queue # <<>> => queue' # <<>> /\ Head(queue') = Head(queue)
      /\ IsHead("switch") => IsHead("switch")' /\ Active' = Active /\ RunWindow' = RunWindow
      /\ IsHead("recover") => IsHead("recover")'
      /\ IsHead("unbind") => IsHead("unbind")'
  <2>1. queue # <<>> => queue' # <<>> /\ Head(queue') = Head(queue)
    BY <1>0, SequenceEnds DEF QueuedInOrder
  <2>2. IsHead("switch") => Active \in Requests
    BY <1>0, HeadWaits
  <2> QED BY <1>1, <2>1, <2>2 DEF IsHead, Active, RunWindow
<1>6. HeadAtWork' /\ JournalByStage'
  BY <1>0, <1>5 DEF HeadAtWork, JournalByStage
<1>7. AboutToSucceed'
  <2>1. run.stage \in {"own", "complete", "settle"} => IsHead("switch")
    BY <1>0 DEF HeadAtWork, Quiet, Early, Acting
  <2>2. IsHead("switch") => req'[Active].target = req[Active].target
    BY <1>0, <1>1, HeadWaits
  <2> QED BY <1>0, <1>5, <2>1, <2>2 DEF AboutToSucceed, Bound
<1>8. LatestIsKnown'
  <2>1. intent' = [k \in Windows |-> intent'[k]]
    BY <1>0 DEF LatestIsKnown
  <2> QED BY <1>0, <1>1, <1>2, <2>1, LatestStaysKnown
<1>9. SupersededIsOlder'
  BY <1>0, <1>1, <1>2, CallsStay DEF SupersededIsOlder
<1>10. BindingsAre'
  BY <1>0 DEF BindingsAre
<1>11. Succeeded'
  <2>1. Harmless
    <3>1. spent.unbind > 0 => spent'.unbind > 0
      OBVIOUS
    <3> QED BY <1>10, <3>1 DEF Harmless, SameBinding
  <2> QED BY <1>0, <1>1, <1>2, <2>1, SuccessesStay
<1> QED BY <1>3, <1>4, <1>6, <1>7, <1>8, <1>9, <1>10, <1>11 DEF OrderInv

LEMMA Spends ==
    ASSUME BindingsAre, NEW event \in Events, Spend(event)
    PROVE  /\ spent' \in [DOMAIN Limit -> Nat] /\ spent'[event] = spent[event] + 1
           /\ \A e \in Events : e # event => spent'[e] = spent[e]
           /\ spent'[event] > 0 /\ (spent.unbind > 0 => spent'.unbind > 0)
           /\ event # "unbind" => spent'.unbind = spent.unbind
<1>1. DOMAIN Limit = Events
  BY DEF Limit, Events
<1>2. spent \in [Events -> Nat] /\ spent' = [spent EXCEPT ![event] = @ + 1] /\ "unbind" \in Events
  BY <1>1 DEF BindingsAre, Spend, Events
<1>3. spent' \in [Events -> Nat] /\ spent'[event] = spent[event] + 1
      /\ \A e \in Events : e # event => spent'[e] = spent[e]
  BY <1>2
<1>4. spent[event] \in Nat /\ spent["unbind"] \in Nat
  BY <1>2
<1> QED BY <1>1, <1>2, <1>3, <1>4

(* abortCurrentWorkspaceSwitch, the alarms, and the requests for a discard  *)
(* or an unbinding.                                                         *)
LEMMA InterruptionsOrder ==
    ASSUME NoneIsOnlyNone, OrderInv,
           \/ Abort \/ Discard \/ StartAgain
           \/ \E r \in Requests : Alarm(r)
           \/ \E k \in Windows : Unbind(k)
    PROVE  OrderInv'
<1>0. /\ Numbered /\ QueuedInOrder /\ LatestIsKnown /\ BindingsAre /\ HeadAtWork
      /\ RecoverTask \in AnyTask /\ RecoverTask.kind # "switch" /\ RecoverTask.kind # "unbind"
  BY EveryTask DEF OrderInv
<1>1. ASSUME Abort PROVE OrderInv'
  <2> DEFINE rs == {intent[k] : k \in Windows} \cup (IF Running THEN {Active} ELSE {})
  <2>1. req' = CancelAll(rs, "aborted") /\ Spend("abort") /\ queue' = queue
        /\ UNCHANGED <<run, journal, latestId, intent, binding, open>>
    BY <1>1 DEF Abort, Intervene, stored, browser
  <2>2. \A r \in Requests : r \in rs => req[r].pc # "idle"
    <3>1. ASSUME NEW k \in Windows, intent[k] \in Requests
          PROVE  req[intent[k]].pc # "idle"
      <4>1. req[intent[k]].window = k /\ k # None /\ intent[k] # None
        BY <1>0, <3>1, SwitchConstants DEF LatestIsKnown
      <4> QED BY <1>0, <3>1, <4>1 DEF Numbered, NoRequest
    <3>2. Running => req[Active].pc # "idle"
      BY <1>0, HeadWaits DEF Running
    <3> QED BY <3>1, <3>2
  <2> HIDE DEF rs
  <2>3. spent' \in [DOMAIN Limit -> Nat] /\ (spent.unbind > 0 => spent'.unbind > 0)
    BY <1>0, <2>1, Spends DEF Events
  <2>4. "aborted" \in {"aborted", "timeout"}
    OBVIOUS
  <2>5. OnlyReasons
    BY <1>0, <2>1, <2>2, <2>4, CancelledForAReason
  <2> QED BY <1>0, <2>1, <2>3, <2>5, TaskIsInterrupted
<1>2. ASSUME Discard PROVE OrderInv'
  <2> DEFINE t == Task("discard", None)
  <2>1. queue' = Append(queue, t) /\ Spend("discard") /\ UNCHANGED <<req, run, journal, latestId, intent, binding, open>>
    BY <1>2 DEF Discard, Enqueue, Intervene, stored, browser, intents
  <2>2. t \in AnyTask /\ t.kind # "switch" /\ t.kind # "unbind"
    BY EveryTask
  <2>3. spent' \in [DOMAIN Limit -> Nat] /\ (spent.unbind > 0 => spent'.unbind > 0)
    BY <1>0, <2>1, Spends DEF Events
  <2> HIDE DEF t
  <2> QED BY <2>1, <2>2, <2>3, TaskIsInterrupted
<1>3. ASSUME NEW r \in Requests, Alarm(r) PROVE OrderInv'
  <2>1. UNCHANGED <<run, journal, latestId, intent, binding, open, spent>>
    BY <1>3 DEF Alarm, browser
  <2>2. \/ req' = CancelAll({r}, "timeout") /\ queue' = queue /\ Running /\ Active = r
        \/ req' = req /\ queue' = Append(queue, RecoverTask)
    BY <1>3 DEF Alarm, Enqueue
  <2>3. spent' \in [DOMAIN Limit -> Nat] /\ (spent.unbind > 0 => spent'.unbind > 0)
    BY <1>0, <2>1 DEF BindingsAre
  <2>4. CASE req' = CancelAll({r}, "timeout") /\ queue' = queue /\ Running /\ Active = r
    <3>1. req[r].pc # "idle"
      BY <1>0, <2>4, HeadWaits DEF Running
    <3>2. "timeout" \in {"aborted", "timeout"}
      OBVIOUS
    <3>3. OnlyReasons
      BY <1>0, <2>4, <3>1, <3>2, CancelledForAReason
    <3> QED BY <1>0, <2>1, <2>3, <2>4, <3>3, TaskIsInterrupted
  <2>5. CASE req' = req /\ queue' = Append(queue, RecoverTask)
    <3> QED BY <1>0, <2>1, <2>3, <2>5, TaskIsInterrupted
  <2> QED BY <2>2, <2>4, <2>5
<1>4. ASSUME NEW k \in Windows, Unbind(k) PROVE OrderInv'
  <2> DEFINE t == Task("unbind", k)
  <2>1. queue' = Append(queue, t) /\ Spend("unbind") /\ UNCHANGED <<req, run, journal, latestId, intent, binding, open>>
    BY <1>4 DEF Unbind, Enqueue, Intervene, stored, browser, intents
  <2>2. t \in AnyTask /\ t.kind = "unbind"
    BY EveryTask
  <2>3. spent' \in [DOMAIN Limit -> Nat] /\ spent'.unbind > 0
    BY <1>0, <2>1, Spends DEF Events
  <2> HIDE DEF t
  <2> QED BY <2>1, <2>2, <2>3, TaskIsInterrupted
<1>5. ASSUME StartAgain PROVE OrderInv'
  <2>1. queue' = Append(queue, RecoverTask)
        /\ UNCHANGED <<req, run, journal, latestId, intent, binding, open, spent>>
    BY <1>5 DEF StartAgain, stored, browser, intents
  <2>2. spent' \in [DOMAIN Limit -> Nat] /\ (spent.unbind > 0 => spent'.unbind > 0)
    BY <1>0, <2>1 DEF BindingsAre
  <2> QED BY <1>0, <2>1, <2>2, TaskIsInterrupted
<1> QED BY <1>1, <1>2, <1>3, <1>4, <1>5

(* Records keep their fields.                                               *)
LEMMA BindingUpdates ==
    ASSUME NEW b, b = [ws |-> b.ws, rev |-> b.rev, stale |-> b.stale], NEW x
    PROVE  /\ [b EXCEPT !.stale = x] = [ws |-> b.ws, rev |-> b.rev, stale |-> x]
           /\ [b EXCEPT !.rev = x] = [ws |-> b.ws, rev |-> x, stale |-> b.stale]
<1>1. b \in [ws : {b.ws}, rev : {b.rev}, stale : {b.stale}]
  OBVIOUS
<1>2. /\ [b EXCEPT !.stale = x] \in [ws : {b.ws}, rev : {b.rev}, stale : {x}]
      /\ [b EXCEPT !.rev = x] \in [ws : {b.ws}, rev : {x}, stale : {b.stale}]
  BY <1>1
<1>3. \A w, v, s, c : c \in [ws : {w}, rev : {v}, stale : {s}] => c = [ws |-> w, rev |-> v, stale |-> s]
  OBVIOUS
<1> QED BY <1>2, <1>3

(* Bindings change in what they say of the tabs, not of the workspace.      *)
LEMMA SavingKeepsBindings ==
    ASSUME NoneIsOnlyNone, BindingsAre, UNCHANGED <<spent, open>>, NEW k \in Windows, SaveWindow(k)
    PROVE  /\ BindingsAre'
           /\ \A x \in Windows : /\ binding[x] # None => SameBinding(x)
                                 /\ binding'[x] # None => binding[x] # None
<1> DEFINE b == binding[k]
           marked == binding' = [binding EXCEPT ![k].stale = TRUE]
           saved == binding' = [x \in Windows |->
                                   IF x = k THEN [b EXCEPT !.rev = @ + 1]
                                   ELSE IF binding[x] # None /\ binding[x].ws = b.ws
                                   THEN [binding[x] EXCEPT !.stale = TRUE] ELSE binding[x]]
           kept == /\ BindingsAre'
                   /\ \A x \in Windows : /\ binding[x] # None => SameBinding(x)
                                         /\ binding'[x] # None => binding[x] # None
<1>1. ASSUME UNCHANGED binding PROVE kept
  BY <1>1 DEF BindingsAre, SameBinding
<1>2. ASSUME Saves(k), marked
      PROVE  kept
  <2>1. b # None /\ b = [ws |-> b.ws, rev |-> b.rev, stale |-> b.stale]
    BY <1>2 DEF Saves, BindingsAre
  <2>2. [b EXCEPT !.stale = TRUE] = [ws |-> b.ws, rev |-> b.rev, stale |-> TRUE]
    BY <2>1, BindingUpdates
  <2>3. /\ binding' = [x \in Windows |-> binding'[x]]
        /\ binding'[k] = [ws |-> b.ws, rev |-> b.rev, stale |-> TRUE]
        /\ \A x \in Windows : x # k => binding'[x] = binding[x]
    BY <1>2, <2>2 DEF BindingsAre
  <2>4. binding'[k] # None
    BY <2>3 DEF NoneIsOnlyNone
  <2> QED BY <2>1, <2>3, <2>4 DEF BindingsAre, SameBinding
<1>3. ASSUME Saves(k), saved
      PROVE  kept
  <2>1. \A x \in Windows : binding[x] # None =>
          binding[x] = [ws |-> binding[x].ws, rev |-> binding[x].rev, stale |-> binding[x].stale]
    BY DEF BindingsAre
  <2>2. \A x \in Windows : binding[x] # None =>
          /\ [binding[x] EXCEPT !.stale = TRUE] = [ws |-> binding[x].ws, rev |-> binding[x].rev, stale |-> TRUE]
          /\ [binding[x] EXCEPT !.rev = @ + 1] = [ws |-> binding[x].ws, rev |-> binding[x].rev + 1, stale |-> binding[x].stale]
    <3> SUFFICES ASSUME NEW x \in Windows, binding[x] # None
                 PROVE  /\ [binding[x] EXCEPT !.stale = TRUE]
                             = [ws |-> binding[x].ws, rev |-> binding[x].rev, stale |-> TRUE]
                        /\ [binding[x] EXCEPT !.rev = @ + 1]
                             = [ws |-> binding[x].ws, rev |-> binding[x].rev + 1, stale |-> binding[x].stale]
      OBVIOUS
    <3> DEFINE c == binding[x]
    <3>1. c = [ws |-> c.ws, rev |-> c.rev, stale |-> c.stale]
      BY <2>1
    <3> HIDE DEF c
    <3>2. /\ [c EXCEPT !.stale = TRUE] = [ws |-> c.ws, rev |-> c.rev, stale |-> TRUE]
          /\ [c EXCEPT !.rev = c.rev + 1] = [ws |-> c.ws, rev |-> c.rev + 1, stale |-> c.stale]
      BY <3>1, BindingUpdates
    <3> QED BY <3>2 DEF c
  <2>3. b # None
    BY <1>3 DEF Saves
  <2>4. ASSUME NEW x \in Windows
        PROVE  /\ binding[x] = None => binding'[x] = None
               /\ binding[x] # None =>
                  /\ binding'[x] # None /\ binding'[x].ws = binding[x].ws
                  /\ binding'[x] = [ws |-> binding'[x].ws, rev |-> binding'[x].rev, stale |-> binding'[x].stale]
    <3>1. binding'[x] = IF x = k THEN [b EXCEPT !.rev = @ + 1]
                        ELSE IF binding[x] # None /\ binding[x].ws = b.ws
                        THEN [binding[x] EXCEPT !.stale = TRUE] ELSE binding[x]
      BY <1>3
    <3>2. CASE x = k
      <4>1. binding'[x] = [ws |-> b.ws, rev |-> b.rev + 1, stale |-> b.stale]
        BY <2>2, <2>3, <3>1, <3>2
      <4> QED BY <2>3, <3>2, <4>1 DEF NoneIsOnlyNone
    <3>3. CASE x # k /\ binding[x] # None /\ binding[x].ws = b.ws
      <4>1. binding'[x] = [ws |-> binding[x].ws, rev |-> binding[x].rev, stale |-> TRUE]
        BY <2>2, <3>1, <3>3
      <4> QED BY <3>3, <4>1 DEF NoneIsOnlyNone
    <3>4. CASE x # k /\ ~(binding[x] # None /\ binding[x].ws = b.ws)
      BY <2>1, <3>1, <3>4
    <3> QED BY <3>2, <3>3, <3>4
  <2>5. binding' = [x \in Windows |-> binding'[x]]
    BY <1>3
  <2> HIDE DEF b
  <2> QED BY <2>4, <2>5 DEF BindingsAre, SameBinding
<1>4. \/ UNCHANGED binding
      \/ Saves(k) /\ marked
      \/ Saves(k) /\ saved
  BY DEF SaveWindow
<1> HIDE DEF marked, saved, kept
<1>5. kept
  BY <1>1, <1>2, <1>3, <1>4
<1> QED BY <1>5 DEF kept

(* What changes neither the windows nor what they are bound to.             *)
LEMMA Untouched ==
    ASSUME BindingsAre, UNCHANGED <<binding, open, spent, journal>>
    PROVE  Harmless /\ JournalGoesOn
BY DEF BindingsAre, Harmless, JournalGoesOn, SameBinding

(* The user, the autosave and the rest of the extension change bindings     *)
(* only in what they say of the tabs, or those of windows that are closed.  *)
LEMMA WorldGoesOn ==
    ASSUME OrderInv, UNCHANGED <<run, journal, req, latestId, intent, queue>>, open' \subseteq open,
           BindingsAre', spent'.unbind = spent.unbind,
           \A k \in open' : binding[k] # None => SameBinding(k)
    PROVE  OrderInv'
<1>0. HeadAtWork /\ JournalByStage /\ AboutToSucceed
  BY DEF OrderInv
<1>1. Harmless
  BY DEF Harmless
<1>2. HeadAtWork' /\ JournalByStage'
  BY <1>0 DEF HeadAtWork, JournalByStage, IsHead
<1>3. AboutToSucceed'
  <2>1. RunWindow' = RunWindow /\ Active' = Active
    BY DEF RunWindow, Active
  <2> QED BY <1>0, <2>1 DEF AboutToSucceed, Bound, SameBinding
<1> QED BY <1>1, <1>2, <1>3, TaskGoesOn

LEMMA WorldOrder ==
    ASSUME NoneIsOnlyNone, OrderInv,
           \/ \E k \in Windows : Edit(k) \/ Loaded(k) \/ CloseWindow(k) \/ AutoSave(k)
           \/ \E w \in Workspaces : DataEdit(w) \/ Remove(w)
    PROVE  OrderInv'
<1>0. BindingsAre
  BY DEF OrderInv
<1>1. ASSUME UNCHANGED <<run, journal, req, latestId, intent, queue, open, binding>>,
             spent' = spent \/ Spend("edit") \/ Spend("removal")
      PROVE  OrderInv'
  <2>1. spent' \in [DOMAIN Limit -> Nat] /\ spent'.unbind = spent.unbind
    BY <1>0, <1>1, Spends DEF Events, BindingsAre
  <2>2. BindingsAre'
    BY <1>0, <1>1, <2>1 DEF BindingsAre
  <2> QED BY <1>1, <2>1, <2>2, WorldGoesOn DEF SameBinding
<1>2. ASSUME NEW k \in Windows, Edit(k) \/ Loaded(k) PROVE OrderInv'
  BY <1>1, <1>2 DEF Edit, Loaded, stored, intents
<1>3. ASSUME NEW k \in Windows, CloseWindow(k) PROVE OrderInv'
  <2>1. /\ open' = open \ {k} /\ binding' = [binding EXCEPT ![k] = None] /\ Spend("close")
        /\ UNCHANGED <<run, journal, req, latestId, intent, queue>>
    BY <1>3 DEF CloseWindow, intents
  <2>2. spent' \in [DOMAIN Limit -> Nat] /\ spent'.unbind = spent.unbind
    BY <1>0, <2>1, Spends DEF Events
  <2>3. /\ binding' = [x \in Windows |-> binding'[x]] /\ binding'[k] = None
        /\ \A x \in Windows : x # k => binding'[x] = binding[x]
    BY <1>0, <2>1 DEF BindingsAre
  <2>4. BindingsAre' /\ open' \subseteq open
    BY <1>0, <2>1, <2>2, <2>3 DEF BindingsAre
  <2>5. \A x \in open' : binding[x] # None => SameBinding(x)
    BY <1>0, <2>1, <2>3 DEF BindingsAre, SameBinding
  <2> QED BY <2>1, <2>2, <2>4, <2>5, WorldGoesOn
<1>4. ASSUME NEW k \in Windows, AutoSave(k) PROVE OrderInv'
  <2>1. SaveWindow(k) /\ UNCHANGED <<run, journal, req, latestId, intent, queue, open, spent>>
    BY <1>4 DEF AutoSave, intents, browser
  <2>2. BindingsAre' /\ \A x \in Windows : binding[x] # None => SameBinding(x)
    BY <1>0, <2>1, SavingKeepsBindings
  <2> QED BY <1>0, <2>1, <2>2, WorldGoesOn DEF BindingsAre
<1>5. ASSUME NEW w \in Workspaces, DataEdit(w) PROVE OrderInv'
  <2>1. /\ Spend("edit") /\ UNCHANGED <<run, journal, req, latestId, intent, queue, open>>
        /\ binding' = [k \in Windows |-> IF binding[k] # None /\ binding[k].ws = w
                                         THEN [binding[k] EXCEPT !.stale = TRUE] ELSE binding[k]]
    BY <1>5 DEF DataEdit, intents, browser
  <2>2. spent' \in [DOMAIN Limit -> Nat] /\ spent'.unbind = spent.unbind
    BY <1>0, <2>1, Spends DEF Events
  <2>3. ASSUME NEW x \in Windows
        PROVE  /\ binding[x] # None => SameBinding(x)
               /\ binding'[x] # None =>
                    binding'[x] = [ws |-> binding'[x].ws, rev |-> binding'[x].rev, stale |-> binding'[x].stale]
    <3> DEFINE c == binding[x]
    <3>1. binding'[x] = IF c # None /\ c.ws = w THEN [c EXCEPT !.stale = TRUE] ELSE c
      BY <2>1
    <3>2. c # None => c = [ws |-> c.ws, rev |-> c.rev, stale |-> c.stale]
      BY <1>0 DEF BindingsAre
    <3> HIDE DEF c
    <3>3. c # None => [c EXCEPT !.stale = TRUE] = [ws |-> c.ws, rev |-> c.rev, stale |-> TRUE]
      BY <3>2, BindingUpdates
    <3>4. /\ c # None => binding'[x] # None /\ binding'[x].ws = c.ws
          /\ binding'[x] # None =>
               binding'[x] = [ws |-> binding'[x].ws, rev |-> binding'[x].rev, stale |-> binding'[x].stale]
      <4>1. CASE c # None /\ c.ws = w
        <5>1. binding'[x] = [ws |-> c.ws, rev |-> c.rev, stale |-> TRUE]
          BY <3>1, <3>3, <4>1
        <5> QED BY <5>1 DEF NoneIsOnlyNone
      <4>2. CASE ~(c # None /\ c.ws = w)
        <5>1. binding'[x] = c
          BY <3>1, <4>2
        <5> QED BY <3>2, <5>1
      <4> QED BY <4>1, <4>2
    <3> QED BY <3>4 DEF c, SameBinding
  <2>4. binding' = [x \in Windows |-> binding'[x]]
    BY <2>1
  <2>5. BindingsAre'
    BY <1>0, <2>1, <2>2, <2>3, <2>4 DEF BindingsAre
  <2> QED BY <1>0, <2>1, <2>2, <2>3, <2>5, WorldGoesOn DEF BindingsAre
<1>6. ASSUME NEW w \in Workspaces, Remove(w) PROVE OrderInv'
  BY <1>1, <1>6 DEF Remove, browser, intents
<1> QED BY <1>2, <1>3, <1>4, <1>5, <1>6

(* A switch ends with an answer that names its reason, or goes on.          *)
LEMMA AnswersByReason ==
    ASSUME NoneIsOnlyNone, OrderInv, IsHead("switch"), JournalGoesOn, Harmless,
           Finish(IF req[Active].reason = "superseded" THEN "superseded" ELSE "failed")
    PROVE  OrderInv'
<1>1. CASE req[Active].reason = "superseded"
  <2>1. Finish("superseded") /\ "superseded" \in {"ok", "failed", "superseded", "recovery_required"}
    BY <1>1
  <2> QED BY <1>1, <2>1, TaskAnswers
<1>2. CASE req[Active].reason # "superseded"
  <2>1. Finish("failed") /\ "failed" \in {"ok", "failed", "superseded", "recovery_required"}
    BY <1>2
  <2> QED BY <2>1, TaskAnswers
<1> QED BY <1>1, <1>2

LEMMA RunUpdates ==
    ASSUME NEW r, r = [stage |-> r.stage, after |-> r.after, source |-> r.source, reserved |-> r.reserved,
                       plan |-> r.plan, before |-> r.before], NEW x, NEW y
    PROVE  /\ [r EXCEPT !.stage = x] = [stage |-> x, after |-> r.after, source |-> r.source, reserved |-> r.reserved,
                                        plan |-> r.plan, before |-> r.before]
           /\ [r EXCEPT !.stage = x, !.after = y]
                = [stage |-> x, after |-> y, source |-> r.source, reserved |-> r.reserved,
                   plan |-> r.plan, before |-> r.before]
           /\ [r EXCEPT !.stage = x, !.reserved = y]
                = [stage |-> x, after |-> r.after, source |-> r.source, reserved |-> y,
                   plan |-> r.plan, before |-> r.before]
           /\ [r EXCEPT !.stage = x, !.source = y]
                = [stage |-> x, after |-> r.after, source |-> y, reserved |-> r.reserved,
                   plan |-> r.plan, before |-> r.before]
           /\ [r EXCEPT !.stage = x, !.plan = y]
                = [stage |-> x, after |-> r.after, source |-> r.source, reserved |-> r.reserved,
                   plan |-> y, before |-> r.before]
<1>1. r \in [stage : {r.stage, x}, after : {r.after, y}, source : {r.source, y}, reserved : {r.reserved, y},
             plan : {r.plan, y}, before : {r.before}]
  OBVIOUS
<1>2. \A s, a, b, c, d, e, v :
        v \in [stage : {s}, after : {a}, source : {b}, reserved : {c}, plan : {d}, before : {e}] =>
        v = [stage |-> s, after |-> a, source |-> b, reserved |-> c, plan |-> d, before |-> e]
  OBVIOUS
<1>3. r \in [stage : {r.stage}, after : {r.after}, source : {r.source}, reserved : {r.reserved},
             plan : {r.plan}, before : {r.before}]
  OBVIOUS
<1>4. /\ [r EXCEPT !.stage = x] \in [stage : {x}, after : {r.after}, source : {r.source}, reserved : {r.reserved},
                                     plan : {r.plan}, before : {r.before}]
      /\ [r EXCEPT !.stage = x, !.after = y] \in [stage : {x}, after : {y}, source : {r.source},
                                     reserved : {r.reserved}, plan : {r.plan}, before : {r.before}]
      /\ [r EXCEPT !.stage = x, !.reserved = y] \in [stage : {x}, after : {r.after}, source : {r.source},
                                     reserved : {y}, plan : {r.plan}, before : {r.before}]
      /\ [r EXCEPT !.stage = x, !.source = y] \in [stage : {x}, after : {r.after}, source : {y},
                                     reserved : {r.reserved}, plan : {r.plan}, before : {r.before}]
      /\ [r EXCEPT !.stage = x, !.plan = y] \in [stage : {x}, after : {r.after}, source : {r.source},
                                     reserved : {r.reserved}, plan : {y}, before : {r.before}]
  BY <1>3
<1> QED BY <1>2, <1>4

RunIsWhole == run = [stage |-> run.stage, after |-> run.after, source |-> run.source, reserved |-> run.reserved,
                     plan |-> run.plan, before |-> run.before]
JournalIsFull ==
  journal # None => /\ journal.window \in Windows
                    /\ journal = [run |-> journal.run, window |-> journal.window, target |-> journal.target,
                                  source |-> journal.source, rev |-> journal.rev, tabs |-> journal.tabs,
                                  failed |-> journal.failed]

LEMMA SwitchGoesOn ==
    ASSUME OrderInv, IsHead("switch"), UNCHANGED <<req, latestId, intent, queue>>, Harmless,
           RunIsWhole', JournalIsFull', run'.stage \in Quiet \cup Acting \cup Recovering,
           run'.stage \in Recovering => run'.after \in {"recheck", "answer"},
           run'.stage \in Quiet => journal' = None,
           run'.stage \in Acting \cup Recovering => journal' # None,
           AboutToSucceed'
    PROVE  OrderInv'
<1>1. IsHead("switch")' /\ run'.stage # "remove"
  BY DEF IsHead, Quiet, Early, Acting, Recovering
<1>2. HeadAtWork'
  BY <1>1 DEF HeadAtWork, RunIsWhole
<1>3. JournalByStage'
  BY DEF JournalByStage, JournalIsFull
<1> QED BY <1>2, <1>3, TaskGoesOn

(* A failed stage of a switch that has its journal starts the recovery.     *)
LEMMA FailsLate ==
    ASSUME NoneIsOnlyNone, OrderInv, IsHead("switch"), run.stage \in Acting, FailLate, UNCHANGED journal, Harmless
    PROVE  OrderInv'
<1>0. HeadAtWork /\ JournalByStage
  BY DEF OrderInv
<1>1. UNCHANGED <<req, latestId, intent, queue>> /\ run' = [run EXCEPT !.stage = "recover", !.after = "answer"]
  BY DEF FailLate, SameTask, intents
<1>2. run' = [stage |-> "recover", after |-> "answer", source |-> run.source, reserved |-> run.reserved,
              plan |-> run.plan, before |-> run.before]
  BY <1>0, <1>1, RunUpdates DEF HeadAtWork
<1>3. RunIsWhole' /\ run'.stage = "recover" /\ run'.after = "answer"
  BY <1>2 DEF RunIsWhole
<1>4. journal' # None /\ JournalIsFull'
  BY <1>0 DEF JournalByStage, JournalIsFull
<1>5. AboutToSucceed' /\ run'.stage \in Recovering /\ run'.stage \notin Quiet
  BY <1>3 DEF AboutToSucceed, Recovering, Quiet, Early
<1> QED BY <1>1, <1>3, <1>4, <1>5, SwitchGoesOn

(* A stage of a switch that leaves windows and journal alone.               *)
LEMMA StageGoesOn ==
    ASSUME OrderInv, IsHead("switch"), SameTask, UNCHANGED <<binding, open, spent, journal>>,
           RunIsWhole', run'.stage \in {"flush", "reserve", "commit", "swap", "bind"},
           run'.stage \in Acting => journal # None,
           run'.stage \in Quiet => journal = None
    PROVE  OrderInv'
<1>0. HeadAtWork /\ JournalByStage /\ BindingsAre
  BY DEF OrderInv
<1>1. UNCHANGED <<req, latestId, intent, queue>> /\ Harmless
  BY <1>0, Untouched DEF SameTask, intents
<1>2. AboutToSucceed' /\ JournalIsFull'
  BY <1>0 DEF AboutToSucceed, JournalByStage, JournalIsFull
<1>3. run'.stage \notin Recovering /\ run'.stage \in Quiet \cup Acting
  BY DEF Recovering, Quiet, Early, Acting
<1> QED BY <1>1, <1>2, <1>3, SwitchGoesOn

LEMMA BeginSwitchOrder ==
    ASSUME NoneIsOnlyNone, OrderInv, BeginSwitch
    PROVE  OrderInv'
<1>0. /\ HeadAtWork /\ JournalByStage /\ BindingsAre /\ IsHead("switch") /\ run.stage \in {"idle", "recheck"}
      /\ UNCHANGED <<binding, open, spent, journal>>
  BY DEF OrderInv, BeginSwitch, stored, browser
<1>1. Harmless /\ JournalGoesOn
  BY <1>0, Untouched
<1>2. CASE FinishCancelled
  BY <1>0, <1>1, <1>2, AnswersByReason DEF FinishCancelled
<1>3. CASE run.stage = "idle" /\ journal # None /\ run' = [NoRun EXCEPT !.stage = "recover", !.after = "recheck"] /\ SameTask
  <2>1. run'.stage = "recover" /\ run'.after = "recheck" /\ RunIsWhole'
    BY <1>3 DEF NoRun, RunIsWhole
  <2>2. /\ run'.stage \in Quiet \cup Acting \cup Recovering /\ run'.stage \notin Quiet
        /\ AboutToSucceed' /\ journal' # None
    BY <1>0, <1>3, <2>1 DEF AboutToSucceed, Quiet, Early, Recovering
  <2>3. JournalIsFull' /\ UNCHANGED <<req, latestId, intent, queue>>
    BY <1>0, <1>3 DEF JournalByStage, JournalIsFull, SameTask, intents
  <2> QED BY <1>0, <1>1, <2>1, <2>2, <2>3, SwitchGoesOn
<1>4. CASE /\ ~(run.stage = "idle" /\ journal # None)
           /\ run' = [NoRun EXCEPT !.stage = "reserve", !.source = binding[RunWindow], !.before = shows[RunWindow]]
           /\ UNCHANGED <<intents, queue>>
  <2>1. run'.stage = "reserve" /\ RunIsWhole'
    BY <1>4 DEF NoRun, RunIsWhole
  <2>2. journal = None
    BY <1>0, <1>4 DEF JournalByStage, Quiet
  <2>3. /\ run'.stage \in Quiet \cup Acting \cup Recovering /\ run'.stage \notin Acting \cup Recovering
        /\ AboutToSucceed'
    BY <2>1 DEF AboutToSucceed, Quiet, Early, Recovering, Acting
  <2>4. JournalIsFull' /\ UNCHANGED <<req, latestId, intent, queue>>
    BY <1>0, <1>4, <2>2 DEF JournalIsFull, intents
  <2> QED BY <1>0, <1>1, <2>1, <2>2, <2>3, <2>4, SwitchGoesOn
<1> QED BY <1>2, <1>3, <1>4 DEF BeginSwitch

LEMMA EarlyOrder ==
    ASSUME NoneIsOnlyNone, OrderInv, Reserve \/ FlushSource
    PROVE  OrderInv'
<1>0. HeadAtWork /\ JournalByStage /\ BindingsAre /\ Numbered /\ QueuedInOrder
  BY DEF OrderInv
<1>1. IsHead("switch") /\ journal = None /\ RunWindow \in Windows /\ RunIsWhole
  BY <1>0, HeadWaits DEF Reserve, FlushSource, Stage, HeadAtWork, JournalByStage, Quiet, Early, RunIsWhole
<1>2. ASSUME FailEarly, UNCHANGED <<binding, open, spent, journal>>
      PROVE  OrderInv'
  <2>1. Harmless /\ JournalGoesOn
    BY <1>0, <1>2, Untouched
  <2> QED BY <1>1, <1>2, <2>1, AnswersByReason DEF FailEarly
<1>3. ASSUME Reserve PROVE OrderInv'
  <2>1. UNCHANGED <<binding, open, spent, journal>>
    BY <1>3 DEF Reserve, stored, browser
  <2>2. CASE FailEarly
    BY <1>2, <2>1, <2>2
  <2>3. CASE run' = [run EXCEPT !.stage = "flush", !.reserved = TRUE] /\ SameTask
    <3>1. run' = [stage |-> "flush", after |-> run.after, source |-> run.source, reserved |-> TRUE,
                  plan |-> run.plan, before |-> run.before]
      BY <1>1, <2>3, RunUpdates DEF RunIsWhole
    <3>2. RunIsWhole' /\ run'.stage = "flush" /\ run'.stage \notin Acting
      BY <3>1 DEF RunIsWhole, Acting
    <3> QED BY <1>1, <2>1, <2>3, <3>2, StageGoesOn
  <2> QED BY <1>3, <2>2, <2>3 DEF Reserve
<1>4. ASSUME FlushSource PROVE OrderInv'
  <2>1. UNCHANGED <<open, spent, journal>>
    BY <1>4 DEF FlushSource, browser
  <2>2. CASE FailEarly /\ UNCHANGED binding
    BY <1>2, <2>1, <2>2
  <2>3. CASE SaveWindow(RunWindow) /\ run' = [run EXCEPT !.stage = "own", !.source = binding'[RunWindow]] /\ SameTask
    <3>1. run' = [stage |-> "own", after |-> run.after, source |-> binding'[RunWindow], reserved |-> run.reserved,
                  plan |-> run.plan, before |-> run.before]
      BY <1>1, <2>3, RunUpdates DEF RunIsWhole
    <3>2. /\ RunIsWhole' /\ run'.stage = "own" /\ run'.source = binding'[RunWindow]
          /\ run'.stage \in Quiet /\ run'.stage \notin Acting \cup Recovering
      BY <3>1 DEF RunIsWhole, Acting, Quiet, Early, Recovering
    <3>3. BindingsAre' /\ \A x \in Windows : binding[x] # None => SameBinding(x)
      BY <1>0, <1>1, <2>1, <2>3, SavingKeepsBindings
    <3>4. Harmless
      BY <1>0, <1>1, <2>1, <3>3 DEF Harmless, BindingsAre
    <3>5. UNCHANGED <<req, latestId, intent, queue>> /\ RunWindow' = RunWindow
      BY <2>3 DEF SameTask, intents, RunWindow, Active
    <3>6. AboutToSucceed'
      BY <3>2, <3>5 DEF AboutToSucceed, Bound
    <3>7. JournalIsFull' /\ journal' = None
      BY <1>1, <2>1 DEF JournalIsFull
    <3> QED BY <1>1, <3>2, <3>4, <3>5, <3>6, <3>7, SwitchGoesOn
  <2> QED BY <1>4, <2>2, <2>3 DEF FlushSource
<1> QED BY <1>3, <1>4

LEMMA OwnOrder ==
    ASSUME NoneIsOnlyNone, OrderInv, Own
    PROVE  OrderInv'
<1> DEFINE w == req[Active].target
           b == run.source
           source == IF b # None /\ (b # None => canon[b.ws].status # "gone") THEN b.ws ELSE None
<1>0. /\ HeadAtWork /\ JournalByStage /\ BindingsAre /\ Numbered /\ QueuedInOrder /\ AboutToSucceed
      /\ UNCHANGED <<binding, open, spent>> /\ run.stage = "own"
  BY DEF OrderInv, Own, browser, Stage
<1>1. IsHead("switch") /\ journal = None /\ RunWindow \in Windows /\ RunIsWhole
  BY <1>0, HeadWaits DEF HeadAtWork, JournalByStage, Quiet, Early, RunIsWhole
<1>2. CASE FailEarly /\ UNCHANGED <<journal, alarms>>
  <2>1. Harmless /\ JournalGoesOn
    BY <1>0, <1>2, Untouched
  <2> QED BY <1>1, <1>2, <2>1, AnswersByReason DEF FailEarly
<1>3. CASE b = [ws |-> w, rev |-> canon[w].rev, stale |-> FALSE] /\ Finish("ok") /\ UNCHANGED <<journal, alarms>>
  <2>1. Harmless /\ JournalGoesOn
    BY <1>0, <1>3, Untouched
  <2>2. b # None /\ b.ws = w
    BY <1>3 DEF NoneIsOnlyNone
  <2>3. RunWindow \in open' => binding'[RunWindow] # None /\ binding'[RunWindow].ws = req[Active].target
    BY <1>0, <2>2 DEF AboutToSucceed, Bound
  <2>4. "ok" \in {"ok", "failed", "superseded", "recovery_required"}
    OBVIOUS
  <2> QED BY <1>1, <1>3, <2>1, <2>3, <2>4, TaskAnswers
<1>4. CASE /\ journal' = [run |-> Active, window |-> RunWindow, target |-> w, source |-> source,
                          rev |-> IF b = None THEN 0 ELSE b.rev,
                          tabs |-> Snapshot(RunWindow, source), failed |-> FALSE]
           /\ run' = [run EXCEPT !.stage = "prepare", !.plan = [tabs |-> canon[w].tabs, rev |-> canon[w].rev]]
           /\ SameTask
  <2> HIDE DEF source, w, b
  <2>1. \E x, y, z : journal' = [run |-> Active, window |-> RunWindow, target |-> w, source |-> x,
                                 rev |-> y, tabs |-> z, failed |-> FALSE]
    BY <1>4
  <2>2. journal' # None /\ journal'.window = RunWindow /\ JournalIsFull'
    BY <1>1, <2>1 DEF NoneIsOnlyNone, JournalIsFull
  <2>3. \E p : run' = [stage |-> "prepare", after |-> run.after, source |-> run.source, reserved |-> run.reserved,
                       plan |-> p, before |-> run.before]
    BY <1>1, <1>4, RunUpdates DEF RunIsWhole
  <2>4. RunIsWhole' /\ run'.stage = "prepare" /\ run'.stage \in Acting /\ run'.stage \notin Quiet \cup Recovering
    BY <2>3 DEF RunIsWhole, Acting, Quiet, Early, Recovering
  <2>5. UNCHANGED <<req, latestId, intent, queue>>
    BY <1>4 DEF SameTask, intents
  <2>6. BindingsAre'
    BY <1>0 DEF BindingsAre
  <2>7. Harmless
    BY <1>0, <1>1, <2>2, <2>6 DEF Harmless, SameBinding
  <2>8. AboutToSucceed'
    BY <2>4 DEF AboutToSucceed
  <2> QED BY <1>1, <2>2, <2>4, <2>5, <2>7, <2>8, SwitchGoesOn
<1> QED BY <1>2, <1>3, <1>4 DEF Own

LEMMA ActingIsHead ==
    ASSUME OrderInv, run.stage \in Acting
    PROVE  /\ IsHead("switch") /\ journal # None /\ RunIsWhole /\ RunWindow \in Windows /\ BindingsAre
           /\ JournalIsFull
<1>0. HeadAtWork /\ JournalByStage /\ BindingsAre /\ Numbered /\ QueuedInOrder
  BY DEF OrderInv
<1> QED BY <1>0, HeadWaits DEF HeadAtWork, JournalByStage, RunIsWhole, JournalIsFull

LEMMA Enters ==
    ASSUME RunIsWhole, NEW s, Enter(s)
    PROVE  /\ RunIsWhole' /\ run'.stage = s /\ run'.after = run.after /\ run'.source = run.source
BY RunUpdates DEF RunIsWhole, Enter

LEMMA PrepareCommitSwapOrder ==
    ASSUME NoneIsOnlyNone, OrderInv, Prepare \/ Commit \/ Swap
    PROVE  OrderInv'
<1>0. run.stage \in Acting
  BY DEF Prepare, Commit, Swap, Stage, Acting
<1>1. /\ IsHead("switch") /\ journal # None /\ RunIsWhole /\ BindingsAre
      /\ UNCHANGED <<binding, open, journal>>
  BY <1>0, ActingIsHead DEF Prepare, Commit, Swap, stored, browser
<1>2. CASE Spend("fault") /\ FailLate
  <2>1. spent' \in [DOMAIN Limit -> Nat] /\ spent'.unbind = spent.unbind
    BY <1>1, <1>2, Spends DEF Events
  <2>2. BindingsAre'
    BY <1>1, <2>1 DEF BindingsAre
  <2>3. Harmless
    BY <1>1, <2>1, <2>2 DEF Harmless, SameBinding
  <2> QED BY <1>0, <1>1, <1>2, <2>3, FailsLate
<1>3. CASE UNCHANGED spent /\ FailLate
  <2>1. Harmless
    BY <1>1, <1>3, Untouched
  <2> QED BY <1>0, <1>1, <1>3, <2>1, FailsLate
<1>4. ASSUME NEW s \in {"commit", "swap", "bind"}, Enter(s), SameTask, UNCHANGED spent
      PROVE  OrderInv'
  <2>1. RunIsWhole' /\ run'.stage = s
    BY <1>1, <1>4, Enters
  <2>2. s \notin Quiet
    BY DEF Quiet, Early
  <2> QED BY <1>1, <1>4, <2>1, <2>2, StageGoesOn
<1>5. \/ Spend("fault") /\ FailLate
      \/ UNCHANGED spent /\ FailLate
      \/ \E s \in {"commit", "swap", "bind"} : Enter(s) /\ SameTask /\ UNCHANGED spent
  BY DEF Prepare, Commit, Swap
<1> QED BY <1>2, <1>3, <1>4, <1>5

LEMMA BindOrder ==
    ASSUME NoneIsOnlyNone, OrderInv, Bind
    PROVE  OrderInv'
<1>0. run.stage \in Acting
  BY DEF Bind, Stage, Acting
<1>1. /\ IsHead("switch") /\ journal # None /\ RunIsWhole /\ BindingsAre /\ RunWindow \in Windows
      /\ JournalIsFull /\ UNCHANGED <<open, journal, spent>>
  BY <1>0, ActingIsHead DEF Bind, browser
<1>2. CASE FailLate /\ UNCHANGED binding
  <2>1. Harmless
    BY <1>1, <1>2, Untouched
  <2> QED BY <1>0, <1>1, <1>2, <2>1, FailsLate
<1>3. CASE /\ binding' = [binding EXCEPT ![RunWindow] = [ws |-> req[Active].target, rev |-> run.plan.rev,
                                                         stale |-> FALSE]]
           /\ Enter("complete") /\ SameTask
  <2>1. RunIsWhole' /\ run'.stage = "complete" /\ run'.stage \in Acting /\ run'.stage \notin Quiet \cup Recovering
    BY <1>1, <1>3, Enters DEF Acting, Quiet, Early, Recovering
  <2>2. UNCHANGED <<req, latestId, intent, queue>> /\ RunWindow' = RunWindow /\ Active' = Active
    BY <1>3 DEF SameTask, intents, RunWindow, Active
  <2>3. /\ binding'[RunWindow] = [ws |-> req[Active].target, rev |-> run.plan.rev, stale |-> FALSE]
        /\ \A x \in Windows : x # RunWindow => binding'[x] = binding[x]
        /\ binding' = [x \in Windows |-> binding'[x]]
    BY <1>1, <1>3 DEF BindingsAre
  <2>4. binding'[RunWindow] # None /\ binding'[RunWindow].ws = req[Active].target
    BY <2>3 DEF NoneIsOnlyNone
  <2>5. \A x \in Windows : binding'[x] # None =>
          binding'[x] = [ws |-> binding'[x].ws, rev |-> binding'[x].rev, stale |-> binding'[x].stale]
    BY <1>1, <2>3 DEF BindingsAre
  <2>6. BindingsAre'
    BY <1>1, <2>3, <2>5 DEF BindingsAre
  <2>7. Harmless
    BY <1>1, <2>3, <2>6 DEF Harmless, SameBinding, BindingsAre
  <2>8. AboutToSucceed' /\ JournalIsFull'
    BY <1>1, <2>1, <2>2, <2>4 DEF AboutToSucceed, Bound, JournalIsFull
  <2> QED BY <1>1, <2>1, <2>2, <2>7, <2>8, SwitchGoesOn
<1> QED BY <1>2, <1>3 DEF Bind

LEMMA CompleteOrder ==
    ASSUME NoneIsOnlyNone, OrderInv, Complete
    PROVE  OrderInv'
<1>0. run.stage \in Acting /\ run.stage = "complete" /\ AboutToSucceed
  BY DEF Complete, Stage, Acting, OrderInv
<1>1. /\ IsHead("switch") /\ journal # None /\ RunIsWhole /\ BindingsAre /\ RunWindow \in Windows
      /\ JournalIsFull /\ UNCHANGED <<open, binding>>
  BY <1>0, ActingIsHead DEF Complete, browser
<1>2. CASE Spend("fault") /\ FailLate /\ UNCHANGED journal
  <2>1. spent' \in [DOMAIN Limit -> Nat] /\ spent'.unbind = spent.unbind
    BY <1>1, <1>2, Spends DEF Events
  <2>2. BindingsAre'
    BY <1>1, <2>1 DEF BindingsAre
  <2>3. Harmless
    BY <1>1, <1>2, <2>1, <2>2 DEF Harmless, SameBinding
  <2> QED BY <1>0, <1>1, <1>2, <2>3, FailsLate
<1>3. CASE journal' = None /\ Enter("settle") /\ SameTask /\ UNCHANGED spent
  <2>1. RunIsWhole' /\ run'.stage = "settle" /\ run'.stage \in Quiet /\ run'.stage \notin Acting \cup Recovering
    BY <1>1, <1>3, Enters DEF Acting, Quiet, Early, Recovering
  <2>2. UNCHANGED <<req, latestId, intent, queue>> /\ RunWindow' = RunWindow /\ Active' = Active
    BY <1>3 DEF SameTask, intents, RunWindow, Active
  <2>3. BindingsAre'
    BY <1>1, <1>3 DEF BindingsAre
  <2>4. Harmless
    BY <1>1, <1>3, <2>3 DEF Harmless, SameBinding
  <2>5. AboutToSucceed' /\ JournalIsFull'
    BY <1>0, <1>1, <1>3, <2>1, <2>2 DEF AboutToSucceed, Bound, JournalIsFull
  <2> QED BY <1>1, <1>3, <2>1, <2>2, <2>4, <2>5, SwitchGoesOn
<1> QED BY <1>2, <1>3 DEF Complete

LEMMA SettleOrder ==
    ASSUME NoneIsOnlyNone, OrderInv, Settle
    PROVE  OrderInv'
<1>0. /\ HeadAtWork /\ JournalByStage /\ BindingsAre /\ AboutToSucceed /\ run.stage = "settle"
      /\ UNCHANGED <<open, binding, spent, journal>> /\ Finish("ok")
  BY DEF OrderInv, Settle, browser, Stage
<1>1. IsHead("switch") /\ journal = None
  BY <1>0 DEF HeadAtWork, JournalByStage, Quiet, Early
<1>2. Harmless /\ JournalGoesOn
  BY <1>0, Untouched
<1>3. RunWindow \in open' => binding'[RunWindow] # None /\ binding'[RunWindow].ws = req[Active].target
  BY <1>0 DEF AboutToSucceed, Bound
<1>4. "ok" \in {"ok", "failed", "superseded", "recovery_required"}
  OBVIOUS
<1> QED BY <1>0, <1>1, <1>2, <1>3, <1>4, TaskAnswers

(* The recovery.                                                            *)
LEMMA RecoveringIsHead ==
    ASSUME OrderInv, run.stage \in Recovering
    PROVE  /\ journal # None /\ RunIsWhole /\ BindingsAre /\ JournalIsFull /\ queue # <<>>
           /\ \/ IsHead("switch") /\ run.after \in {"recheck", "answer"}
              \/ IsHead("recover") /\ ~IsHead("switch") /\ run.after = "end"
<1>0. HeadAtWork /\ JournalByStage /\ BindingsAre
  BY DEF OrderInv
<1> QED BY <1>0 DEF HeadAtWork, JournalByStage, RunIsWhole, JournalIsFull, IsHead

LEMMA RecoveryGoesOn ==
    ASSUME OrderInv, run.stage \in Recovering, NEW s \in Recovering, Enter(s), SameTask, Harmless, UNCHANGED journal
    PROVE  OrderInv'
<1>1. /\ journal # None /\ RunIsWhole /\ BindingsAre /\ JournalIsFull
      /\ \/ IsHead("switch") /\ run.after \in {"recheck", "answer"}
         \/ IsHead("recover") /\ run.after = "end"
  BY RecoveringIsHead
<1>2. RunIsWhole' /\ run'.stage = s /\ run'.after = run.after
  BY <1>1, Enters
<1>3. UNCHANGED <<req, latestId, intent, queue>> /\ s \notin Quiet \cup Acting \cup {"remove"}
  BY DEF SameTask, intents, Recovering, Quiet, Early, Acting
<1>4. HeadAtWork'
  BY <1>1, <1>2, <1>3 DEF HeadAtWork, RunIsWhole, IsHead
<1>5. JournalByStage'
  BY <1>1, <1>2, <1>3 DEF JournalByStage, JournalIsFull
<1>6. AboutToSucceed'
  BY <1>2 DEF AboutToSucceed, Recovering
<1> QED BY <1>3, <1>4, <1>5, <1>6, TaskGoesOn

LEMMA RecoveryAnswers ==
    ASSUME NoneIsOnlyNone, OrderInv, run.stage \in Recovering, NEW result \in BOOLEAN, Recovered(result),
           Harmless, JournalGoesOn, result => journal' = None
    PROVE  OrderInv'
<1>1. /\ journal # None /\ RunIsWhole /\ BindingsAre /\ JournalIsFull /\ queue # <<>>
      /\ \/ IsHead("switch") /\ run.after \in {"recheck", "answer"}
         \/ IsHead("recover") /\ ~IsHead("switch") /\ run.after = "end"
  BY RecoveringIsHead
<1>2. ASSUME IsHead("switch"), Finish("recovery_required") PROVE OrderInv'
  <2>1. "recovery_required" \in {"ok", "failed", "superseded", "recovery_required"}
    OBVIOUS
  <2> QED BY <1>2, <2>1, TaskAnswers
<1>3. CASE run.after = "recheck"
  <2>1. IsHead("switch") /\ IF result THEN Enter("recheck") /\ SameTask ELSE Finish("recovery_required")
    BY <1>1, <1>3 DEF Recovered
  <2>2. CASE ~result
    BY <1>2, <2>1, <2>2
  <2>3. CASE result
    <3>1. RunIsWhole' /\ run'.stage = "recheck" /\ run'.stage \in Quiet /\ run'.stage \notin Acting \cup Recovering
      BY <1>1, <2>1, <2>3, Enters DEF Quiet, Acting, Early, Recovering
    <3>2. UNCHANGED <<req, latestId, intent, queue>> /\ AboutToSucceed' /\ JournalIsFull' /\ journal' = None
      BY <2>1, <2>3, <3>1 DEF SameTask, intents, AboutToSucceed, JournalIsFull
    <3> QED BY <2>1, <3>1, <3>2, SwitchGoesOn
  <2> QED BY <2>2, <2>3
<1>4. CASE run.after = "answer"
  <2>1. IsHead("switch") /\ Finish(IF ~result THEN "recovery_required"
                                   ELSE IF req[Active].reason = "superseded" THEN "superseded" ELSE "failed")
    BY <1>1, <1>4 DEF Recovered
  <2>2. CASE ~result
    BY <1>2, <2>1, <2>2
  <2>3. CASE result
    <3>1. Finish(IF req[Active].reason = "superseded" THEN "superseded" ELSE "failed")
      BY <2>1, <2>3
    <3> QED BY <2>1, <3>1, AnswersByReason
  <2> QED BY <2>2, <2>3
<1>5. CASE run.after = "end"
  <2>1. ~IsHead("switch") /\ queue' = Tail(queue) /\ run' = NoRun /\ UNCHANGED <<req, latestId, intent>>
    BY <1>1, <1>5 DEF Recovered, intents
  <2> QED BY <1>1, <2>1, TaskIsOver
<1> QED BY <1>1, <1>3, <1>4, <1>5

LEMMA RecoveryOrder ==
    ASSUME NoneIsOnlyNone, OrderInv, RecoveryStep
    PROVE  OrderInv'
<1>0. BindingsAre /\ HeadAtWork /\ JournalByStage
  BY DEF OrderInv
<1>1. ASSUME BeginRecovery PROVE OrderInv'
  <2>1. UNCHANGED <<binding, open, spent, journal>> /\ IsHead("recover") /\ ~IsHead("switch") /\ queue # <<>>
    BY <1>1 DEF BeginRecovery, stored, browser, IsHead
  <2>2. Harmless /\ JournalGoesOn
    BY <1>0, <2>1, Untouched
  <2>3. CASE Pop
    BY <2>1, <2>2, <2>3, TaskIsOver DEF Pop, intents
  <2>4. CASE journal # None /\ run' = [NoRun EXCEPT !.stage = "recover"] /\ SameTask
    <3>1. /\ run' = [stage |-> run'.stage, after |-> run'.after, source |-> run'.source,
                     reserved |-> run'.reserved, plan |-> run'.plan, before |-> run'.before]
          /\ run'.stage = "recover" /\ run'.after = "end"
      BY <2>4 DEF NoRun
    <3>2. UNCHANGED <<req, latestId, intent, queue>>
      BY <2>4 DEF SameTask, intents
    <3>3. HeadAtWork'
      BY <2>1, <3>1, <3>2 DEF HeadAtWork, IsHead, Recovering, Quiet, Early, Acting
    <3>4. JournalByStage' /\ AboutToSucceed'
      BY <1>0, <2>1, <2>4, <3>1 DEF JournalByStage, AboutToSucceed, Quiet, Early
    <3> QED BY <2>2, <3>2, <3>3, <3>4, TaskGoesOn
  <2> QED BY <1>1, <2>3, <2>4 DEF BeginRecovery
<1>2. ASSUME Preserve \/ CheckWindow \/ Restore PROVE OrderInv'
  <2>1. /\ UNCHANGED <<binding, open, spent, journal>> /\ run.stage \in Recovering /\ SameTask
        /\ \E s \in Recovering : Enter(s)
    BY <1>2 DEF Preserve, CheckWindow, Restore, stored, browser, Stage, Recovering
  <2>2. Harmless
    BY <1>0, <2>1, Untouched
  <2> QED BY <2>1, <2>2, RecoveryGoesOn
<1>3. ASSUME Rebind PROVE OrderInv'
  <2>1. UNCHANGED <<open, spent, journal>> /\ run.stage \in Recovering /\ SameTask /\ Enter("clear") /\ "clear" \in Recovering
    BY <1>3 DEF Rebind, browser, Stage, Recovering
  <2>2. journal # None /\ JournalIsFull
    BY <2>1, RecoveringIsHead
  <2>3. \/ binding' = [binding EXCEPT ![journal.window] = None]
        \/ \E w, v, s : binding' = [binding EXCEPT ![journal.window] = [ws |-> w, rev |-> v, stale |-> s]]
    BY <1>3 DEF Rebind
  <2>4. PICK c : /\ binding' = [binding EXCEPT ![journal.window] = c]
                 /\ c # None => c = [ws |-> c.ws, rev |-> c.rev, stale |-> c.stale]
    BY <2>3
  <2>5. /\ binding' = [x \in Windows |-> binding'[x]] /\ binding'[journal.window] = c
        /\ \A x \in Windows : x # journal.window => binding'[x] = binding[x]
    BY <1>0, <2>2, <2>4 DEF BindingsAre, JournalIsFull
  <2>6. \A x \in Windows : binding'[x] # None =>
          binding'[x] = [ws |-> binding'[x].ws, rev |-> binding'[x].rev, stale |-> binding'[x].stale]
    BY <1>0, <2>4, <2>5 DEF BindingsAre
  <2>7. BindingsAre'
    BY <1>0, <2>1, <2>5, <2>6 DEF BindingsAre
  <2>8. Harmless
    BY <1>0, <2>1, <2>2, <2>5, <2>7 DEF Harmless, SameBinding, BindingsAre
  <2> QED BY <2>1, <2>8, RecoveryGoesOn
<1>4. ASSUME Forget PROVE OrderInv'
  <2>1. UNCHANGED <<open, spent>> /\ run.stage \in Recovering /\ Recovered(TRUE) /\ journal' = None
        /\ binding' = [binding EXCEPT ![journal.window] = None]
    BY <1>4 DEF Forget, browser, Stage, Recovering
  <2>2. journal # None /\ JournalIsFull
    BY <2>1, RecoveringIsHead
  <2>3. /\ binding' = [x \in Windows |-> binding'[x]] /\ binding'[journal.window] = None
        /\ \A x \in Windows : x # journal.window => binding'[x] = binding[x]
    BY <1>0, <2>1, <2>2 DEF BindingsAre, JournalIsFull
  <2>4. BindingsAre'
    BY <1>0, <2>1, <2>3 DEF BindingsAre
  <2>5. Harmless /\ JournalGoesOn /\ TRUE \in BOOLEAN
    BY <1>0, <2>1, <2>2, <2>3, <2>4 DEF Harmless, SameBinding, BindingsAre, JournalGoesOn
  <2> QED BY <2>1, <2>5, RecoveryAnswers
<1>5. ASSUME RestoreFails \/ RebindFails PROVE OrderInv'
  <2>1. /\ UNCHANGED <<binding, open>> /\ run.stage \in Recovering /\ Recovered(FALSE)
        /\ journal' = [journal EXCEPT !.failed = TRUE]
        /\ spent' = spent \/ Spend("recovery")
    BY <1>5 DEF RestoreFails, RebindFails, browser, Stage, Recovering
  <2>2. spent' \in [DOMAIN Limit -> Nat] /\ spent'.unbind = spent.unbind
    BY <1>0, <2>1, Spends DEF Events, BindingsAre
  <2>3. BindingsAre' /\ journal # None
    BY <1>0, <2>1, <2>2, RecoveringIsHead DEF BindingsAre
  <2>4. JournalGoesOn /\ FALSE \in BOOLEAN
    BY <2>1, <2>3 DEF JournalGoesOn
  <2>5. Harmless
    BY <1>0, <2>1, <2>2, <2>3, <2>4, JournalIsWhole DEF Harmless, SameBinding
  <2> QED BY <2>1, <2>4, <2>5, RecoveryAnswers
<1>6. ASSUME ClearJournal PROVE OrderInv'
  <2>1. UNCHANGED <<binding, open, spent>> /\ run.stage \in Recovering /\ Recovered(TRUE) /\ journal' = None
    BY <1>6 DEF ClearJournal, browser, Stage, Recovering
  <2>2. Harmless /\ JournalGoesOn /\ TRUE \in BOOLEAN
    BY <1>0, <2>1 DEF Harmless, SameBinding, BindingsAre, JournalGoesOn
  <2> QED BY <2>1, <2>2, RecoveryAnswers
<1>7. ASSUME PreserveThrows PROVE OrderInv'
  <2>1. /\ UNCHANGED <<open, journal>> /\ Spend("recovery") /\ run.stage \in Recovering
        /\ binding' = binding \/ binding' = [binding EXCEPT ![journal.window] = None]
        /\ \/ Finish("failed") /\ run.after # "end"
           \/ run.after = "end" /\ queue' = Tail(queue) /\ run' = NoRun /\ UNCHANGED <<req, latestId, intent>>
    BY <1>7 DEF PreserveThrows, browser, intents, Stage, Recovering
  <2>2. spent' \in [DOMAIN Limit -> Nat] /\ spent'.unbind = spent.unbind
    BY <1>0, <2>1, Spends DEF Events
  <2>3. /\ journal # None /\ JournalIsFull /\ queue # <<>>
        /\ \/ IsHead("switch") /\ run.after \in {"recheck", "answer"}
           \/ IsHead("recover") /\ ~IsHead("switch") /\ run.after = "end"
    BY <2>1, RecoveringIsHead
  <2>4. /\ binding' = [x \in Windows |-> binding'[x]]
        /\ binding'[journal.window] \in {None, binding[journal.window]}
        /\ \A x \in Windows : x # journal.window => binding'[x] = binding[x]
    BY <1>0, <2>1, <2>3 DEF BindingsAre, JournalIsFull
  <2>5. BindingsAre'
    BY <1>0, <2>1, <2>2, <2>3, <2>4 DEF BindingsAre, JournalIsFull
  <2>6. Harmless /\ JournalGoesOn
    BY <1>0, <2>1, <2>2, <2>3, <2>4, <2>5 DEF Harmless, SameBinding, BindingsAre, JournalGoesOn
  <2>7. CASE Finish("failed") /\ run.after # "end"
    <3>1. IsHead("switch") /\ "failed" \in {"ok", "failed", "superseded", "recovery_required"}
      BY <2>3, <2>7
    <3> QED BY <2>6, <2>7, <3>1, TaskAnswers
  <2>8. CASE run.after = "end" /\ queue' = Tail(queue) /\ run' = NoRun /\ UNCHANGED <<req, latestId, intent>>
    <3>1. ~IsHead("switch")
      BY <2>3, <2>8
    <3> QED BY <2>3, <2>6, <2>8, <3>1, TaskIsOver
  <2> QED BY <2>1, <2>7, <2>8
<1> QED BY <1>1, <1>2, <1>3, <1>4, <1>5, <1>6, <1>7 DEF RecoveryStep

(* The other tasks.                                                         *)
LEMMA OtherTasksOrder ==
    ASSUME NoneIsOnlyNone, OrderInv, DiscardJournal \/ FlushUnbound \/ RemoveBinding
    PROVE  OrderInv'
<1>0. BindingsAre /\ HeadAtWork /\ JournalByStage /\ QueuedInOrder
  BY DEF OrderInv
<1>1. ASSUME DiscardJournal PROVE OrderInv'
  <2>1. /\ UNCHANGED <<binding, open, spent>> /\ journal' = None /\ Pop /\ queue # <<>> /\ ~IsHead("switch")
    BY <1>1 DEF DiscardJournal, browser, IsHead
  <2>2. Harmless /\ JournalGoesOn
    BY <1>0, <2>1 DEF Harmless, SameBinding, BindingsAre, JournalGoesOn
  <2> QED BY <2>1, <2>2, TaskIsOver DEF Pop, intents
<1>2. ASSUME FlushUnbound PROVE OrderInv'
  <2> DEFINE k == Head(queue).who
  <2>1. /\ UNCHANGED <<open, spent, journal>> /\ IsHead("unbind") /\ queue # <<>> /\ ~IsHead("switch")
        /\ run.stage = "idle"
    BY <1>2 DEF FlushUnbound, browser, IsHead
  <2>2. k \in Windows
    BY <1>0, <2>1, SequenceEnds, TasksAre DEF QueuedInOrder, IsHead
  <2>3. CASE Pop /\ UNCHANGED binding
    <3>1. Harmless /\ JournalGoesOn
      BY <1>0, <2>1, <2>3, Untouched
    <3> QED BY <2>1, <2>3, <3>1, TaskIsOver DEF Pop, intents
  <2>4. CASE SaveWindow(k) /\ Enter("remove") /\ UNCHANGED <<intents, queue, suppressed>>
    <3>1. BindingsAre' /\ \A x \in Windows : binding[x] # None => SameBinding(x)
      BY <1>0, <2>1, <2>2, <2>4, SavingKeepsBindings
    <3>2. Harmless
      BY <1>0, <2>1, <3>1 DEF Harmless, BindingsAre
    <3>3. RunIsWhole' /\ run'.stage = "remove"
      BY <1>0, <2>4, Enters DEF HeadAtWork, RunIsWhole
    <3>4. UNCHANGED <<req, latestId, intent, queue>> /\ IsHead("unbind")'
      BY <2>1, <2>4 DEF intents, IsHead
    <3>5. HeadAtWork'
      BY <3>3, <3>4 DEF HeadAtWork, RunIsWhole, Quiet, Early, Acting, Recovering
    <3>6. JournalByStage' /\ AboutToSucceed'
      BY <1>0, <2>1, <3>3 DEF JournalByStage, AboutToSucceed, Quiet, Early, Acting, Recovering
    <3> QED BY <3>2, <3>4, <3>5, <3>6, TaskGoesOn
  <2> QED BY <1>2, <2>3, <2>4 DEF FlushUnbound
<1>3. ASSUME RemoveBinding PROVE OrderInv'
  <2> DEFINE k == Head(queue).who
  <2>1. /\ UNCHANGED <<open, spent, journal>> /\ IsHead("unbind") /\ queue # <<>> /\ ~IsHead("switch") /\ Pop
        /\ binding' = [binding EXCEPT ![k] = None]
    BY <1>3 DEF RemoveBinding, browser, IsHead
  <2>2. k \in Windows /\ spent.unbind > 0
    BY <1>0, <2>1, SequenceEnds, TasksAre DEF QueuedInOrder, IsHead
  <2>3. /\ binding' = [x \in Windows |-> binding'[x]] /\ binding'[k] = None
        /\ \A x \in Windows : x # k => binding'[x] = binding[x]
    BY <1>0, <2>1, <2>2 DEF BindingsAre
  <2>4. BindingsAre'
    BY <1>0, <2>1, <2>3 DEF BindingsAre
  <2>5. Harmless /\ JournalGoesOn
    BY <2>1, <2>2, <2>4 DEF Harmless, JournalGoesOn
  <2> QED BY <2>1, <2>5, TaskIsOver DEF Pop, intents
<1> QED BY <1>1, <1>2, <1>3

(* A call takes the next number.                                            *)
LEMMA CallOrder ==
    ASSUME NoneIsOnlyNone, OrderInv, NEW r \in Requests, Call(r)
    PROVE  OrderInv'
<1>0. /\ Numbered /\ QueuedInOrder /\ HeadAtWork /\ JournalByStage /\ LatestIsKnown /\ SupersededIsOlder
      /\ Succeeded /\ BindingsAre /\ AboutToSucceed /\ None \notin Windows
  BY SwitchConstants DEF OrderInv
<1>1. UNCHANGED <<binding, open, journal, spent, latestId, intent, queue, run>>
  BY DEF Call, stored, browser
<1>2. PICK k \in open, w \in Workspaces :
        req' = [req EXCEPT ![r] = [NoRequest EXCEPT !.pc = "resolving", !.id = Calls + 1, !.window = k, !.target = w]]
  BY DEF Call
<1>3. req[r] = NoRequest /\ req[r].pc = "idle" /\ req[r].id = 0 /\ req[r].window = None /\ req[r].result = "none"
  BY <1>0 DEF Call, Numbered, NoRequest
<1>4. Calls \in Nat /\ Calls = Cardinality(Called) /\ Called' = Called \cup {r} /\ Calls' = Calls + 1 /\ k \in Windows
  <2>1. Calls \in Nat /\ Calls = Cardinality(Called) /\ IsFiniteSet(Called)
    BY <1>0, FS_CardinalityType DEF Calls, Called, Numbered
  <2>2. req'[r].id = Calls + 1 /\ \A s \in Requests : s # r => req'[s] = req[s]
    BY <1>0, <1>2 DEF Numbered, NoRequest
  <2>3. Called' = Called \cup {r} /\ r \notin Called
    BY <1>3, <2>1, <2>2 DEF Called
  <2>4. Calls' = Cardinality(Called')
    BY DEF Calls, Called
  <2>5. Cardinality(Called \cup {r}) = Cardinality(Called) + 1
    BY <2>1, <2>3, FS_AddElement
  <2> QED BY <1>0, <2>1, <2>3, <2>4, <2>5 DEF BindingsAre
<1>5. /\ req'[r] = [pc |-> "resolving", id |-> Calls + 1, window |-> k, target |-> w, reason |-> None, result |-> "none"]
      /\ \A s \in Requests : s # r => req'[s] = req[s]
      /\ req' = [s \in Requests |-> req'[s]]
  BY <1>0, <1>2 DEF Numbered, NoRequest
<1>6. /\ req'[r].pc = "resolving" /\ req'[r].id = Calls + 1 /\ req'[r].window = k /\ req'[r].target = w
      /\ req'[r].reason = None /\ req'[r].result = "none" /\ req'[r] \in Asked
  BY <1>4, <1>5 DEF Asked, OrNone
<1>7. \A s \in Requests : /\ req[s] \in Asked /\ req[s].id \in 0 .. Calls
                          /\ req[s].window = None <=> req[s].pc = "idle"
  <2>1. \A s \in Requests : req[s].pc = "idle" => req[s].id = 0 /\ req[s].window = None
    BY <1>0 DEF Numbered, NoRequest
  <2> QED BY <1>0, <1>4, <2>1 DEF Numbered
<1>8. Numbered'
  <2>1. \A s \in Requests : req'[s] \in Asked
    BY <1>5, <1>6, <1>7
  <2>2. req' \in [Requests -> Asked]
    BY <1>5, <2>1
  <2>3. IsFiniteSet(Called')
    BY <1>0, <1>4, FS_AddElement DEF Numbered
  <2>4. \A s \in Requests : req'[s].pc = "idle" => req'[s] = NoRequest
    BY <1>0, <1>5, <1>6 DEF Numbered
  <2>5. \A s \in Requests : req'[s].pc # "idle" =>
          req'[s].window \in Windows /\ req'[s].target \in Workspaces /\ req'[s].id \in 1 .. Calls'
    BY <1>0, <1>4, <1>5, <1>6 DEF Numbered
  <2>6. \A s, t \in Requests : req'[s].id = req'[t].id => s = t \/ req'[s].id = 0
    <3>1. \A s \in Requests : s # r => req'[s].id # Calls + 1
      BY <1>4, <1>5, <1>7
    <3> QED BY <1>0, <1>5, <1>6, <3>1 DEF Numbered
  <2>7. \A s \in Requests : req'[s].result # "none" => req'[s].pc = "done"
    BY <1>0, <1>5, <1>6 DEF Numbered
  <2> QED BY <2>2, <2>3, <2>4, <2>5, <2>6, <2>7 DEF Numbered
<1>9. \A i \in 1 .. Len(queue) : queue[i].kind = "switch" =>
        queue[i].who \in Requests /\ queue[i].who # r /\ req'[queue[i].who] = req[queue[i].who]
  <2>1. \A i \in 1 .. Len(queue) : queue[i].kind = "switch" => queue[i].who \in Requests
    BY <1>0, SequenceEnds, TasksAre DEF QueuedInOrder
  <2> QED BY <1>0, <1>3, <1>5, <2>1 DEF QueuedInOrder
<1>10. QueuedInOrder'
  <2>1. \A s \in Requests : req'[s].pc = "waiting" => req[s].pc = "waiting"
    BY <1>5, <1>6
  <2> QED BY <1>0, <1>1, <1>9, <2>1 DEF QueuedInOrder
<1>11. HeadAtWork' /\ JournalByStage' /\ BindingsAre'
  BY <1>0, <1>1 DEF HeadAtWork, JournalByStage, BindingsAre, IsHead
<1>12. AboutToSucceed'
  <2>1. run.stage \in {"own", "complete", "settle"} => IsHead("switch")
    BY <1>0 DEF HeadAtWork, Quiet, Early, Acting
  <2>2. IsHead("switch") => Active' = Active /\ Active \in Requests /\ Active # r
    BY <1>0, <1>1, <1>3, HeadWaits DEF Active
  <2>3. IsHead("switch") => RunWindow' = RunWindow /\ req'[Active].target = req[Active].target
    BY <1>5, <2>2 DEF RunWindow
  <2> QED BY <1>0, <1>1, <2>1, <2>2, <2>3 DEF AboutToSucceed, Bound
<1>13. LatestIsKnown'
  <2>1. \A x \in Windows : latestId[x] > 0 => \E s \in Requests : req'[s].window = x /\ req'[s].id = latestId[x]
    <3> SUFFICES ASSUME NEW x \in Windows, latestId[x] > 0
                 PROVE  \E s \in Requests : req'[s].window = x /\ req'[s].id = latestId[x]
      OBVIOUS
    <3>1. PICK s \in Requests : req[s].window = x /\ req[s].id = latestId[x]
      BY <1>0 DEF LatestIsKnown
    <3>2. s # r
      BY <1>0, <1>3, <3>1
    <3> QED BY <1>5, <3>1, <3>2
  <2>2. \A x \in Windows : intent[x] # None => /\ req'[intent[x]].window = x /\ req'[intent[x]].id = latestId[x]
                                              /\ req'[intent[x]].pc # "resolving"
    <3>1. \A x \in Windows : intent[x] # None => intent[x] \in Requests /\ intent[x] # r
      BY <1>0, <1>3 DEF LatestIsKnown, OrNone
    <3> QED BY <1>0, <1>5, <3>1 DEF LatestIsKnown
  <2>3. \A s \in Requests : req'[s].pc = "waiting" => req'[s].id <= latestId[req'[s].window]
    BY <1>0, <1>5, <1>6 DEF LatestIsKnown
  <2>4. ASSUME NEW s \in Requests, NEW t \in Requests, req'[s].pc = "waiting" \/ req'[s].result = "ok",
               req'[t].pc = "resolving", req'[t].window = req'[s].window
        PROVE  req'[s].id < req'[t].id \/ req'[t].id < latestId[req'[t].window]
    <3>1. s # r /\ req'[s] = req[s]
      BY <1>5, <1>6, <2>4
    <3>2. CASE t = r
      BY <1>4, <1>6, <1>7, <3>1, <3>2
    <3>3. CASE t # r
      BY <1>0, <1>5, <2>4, <3>1, <3>3 DEF LatestIsKnown
    <3> QED BY <3>2, <3>3
  <2> QED BY <1>0, <1>1, <2>1, <2>2, <2>3, <2>4 DEF LatestIsKnown
<1>14. SupersededIsOlder'
  <2> SUFFICES ASSUME NEW s \in Requests, req'[s].reason = "superseded" \/ req'[s].result = "superseded"
               PROVE  ~Latest(s)'
    BY DEF SupersededIsOlder
  <2>1. s # r
    BY <1>6 DEF NoneIsOnlyNone
  <2>2. PICK t \in Requests : req[t].window = req[s].window /\ ~(req[t].id <= req[s].id)
    BY <1>0, <1>5, <2>1 DEF SupersededIsOlder, Latest
  <2>3. t # r
    BY <1>3, <1>4, <1>7, <2>2
  <2> QED BY <1>5, <2>1, <2>2, <2>3 DEF Latest
<1>15. Succeeded'
  <2>1. \A s \in Requests : req'[s].result = "ok" => s # r /\ req'[s] = req[s] /\ req[s].window # None
    BY <1>0, <1>5, <1>6, <1>7 DEF Numbered
  <2>2. \A s \in Requests : s # r /\ req[s].window # None /\ Latest(s)' => Latest(s)
    <3> SUFFICES ASSUME NEW s \in Requests, s # r, req[s].window # None, Latest(s)',
                        NEW t \in Requests, req[t].window = req[s].window
                 PROVE  req[t].id <= req[s].id
      BY DEF Latest
    <3>1. t # r
      BY <1>3
    <3> QED BY <1>5, <3>1 DEF Latest
  <2>3. \A s, t \in Requests :
          req'[s].result = "ok" /\ req'[t].pc = "waiting" /\ req'[t].window = req'[s].window => req'[s].id < req'[t].id
    BY <1>0, <1>5, <1>6, <2>1 DEF Succeeded
  <2> QED BY <1>0, <1>1, <2>1, <2>2, <2>3 DEF Succeeded, Bound
<1> QED BY <1>8, <1>10, <1>11, <1>12, <1>13, <1>14, <1>15 DEF OrderInv

(* A request has its window: it gives up, or supersedes who had it.         *)
LEMMA GivesUp ==
    ASSUME NoneIsOnlyNone, OrderInv, NEW r \in Requests, req[r].pc = "resolving",
           NEW result \in {"failed", "superseded"}, req' = [req EXCEPT ![r] = Answered(@, result)],
           result = "superseded" => ~Latest(r),
           UNCHANGED <<binding, open, journal, spent, latestId, intent, queue, run>>
    PROVE  OrderInv'
<1>0. /\ Numbered /\ QueuedInOrder /\ HeadAtWork /\ JournalByStage /\ LatestIsKnown /\ SupersededIsOlder
      /\ Succeeded /\ BindingsAre /\ AboutToSucceed
  BY DEF OrderInv
<1>1. LET a == Answered(req[r], result) IN
           /\ a \in Asked /\ a.pc = "done" /\ a.result = result
           /\ a.id = req[r].id /\ a.window = req[r].window /\ a.target = req[r].target
           /\ a.reason = req[r].reason
  BY <1>0, AskedAnswers
<1>2. /\ req' \in [Requests -> Asked]
      /\ req'[r].pc = "done" /\ req'[r].result = result /\ req'[r].reason = req[r].reason
      /\ req'[r].id = req[r].id /\ req'[r].window = req[r].window /\ req'[r].target = req[r].target
      /\ \A s \in Requests : s # r => req'[s] = req[s]
  <2>1. \A s \in Requests : req'[s] = IF s = r THEN Answered(req[r], result) ELSE req[s]
    BY <1>0 DEF Numbered
  <2>2. req' \in [Requests -> Asked]
    BY <1>0, <1>1 DEF Numbered
  <2> QED BY <1>1, <2>1, <2>2
<1>3. SameCalls /\ Harmless
  BY <1>0, <1>2, Untouched DEF SameCalls
<1>4. Numbered'
  BY <1>0, <1>2, <1>3, NumbersStay DEF Numbered
<1>5. QueuedInOrder'
  <2>1. /\ \A s \in Requests : req[s].pc = "waiting" => req'[s].pc = "waiting"
        /\ \A s \in Requests : req'[s].pc = "waiting" => req[s].pc = "waiting"
    BY <1>2
  <2>2. RecoverTask \in AnyTask /\ RecoverTask.kind # "switch" /\ RecoverTask.kind # "unbind"
    BY EveryTask
  <2> QED BY <1>0, <1>3, <2>1, <2>2, QueueGrows
<1>6. HeadAtWork' /\ JournalByStage' /\ BindingsAre'
  BY <1>0 DEF HeadAtWork, JournalByStage, BindingsAre, IsHead
<1>7. AboutToSucceed'
  <2>1. run.stage \in {"own", "complete", "settle"} => IsHead("switch")
    BY <1>0 DEF HeadAtWork, Quiet, Early, Acting
  <2>2. IsHead("switch") => Active' = Active /\ Active \in Requests
    BY <1>0, HeadWaits DEF Active
  <2>3. IsHead("switch") => RunWindow' = RunWindow /\ req'[Active].target = req[Active].target
    BY <1>3, <2>2 DEF RunWindow, SameCalls
  <2> QED BY <1>0, <2>1, <2>2, <2>3 DEF AboutToSucceed, Bound
<1>8. LatestIsKnown'
  <2>1. intent' = [x \in Windows |-> intent'[x]]
    BY <1>0 DEF LatestIsKnown
  <2> QED BY <1>0, <1>2, <1>3, <2>1, LatestStaysKnown
<1>9. SupersededIsOlder'
  <2>1. \A s \in Requests : Latest(s)' <=> Latest(s)
    BY <1>3, CallsStay
  <2> QED BY <1>0, <1>2, <2>1 DEF SupersededIsOlder
<1>10. Succeeded'
  BY <1>0, <1>2, <1>3, SuccessesStay
<1> QED BY <1>4, <1>5, <1>6, <1>7, <1>8, <1>9, <1>10 DEF OrderInv

(* What a request r that takes its window from another does to them.        *)
Supersedes(r, other) ==
  /\ req' \in [Requests -> Asked]
  /\ req'[r].pc = "waiting"
  /\ \A s \in Requests : /\ s # r => req'[s].pc = req[s].pc
                         /\ req'[s].id = req[s].id /\ req'[s].window = req[s].window
                         /\ req'[s].target = req[s].target /\ req'[s].result = req[s].result
                         /\ req'[s].reason = IF s = other /\ req[s].reason = None
                                             THEN "superseded" ELSE req[s].reason
                         /\ req[s].pc = "idle" /\ s # other => req'[s] = req[s]

LEMMA SupersedesTheOther ==
    ASSUME Numbered, NEW r \in Requests, req[r].pc = "resolving", NEW other,
           req' = [CancelAll({other}, "superseded") EXCEPT ![r].pc = "waiting"]
    PROVE  Supersedes(r, other)
<1> DEFINE c == CancelAll({other}, "superseded")
<1>1. "superseded" \in {"superseded", "aborted", "timeout"}
  OBVIOUS
<1>2. /\ c \in [Requests -> Asked]
      /\ \A s \in Requests :
            /\ c[s].pc = req[s].pc /\ c[s].id = req[s].id /\ c[s].window = req[s].window /\ c[s].target = req[s].target
            /\ c[s].result = req[s].result
            /\ c[s].reason = IF s \in {other} /\ req[s].reason = None THEN "superseded" ELSE req[s].reason
  BY <1>1, AskedCancels
<1>3. \A s \in Requests : s # other => c[s] = req[s]
  BY DEF CancelAll
<1>4. req' = [c EXCEPT ![r].pc = "waiting"]
  OBVIOUS
<1> HIDE DEF c
<1>5. c[r] \in Asked
  BY <1>2
<1>6. LET q == [c[r] EXCEPT !.pc = "waiting"] IN
        /\ q \in Asked /\ q.pc = "waiting" /\ q.id = c[r].id /\ q.window = c[r].window /\ q.target = c[r].target
        /\ q.result = c[r].result /\ q.reason = c[r].reason
  BY <1>5 DEF Asked
<1>7. /\ req'[r] = [c[r] EXCEPT !.pc = "waiting"]
      /\ \A s \in Requests : s # r => req'[s] = c[s]
      /\ req' = [s \in Requests |-> req'[s]]
  BY <1>2, <1>4
<1>8. \A s \in Requests : req'[s] \in Asked
  BY <1>2, <1>6, <1>7
<1>9. req' \in [Requests -> Asked] /\ req'[r].pc = "waiting"
  BY <1>6, <1>7, <1>8
<1>10. ASSUME NEW s \in Requests
       PROVE  /\ s # r => req'[s].pc = req[s].pc
              /\ req'[s].id = req[s].id /\ req'[s].window = req[s].window
              /\ req'[s].target = req[s].target /\ req'[s].result = req[s].result
              /\ req'[s].reason = c[s].reason
              /\ req[s].pc = "idle" /\ s # other => req'[s] = req[s]
  <2>1. CASE s = r
    BY <1>2, <1>6, <1>7, <2>1
  <2>2. CASE s # r
    <3>1. req'[s] = c[s]
      BY <1>7, <2>2
    <3> QED BY <1>2, <1>3, <2>2, <3>1
  <2> QED BY <2>1, <2>2
<1>11. \A s \in Requests : c[s].reason = IF s = other /\ req[s].reason = None THEN "superseded" ELSE req[s].reason
  BY <1>2
<1> QED BY <1>9, <1>10, <1>11 DEF Supersedes

LEMMA TakesItsPlace ==
    ASSUME NoneIsOnlyNone, OrderInv, NEW r \in Requests, NEW k \in Windows, k = req[r].window,
           req[r].pc = "resolving", ~(req[r].id < latestId[k]),
           latestId' = [latestId EXCEPT ![k] = req[r].id],
           intent' = [intent EXCEPT ![k] = r],
           Supersedes(r, intent[k]),
           queue' = Append(queue, Task("switch", r)),
           UNCHANGED <<binding, open, journal, spent, run>>
    PROVE  OrderInv'
<1> DEFINE t == Task("switch", r)
<1>0. /\ Numbered /\ QueuedInOrder /\ HeadAtWork /\ JournalByStage /\ LatestIsKnown /\ SupersededIsOlder
      /\ Succeeded /\ BindingsAre /\ AboutToSucceed
      /\ t \in AnyTask /\ t.kind = "switch" /\ t.who = r
  BY EveryTask DEF OrderInv
<1>1. /\ \A s \in Requests : req[s] \in Asked /\ req[s].id \in Nat
      /\ req[r].id \in Nat /\ req[r].id > 0 /\ latestId[k] \in Nat /\ latestId[k] <= req[r].id
  BY <1>0 DEF Numbered, Asked, LatestIsKnown
<1>2. /\ req' \in [Requests -> Asked]
      /\ req'[r].pc = "waiting"
      /\ \A s \in Requests : /\ s # r => req'[s].pc = req[s].pc
                             /\ req'[s].id = req[s].id /\ req'[s].window = req[s].window
                             /\ req'[s].target = req[s].target /\ req'[s].result = req[s].result
                             /\ req'[s].reason = IF s = intent[k] /\ req[s].reason = None
                                                 THEN "superseded" ELSE req[s].reason
                             /\ req[s].pc = "idle" /\ s # intent[k] => req'[s] = req[s]
  BY DEF Supersedes
<1>3. SameCalls
  BY <1>2 DEF SameCalls
<1>4. Harmless
  BY <1>0, Untouched
<1>5. intent[k] # None => /\ intent[k] \in Requests /\ intent[k] # r /\ req[intent[k]].window = k
                          /\ req[intent[k]].id < req[r].id /\ req[intent[k]].pc # "idle"
  <2> SUFFICES ASSUME intent[k] # None
               PROVE  /\ intent[k] \in Requests /\ intent[k] # r /\ req[intent[k]].window = k
                      /\ req[intent[k]].id < req[r].id /\ req[intent[k]].pc # "idle"
    OBVIOUS
  <2>1. /\ intent[k] \in Requests /\ req[intent[k]].window = k /\ req[intent[k]].id = latestId[k]
        /\ req[intent[k]].pc # "resolving"
    BY <1>0 DEF LatestIsKnown, OrNone
  <2>2. intent[k] # r /\ req[intent[k]].id # req[r].id
    BY <1>0, <1>1, <2>1 DEF Numbered
  <2>3. req[intent[k]].pc # "idle"
    BY <1>0, <2>1, SwitchConstants DEF Numbered, NoRequest
  <2> QED BY <1>1, <2>1, <2>2, <2>3
<1>6. None \notin Requests
  BY SwitchConstants
<1>7. Numbered'
  <2>1. \A s \in Requests : req[s].pc = "idle" => req'[s] = req[s]
    BY <1>2, <1>5, <1>6
  <2>2. \A s \in Requests : req'[s].pc = "idle" => req[s].pc = "idle"
    BY <1>2
  <2>3. \A s \in Requests : req'[s].result # "none" => req'[s].pc = "done"
    BY <1>0, <1>2 DEF Numbered
  <2> QED BY <1>0, <1>2, <1>3, <2>1, <2>2, <2>3, NumbersStay
<1>8. \A s \in Requests : req[s].pc = "waiting" \/ req[s].result = "ok" =>
        (req[s].window = k => req[s].id < req[r].id)
  BY <1>0 DEF LatestIsKnown
<1>9. QueuedInOrder'
  <2>1. \A s \in Requests : req[s].pc = "waiting" => req'[s].pc = "waiting"
    BY <1>2
  <2>2. \A s \in Requests : req'[s].pc = "waiting" =>
          req[s].pc = "waiting" \/ (queue' = Append(queue, t) /\ t = Task("switch", s))
    BY <1>2
  <2>3. queue' = Append(queue, t)
    OBVIOUS
  <2> HIDE DEF t
  <2> QED BY <1>0, <1>2, <1>3, <1>8, <2>1, <2>2, <2>3, QueueGrows
<1>10. /\ queue # <<>> => queue' # <<>> /\ Head(queue') = Head(queue)
       /\ IsHead("switch") => IsHead("switch")' /\ Active' = Active /\ RunWindow' = RunWindow
       /\ IsHead("recover") => IsHead("recover")'
       /\ IsHead("unbind") => IsHead("unbind")'
  <2>1. queue # <<>> => queue' # <<>> /\ Head(queue') = Head(queue)
    BY <1>0, SequenceEnds DEF QueuedInOrder
  <2>2. IsHead("switch") => Active \in Requests
    BY <1>0, HeadWaits
  <2> QED BY <1>2, <2>1, <2>2 DEF IsHead, Active, RunWindow
<1>11. HeadAtWork' /\ JournalByStage' /\ BindingsAre'
  BY <1>0, <1>10 DEF HeadAtWork, JournalByStage, BindingsAre
<1>12. AboutToSucceed'
  <2>1. run.stage \in {"own", "complete", "settle"} => IsHead("switch")
    BY <1>0 DEF HeadAtWork, Quiet, Early, Acting
  <2>2. IsHead("switch") => req'[Active].target = req[Active].target
    BY <1>0, <1>2, HeadWaits
  <2> QED BY <1>0, <1>10, <2>1, <2>2 DEF AboutToSucceed, Bound
<1>13. LatestIsKnown'
  <2>1. /\ latestId' \in [Windows -> Nat] /\ latestId'[k] = req[r].id
        /\ \A x \in Windows : x # k => latestId'[x] = latestId[x]
        /\ intent' \in [Windows -> OrNone(Requests)] /\ intent'[k] = r
        /\ \A x \in Windows : x # k => intent'[x] = intent[x]
    BY <1>0, <1>1 DEF LatestIsKnown, OrNone
  <2>2. \A x \in Windows : latestId'[x] > 0 => \E s \in Requests : req'[s].window = x /\ req'[s].id = latestId'[x]
    <3> SUFFICES ASSUME NEW x \in Windows, latestId'[x] > 0
                 PROVE  \E s \in Requests : req'[s].window = x /\ req'[s].id = latestId'[x]
      OBVIOUS
    <3>1. CASE x = k
      <4>1. req'[r].window = x /\ req'[r].id = latestId'[x]
        BY <1>2, <2>1, <3>1
      <4> QED BY <4>1
    <3>2. CASE x # k
      <4>1. PICK s \in Requests : req[s].window = x /\ req[s].id = latestId[x]
        BY <1>0, <2>1, <3>2 DEF LatestIsKnown
      <4> QED BY <1>2, <2>1, <3>2, <4>1
    <3> QED BY <3>1, <3>2
  <2>3. ASSUME NEW x \in Windows, intent'[x] # None
        PROVE  /\ req'[intent'[x]].window = x /\ req'[intent'[x]].id = latestId'[x]
               /\ req'[intent'[x]].pc # "resolving"
    <3>1. CASE x = k
      BY <1>2, <2>1, <3>1
    <3>2. CASE x # k
      <4>1. intent[x] \in Requests /\ intent[x] # None /\ intent'[x] = intent[x] /\ latestId'[x] = latestId[x]
        BY <1>0, <2>1, <2>3, <3>2 DEF LatestIsKnown, OrNone
      <4>2. req[intent[x]].window = x /\ req[intent[x]].id = latestId[x] /\ req[intent[x]].pc # "resolving"
        BY <1>0, <4>1 DEF LatestIsKnown
      <4> QED BY <1>2, <4>1, <4>2
    <3> QED BY <3>1, <3>2
  <2>4. \A s \in Requests : req'[s].pc = "waiting" => req'[s].id <= latestId'[req'[s].window]
    <3> SUFFICES ASSUME NEW s \in Requests, req'[s].pc = "waiting"
                 PROVE  req[s].id <= latestId'[req[s].window]
      BY <1>2
    <3>1. CASE s = r
      BY <1>1, <2>1, <3>1
    <3>2. CASE s # r
      <4>1. req[s].pc = "waiting" /\ req[s].window \in Windows /\ req[s].id <= latestId[req[s].window]
        BY <1>0, <1>2, <3>2 DEF LatestIsKnown, Numbered
      <4> QED BY <1>1, <1>8, <2>1, <4>1
    <3> QED BY <3>1, <3>2
  <2>5. ASSUME NEW s \in Requests, NEW u \in Requests, req'[s].pc = "waiting" \/ req'[s].result = "ok",
               req'[u].pc = "resolving", req'[u].window = req'[s].window
        PROVE  req'[s].id < req'[u].id \/ req'[u].id < latestId'[req'[u].window]
    <3>1. u # r /\ req[u].pc = "resolving" /\ req[u].window = req[s].window /\ req[u].id # req[r].id
      BY <1>0, <1>1, <1>2, <2>5 DEF Numbered
    <3>2. CASE s = r
      BY <1>1, <1>2, <2>1, <3>1, <3>2
    <3>3. CASE s # r
      <4>1. req[s].id < req[u].id \/ req[u].id < latestId[req[u].window]
        BY <1>0, <1>2, <2>5, <3>1, <3>3 DEF LatestIsKnown
      <4>2. req[u].window \in Windows
        BY <1>0, <3>1 DEF Numbered
      <4>3. CASE req[u].window = k
        BY <1>1, <1>2, <2>1, <4>1, <4>3
      <4>4. CASE req[u].window # k
        BY <1>2, <2>1, <4>1, <4>2, <4>4
      <4> QED BY <4>3, <4>4
    <3> QED BY <3>2, <3>3
  <2> QED BY <2>1, <2>2, <2>3, <2>4, <2>5 DEF LatestIsKnown
<1>14. SupersededIsOlder'
  <2>1. \A s \in Requests : Latest(s)' <=> Latest(s)
    BY <1>3, CallsStay
  <2> SUFFICES ASSUME NEW s \in Requests, req'[s].reason = "superseded" \/ req'[s].result = "superseded"
               PROVE  ~Latest(s)
    BY <2>1 DEF SupersededIsOlder
  <2>2. CASE req[s].reason = "superseded" \/ req[s].result = "superseded"
    BY <1>0, <2>2 DEF SupersededIsOlder
  <2>3. CASE ~(req[s].reason = "superseded" \/ req[s].result = "superseded")
    <3>1. s = intent[k] /\ intent[k] # None
      BY <1>2, <1>6, <2>3
    <3> QED BY <1>0, <1>5, <3>1, OlderIsNotLatest
  <2> QED BY <2>2, <2>3
<1>15. Succeeded'
  <2>1. \A s \in Requests : Latest(s)' <=> Latest(s)
    BY <1>3, CallsStay
  <2>2. \A s, u \in Requests :
          req'[s].result = "ok" /\ req'[u].pc = "waiting" /\ req'[u].window = req'[s].window => req'[s].id < req'[u].id
    <3> SUFFICES ASSUME NEW s \in Requests, NEW u \in Requests,
                        req[s].result = "ok", req'[u].pc = "waiting", req[u].window = req[s].window
                 PROVE  req[s].id < req[u].id
      BY <1>2
    <3>1. CASE u = r
      BY <1>8, <3>1
    <3>2. CASE u # r
      BY <1>0, <1>2, <3>2 DEF Succeeded
    <3> QED BY <3>1, <3>2
  <2>3. ASSUME NEW s \in Requests, req'[s].result = "ok", Latest(s)'
        PROVE  /\ req'[s].window \in open' /\ spent'.unbind = 0 => Bound(req[s].window, req[s].target)'
               /\ journal' # None => journal'.window # req'[s].window
    <3>1. req[s].result = "ok" /\ Latest(s) /\ req'[s].window = req[s].window
      BY <1>2, <2>1, <2>3
    <3>2. req'[s].target = req[s].target
      BY <1>2
    <3> QED BY <1>0, <1>3, <1>4, <3>1, <3>2, SuccessStays DEF Bound
  <2> QED BY <1>2, <2>2, <2>3 DEF Succeeded, Bound
<1> QED BY <1>7, <1>9, <1>11, <1>12, <1>13, <1>14, <1>15 DEF OrderInv

LEMMA ResolveOrder ==
    ASSUME NoneIsOnlyNone, OrderInv, NEW r \in Requests, Resolve(r)
    PROVE  OrderInv'
<1> DEFINE k == req[r].window
<1>0. /\ Numbered /\ LatestIsKnown /\ BindingsAre /\ req[r].pc = "resolving" /\ k \in Windows /\ req[r].id \in Nat
      /\ UNCHANGED <<binding, open, journal, spent, run>>
  BY DEF OrderInv, Resolve, stored, browser, Numbered, Asked
<1>1. CASE req' = [req EXCEPT ![r] = Answered(@, "failed")] /\ UNCHANGED <<latestId, intent, queue>>
  <2>1. "failed" \in {"failed", "superseded"}
    OBVIOUS
  <2> QED BY <1>0, <1>1, <2>1, GivesUp
<1>2. CASE /\ req[r].id < latestId[k]
           /\ req' = [req EXCEPT ![r] = Answered(@, "superseded")] /\ UNCHANGED <<latestId, intent, queue>>
  <2>1. latestId[k] \in Nat /\ latestId[k] > 0
    BY <1>0, <1>2 DEF LatestIsKnown
  <2>2. PICK s \in Requests : req[s].window = k /\ req[s].id = latestId[k]
    BY <1>0, <2>1 DEF LatestIsKnown
  <2>3. ~Latest(r)
    BY <1>0, <1>2, <2>2, OlderIsNotLatest
  <2>4. "superseded" \in {"failed", "superseded"}
    OBVIOUS
  <2> QED BY <1>0, <1>2, <2>3, <2>4, GivesUp
<1>3. CASE /\ ~(req[r].id < latestId[k])
           /\ latestId' = [latestId EXCEPT ![k] = req[r].id]
           /\ intent' = [intent EXCEPT ![k] = r]
           /\ req' = [CancelAll({intent[k]}, "superseded") EXCEPT ![r].pc = "waiting"]
           /\ queue' = Append(queue, Task("switch", r))
  <2>1. Supersedes(r, intent[k])
    BY <1>0, <1>3, SupersedesTheOther
  <2> QED BY <1>0, <1>3, <2>1, TakesItsPlace
<1> QED BY <1>1, <1>2, <1>3 DEF Resolve

(* A restart: who was waiting is lost, what succeeded is as it was.         *)
LEMMA CrashOrder ==
    ASSUME NoneIsOnlyNone, OrderInv, Crash
    PROVE  OrderInv'
<1>0. /\ Numbered /\ QueuedInOrder /\ HeadAtWork /\ JournalByStage /\ LatestIsKnown /\ SupersededIsOlder
      /\ Succeeded /\ BindingsAre
  BY DEF OrderInv
<1>1. /\ UNCHANGED <<binding, open, journal>> /\ Spend("crash")
      /\ req' = [r \in Requests |-> IF req[r].pc \in {"resolving", "waiting"}
                                    THEN Answered(req[r], "lost") ELSE req[r]]
      /\ latestId' = [k \in Windows |-> 0] /\ intent' = [k \in Windows |-> None]
      /\ queue' = <<RecoverTask>> /\ run' = NoRun
  BY DEF Crash, stored, browser
<1>2. /\ req' \in [Requests -> Asked]
      /\ \A r \in Requests : /\ req'[r].id = req[r].id /\ req'[r].window = req[r].window
                             /\ req'[r].target = req[r].target /\ req'[r].reason = req[r].reason
                             /\ req'[r].pc \in {"idle", "done"}
                             /\ req[r].pc = "idle" => req'[r] = req[r]
                             /\ req'[r].pc = "idle" => req[r].pc = "idle"
                             /\ req'[r].result \in {req[r].result, "lost"}
                             /\ req'[r].result # "none" => req'[r].pc = "done"
  <2>1. ASSUME NEW r \in Requests
        PROVE  /\ req'[r] \in Asked /\ req'[r].id = req[r].id /\ req'[r].window = req[r].window
               /\ req'[r].target = req[r].target /\ req'[r].reason = req[r].reason
               /\ req'[r].pc \in {"idle", "done"}
               /\ req[r].pc = "idle" => req'[r] = req[r]
               /\ req'[r].pc = "idle" => req[r].pc = "idle"
               /\ req'[r].result \in {req[r].result, "lost"}
               /\ req'[r].result # "none" => req'[r].pc = "done"
    <3>1. "lost" \in {"ok", "failed", "superseded", "recovery_required", "lost"}
      OBVIOUS
    <3>2. LET a == Answered(req[r], "lost") IN
           /\ a \in Asked /\ a.pc = "done" /\ a.result = "lost"
           /\ a.id = req[r].id /\ a.window = req[r].window /\ a.target = req[r].target
           /\ a.reason = req[r].reason
      BY <1>0, <3>1, AskedAnswers
    <3>3. req[r] \in Asked /\ (req[r].result # "none" => req[r].pc = "done")
      BY <1>0 DEF Numbered
    <3>4. req'[r] = IF req[r].pc \in {"resolving", "waiting"} THEN Answered(req[r], "lost") ELSE req[r]
      BY <1>1
    <3>5. CASE req[r].pc \in {"resolving", "waiting"}
      BY <3>2, <3>4, <3>5
    <3>6. CASE req[r].pc \notin {"resolving", "waiting"}
      <4>1. req'[r] = req[r] /\ req[r].pc \in {"idle", "done"}
        BY <3>3, <3>4, <3>6 DEF Asked
      <4> QED BY <3>3, <4>1
    <3> QED BY <3>5, <3>6
  <2>2. req' = [r \in Requests |-> req'[r]]
    BY <1>1
  <2> QED BY <2>1, <2>2
<1>3. SameCalls
  BY <1>2 DEF SameCalls
<1>4. spent' \in [DOMAIN Limit -> Nat] /\ spent'.unbind = spent.unbind
  BY <1>0, <1>1, Spends DEF Events
<1>5. BindingsAre'
  BY <1>0, <1>1, <1>4 DEF BindingsAre
<1>6. Harmless /\ JournalGoesOn
  BY <1>1, <1>4, <1>5 DEF Harmless, SameBinding, JournalGoesOn
<1>7. Numbered'
  BY <1>0, <1>2, <1>3, NumbersStay
<1>8. QueuedInOrder'
  <2>1. queue' \in Seq(AnyTask) /\ Len(queue') = 1 /\ queue'[1] = RecoverTask /\ RecoverTask.kind = "recover"
    BY <1>1, EveryTask
  <2>2. \A i \in 1 .. Len(queue') : queue'[i].kind = "recover"
    BY <2>1
  <2>3. \A r \in Requests : req'[r].pc # "waiting"
    BY <1>2
  <2> QED BY <2>1, <2>2, <2>3 DEF QueuedInOrder
<1>9. HeadAtWork' /\ JournalByStage' /\ AboutToSucceed'
  BY <1>0, <1>1, <1>6, NothingRuns
<1>10. LatestIsKnown'
  <2>1. latestId' \in [Windows -> Nat] /\ intent' \in [Windows -> OrNone(Requests)]
    BY <1>1 DEF OrNone
  <2>2. \A k \in Windows : ~(latestId'[k] > 0) /\ intent'[k] = None
    BY <1>1
  <2>3. \A r \in Requests : req'[r].pc # "waiting" /\ req'[r].pc # "resolving"
    BY <1>2
  <2> QED BY <2>1, <2>2, <2>3 DEF LatestIsKnown
<1>11. SupersededIsOlder'
  <2>1. \A s \in Requests : Latest(s)' <=> Latest(s)
    BY <1>3, CallsStay
  <2>2. \A s \in Requests : req'[s].result = "superseded" => req[s].result = "superseded"
    BY <1>2
  <2> QED BY <1>0, <1>2, <2>1, <2>2 DEF SupersededIsOlder
<1>12. Succeeded'
  <2>1. \A r \in Requests : /\ req'[r].result = "ok" => req[r].result = "ok"
                            /\ req'[r].pc = "waiting" => req[r].pc = "waiting"
    BY <1>2
  <2> QED BY <1>0, <1>3, <1>6, <2>1, SuccessesStay
<1> QED BY <1>5, <1>7, <1>8, <1>9, <1>10, <1>11, <1>12 DEF OrderInv

LEMMA OrderedFirst ==
    ASSUME NoneIsOnlyNone, Init
    PROVE  OrderInv
<1>1. \A r \in Requests : /\ req[r] = NoRequest /\ req[r].pc = "idle" /\ req[r].id = 0 /\ req[r].window = None
                          /\ req[r].reason = None /\ req[r].result = "none"
  BY DEF Init, NoRequest
<1>2. Numbered
  <2>1. NoRequest \in Asked
    BY DEF NoRequest, Asked, OrNone
  <2>2. req \in [Requests -> Asked]
    BY <2>1 DEF Init
  <2>3. Called = {}
    BY <1>1 DEF Called
  <2>4. IsFiniteSet(Called)
    BY <2>3, FS_EmptySet
  <2> QED BY <1>1, <2>2, <2>4 DEF Numbered
<1>3. QueuedInOrder
  <2>1. queue = <<>> /\ queue \in Seq(AnyTask) /\ Len(queue) = 0
    BY EmptySeq DEF Init
  <2> QED BY <1>1, <2>1 DEF QueuedInOrder
<1>4. HeadAtWork /\ JournalByStage /\ AboutToSucceed
  <2>1. run = NoRun /\ journal = None
    BY DEF Init
  <2> QED BY <2>1 DEF HeadAtWork, JournalByStage, AboutToSucceed, NoRun, Quiet, Early, Acting, Recovering
<1>5. LatestIsKnown
  <2>1. /\ latestId \in [Windows -> Nat] /\ intent \in [Windows -> OrNone(Requests)]
        /\ \A k \in Windows : ~(latestId[k] > 0) /\ intent[k] = None
    BY DEF Init, OrNone
  <2> QED BY <1>1, <2>1 DEF LatestIsKnown
<1>6. SupersededIsOlder /\ Succeeded
  BY <1>1 DEF SupersededIsOlder, Succeeded, NoneIsOnlyNone
<1>7. BindingsAre
  <2>1. open \subseteq Windows /\ spent \in [DOMAIN Limit -> Nat]
    BY DEF Init
  <2>2. binding \in [Windows -> {None} \cup [ws : Workspaces, rev : {0}, stale : {FALSE}]]
    BY DEF Init
  <2>3. \A k \in Windows : binding[k] # None =>
          binding[k] = [ws |-> binding[k].ws, rev |-> binding[k].rev, stale |-> binding[k].stale]
    <3> SUFFICES ASSUME NEW k \in Windows, binding[k] \in [ws : Workspaces, rev : {0}, stale : {FALSE}]
                 PROVE  binding[k] = [ws |-> binding[k].ws, rev |-> binding[k].rev, stale |-> binding[k].stale]
      BY <2>2
    <3> QED OBVIOUS
  <2> QED BY <2>1, <2>2, <2>3 DEF BindingsAre
<1> QED BY <1>2, <1>3, <1>4, <1>5, <1>6, <1>7 DEF OrderInv

LEMMA OrderNext ==
    ASSUME NoneIsOnlyNone, OrderInv, [Next]_vars
    PROVE  OrderInv'
<1>0. [Step]_vars
  BY DEF Next
<1>1. CASE UNCHANGED vars
  <2>1. UNCHANGED <<run, journal, req, latestId, intent, queue, open, binding, spent>>
    BY <1>1 DEF vars, stored, browser, intents
  <2>2. BindingsAre /\ BindingsAre'
    BY <2>1 DEF OrderInv, BindingsAre
  <2> QED BY <2>1, <2>2, WorldGoesOn DEF SameBinding
<1>2. CASE SwitchStep
  BY <1>2, BeginSwitchOrder, EarlyOrder, OwnOrder, PrepareCommitSwapOrder, BindOrder, CompleteOrder, SettleOrder
     DEF SwitchStep
<1>3. CASE QueueStep
  BY <1>2, <1>3, RecoveryOrder, OtherTasksOrder DEF QueueStep
<1> QED BY <1>0, <1>1, <1>3, CallOrder, ResolveOrder, InterruptionsOrder, CrashOrder, WorldOrder DEF Step

(* Requests are answered by their order.                                    *)
LEMMA OrderImplies ==
    ASSUME OrderInv
    PROVE  RequestOrder
<1>1. LatestClickWins
  BY DEF OrderInv, Succeeded, Bound, LatestClickWins
<1>2. SupersededByLater
  BY DEF OrderInv, SupersededIsOlder, SupersededByLater
<1> QED BY <1>1, <1>2 DEF RequestOrder

(* The latest click wins, and only a later request supersedes another:      *)
(* whatever is aborted, timed out, unbound, discarded, closed, fails or is  *)
(* restarted on the way.                                                    *)
THEOREM RequestsInOrder ==
    ASSUME NoneIsOnlyNone
    PROVE  Spec => []RequestOrder
<1>1. Init => OrderInv
  BY OrderedFirst
<1>2. OrderInv /\ [Next]_vars => OrderInv'
  BY OrderNext
<1>3. OrderInv => RequestOrder
  BY OrderImplies
<1> QED BY <1>1, <1>2, <1>3, PTL DEF Spec
==============================================================================
