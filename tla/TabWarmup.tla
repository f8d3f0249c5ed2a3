----------------------------- MODULE TabWarmup -----------------------------
(***************************************************************************)
(* The warmup of one window (workspaceTabWarmup.ts).  A switch creates the *)
(* tabs of a workspace as placeholders; a persisted job then navigates     *)
(* them to their pages, follows the events of the browser, retries what    *)
(* failed, and ends when every tab has settled.  The tasks of the warmup   *)
(* run one after the other in `queue'; the browser, the user and a restart *)
(* of the worker come between any two steps.                               *)
(*                                                                         *)
(* The URL of a tab is "placeholder", its own "target", some "other" page  *)
(* or "none".  Time is what it decides: a slot becomes late, a retry due.  *)
(***************************************************************************)
EXTENDS Naturals, Sequences, FiniteSets

CONSTANTS Tabs, Workspaces, None,
          MaxSwitches,  \* switches that end with a warmup
          MaxEvents,    \* disturbances: user, browser, failures, restarts
          GuardDrops    \* a navigation is dropped only while its slot is counted

VARIABLES tab,     \* the tabs of the window as the browser knows them, or None
          bound,   \* the workspace of a binding that is not stale, or None
          job,     \* the persisted job, or None
          alarm,   \* is the alarm of the window set?
          queue,   \* tasks handed to enqueueWarmup that have not begun
          wanted,  \* what the start task in the queue was called with
          phase,   \* of the tabs that startPendingTabs is loading
          taken,   \* ghost: tabs the user has navigated since they were created
          givenUp, \* ghost: the latest job was cancelled, or its window not read
          left     \* what is left of MaxSwitches and MaxEvents

vars == <<tab, bound, job, alarm, queue, wanted, phase, taken, givenUp, left>>

Url == {"none", "placeholder", "target", "other"}
Tab == [url : Url, pending : Url, loading : BOOLEAN, discarded : BOOLEAN, active : BOOLEAN]
Job == [ws : Workspaces, targets : SUBSET Tabs, pending : SUBSET Tabs,
        inflight : SUBSET Tabs, late : SUBSET Tabs, retry : {"no", "waiting", "due"}]
Phase == {"idle", "look", "blank", "navigate", "confirm", "loaded", "failed"}

(* A job never counts a tab twice, and tabs are loaded only for slots that *)
(* are already persisted: a restart finds them in the job.                 *)
TypeOK ==
    /\ tab \in [Tabs -> Tab \cup {None}]
    /\ bound \in Workspaces \cup {None}
    /\ job \in Job \cup {None}
    /\ alarm \in BOOLEAN
    /\ queue \in Seq({"process", "start", "cancel"})
    /\ wanted \in [ws : Workspaces, tabs : SUBSET Tabs] \cup {None}
    /\ phase \in [Tabs -> Phase]
    /\ givenUp \in BOOLEAN
    /\ job # None => job.pending \cap job.inflight = {}
    /\ \A t \in Tabs : phase[t] # "idle" => job # None /\ t \in job.inflight

Init ==
    /\ tab = [t \in Tabs |-> None]
    /\ bound = None /\ job = None /\ wanted = None
    /\ alarm = FALSE
    /\ queue = <<>>
    /\ phase = [t \in Tabs |-> "idle"]
    /\ taken = {} /\ givenUp = FALSE
    /\ left = [switches |-> MaxSwitches, events |-> MaxEvents]

-----------------------------------------------------------------------------
(* What a job asks about a tab. *)

Here == {t \in Tabs : tab[t] # None}
Expected(t) == "target" \in {tab[t].url, tab[t].pending}
AtPlaceholder(t) == "placeholder" \in {tab[t].url, tab[t].pending}
Blank(t) == tab[t].url = "none" /\ tab[t].pending = "none"
NeedsLoad(t) == tab[t].discarded \/ Blank(t) \/ (AtPlaceholder(t) /\ ~Expected(t))
Unsettled(t) == AtPlaceholder(t) \/ tab[t].pending # "none" \/ tab[t].loading

KeptInflight(j) ==
    {t \in (j.inflight \cap Here) \ j.late :
        ~NeedsLoad(t) /\ tab[t].loading /\ ~tab[t].active}

Reconciled(j) ==
    LET kept == KeptInflight(j)
        waiting == (j.pending \cup {t \in j.inflight \cap Here : NeedsLoad(t)}) \ kept
    IN [j EXCEPT !.pending = {t \in waiting \cap Here : NeedsLoad(t)},
                 !.inflight = kept \cup {t \in waiting \cap Here :
                                 ~NeedsLoad(t) /\ Expected(t) /\ tab[t].loading},
                 !.late = {},
                 !.retry = IF @ = "due" THEN "no" ELSE @]

(* persistWarmupJob: the alarm is for the earliest slot or retry. *)
Persist(j) ==
    /\ job' = j
    /\ alarm' = (j.inflight # {} \/ j.retry # "no")

RemoveJob == job' = None /\ alarm' = FALSE

-----------------------------------------------------------------------------
(* The worker.  It is idle between tasks; a task begins when it is idle.   *)

Idle == \A t \in Tabs : phase[t] = "idle"

(* An event asks for one more pass; one that has not begun serves them all.*)
Asked(q) == IF q # <<>> /\ q[Len(q)] = "process" THEN q ELSE Append(q, "process")
Ask == queue' = Asked(queue)

Begin(task) == Idle /\ queue # <<>> /\ Head(queue) = task /\ queue' = Tail(queue)

Rest_Unsettled(j) == IF j.pending = {} /\ j.inflight = {} THEN RemoveJob ELSE Persist(j)

(* The job is over or has nothing to start now.  While pages load on after *)
(* their slot ran out, a retry is set to look again.                       *)
Rest(j) ==
    IF j.pending = {} /\ j.inflight = {}
    THEN IF \E t \in j.targets \cap Here : Unsettled(t)
         THEN Persist([j EXCEPT !.retry = IF @ = "no" THEN "waiting" ELSE @])
         ELSE RemoveJob
    ELSE Persist(j)

(* processWarmupJob up to the navigations.  The slots of the tabs it is    *)
(* about to navigate are persisted first.                                  *)
Process ==
    /\ Begin("process")
    /\ IF job = None
       THEN UNCHANGED <<job, alarm, phase>>
       ELSE IF bound # job.ws
       THEN RemoveJob /\ UNCHANGED phase
       ELSE LET j == Reconciled(job)
            IN IF j.retry = "no" /\ j.pending # {}
               THEN /\ Persist([j EXCEPT !.pending = {}, !.inflight = @ \cup j.pending])
                    /\ phase' = [t \in Tabs |-> IF t \in j.pending THEN "look" ELSE "idle"]
               ELSE Rest(j) /\ UNCHANGED phase
    /\ UNCHANGED <<tab, bound, wanted, taken, givenUp, left>>

Spend == left.events > 0 /\ left' = [left EXCEPT !.events = @ - 1]

(* The tabs of the window cannot be read: the job is removed.              *)
ProcessBlind ==
    /\ Spend /\ Begin("process")
    /\ job # None /\ (job # None => bound = job.ws)
    /\ RemoveJob /\ givenUp' = TRUE
    /\ UNCHANGED <<tab, bound, wanted, phase, taken>>

Step(t, from, to) == phase[t] = from /\ phase' = [phase EXCEPT ![t] = to]
Quiet == UNCHANGED <<bound, job, alarm, queue, wanted, taken, givenUp, left>>

Look_Blind(t) ==
    /\ Step(t, "look", IF t \in Here THEN "navigate" ELSE "failed")
    /\ UNCHANGED tab /\ Quiet

(* startTabLoad: look at the tab once more, decide what it needs.  A tab   *)
(* that shows a page which is neither its target nor a placeholder is the  *)
(* user's; a discarded one goes through a placeholder first.               *)
Look(t) ==
    /\ \/ t \notin Here /\ Step(t, "look", "failed")
       \/ /\ t \in Here
          /\ LET shown == Expected(t) /\ ~tab[t].discarded
                 users == ~AtPlaceholder(t) /\ ~tab[t].discarded /\ ~Blank(t)
             IN Step(t, "look", IF shown \/ users THEN "loaded"
                                ELSE IF tab[t].discarded /\ ~AtPlaceholder(t) THEN "blank"
                                ELSE "navigate")
    /\ UNCHANGED tab /\ Quiet

Heads(t, url) ==
    tab' = [tab EXCEPT ![t].pending = url, ![t].loading = TRUE, ![t].discarded = FALSE]

(* navigateToPlaceholder: to the placeholder, then wait that it is shown.  *)
ToPlaceholder(t) ==
    /\ t \in Here /\ Step(t, "blank", "navigate") /\ Quiet
    /\ tab' = [tab EXCEPT ![t].url = "placeholder", ![t].pending = "none",
                          ![t].discarded = FALSE, ![t].loading = FALSE]

(* navigateToTarget: the update, then its confirmation or the deadline.    *)
Navigate(t) ==
    /\ t \in Here /\ Step(t, "navigate", "confirm") /\ Quiet
    /\ Heads(t, "target")

Confirm(t) ==
    /\ t \in Here /\ Expected(t) /\ ~tab[t].discarded
    /\ Step(t, "confirm", "loaded")
    /\ UNCHANGED tab /\ Quiet

NotConfirmed(t) ==
    /\ \/ t \notin Here /\ \E from \in {"blank", "navigate", "confirm"} : Step(t, from, "failed")
       \/ t \in Here /\ (tab[t].discarded \/ ~Expected(t)) /\ Step(t, "confirm", "failed")
    /\ UNCHANGED tab /\ Quiet

(* A call to the browser rejects, before or after it had its effect. *)
Rejects(t) ==
    /\ Spend /\ t \in Here
    /\ \E from \in {"look", "blank", "navigate", "confirm"} : Step(t, from, "failed")
    /\ UNCHANGED <<tab, bound, job, alarm, queue, wanted, taken, givenUp>>

EndLoads_NoRetry ==
    LET loads == {t \in Tabs : phase[t] # "idle"}
        failed == {t \in loads : phase[t] = "failed"}
    IN /\ ~Idle /\ \A t \in loads : phase[t] \in {"loaded", "failed"}
       /\ phase' = [t \in Tabs |-> "idle"]
       /\ Persist([job EXCEPT !.inflight = @ \ failed])
       /\ UNCHANGED <<tab, bound, queue, wanted, taken, givenUp, left>>

(* All loads have settled: the failed ones go back to the queue, with a retry. *)
EndLoads ==
    LET loads == {t \in Tabs : phase[t] # "idle"}
        failed == {t \in loads : phase[t] = "failed"}
    IN /\ ~Idle /\ \A t \in loads : phase[t] \in {"loaded", "failed"}
       /\ phase' = [t \in Tabs |-> "idle"]
       /\ Persist([job EXCEPT !.inflight = @ \ failed, !.pending = @ \cup failed,
                              !.retry = IF failed # {} THEN "waiting" ELSE @])
       /\ UNCHANGED <<tab, bound, queue, wanted, taken, givenUp, left>>

(* startWorkspaceTabWarmup: a new job in place of the old one, then a pass. *)
Start ==
    /\ Idle /\ queue # <<>> /\ Head(queue) = "start"
    /\ job' = [ws |-> wanted.ws, targets |-> wanted.tabs, pending |-> wanted.tabs,
               inflight |-> {}, late |-> {}, retry |-> "no"]
    /\ alarm' = FALSE
    /\ queue' = <<"process">> \o Tail(queue)
    /\ wanted' = None /\ givenUp' = FALSE
    /\ UNCHANGED <<tab, bound, phase, taken, left>>

(* A switch, an abort or an unbinding cancels the warmup; the binding is    *)
(* theirs to change.  If the cancellation rejects, they go on without it   *)
(* (cancelWindowWarmupSafely).                                             *)
Cancel ==
    /\ Begin("cancel") /\ RemoveJob
    /\ givenUp' = (givenUp \/ job # None)
    /\ UNCHANGED <<tab, bound, wanted, phase, taken, left>>

CancelFails ==
    /\ Spend /\ Begin("cancel")
    /\ UNCHANGED <<tab, bound, job, alarm, wanted, phase, taken, givenUp>>

-----------------------------------------------------------------------------
(* The surroundings. *)

(* A switch ends: its tabs have been created, the window is bound, and the *)
(* start of the warmup is awaited before the journal goes.  It began with  *)
(* a cancellation (AskCancel); a job that has survived that, and a pass    *)
(* over it, know none of the new tabs: the browser gives no id twice.      *)
SwitchTo(w, T) ==
    /\ left.switches > 0 /\ left' = [left EXCEPT !.switches = @ - 1]
    /\ T # {} /\ wanted = None
    /\ job # None => T \cap job.targets = {}
    /\ tab' = [t \in Tabs |-> IF t \in T
                 THEN [url |-> "placeholder", pending |-> "none", loading |-> FALSE,
                       discarded |-> FALSE, active |-> FALSE]
                 ELSE None]
    /\ bound' = w
    /\ wanted' = [ws |-> w, tabs |-> T]
    /\ queue' = Append(queue, "start")
    /\ taken' = {}
    /\ UNCHANGED <<job, alarm, phase, givenUp>>

AskCancel ==
    /\ Spend /\ job # None
    /\ queue' = Append(queue, "cancel") /\ Len(queue) < 2
    /\ UNCHANGED <<tab, bound, job, alarm, wanted, phase, taken, givenUp>>

(* The window is unbound, or its binding becomes stale. *)
LoseBinding ==
    /\ Spend /\ bound # None /\ bound' = None
    /\ UNCHANGED <<tab, job, alarm, queue, wanted, phase, taken, givenUp>>

(* The worker stops.  A switch that still awaited the start of its warmup  *)
(* has a journal: its recovery puts the source back.                       *)
Crash ==
    /\ Spend
    /\ phase' = [t \in Tabs |-> "idle"]
    /\ queue' = <<"process">>
    /\ wanted' = None
    /\ IF wanted # None
       THEN tab' = [t \in Tabs |-> None] /\ bound' = None
       ELSE UNCHANGED <<tab, bound>>
    /\ UNCHANGED <<job, alarm, taken, givenUp>>

(* Time: a slot runs out after LOAD_TIMEOUT_MS, a retry becomes due.       *)
SlotLate ==
    /\ job # None /\ job.inflight # job.late
    /\ job' = [job EXCEPT !.late = job.inflight]
    /\ UNCHANGED <<tab, bound, alarm, queue, wanted, phase, taken, givenUp, left>>

RetryDue ==
    /\ job # None /\ job.retry = "waiting"
    /\ job' = [job EXCEPT !.retry = "due"]
    /\ UNCHANGED <<tab, bound, alarm, queue, wanted, phase, taken, givenUp, left>>

(* handleWorkspaceTabWarmupAlarm *)
Ring ==
    /\ alarm /\ job # None /\ (job.late # {} \/ job.retry = "due")
    /\ alarm' = FALSE
    /\ Ask
    /\ UNCHANGED <<tab, bound, job, wanted, phase, taken, givenUp, left>>

Surroundings == UNCHANGED <<bound, job, alarm, wanted, phase, givenUp>>

(* The browser: a navigation is committed, a page completes, a navigation  *)
(* ends without a page (a download, an empty answer), a tab is discarded.  *)
CommitPage(t) ==
    /\ t \in Here /\ tab[t].pending # "none"
    /\ tab' = [tab EXCEPT ![t].url = tab[t].pending, ![t].pending = "none"]
    /\ Ask /\ Surroundings /\ UNCHANGED <<taken, left>>

CompletePage(t) ==
    /\ t \in Here /\ tab[t].loading /\ tab[t].pending = "none"
    /\ tab' = [tab EXCEPT ![t].loading = FALSE]
    /\ Ask /\ Surroundings /\ UNCHANGED <<taken, left>>

DropPage(t) ==
    /\ Spend /\ t \in Here /\ tab[t].pending # "none"
    /\ GuardDrops => job # None /\ t \in job.inflight \ job.late
    /\ tab' = [tab EXCEPT ![t].pending = "none", ![t].loading = FALSE]
    /\ Ask /\ Surroundings /\ UNCHANGED taken

Discard(t) ==
    /\ Spend /\ t \in Here
    /\ ~tab[t].active /\ ~tab[t].loading /\ ~tab[t].discarded
    /\ tab' = [tab EXCEPT ![t].discarded = TRUE]
    /\ Ask /\ Surroundings /\ UNCHANGED taken

(* The user goes somewhere else in a tab, looks at it, closes it. *)
UserNavigate(t) ==
    /\ Spend /\ t \in Here
    /\ Heads(t, "other")
    /\ taken' = taken \cup {t}
    /\ Ask /\ Surroundings

Activate(t) ==
    /\ Spend /\ t \in Here /\ ~tab[t].active
    /\ tab' = [u \in Tabs |-> IF u \notin Here THEN None
                ELSE IF u # t THEN [tab[u] EXCEPT !.active = FALSE]
                ELSE [tab[u] EXCEPT !.active = TRUE, !.discarded = FALSE,
                                    !.loading = @ \/ tab[u].discarded]]
    /\ Ask /\ Surroundings /\ UNCHANGED taken

CloseTab(t) ==
    /\ Spend /\ t \in Here
    /\ tab' = [tab EXCEPT ![t] = None]
    /\ Ask /\ Surroundings /\ UNCHANGED taken

Load(t) == Look(t) \/ ToPlaceholder(t) \/ Navigate(t) \/ Confirm(t) \/ NotConfirmed(t)
Worker == Process \/ EndLoads \/ Start \/ Cancel \/ \E t \in Tabs : Load(t)
Time == SlotLate \/ RetryDue \/ Ring

Next ==
    \/ Worker \/ Time \/ ProcessBlind \/ CancelFails
    \/ AskCancel \/ LoseBinding \/ Crash
    \/ \E w \in Workspaces, T \in SUBSET Tabs : SwitchTo(w, T)
    \/ \E t \in Tabs :
          \/ Rejects(t) \/ CommitPage(t) \/ CompletePage(t) \/ DropPage(t)
          \/ Discard(t) \/ UserNavigate(t) \/ Activate(t) \/ CloseTab(t)

(* Callbacks run, time passes, alarms ring, and the browser ends what it   *)
(* loads.                                                                  *)
Fairness ==
    /\ WF_vars(Process \/ EndLoads \/ Start \/ Cancel)
    /\ WF_vars(SlotLate) /\ WF_vars(RetryDue) /\ WF_vars(Ring)
    /\ \A t \in Tabs : WF_vars(Load(t)) /\ WF_vars(CommitPage(t)) /\ WF_vars(CompletePage(t))

Spec == Init /\ [][Next]_vars /\ Fairness

-----------------------------------------------------------------------------
(* A tab that already shows its target, or is on its way to it, is not     *)
(* navigated again unless the browser discarded it: neither after a        *)
(* restart, nor after a late slot or a retry.  And no tab is navigated for *)
(* a workspace once the window is bound to another, although a pass, or a  *)
(* job whose cancellation failed, may be under way at that moment.         *)
LoadedOnce ==
    [][\A t \in Here : phase[t] = "navigate" /\ phase'[t] = "confirm"
          => /\ ~Expected(t) \/ tab[t].discarded
             /\ bound \in {None, job.ws}]_vars

(* When the warmup has nothing left to do and the window is still bound,   *)
(* no tab of the window is left on its placeholder; unless the job was     *)
(* given up, by a cancellation or because the window could not be read.    *)
NoneLeftBehind ==
    job = None /\ Idle /\ queue = <<>> /\ bound # None /\ ~givenUp
        => \A t \in Here : ~AtPlaceholder(t)

(* A warmup ends: until it does, the workspace cannot be deleted and the   *)
(* window is not saved.                                                    *)
WarmupEnds == []<>(job = None)

(* The code leaves a tab alone that the user has taken over                *)
(* (workspaceTabWarmup.ts:312).                                            *)
TakenOverStays ==
    [][\A t \in taken : ~(phase[t] = "look" /\ phase'[t] = "navigate")]_vars
=============================================================================
