------------------------- MODULE MCServices_proofs -------------------------
(***************************************************************************)
(* What the services keep, for every number of tabs, connections, hosts,   *)
(* clients, pages, runs and workspaces.  A step is one of a component and  *)
(* leaves the others alone, so that each component's own invariant is kept *)
(* by the steps of all of them.                                            *)
(***************************************************************************)
EXTENDS MCServices, SequenceTheorems, TLAPS

----------------------------------------------------------------------------
(* Tab warmup.                                                              *)
WarmupTasks == {"process", "start", "cancel"}
Wanted == [ws : Workspaces, tabs : SUBSET LoadingTabs]

(* No tab, job, switch or workspace is taken for none at all.               *)
WarmupNone ==
    /\ None \notin Warmup!Tab /\ None \notin Warmup!Job
    /\ None \notin Wanted /\ None \notin Workspaces

(* A tab never goes to a placeholder again, it loads while it goes          *)
(* somewhere, and not while it is discarded.                                *)
Shaped(b) ==
    /\ b.pending # "placeholder"
    /\ b.pending # "none" => b.loading
    /\ b.discarded => ~b.loading

Shows(b, url) == url \in {b.url, b.pending}

TabsAreShaped == \A t \in Warmup!Here : Shaped(warmupTab[t])

(* A tab that is about to be navigated neither shows its target nor goes to *)
(* it.                                                                      *)
NavigatesToNew ==
    \A t \in Warmup!Here : warmupPhase[t] = "navigate" => ~Shows(warmupTab[t], "target")

(* A start is among the tasks, and then once, if and only if a switch waits *)
(* for it.                                                                  *)
Starts(q) == {i \in 1..Len(q) : q[i] = "start"}
OneStart(q, w) ==
    /\ \A i, j \in Starts(q) : i = j
    /\ w # None <=> Starts(q) # {}
StartIsAsked == OneStart(warmupQueue, warmupWanted)

(* A job is of the workspace that is bound, and covers every tab; unless a  *)
(* switch that waits for its start has replaced them all.                   *)
JobCovers ==
    /\ warmupJob # None =>
         /\ warmupJob.pending \subseteq warmupJob.targets
         /\ warmupJob.inflight \subseteq warmupJob.targets
         /\ warmupWanted = None =>
               warmupBound \in {None, warmupJob.ws} /\ Warmup!Here \subseteq warmupJob.targets
         /\ warmupWanted # None => Warmup!Here \cap warmupJob.targets = {}
    /\ warmupWanted # None =>
         warmupBound \in {None, warmupWanted.ws} /\ Warmup!Here \subseteq warmupWanted.tabs

(* Without a job to come, no tab is at its placeholder, unless the job was  *)
(* given up.                                                                *)
SettledAreLoaded ==
    warmupJob = None /\ warmupWanted = None /\ warmupBound # None /\ ~warmupGivenUp
      => \A t \in Warmup!Here : ~Shows(warmupTab[t], "placeholder")

WarmupInv ==
    /\ Warmup!TypeOK /\ TabsAreShaped /\ NavigatesToNew
    /\ StartIsAsked /\ JobCovers /\ SettledAreLoaded

(* What the tasks are after an event has asked for one more pass.           *)
LEMMA AskedQueue ==
    ASSUME NEW q \in Seq(WarmupTasks), NEW w, OneStart(q, w), NEW task \in WarmupTasks \ {"start"}
    PROVE  /\ Append(q, task) \in Seq(WarmupTasks) /\ OneStart(Append(q, task), w)
           /\ Warmup!Asked(q) \in Seq(WarmupTasks) /\ OneStart(Warmup!Asked(q), w)
<1>1. ASSUME NEW a \in WarmupTasks \ {"start"}
      PROVE  Append(q, a) \in Seq(WarmupTasks) /\ OneStart(Append(q, a), w)
  <2>1. /\ Append(q, a) \in Seq(WarmupTasks) /\ Len(Append(q, a)) = Len(q) + 1
        /\ \A i \in 1..Len(q) : Append(q, a)[i] = q[i]
        /\ Append(q, a)[Len(q) + 1] = a
    BY <1>1, AppendProperties
  <2>2. Starts(Append(q, a)) = Starts(q)
    <3>1. Len(q) \in Nat
      OBVIOUS
    <3> QED BY <1>1, <2>1, <3>1 DEF Starts
  <2> QED BY <2>1, <2>2 DEF OneStart
<1>2. "process" \in WarmupTasks \ {"start"}
  BY DEF WarmupTasks
<1> QED BY <1>1, <1>2 DEF Warmup!Asked

(* What the tasks are when one of them begins.                              *)
LEMMA BegunQueue ==
    ASSUME NEW q \in Seq(WarmupTasks), NEW w, OneStart(q, w), q # <<>>
    PROVE  /\ Tail(q) \in Seq(WarmupTasks)
           /\ Head(q) # "start" => OneStart(Tail(q), w)
           /\ Head(q) = "start" => w # None /\ OneStart(Tail(q), None)
<1>1. /\ Tail(q) \in Seq(WarmupTasks) /\ Len(Tail(q)) = Len(q) - 1
      /\ \A i \in 1..Len(Tail(q)) : Tail(q)[i] = q[i + 1]
      /\ Head(q) = q[1] /\ Len(q) \in Nat /\ Len(q) > 0
  BY HeadTailProperties
<1>2. \A i \in Starts(Tail(q)) : i \in Nat /\ i > 0 /\ i + 1 \in Starts(q)
  BY <1>1 DEF Starts
<1>3. \A i, j \in Starts(Tail(q)) : i = j
  BY <1>2 DEF OneStart
<1>4. CASE Head(q) = "start"
  <2>1. 1 \in Starts(q)
    BY <1>1, <1>4 DEF Starts
  <2> QED BY <1>1, <1>2, <1>3, <1>4, <2>1 DEF OneStart
<1>5. CASE Head(q) # "start"
  <2>1. \A i \in Starts(q) : i - 1 \in Starts(Tail(q))
    BY <1>1, <1>5 DEF Starts
  <2> QED BY <1>1, <1>2, <1>3, <1>5, <2>1 DEF OneStart
<1> QED BY <1>4, <1>5

(* One tab changes and its load goes on; an event may ask for a pass.       *)
LEMMA TabMoves ==
    ASSUME WarmupNone, WarmupInv, NEW t \in LoadingTabs, NEW b \in Warmup!Tab \cup {None},
           NEW at \in Warmup!Phase,
           warmupTab' = [warmupTab EXCEPT ![t] = b],
           warmupPhase' = [warmupPhase EXCEPT ![t] = at],
           at = "idle" <=> warmupPhase[t] = "idle",
           warmupQueue' \in {warmupQueue, Warmup!Asked(warmupQueue)},
           UNCHANGED <<warmupBound, warmupJob, warmupAlarm, warmupWanted, warmupGivenUp>>,
           b # None => /\ t \in Warmup!Here /\ Shaped(b)
                       /\ Shows(b, "placeholder") => Shows(warmupTab[t], "placeholder") \/ at # "idle"
                       /\ at = "navigate" => ~Shows(b, "target")
    PROVE  WarmupInv'
<1>1. /\ warmupTab \in [LoadingTabs -> Warmup!Tab \cup {None}]
      /\ warmupPhase \in [LoadingTabs -> Warmup!Phase]
      /\ warmupQueue \in Seq(WarmupTasks)
  BY DEF WarmupInv, Warmup!TypeOK, WarmupTasks
<1>2. warmupQueue' \in Seq(WarmupTasks) /\ OneStart(warmupQueue', warmupWanted)
  <2>1. "process" \in WarmupTasks \ {"start"} /\ OneStart(warmupQueue, warmupWanted)
    BY DEF WarmupTasks, WarmupInv, StartIsAsked
  <2> QED BY <1>1, <2>1, AskedQueue
<1>3. \A u \in LoadingTabs : /\ warmupTab'[u] = IF u = t THEN b ELSE warmupTab[u]
                             /\ warmupPhase'[u] = IF u = t THEN at ELSE warmupPhase[u]
  BY <1>1
<1>4. Warmup!Here' \subseteq Warmup!Here /\ (Warmup!Idle => Warmup!Idle')
  BY <1>3 DEF Warmup!Here, Warmup!Idle
<1>5. Warmup!TypeOK'
  BY <1>1, <1>2, <1>3 DEF WarmupInv, Warmup!TypeOK, WarmupTasks
<1>6. TabsAreShaped' /\ NavigatesToNew'
  BY <1>3, <1>4 DEF WarmupInv, TabsAreShaped, NavigatesToNew, Warmup!Here
<1>7. StartIsAsked' /\ JobCovers'
  BY <1>2, <1>4 DEF WarmupInv, StartIsAsked, JobCovers
<1>8. SettledAreLoaded'
  <2>1. at # "idle" => warmupJob # None
    BY DEF WarmupInv, Warmup!TypeOK
  <2> QED BY <1>3, <1>4, <2>1 DEF WarmupInv, SettledAreLoaded, Warmup!Here
<1> QED BY <1>5, <1>6, <1>7, <1>8 DEF WarmupInv

LEMMA TabFacts ==
    ASSUME WarmupNone, WarmupInv, NEW t \in LoadingTabs
    PROVE  /\ warmupTab \in [LoadingTabs -> Warmup!Tab \cup {None}]
           /\ warmupPhase \in [LoadingTabs -> Warmup!Phase] /\ warmupPhase[t] \in Warmup!Phase
           /\ warmupPhase = [warmupPhase EXCEPT ![t] = warmupPhase[t]]
           /\ warmupTab = [warmupTab EXCEPT ![t] = warmupTab[t]]
           /\ t \in Warmup!Here => /\ warmupTab[t] \in Warmup!Tab /\ Shaped(warmupTab[t])
                                   /\ warmupPhase[t] = "navigate" => ~Shows(warmupTab[t], "target")
BY DEF WarmupInv, Warmup!TypeOK, Warmup!Here, TabsAreShaped, NavigatesToNew

(* The worker's load of one tab.                                            *)
LEMMA LoadSteps ==
    ASSUME WarmupNone, WarmupInv, NEW t \in LoadingTabs, Warmup!Load(t) \/ Warmup!Rejects(t)
    PROVE  WarmupInv'
<1>1. /\ warmupTab \in [LoadingTabs -> Warmup!Tab \cup {None}]
      /\ warmupTab = [warmupTab EXCEPT ![t] = warmupTab[t]]
      /\ warmupTab[t] \in Warmup!Tab \cup {None}
      /\ warmupTab[t] # None => t \in Warmup!Here /\ Shaped(warmupTab[t])
      /\ t \in Warmup!Here => warmupTab[t] \in Warmup!Tab /\ Shaped(warmupTab[t])
  BY TabFacts DEF Warmup!Here
<1>2. UNCHANGED <<warmupBound, warmupJob, warmupAlarm, warmupQueue, warmupWanted, warmupGivenUp>>
  BY DEF Warmup!Load, Warmup!Look, Warmup!ToPlaceholder, Warmup!Navigate, Warmup!Confirm, Warmup!NotConfirmed,
         Warmup!Quiet, Warmup!Rejects
<1>3. ASSUME NEW from \in Warmup!Phase \ {"idle"}, NEW at \in Warmup!Phase \ {"idle"}, Warmup!Step(t, from, at),
             UNCHANGED warmupTab, at = "navigate" /\ t \in Warmup!Here => ~Shows(warmupTab[t], "target")
      PROVE  WarmupInv'
  BY <1>1, <1>2, <1>3, TabMoves DEF Warmup!Step
<1>4. CASE Warmup!Look(t)
  <2>1. CASE t \notin Warmup!Here
    BY <1>3, <1>4, <2>1 DEF Warmup!Look, Warmup!Phase
  <2>2. CASE t \in Warmup!Here
    <3> DEFINE shown == Warmup!Expected(t) /\ ~warmupTab[t].discarded
               users == ~Warmup!AtPlaceholder(t) /\ ~warmupTab[t].discarded /\ ~Warmup!Blank(t)
               at == IF shown \/ users THEN "loaded"
                     ELSE IF warmupTab[t].discarded /\ ~Warmup!AtPlaceholder(t) THEN "blank" ELSE "navigate"
    <3>1. Warmup!Step(t, "look", at) /\ UNCHANGED warmupTab
      BY <1>4, <2>2 DEF Warmup!Look
    <3>2. at \in Warmup!Phase \ {"idle"} /\ "look" \in Warmup!Phase \ {"idle"}
      BY DEF Warmup!Phase
    <3>3. at = "navigate" => ~Shows(warmupTab[t], "target")
      BY <1>1, <2>2 DEF Warmup!Expected, Warmup!AtPlaceholder, Shows, Shaped, Warmup!Tab
    <3> HIDE DEF at
    <3> QED BY <1>3, <3>1, <3>2, <3>3
  <2> QED BY <2>1, <2>2
<1>5. CASE Warmup!Confirm(t) \/ Warmup!NotConfirmed(t) \/ Warmup!Rejects(t)
  BY <1>3, <1>5 DEF Warmup!Confirm, Warmup!NotConfirmed, Warmup!Rejects, Warmup!Phase
<1>6. CASE Warmup!ToPlaceholder(t)
  <2> DEFINE b == [warmupTab[t] EXCEPT !.url = "placeholder", !.pending = "none", !.discarded = FALSE, !.loading = FALSE]
  <2>1. t \in Warmup!Here /\ Warmup!Step(t, "blank", "navigate") /\ warmupTab' = [warmupTab EXCEPT ![t] = b]
    BY <1>6 DEF Warmup!ToPlaceholder
  <2>2. b \in Warmup!Tab /\ Shaped(b) /\ ~Shows(b, "target")
    BY <1>1, <2>1 DEF Warmup!Tab, Warmup!Url, Shaped, Shows
  <2>3. "navigate" \in Warmup!Phase
    BY DEF Warmup!Phase
  <2> HIDE DEF b
  <2> QED BY <1>2, <2>1, <2>2, <2>3, TabMoves DEF Warmup!Step
<1>7. CASE Warmup!Navigate(t)
  <2> DEFINE b == [warmupTab[t] EXCEPT !.pending = "target", !.loading = TRUE, !.discarded = FALSE]
  <2>1. t \in Warmup!Here /\ Warmup!Step(t, "navigate", "confirm") /\ warmupTab' = [warmupTab EXCEPT ![t] = b]
    BY <1>7 DEF Warmup!Navigate, Warmup!Heads
  <2>2. b \in Warmup!Tab /\ Shaped(b)
    BY <1>1, <2>1 DEF Warmup!Tab, Warmup!Url, Shaped
  <2>3. "confirm" \in Warmup!Phase
    BY DEF Warmup!Phase
  <2> HIDE DEF b
  <2> QED BY <1>2, <2>1, <2>2, <2>3, TabMoves DEF Warmup!Step
<1> QED BY <1>4, <1>5, <1>6, <1>7 DEF Warmup!Load

(* What the browser and the user do with one tab.                           *)
LEMMA TabEvents ==
    ASSUME WarmupNone, WarmupInv, NEW t \in LoadingTabs,
           \/ Warmup!CommitPage(t) \/ Warmup!CompletePage(t) \/ Warmup!DropPage(t)
           \/ Warmup!Discard(t) \/ Warmup!UserNavigate(t) \/ Warmup!CloseTab(t)
    PROVE  WarmupInv'
<1>1. /\ warmupPhase[t] \in Warmup!Phase
      /\ warmupPhase = [warmupPhase EXCEPT ![t] = warmupPhase[t]]
      /\ t \in Warmup!Here /\ warmupTab[t] \in Warmup!Tab /\ Shaped(warmupTab[t])
      /\ warmupPhase[t] = "navigate" => ~Shows(warmupTab[t], "target")
  BY TabFacts DEF Warmup!CommitPage, Warmup!CompletePage, Warmup!DropPage, Warmup!Discard, Warmup!UserNavigate, Warmup!CloseTab
<1>2. UNCHANGED <<warmupBound, warmupJob, warmupAlarm, warmupWanted, warmupPhase, warmupGivenUp>>
      /\ warmupQueue' = Warmup!Asked(warmupQueue)
  BY DEF Warmup!CommitPage, Warmup!CompletePage, Warmup!DropPage, Warmup!Discard, Warmup!UserNavigate, Warmup!CloseTab,
         Warmup!Ask, Warmup!Surroundings
<1>3. ASSUME NEW b \in Warmup!Tab, warmupTab' = [warmupTab EXCEPT ![t] = b], Shaped(b),
             Shows(b, "placeholder") => Shows(warmupTab[t], "placeholder"),
             Shows(b, "target") => Shows(warmupTab[t], "target")
      PROVE  WarmupInv'
  BY <1>1, <1>2, <1>3, TabMoves
<1>4. CASE Warmup!CommitPage(t)
  <2> DEFINE b == [warmupTab[t] EXCEPT !.url = warmupTab[t].pending, !.pending = "none"]
  <2>1. warmupTab' = [warmupTab EXCEPT ![t] = b] /\ warmupTab[t].pending # "none"
    BY <1>4 DEF Warmup!CommitPage
  <2>2. b \in Warmup!Tab /\ b.url = warmupTab[t].pending /\ b.pending = "none"
        /\ b.loading = warmupTab[t].loading /\ b.discarded = warmupTab[t].discarded
    BY <1>1 DEF Warmup!Tab, Warmup!Url
  <2> HIDE DEF b
  <2> QED BY <1>1, <1>3, <2>1, <2>2 DEF Shaped, Shows
<1>5. CASE Warmup!CompletePage(t)
  <2> DEFINE b == [warmupTab[t] EXCEPT !.loading = FALSE]
  <2>1. warmupTab' = [warmupTab EXCEPT ![t] = b] /\ warmupTab[t].pending = "none"
    BY <1>5 DEF Warmup!CompletePage
  <2>2. b \in Warmup!Tab /\ b.url = warmupTab[t].url /\ b.pending = warmupTab[t].pending /\ ~b.loading
    BY <1>1 DEF Warmup!Tab
  <2> HIDE DEF b
  <2> QED BY <1>1, <1>3, <2>1, <2>2 DEF Shaped, Shows
<1>6. CASE Warmup!DropPage(t)
  <2> DEFINE b == [warmupTab[t] EXCEPT !.pending = "none", !.loading = FALSE]
  <2>1. warmupTab' = [warmupTab EXCEPT ![t] = b]
    BY <1>6 DEF Warmup!DropPage
  <2>2. b \in Warmup!Tab /\ b.url = warmupTab[t].url /\ b.pending = "none" /\ ~b.loading
    BY <1>1 DEF Warmup!Tab, Warmup!Url
  <2> HIDE DEF b
  <2> QED BY <1>1, <1>3, <2>1, <2>2 DEF Shaped, Shows
<1>7. CASE Warmup!Discard(t)
  <2> DEFINE b == [warmupTab[t] EXCEPT !.discarded = TRUE]
  <2>1. warmupTab' = [warmupTab EXCEPT ![t] = b] /\ ~warmupTab[t].loading
    BY <1>7 DEF Warmup!Discard
  <2>2. b \in Warmup!Tab /\ b.url = warmupTab[t].url /\ b.pending = warmupTab[t].pending
        /\ b.loading = warmupTab[t].loading
    BY <1>1 DEF Warmup!Tab
  <2> HIDE DEF b
  <2> QED BY <1>1, <1>3, <2>1, <2>2 DEF Shaped, Shows
<1>8. CASE Warmup!UserNavigate(t)
  <2> DEFINE b == [warmupTab[t] EXCEPT !.pending = "other", !.loading = TRUE, !.discarded = FALSE]
  <2>1. warmupTab' = [warmupTab EXCEPT ![t] = b]
    BY <1>8 DEF Warmup!UserNavigate, Warmup!Heads
  <2>2. b \in Warmup!Tab /\ b.url = warmupTab[t].url /\ b.pending = "other" /\ b.loading /\ ~b.discarded
    BY <1>1 DEF Warmup!Tab, Warmup!Url
  <2> HIDE DEF b
  <2> QED BY <1>1, <1>3, <2>1, <2>2 DEF Shaped, Shows
<1>9. CASE Warmup!CloseTab(t)
  BY <1>1, <1>2, <1>9, TabMoves DEF Warmup!CloseTab
<1> QED BY <1>4, <1>5, <1>6, <1>7, <1>8, <1>9

(* The user looks at one tab, and at no other any more.                     *)
LEMMA ActivateStep ==
    ASSUME WarmupNone, WarmupInv, NEW t \in LoadingTabs, Warmup!Activate(t)
    PROVE  WarmupInv'
<1>1. /\ warmupTab \in [LoadingTabs -> Warmup!Tab \cup {None}]
      /\ warmupQueue \in Seq(WarmupTasks)
      /\ \A u \in Warmup!Here : warmupTab[u] \in Warmup!Tab /\ Shaped(warmupTab[u])
  BY DEF WarmupInv, Warmup!TypeOK, Warmup!Here, TabsAreShaped, WarmupTasks
<1>2. UNCHANGED <<warmupBound, warmupJob, warmupAlarm, warmupWanted, warmupPhase, warmupGivenUp>>
      /\ warmupQueue' = Warmup!Asked(warmupQueue)
  BY DEF Warmup!Activate, Warmup!Ask, Warmup!Surroundings
<1>3. \A u \in LoadingTabs \ Warmup!Here : warmupTab'[u] = None
  BY DEF Warmup!Activate
<1>4. ASSUME NEW u \in Warmup!Here
      PROVE  /\ warmupTab'[u] \in Warmup!Tab /\ Shaped(warmupTab'[u])
             /\ warmupTab'[u].url = warmupTab[u].url /\ warmupTab'[u].pending = warmupTab[u].pending
  <2>1. warmupTab'[u] = IF u # t THEN [warmupTab[u] EXCEPT !.active = FALSE]
                        ELSE [warmupTab[u] EXCEPT !.active = TRUE, !.discarded = FALSE,
                                                  !.loading = @ \/ warmupTab[u].discarded]
    BY DEF Warmup!Activate, Warmup!Here
  <2>2. warmupTab[u] \in Warmup!Tab /\ Shaped(warmupTab[u])
    BY <1>1
  <2>3. CASE u # t
    <3>1. warmupTab'[u] = [warmupTab[u] EXCEPT !.active = FALSE]
      BY <2>1, <2>3
    <3> QED BY <2>2, <3>1 DEF Warmup!Tab, Shaped
  <2>4. CASE u = t
    <3> DEFINE l == warmupTab[u].loading \/ warmupTab[u].discarded
    <3>1. l \in BOOLEAN /\ (warmupTab[u].loading => l)
      OBVIOUS
    <3>2. warmupTab'[u] = [warmupTab[u] EXCEPT !.active = TRUE, !.discarded = FALSE, !.loading = l]
      BY <2>1, <2>4
    <3> HIDE DEF l
    <3> QED BY <2>2, <3>1, <3>2 DEF Warmup!Tab, Shaped
  <2> QED BY <2>3, <2>4
<1>5. warmupTab' \in [LoadingTabs -> Warmup!Tab \cup {None}] /\ Warmup!Here' = Warmup!Here
  <2>1. \E f : warmupTab' = [u \in LoadingTabs |-> f[u]]
    <3>1. DOMAIN warmupTab' = LoadingTabs /\ warmupTab' = [u \in DOMAIN warmupTab' |-> warmupTab'[u]]
      BY DEF Warmup!Activate
    <3> QED BY <3>1
  <2>2. \A u \in LoadingTabs : warmupTab'[u] \in Warmup!Tab \cup {None}
    BY <1>3, <1>4 DEF Warmup!Here
  <2>3. Warmup!Here' = Warmup!Here
    BY <1>3, <1>4 DEF Warmup!Here, WarmupNone
  <2> QED BY <2>1, <2>2, <2>3
<1>6. warmupQueue' \in Seq(WarmupTasks) /\ OneStart(warmupQueue', warmupWanted)
  <2>1. "process" \in WarmupTasks \ {"start"} /\ OneStart(warmupQueue, warmupWanted)
    BY DEF WarmupTasks, WarmupInv, StartIsAsked
  <2> QED BY <1>1, <1>2, <2>1, AskedQueue
<1>7. Warmup!TypeOK'
  BY <1>2, <1>5, <1>6 DEF WarmupInv, Warmup!TypeOK, WarmupTasks
<1>8. TabsAreShaped' /\ NavigatesToNew' /\ SettledAreLoaded'
  BY <1>2, <1>4, <1>5 DEF WarmupInv, TabsAreShaped, NavigatesToNew, SettledAreLoaded, Shows
<1>9. StartIsAsked' /\ JobCovers'
  BY <1>2, <1>5, <1>6 DEF WarmupInv, StartIsAsked, JobCovers
<1> QED BY <1>7, <1>8, <1>9 DEF WarmupInv

(* The job goes on, for the same workspace and tabs.                        *)
LEMMA JobGoesOn ==
    ASSUME WarmupNone, WarmupInv, NEW j \in Warmup!Job,
           warmupJob # None, j.ws = warmupJob.ws, j.targets = warmupJob.targets,
           warmupJob' = j, j.pending \cap j.inflight = {},
           j.pending \subseteq j.targets, j.inflight \subseteq j.targets,
           UNCHANGED <<warmupTab, warmupBound, warmupWanted, warmupGivenUp>>, warmupAlarm' \in BOOLEAN,
           warmupPhase' \in [LoadingTabs -> Warmup!Phase],
           \A t \in LoadingTabs : /\ warmupPhase'[t] # "idle" => t \in j.inflight
                                  /\ warmupPhase'[t] = "navigate" => warmupPhase[t] = "navigate",
           warmupQueue' \in Seq(WarmupTasks), OneStart(warmupQueue', warmupWanted)
    PROVE  WarmupInv'
<1>1. warmupJob' # None
  BY DEF WarmupNone
<1>2. Warmup!TypeOK'
  BY <1>1 DEF WarmupInv, Warmup!TypeOK, WarmupTasks
<1>3. TabsAreShaped' /\ NavigatesToNew' /\ JobCovers' /\ SettledAreLoaded'
  BY <1>1 DEF WarmupInv, TabsAreShaped, NavigatesToNew, JobCovers, SettledAreLoaded, Warmup!Here
<1>4. StartIsAsked'
  BY DEF StartIsAsked
<1> QED BY <1>2, <1>3, <1>4 DEF WarmupInv

(* There is no job after the step: one is still to come, or has been given  *)
(* up, or the window is unbound, or its tabs are loaded.                    *)
LEMMA NoJobGoesOn ==
    ASSUME WarmupNone, WarmupInv, warmupJob' = None,
           UNCHANGED <<warmupTab, warmupBound, warmupWanted>>, warmupAlarm' \in BOOLEAN,
           warmupGivenUp' \in BOOLEAN,
           \A t \in LoadingTabs : warmupPhase'[t] = "idle",
           warmupPhase' \in [LoadingTabs -> Warmup!Phase],
           warmupQueue' \in Seq(WarmupTasks), OneStart(warmupQueue', warmupWanted),
           warmupWanted = None /\ warmupBound # None /\ ~warmupGivenUp'
             => \A t \in Warmup!Here : ~Shows(warmupTab[t], "placeholder")
    PROVE  WarmupInv'
<1>1. Warmup!TypeOK'
  BY DEF WarmupInv, Warmup!TypeOK, WarmupTasks
<1>2. TabsAreShaped' /\ NavigatesToNew' /\ JobCovers' /\ SettledAreLoaded'
  BY DEF WarmupInv, TabsAreShaped, NavigatesToNew, JobCovers, SettledAreLoaded, Warmup!Here
<1>3. StartIsAsked'
  BY DEF StartIsAsked
<1> QED BY <1>1, <1>2, <1>3 DEF WarmupInv

(* The tasks that wait, and those left when one of them begins.             *)
LEMMA QueueFacts ==
    ASSUME WarmupInv
    PROVE  /\ warmupQueue \in Seq(WarmupTasks) /\ OneStart(warmupQueue, warmupWanted)
           /\ warmupGivenUp \in BOOLEAN
           /\ warmupQueue # <<>> =>
                /\ Tail(warmupQueue) \in Seq(WarmupTasks)
                /\ Head(warmupQueue) # "start" => OneStart(Tail(warmupQueue), warmupWanted)
                /\ Head(warmupQueue) = "start" => warmupWanted # None /\ OneStart(Tail(warmupQueue), None)
<1>1. warmupQueue \in Seq(WarmupTasks) /\ OneStart(warmupQueue, warmupWanted) /\ warmupGivenUp \in BOOLEAN
  BY DEF WarmupInv, Warmup!TypeOK, WarmupTasks, StartIsAsked
<1> QED BY <1>1, BegunQueue

(* Time, the surroundings and the end of the loads.                         *)
LEMMA TimeSteps ==
    ASSUME WarmupNone, WarmupInv,
           Warmup!SlotLate \/ Warmup!RetryDue \/ Warmup!Ring \/ Warmup!AskCancel \/ Warmup!EndLoads
    PROVE  WarmupInv'
<1>1. /\ warmupJob \in Warmup!Job \cup {None} /\ warmupAlarm \in BOOLEAN
      /\ warmupPhase \in [LoadingTabs -> Warmup!Phase]
      /\ warmupJob # None => warmupJob.pending \cap warmupJob.inflight = {}
      /\ \A t \in LoadingTabs : warmupPhase[t] # "idle" => warmupJob # None /\ t \in warmupJob.inflight
  BY DEF WarmupInv, Warmup!TypeOK
<1>2. /\ warmupQueue \in Seq(WarmupTasks) /\ OneStart(warmupQueue, warmupWanted)
      /\ "process" \in WarmupTasks \ {"start"} /\ "cancel" \in WarmupTasks \ {"start"}
      /\ warmupJob # None => /\ warmupJob.pending \subseteq warmupJob.targets
                             /\ warmupJob.inflight \subseteq warmupJob.targets
  BY QueueFacts DEF WarmupTasks, WarmupInv, JobCovers
<1>3. CASE Warmup!SlotLate
  <2> DEFINE j == [warmupJob EXCEPT !.late = warmupJob.inflight]
  <2>1. warmupJob # None /\ warmupJob' = j
        /\ UNCHANGED <<warmupTab, warmupBound, warmupAlarm, warmupQueue, warmupWanted, warmupPhase, warmupGivenUp>>
    BY <1>3 DEF Warmup!SlotLate
  <2>2. /\ j \in Warmup!Job /\ j.ws = warmupJob.ws /\ j.targets = warmupJob.targets
        /\ j.pending = warmupJob.pending /\ j.inflight = warmupJob.inflight
    BY <1>1, <2>1 DEF Warmup!Job
  <2> HIDE DEF j
  <2> QED BY <1>1, <1>2, <2>1, <2>2, JobGoesOn
<1>4. CASE Warmup!RetryDue
  <2> DEFINE j == [warmupJob EXCEPT !.retry = "due"]
  <2>1. warmupJob # None /\ warmupJob' = j
        /\ UNCHANGED <<warmupTab, warmupBound, warmupAlarm, warmupQueue, warmupWanted, warmupPhase, warmupGivenUp>>
    BY <1>4 DEF Warmup!RetryDue
  <2>2. /\ j \in Warmup!Job /\ j.ws = warmupJob.ws /\ j.targets = warmupJob.targets
        /\ j.pending = warmupJob.pending /\ j.inflight = warmupJob.inflight
    BY <1>1, <2>1 DEF Warmup!Job
  <2> HIDE DEF j
  <2> QED BY <1>1, <1>2, <2>1, <2>2, JobGoesOn
<1>5. CASE Warmup!Ring
  <2>1. /\ warmupJob # None /\ warmupAlarm' = FALSE /\ warmupQueue' = Warmup!Asked(warmupQueue)
        /\ UNCHANGED <<warmupTab, warmupBound, warmupJob, warmupWanted, warmupPhase, warmupGivenUp>>
    BY <1>5 DEF Warmup!Ring, Warmup!Ask
  <2>2. warmupQueue' \in Seq(WarmupTasks) /\ OneStart(warmupQueue', warmupWanted)
    BY <1>2, <2>1, AskedQueue
  <2> QED BY <1>1, <1>2, <2>1, <2>2, JobGoesOn
<1>6. CASE Warmup!AskCancel
  <2>1. /\ warmupJob # None /\ warmupQueue' = Append(warmupQueue, "cancel")
        /\ UNCHANGED <<warmupTab, warmupBound, warmupJob, warmupAlarm, warmupWanted, warmupPhase, warmupGivenUp>>
    BY <1>6 DEF Warmup!AskCancel
  <2>2. warmupQueue' \in Seq(WarmupTasks) /\ OneStart(warmupQueue', warmupWanted)
    BY <1>2, <2>1, AskedQueue
  <2> QED BY <1>1, <1>2, <2>1, <2>2, JobGoesOn
<1>7. CASE Warmup!EndLoads
  <2> DEFINE failed == {t \in {u \in LoadingTabs : warmupPhase[u] # "idle"} : warmupPhase[t] = "failed"}
             retry == IF failed # {} THEN "waiting" ELSE warmupJob.retry
             j == [warmupJob EXCEPT !.inflight = warmupJob.inflight \ failed,
                                    !.pending = warmupJob.pending \cup failed, !.retry = retry]
  <2>1. warmupJob # None /\ warmupJob \in Warmup!Job
    BY <1>1, <1>7 DEF Warmup!EndLoads, Warmup!Idle
  <2>2. /\ warmupJob' = j /\ warmupAlarm' \in BOOLEAN /\ warmupPhase' = [t \in LoadingTabs |-> "idle"]
        /\ UNCHANGED <<warmupTab, warmupBound, warmupQueue, warmupWanted, warmupGivenUp>>
    BY <1>7 DEF Warmup!EndLoads, Warmup!Persist
  <2>3. retry \in {"no", "waiting", "due"} /\ failed \subseteq LoadingTabs
    BY <2>1 DEF Warmup!Job
  <2>4. /\ j \in Warmup!Job /\ j.ws = warmupJob.ws /\ j.targets = warmupJob.targets
        /\ j.pending = warmupJob.pending \cup failed /\ j.inflight = warmupJob.inflight \ failed
    <3> HIDE DEF retry, failed
    <3> QED BY <2>1, <2>3 DEF Warmup!Job
  <2>5. /\ j.pending \cap j.inflight = {}
        /\ j.pending \subseteq j.targets /\ j.inflight \subseteq j.targets
    <3>1. \A t \in failed : t \in warmupJob.inflight
      BY <1>1
    <3> HIDE DEF failed, j
    <3> QED BY <1>1, <1>2, <2>1, <2>4, <3>1
  <2>6. "idle" \in Warmup!Phase
    BY DEF Warmup!Phase
  <2> HIDE DEF j
  <2> QED BY <1>2, <2>1, <2>2, <2>4, <2>5, <2>6, JobGoesOn
<1> QED BY <1>3, <1>4, <1>5, <1>6, <1>7

(* What a pass makes of the job: tabs wait to be loaded or load.            *)
LEMMA ReconciledJob ==
    ASSUME warmupJob \in Warmup!Job,
           warmupJob.pending \subseteq warmupJob.targets, warmupJob.inflight \subseteq warmupJob.targets
    PROVE  LET j == Warmup!Reconciled(warmupJob)
           IN  /\ j \in Warmup!Job /\ j.ws = warmupJob.ws /\ j.targets = warmupJob.targets
               /\ j.pending \cap j.inflight = {}
               /\ j.pending \subseteq j.targets /\ j.inflight \subseteq j.targets
<1> DEFINE kept == Warmup!KeptInflight(warmupJob)
           waiting == (warmupJob.pending \cup {t \in warmupJob.inflight \cap Warmup!Here : Warmup!NeedsLoad(t)}) \ kept
           p == {t \in waiting \cap Warmup!Here : Warmup!NeedsLoad(t)}
           i == kept \cup {t \in waiting \cap Warmup!Here :
                             ~Warmup!NeedsLoad(t) /\ Warmup!Expected(t) /\ warmupTab[t].loading}
           r == IF warmupJob.retry = "due" THEN "no" ELSE warmupJob.retry
<1>1. Warmup!Reconciled(warmupJob) = [warmupJob EXCEPT !.pending = p, !.inflight = i, !.late = {}, !.retry = r]
  BY DEF Warmup!Reconciled
<1>2. /\ p \in SUBSET LoadingTabs /\ i \in SUBSET LoadingTabs /\ p \cap i = {}
      /\ p \subseteq warmupJob.targets /\ i \subseteq warmupJob.targets
  BY DEF Warmup!KeptInflight, Warmup!Here
<1>3. r \in {"no", "waiting", "due"}
  BY DEF Warmup!Job
<1> HIDE DEF p, i, r
<1> QED BY <1>1, <1>2, <1>3 DEF Warmup!Job

LEMMA ProcessStep ==
    ASSUME WarmupNone, WarmupInv, Warmup!Process \/ Warmup!ProcessBlind
    PROVE  WarmupInv'
<1>1. /\ warmupJob \in Warmup!Job \cup {None} /\ warmupAlarm \in BOOLEAN
      /\ warmupPhase \in [LoadingTabs -> Warmup!Phase]
  BY DEF WarmupInv, Warmup!TypeOK
<1>2. /\ Warmup!Idle /\ warmupQueue # <<>> /\ Head(warmupQueue) = "process" /\ warmupQueue' = Tail(warmupQueue)
      /\ UNCHANGED <<warmupTab, warmupBound, warmupWanted>>
  BY DEF Warmup!Process, Warmup!ProcessBlind, Warmup!Begin
<1>3. /\ warmupGivenUp \in BOOLEAN
      /\ warmupQueue' \in Seq(WarmupTasks) /\ OneStart(warmupQueue', warmupWanted)
  BY <1>2, QueueFacts
<1>4. CASE Warmup!ProcessBlind
  BY <1>1, <1>2, <1>3, <1>4, NoJobGoesOn DEF Warmup!ProcessBlind, Warmup!RemoveJob, Warmup!Idle
<1>5. CASE Warmup!Process /\ warmupJob = None
  BY <1>1, <1>2, <1>3, <1>5, NoJobGoesOn DEF Warmup!Process, Warmup!Idle, WarmupInv, SettledAreLoaded
<1>6. CASE Warmup!Process /\ warmupJob # None /\ warmupBound # warmupJob.ws
  <2>1. warmupWanted = None => warmupBound = None
    BY <1>6 DEF WarmupInv, JobCovers
  <2>2. /\ Warmup!RemoveJob /\ UNCHANGED <<warmupPhase, warmupGivenUp>>
    BY <1>6 DEF Warmup!Process
  <2> QED BY <1>1, <1>2, <1>3, <2>1, <2>2, NoJobGoesOn DEF Warmup!RemoveJob, Warmup!Idle
<1>7. CASE Warmup!Process /\ warmupJob # None /\ warmupBound = warmupJob.ws
  <2> DEFINE j == Warmup!Reconciled(warmupJob)
  <2>1. /\ warmupJob \in Warmup!Job
        /\ warmupJob.pending \subseteq warmupJob.targets /\ warmupJob.inflight \subseteq warmupJob.targets
    BY <1>1, <1>7 DEF WarmupInv, JobCovers
  <2>2. /\ j \in Warmup!Job /\ j.ws = warmupJob.ws /\ j.targets = warmupJob.targets
        /\ j.pending \cap j.inflight = {} /\ j.pending \subseteq j.targets /\ j.inflight \subseteq j.targets
    BY <2>1, ReconciledJob
  <2>3. /\ IF j.retry = "no" /\ j.pending # {}
           THEN /\ Warmup!Persist([j EXCEPT !.pending = {}, !.inflight = j.inflight \cup j.pending])
                /\ warmupPhase' = [t \in LoadingTabs |-> IF t \in j.pending THEN "look" ELSE "idle"]
           ELSE Warmup!Rest(j) /\ UNCHANGED warmupPhase
        /\ UNCHANGED warmupGivenUp
    BY <1>7 DEF Warmup!Process
  <2> HIDE DEF j
  <2>4. ASSUME NEW k \in Warmup!Job, Warmup!Persist(k), k.ws = j.ws, k.targets = j.targets, k.pending \cap k.inflight = {},
               k.pending \subseteq k.targets, k.inflight \subseteq k.targets,
               warmupPhase' \in [LoadingTabs -> Warmup!Phase],
               \A t \in LoadingTabs : /\ warmupPhase'[t] # "idle" => t \in k.inflight
                                      /\ warmupPhase'[t] # "navigate"
        PROVE  WarmupInv'
    <3>1. warmupJob' = k /\ warmupAlarm' \in BOOLEAN
      BY <2>4 DEF Warmup!Persist
    <3> QED BY <1>2, <1>3, <1>7, <2>2, <2>3, <2>4, <3>1, JobGoesOn
  <2>5. CASE j.retry = "no" /\ j.pending # {}
    <3> DEFINE k == [j EXCEPT !.pending = {}, !.inflight = j.inflight \cup j.pending]
    <3>1. Warmup!Persist(k) /\ warmupPhase' = [t \in LoadingTabs |-> IF t \in j.pending THEN "look" ELSE "idle"]
      BY <2>3, <2>5
    <3>2. /\ k \in Warmup!Job /\ k.ws = j.ws /\ k.targets = j.targets /\ k.pending = {}
          /\ k.inflight = j.inflight \cup j.pending
      BY <2>2 DEF Warmup!Job
    <3> HIDE DEF k
    <3>3. warmupPhase' \in [LoadingTabs -> Warmup!Phase]
      BY <3>1 DEF Warmup!Phase
    <3>4. k.pending \cap k.inflight = {} /\ k.pending \subseteq k.targets /\ k.inflight \subseteq k.targets
          /\ \A t \in LoadingTabs : /\ warmupPhase'[t] # "idle" => t \in k.inflight
                                    /\ warmupPhase'[t] # "navigate"
      BY <2>2, <3>1, <3>2
    <3> QED BY <2>4, <3>1, <3>2, <3>3, <3>4
  <2>6. CASE ~(j.retry = "no" /\ j.pending # {})
    <3>1. Warmup!Rest(j) /\ UNCHANGED warmupPhase
      BY <2>3, <2>6
    <3>2. warmupPhase' \in [LoadingTabs -> Warmup!Phase] /\ \A t \in LoadingTabs : warmupPhase'[t] = "idle"
      BY <1>1, <1>2, <3>1 DEF Warmup!Idle
    <3>3. CASE Warmup!Persist(j)
      BY <2>2, <2>4, <3>2, <3>3
    <3>4. CASE j.pending = {} /\ j.inflight = {} /\ \E t \in j.targets \cap Warmup!Here : Warmup!Unsettled(t)
      <4> DEFINE r == IF j.retry = "no" THEN "waiting" ELSE j.retry
                 k == [j EXCEPT !.retry = r]
      <4>1. Warmup!Persist(k)
        BY <3>1, <3>4 DEF Warmup!Rest
      <4>2. r \in {"no", "waiting", "due"}
        BY <2>2 DEF Warmup!Job
      <4> HIDE DEF r
      <4>3. k \in Warmup!Job /\ k.ws = j.ws /\ k.targets = j.targets /\ k.pending = {} /\ k.inflight = {}
        BY <2>2, <3>4, <4>2 DEF Warmup!Job
      <4> HIDE DEF k
      <4> QED BY <2>4, <3>2, <4>1, <4>3
    <3>5. CASE Warmup!RemoveJob /\ ~\E t \in j.targets \cap Warmup!Here : Warmup!Unsettled(t)
      <4>1. warmupWanted = None => \A t \in Warmup!Here : ~Shows(warmupTab[t], "placeholder")
        BY <1>7, <2>2, <3>5 DEF WarmupInv, JobCovers, Warmup!Unsettled, Warmup!AtPlaceholder, Shows
      <4> QED BY <1>2, <1>3, <2>3, <3>2, <3>5, <4>1, NoJobGoesOn DEF Warmup!RemoveJob
    <3> QED BY <3>1, <3>3, <3>4, <3>5 DEF Warmup!Rest
  <2> QED BY <2>5, <2>6
<1> QED BY <1>4, <1>5, <1>6, <1>7

(* A start replaces the job, a cancellation ends it.                        *)
LEMMA TaskSteps ==
    ASSUME WarmupNone, WarmupInv, Warmup!Start \/ Warmup!Cancel \/ Warmup!CancelFails
    PROVE  WarmupInv'
<1>1. /\ Warmup!Idle /\ warmupQueue # <<>> /\ UNCHANGED <<warmupTab, warmupBound, warmupPhase>>
      /\ Tail(warmupQueue) \in Seq(WarmupTasks) /\ warmupGivenUp \in BOOLEAN
      /\ warmupPhase \in [LoadingTabs -> Warmup!Phase]
  BY QueueFacts DEF Warmup!Start, Warmup!Cancel, Warmup!CancelFails, Warmup!Begin, WarmupInv, Warmup!TypeOK
<1>2. CASE Warmup!Cancel
  <2>1. /\ Warmup!RemoveJob /\ warmupQueue' = Tail(warmupQueue) /\ UNCHANGED warmupWanted
        /\ OneStart(warmupQueue', warmupWanted) /\ \A t \in LoadingTabs : warmupPhase'[t] = "idle"
    BY <1>1, <1>2, QueueFacts DEF Warmup!Cancel, Warmup!Begin, Warmup!Idle
  <2>2. CASE warmupJob = None
    <3>1. warmupGivenUp' = warmupGivenUp
      BY <1>1, <1>2, <2>2 DEF Warmup!Cancel
    <3>2. warmupWanted = None /\ warmupBound # None /\ ~warmupGivenUp'
             => \A t \in Warmup!Here : ~Shows(warmupTab[t], "placeholder")
      BY <2>2, <3>1 DEF WarmupInv, SettledAreLoaded
    <3> QED BY <1>1, <2>1, <3>1, <3>2, NoJobGoesOn DEF Warmup!RemoveJob
  <2>3. CASE warmupJob # None
    <3>1. warmupGivenUp' = TRUE
      BY <1>1, <1>2, <2>3 DEF Warmup!Cancel
    <3> QED BY <1>1, <2>1, <3>1, NoJobGoesOn DEF Warmup!RemoveJob
  <2> QED BY <2>2, <2>3
<1>3. CASE Warmup!CancelFails
  <2>1. /\ warmupQueue' = Tail(warmupQueue) /\ UNCHANGED <<warmupJob, warmupAlarm, warmupWanted, warmupGivenUp>>
        /\ OneStart(warmupQueue', warmupWanted)
    BY <1>3, QueueFacts DEF Warmup!CancelFails, Warmup!Begin
  <2>2. Warmup!TypeOK' /\ StartIsAsked'
    BY <1>1, <2>1 DEF WarmupInv, Warmup!TypeOK, WarmupTasks, StartIsAsked
  <2>3. TabsAreShaped' /\ NavigatesToNew' /\ JobCovers' /\ SettledAreLoaded'
    BY <1>1, <2>1 DEF WarmupInv, TabsAreShaped, NavigatesToNew, JobCovers, SettledAreLoaded, Warmup!Here
  <2> QED BY <2>2, <2>3 DEF WarmupInv
<1>4. CASE Warmup!Start
  <2>1. /\ warmupWanted \in Wanted /\ warmupWanted # None /\ OneStart(Tail(warmupQueue), None)
        /\ warmupBound \in {None, warmupWanted.ws} /\ Warmup!Here \subseteq warmupWanted.tabs
    BY <1>4, QueueFacts DEF Warmup!Start, WarmupInv, Warmup!TypeOK, Wanted, JobCovers
  <2> DEFINE j == [ws |-> warmupWanted.ws, targets |-> warmupWanted.tabs, pending |-> warmupWanted.tabs,
                   inflight |-> {}, late |-> {}, retry |-> "no"]
  <2>2. /\ j \in Warmup!Job /\ j.ws = warmupWanted.ws /\ j.targets = warmupWanted.tabs
        /\ j.pending = warmupWanted.tabs /\ j.inflight = {}
    BY <2>1 DEF Wanted, Warmup!Job
  <2>3. /\ warmupJob' = j /\ warmupAlarm' = FALSE /\ warmupQueue' = <<"process">> \o Tail(warmupQueue)
        /\ warmupWanted' = None /\ warmupGivenUp' = FALSE /\ UNCHANGED warmupBound
    BY <1>4 DEF Warmup!Start
  <2> HIDE DEF j
  <2>4. warmupQueue' \in Seq(WarmupTasks) /\ OneStart(warmupQueue', None)
    <3> DEFINE one == <<"process">>
               rest == Tail(warmupQueue)
    <3>1. one \in Seq(WarmupTasks) /\ Len(one) = 1 /\ one[1] = "process" /\ rest \in Seq(WarmupTasks)
      BY <1>1 DEF WarmupTasks
    <3>2. warmupQueue' = one \o rest
      BY <2>3
    <3> HIDE DEF one, rest
    <3>3. /\ one \o rest \in Seq(WarmupTasks) /\ Len(one \o rest) = Len(one) + Len(rest)
          /\ \A i \in 1 .. Len(one) + Len(rest) : (one \o rest)[i] = IF i <= Len(one) THEN one[i] ELSE rest[i - Len(one)]
      BY <3>1, ConcatProperties
    <3>4. Starts(rest) = {}
      BY <2>1 DEF OneStart, rest
    <3>5. Starts(one \o rest) = {}
      <4> SUFFICES ASSUME NEW i \in 1 .. 1 + Len(rest), (one \o rest)[i] = "start" PROVE FALSE
        BY <3>1, <3>3 DEF Starts
      <4>1. Len(rest) \in Nat
        BY <3>1
      <4>2. CASE i = 1
        BY <3>1, <3>3, <4>1, <4>2
      <4>3. CASE i # 1
        <5>1. i - 1 \in 1..Len(rest) /\ rest[i - 1] = "start"
          BY <3>1, <3>3, <4>1, <4>3
        <5> QED BY <3>4, <5>1 DEF Starts
      <4> QED BY <4>2, <4>3
    <3> QED BY <3>2, <3>3, <3>5 DEF OneStart
  <2>5. Warmup!TypeOK'
    BY <1>1, <2>1, <2>2, <2>3, <2>4 DEF WarmupInv, Warmup!TypeOK, Warmup!Idle, WarmupTasks
  <2>6. TabsAreShaped' /\ NavigatesToNew'
    BY <1>1 DEF WarmupInv, TabsAreShaped, NavigatesToNew, Warmup!Here
  <2>7. StartIsAsked' /\ JobCovers' /\ SettledAreLoaded'
    BY <1>1, <2>1, <2>2, <2>3, <2>4 DEF StartIsAsked, JobCovers, SettledAreLoaded, Warmup!Here, WarmupNone
  <2> QED BY <2>5, <2>6, <2>7 DEF WarmupInv
<1> QED BY <1>2, <1>3, <1>4

(* A switch ends, its warmup still to be started.                           *)
LEMMA SwitchToStep ==
    ASSUME WarmupNone, WarmupInv, NEW w \in Workspaces, NEW T \in SUBSET LoadingTabs, Warmup!SwitchTo(w, T)
    PROVE  WarmupInv'
<1> DEFINE b == [url |-> "placeholder", pending |-> "none", loading |-> FALSE, discarded |-> FALSE, active |-> FALSE]
<1>1. b \in Warmup!Tab /\ Shaped(b) /\ ~Shows(b, "target")
  BY DEF Warmup!Tab, Warmup!Url, Shaped, Shows
<1>2. /\ warmupWanted = None /\ (warmupJob # None => T \cap warmupJob.targets = {})
      /\ warmupTab' = [t \in LoadingTabs |-> IF t \in T THEN b ELSE None]
      /\ warmupBound' = w /\ warmupWanted' = [ws |-> w, tabs |-> T] /\ warmupQueue' = Append(warmupQueue, "start")
      /\ UNCHANGED <<warmupJob, warmupAlarm, warmupPhase, warmupGivenUp>>
  BY DEF Warmup!SwitchTo
<1> HIDE DEF b
<1>3. /\ warmupWanted' \in Wanted /\ warmupWanted' # None
      /\ warmupWanted'.ws = w /\ warmupWanted'.tabs = T
  BY <1>2 DEF Wanted, WarmupNone
<1>4. Warmup!Here' \subseteq T /\ \A t \in Warmup!Here' : warmupTab'[t] = b
  BY <1>2 DEF Warmup!Here
<1>5. warmupQueue' \in Seq(WarmupTasks) /\ OneStart(warmupQueue', warmupWanted')
  <2>1. warmupQueue \in Seq(WarmupTasks) /\ Starts(warmupQueue) = {} /\ "start" \in WarmupTasks
    BY <1>2, QueueFacts DEF OneStart, WarmupTasks
  <2>2. /\ warmupQueue' \in Seq(WarmupTasks) /\ Len(warmupQueue') = Len(warmupQueue) + 1
        /\ \A i \in 1..Len(warmupQueue) : warmupQueue'[i] = warmupQueue[i]
        /\ warmupQueue'[Len(warmupQueue) + 1] = "start" /\ Len(warmupQueue) \in Nat
    BY <1>2, <2>1, AppendProperties
  <2>3. \A i \in 1..Len(warmupQueue) : warmupQueue[i] # "start"
    BY <2>1 DEF Starts
  <2>4. Starts(warmupQueue') = {Len(warmupQueue) + 1}
    BY <2>2, <2>3 DEF Starts
  <2> QED BY <1>3, <2>2, <2>4 DEF OneStart
<1>6. Warmup!TypeOK'
  BY <1>1, <1>2, <1>3, <1>5 DEF WarmupInv, Warmup!TypeOK, WarmupTasks, Wanted
<1>7. TabsAreShaped' /\ NavigatesToNew'
  BY <1>1, <1>4 DEF TabsAreShaped, NavigatesToNew
<1>8. StartIsAsked' /\ SettledAreLoaded'
  BY <1>3, <1>5 DEF StartIsAsked, SettledAreLoaded
<1>9. JobCovers'
  BY <1>2, <1>3, <1>4 DEF WarmupInv, JobCovers
<1> QED BY <1>6, <1>7, <1>8, <1>9 DEF WarmupInv

(* The binding is lost, or the worker stops.                                *)
LEMMA LossSteps ==
    ASSUME WarmupNone, WarmupInv, Warmup!LoseBinding \/ Warmup!Crash
    PROVE  WarmupInv'
<1>1. CASE Warmup!LoseBinding
  <2>1. /\ warmupBound' = None
        /\ UNCHANGED <<warmupTab, warmupJob, warmupAlarm, warmupQueue, warmupWanted, warmupPhase, warmupGivenUp>>
    BY <1>1 DEF Warmup!LoseBinding
  <2>2. Warmup!TypeOK' /\ TabsAreShaped' /\ NavigatesToNew'
    BY <2>1 DEF WarmupInv, Warmup!TypeOK, TabsAreShaped, NavigatesToNew, Warmup!Here
  <2>3. StartIsAsked' /\ JobCovers' /\ SettledAreLoaded'
    BY <2>1 DEF WarmupInv, StartIsAsked, JobCovers, SettledAreLoaded, Warmup!Here
  <2> QED BY <2>2, <2>3 DEF WarmupInv
<1>2. CASE Warmup!Crash
  <2>1. /\ warmupPhase' = [t \in LoadingTabs |-> "idle"] /\ warmupQueue' = <<"process">> /\ warmupWanted' = None
        /\ UNCHANGED <<warmupJob, warmupAlarm, warmupGivenUp>>
    BY <1>2 DEF Warmup!Crash
  <2>2. warmupPhase' \in [LoadingTabs -> Warmup!Phase] /\ \A t \in LoadingTabs : warmupPhase'[t] = "idle"
    BY <2>1 DEF Warmup!Phase
  <2>3. warmupQueue' \in Seq(WarmupTasks) /\ StartIsAsked'
    BY <2>1 DEF WarmupTasks, StartIsAsked, OneStart, Starts
  <2>4. CASE warmupWanted = None
    <3>1. UNCHANGED <<warmupTab, warmupBound>> /\ UNCHANGED warmupWanted
      BY <1>2, <2>1, <2>4 DEF Warmup!Crash
    <3>2. Warmup!TypeOK'
      BY <2>1, <2>2, <2>3, <3>1 DEF WarmupInv, Warmup!TypeOK, WarmupTasks
    <3>3. TabsAreShaped' /\ NavigatesToNew'
      BY <2>2, <3>1 DEF WarmupInv, TabsAreShaped, NavigatesToNew, Warmup!Here
    <3>4. JobCovers' /\ SettledAreLoaded'
      BY <2>1, <2>4, <3>1 DEF WarmupInv, JobCovers, SettledAreLoaded, Warmup!Here
    <3> QED BY <2>3, <3>2, <3>3, <3>4 DEF WarmupInv
  <2>5. CASE warmupWanted # None
    <3>1. warmupTab' = [t \in LoadingTabs |-> None] /\ warmupBound' = None
      BY <1>2, <2>5 DEF Warmup!Crash
    <3>2. Warmup!TypeOK'
      BY <2>1, <2>2, <2>3, <3>1 DEF WarmupInv, Warmup!TypeOK, WarmupTasks
    <3>3. Warmup!Here' = {}
      BY <3>1 DEF Warmup!Here
    <3>4. TabsAreShaped' /\ NavigatesToNew' /\ JobCovers' /\ SettledAreLoaded'
      BY <2>1, <3>1, <3>3 DEF WarmupInv, TabsAreShaped, NavigatesToNew, JobCovers, SettledAreLoaded
    <3> QED BY <2>3, <3>2, <3>4 DEF WarmupInv
  <2> QED BY <2>4, <2>5
<1> QED BY <1>1, <1>2

LEMMA WarmupStarts == Warmup!Init => WarmupInv
<1> SUFFICES ASSUME Warmup!Init PROVE WarmupInv
  OBVIOUS
<1>1. warmupQueue \in Seq(WarmupTasks) /\ Len(warmupQueue) = 0
  BY DEF Warmup!Init
<1>2. Warmup!TypeOK
  BY <1>1 DEF Warmup!Init, Warmup!TypeOK, WarmupTasks, Warmup!Phase
<1>3. TabsAreShaped /\ NavigatesToNew /\ StartIsAsked /\ JobCovers /\ SettledAreLoaded
  BY <1>1 DEF Warmup!Init, TabsAreShaped, NavigatesToNew, StartIsAsked, OneStart, Starts, JobCovers, SettledAreLoaded,
              Warmup!Here
<1> QED BY <1>2, <1>3 DEF WarmupInv

LEMMA WarmupHolds == WarmupNone /\ WarmupInv /\ (Warmup!Next \/ UNCHANGED warmupVars) => WarmupInv'
<1> SUFFICES ASSUME WarmupNone, WarmupInv, Warmup!Next \/ UNCHANGED warmupVars PROVE WarmupInv'
  OBVIOUS
<1>1. CASE UNCHANGED warmupVars
  BY <1>1 DEF warmupVars, WarmupInv, Warmup!TypeOK, TabsAreShaped, NavigatesToNew, StartIsAsked, JobCovers,
              SettledAreLoaded, Warmup!Here, Warmup!Idle
<1>2. CASE Warmup!Worker \/ Warmup!Time
  BY <1>2, ProcessStep, TimeSteps, TaskSteps, LoadSteps DEF Warmup!Worker, Warmup!Time
<1>3. CASE Warmup!ProcessBlind \/ Warmup!CancelFails \/ Warmup!AskCancel \/ Warmup!LoseBinding \/ Warmup!Crash
  BY <1>3, ProcessStep, TaskSteps, TimeSteps, LossSteps
<1>4. ASSUME NEW w \in Workspaces, NEW T \in SUBSET LoadingTabs, Warmup!SwitchTo(w, T) PROVE WarmupInv'
  BY <1>4, SwitchToStep
<1>5. ASSUME NEW t \in LoadingTabs,
             \/ Warmup!Rejects(t) \/ Warmup!CommitPage(t) \/ Warmup!CompletePage(t) \/ Warmup!DropPage(t)
             \/ Warmup!Discard(t) \/ Warmup!UserNavigate(t) \/ Warmup!Activate(t) \/ Warmup!CloseTab(t)
      PROVE  WarmupInv'
  BY <1>5, LoadSteps, TabEvents, ActivateStep
<1> QED BY <1>1, <1>2, <1>3, <1>4, <1>5 DEF Warmup!Next

(* What the invariant says of the tabs that are left and of those that are  *)
(* loaded.                                                                  *)
LEMMA WarmupLeavesNobody == WarmupInv => Warmup!TypeOK /\ Warmup!NoneLeftBehind
<1> SUFFICES ASSUME WarmupInv, warmupJob = None, warmupQueue = <<>>, warmupBound # None, ~warmupGivenUp
             PROVE  \A t \in Warmup!Here : ~Warmup!AtPlaceholder(t)
  BY DEF WarmupInv, Warmup!NoneLeftBehind
<1>1. warmupWanted = None
  BY DEF WarmupInv, StartIsAsked, OneStart, Starts
<1> QED BY <1>1 DEF WarmupInv, SettledAreLoaded, Warmup!AtPlaceholder, Shows

LEMMA WarmupLoadsOnce ==
    ASSUME WarmupInv, NEW t \in Warmup!Here, warmupPhase[t] = "navigate"
    PROVE  ~Warmup!Expected(t) /\ warmupBound \in {None, warmupJob.ws}
<1>1. ~Warmup!Expected(t)
  BY DEF WarmupInv, NavigatesToNew, Warmup!Expected, Shows
<1>2. warmupJob # None /\ t \in warmupJob.inflight
  BY DEF WarmupInv, Warmup!TypeOK, Warmup!Here
<1>3. warmupWanted = None
  BY <1>2 DEF WarmupInv, JobCovers
<1> QED BY <1>1, <1>2, <1>3 DEF WarmupInv, JobCovers

----------------------------------------------------------------------------
(* The agent channel in the worker.                                         *)

(* What the controller holds goes together; in addition to its types, a    *)
(* controller that is off holds nothing.                                    *)
Sound(c) ==
    /\ c \in Control!Ctl
    /\ c.status \in {"connecting", "connected"} => c.port # None /\ c.enabled
    /\ c.status = "disabled" => c.port = None /\ ~c.enabled
    /\ c.timer <=> c.status = "connecting"
    /\ ~c.enabled => c.port = None /\ c.active = {}

Asked == {q \in [Requests -> [conn : Conns \cup {None}, at : Control!Served]] :
             \A r \in Requests : q[r].at \in {"waiting", "checked"} => q[r].conn \in Conns}

(* The active requests wait for their answer, and the port held is theirs.  *)
Owed(c, q) ==
    \A r \in c.active : /\ q[r].at \in {"waiting", "checked"}
                        /\ c.port # None => q[r].conn = c.port

ControlInv ==
    /\ controlSetting \in BOOLEAN /\ controlPermission \in BOOLEAN /\ controlRevoked \in BOOLEAN
    /\ controlPage \in {"idle", "granted", "off"}
    /\ controlHeard \in Seq(BOOLEAN) /\ controlSync \in BOOLEAN \cup {None}
    /\ controlStartup \in {"begin", "off", "on", "sync", "done"}
    /\ controlHosts \subseteq Conns /\ controlAsked \in Asked /\ controlLine \in Seq(Requests)
    /\ Sound(controlCtl) /\ Owed(controlCtl, controlAsked)

LEMMA ControlTypes == ControlInv => Control!TypeOK
BY DEF ControlInv, Control!TypeOK, Asked, Sound, Owed

LEMMA ControlStarts == Control!Init => ControlInv
<1> SUFFICES ASSUME Control!Init PROVE ControlInv
  OBVIOUS
<1>1. Sound(Control!Off)
  BY DEF Sound, Control!Off, Control!Ctl, Control!Status
<1>2. controlAsked \in Asked
  BY DEF Control!Init, Asked, Control!Served
<1>3. controlHeard \in Seq(BOOLEAN) /\ controlLine \in Seq(Requests)
  <2>1. controlHeard = <<>> /\ controlLine = <<>>
    BY DEF Control!Init
  <2>2. \A S : <<>> \in Seq(S)
    OBVIOUS
  <2> QED BY <2>1, <2>2
<1>4. Sound(controlCtl) /\ Owed(controlCtl, controlAsked)
  BY <1>1 DEF Control!Init, Owed, Control!Off
<1> QED BY <1>2, <1>3, <1>4 DEF ControlInv, Control!Init

LEMMA UnavailableIsSound ==
    ASSUME NEW c \in Control!Ctl, ~c.enabled => c.port = None /\ c.active = {}
    PROVE  /\ Sound(Control!Unavailable(c)) /\ Control!Unavailable(c) \in Control!Ctl
           /\ Control!Unavailable(c).port = c.port /\ Control!Unavailable(c).enabled = c.enabled
           /\ Control!Unavailable(c).active = c.active
           /\ Control!Unavailable(c).status = "unavailable" /\ ~Control!Unavailable(c).timer
BY DEF Sound, Control!Unavailable, Control!Ctl, Control!Status

(* Switching on and off.                                                    *)
LEMMA SetEnabledIsSound ==
    ASSUME None \notin Conns, ControlInv, NEW v \in BOOLEAN, Control!SetEnabled(v)
    PROVE  Sound(controlCtl') /\ Owed(controlCtl', controlAsked) /\ controlHosts' \subseteq Conns
<1>1. /\ Sound(controlCtl) /\ Owed(controlCtl, controlAsked)
      /\ controlHosts \subseteq Conns /\ controlCtl \in Control!Ctl
  BY DEF ControlInv, Sound
<1>2. Sound(Control!Off) /\ Owed(Control!Off, controlAsked)
  BY DEF Sound, Owed, Control!Off, Control!Ctl, Control!Status
<1>3. CASE ~v \/ UNCHANGED <<controlCtl, controlHosts>>
  BY <1>1, <1>2, <1>3 DEF Control!SetEnabled
<1>4. CASE v /\ (~controlCtl.enabled \/ controlCtl.status = "disabled") /\ Control!Connect([controlCtl EXCEPT !.enabled = TRUE])
  <2> DEFINE c == [controlCtl EXCEPT !.enabled = TRUE]
  <2>1. /\ c \in Control!Ctl /\ c.enabled /\ c.port = None /\ c.active = {}
    BY <1>1, <1>4 DEF Control!Ctl, Sound
  <2>2. Control!Connect(c)
    BY <1>4
  <2> HIDE DEF c
  <2>3. CASE controlCtl' = Control!Unavailable(c) /\ UNCHANGED controlHosts
    BY <1>1, <2>1, <2>3, UnavailableIsSound DEF Owed
  <2>4. ASSUME NEW n \in Conns, controlHosts' = controlHosts \cup {n},
               controlCtl' = [c EXCEPT !.port = n, !.timer = TRUE, !.status = "connecting"]
        PROVE  Sound(controlCtl') /\ Owed(controlCtl', controlAsked) /\ controlHosts' \subseteq Conns
    <3>1. Sound(controlCtl') /\ controlCtl'.active = {}
      BY <2>1, <2>4 DEF Sound, Control!Ctl, Control!Status
    <3> QED BY <1>1, <2>4, <3>1 DEF Owed
  <2> QED BY <2>1, <2>2, <2>3, <2>4 DEF Control!Connect, Control!Fresh
<1> QED BY <1>3, <1>4 DEF Control!SetEnabled

(* The setting, the permission and the startup.                             *)
LEMMA SettingSteps ==
    ASSUME None \notin Conns, ControlInv,
           \/ Control!TurnOn \/ Control!SaveOn \/ Control!SaveFails \/ Control!TurnOff \/ Control!DropPermission
           \/ Control!RevokedByUser \/ Control!OnRemoved \/ Control!ReadSetting
           \/ Control!IsEnabled \/ Control!Reconcile \/ Control!FirstSync
    PROVE  ControlInv'
<1>1. /\ controlSetting \in BOOLEAN /\ controlPermission \in BOOLEAN /\ controlRevoked \in BOOLEAN
      /\ controlPage \in {"idle", "granted", "off"}
      /\ controlHeard \in Seq(BOOLEAN) /\ controlSync \in BOOLEAN \cup {None}
      /\ controlStartup \in {"begin", "off", "on", "sync", "done"}
      /\ controlHosts \subseteq Conns /\ controlAsked \in Asked /\ controlLine \in Seq(Requests)
      /\ Sound(controlCtl) /\ Owed(controlCtl, controlAsked)
  BY DEF ControlInv
<1>2. \A v \in BOOLEAN : Append(controlHeard, v) \in Seq(BOOLEAN)
  BY <1>1, AppendProperties
<1>3. ASSUME Control!TurnOn \/ Control!SaveOn \/ Control!SaveFails \/ Control!TurnOff \/ Control!DropPermission
      PROVE  ControlInv'
  BY <1>1, <1>2, <1>3 DEF ControlInv, Control!TurnOn, Control!SaveOn, Control!SaveFails, Control!TurnOff,
     Control!DropPermission, Control!Write, Control!RemovePermission
<1>4. ASSUME Control!RevokedByUser \/ Control!OnRemoved \/ Control!ReadSetting
      PROVE  ControlInv'
  BY <1>1, <1>2, <1>4 DEF ControlInv, Control!RevokedByUser, Control!OnRemoved, Control!ReadSetting, Control!Write
<1>5. ASSUME Control!IsEnabled \/ Control!Reconcile \/ Control!FirstSync
      PROVE  ControlInv'
  BY <1>1, <1>2, <1>5 DEF ControlInv, Control!IsEnabled, Control!Reconcile, Control!FirstSync, Control!store,
     Control!work, Control!Write, Control!RemovePermission
<1> QED BY <1>3, <1>4, <1>5

(* The connection: events of the setting, of the host and of the timer.     *)
LEMMA ConnectionSteps ==
    ASSUME None \notin Conns, ControlInv,
           \/ Control!Changed \/ Control!ApplySetting \/ Control!TimesOut
           \/ \E c \in Conns : Control!Ready(c) \/ Control!HostEnds(c)
    PROVE  ControlInv'
<1>1. /\ controlSetting \in BOOLEAN /\ controlPermission \in BOOLEAN /\ controlRevoked \in BOOLEAN
      /\ controlPage \in {"idle", "granted", "off"}
      /\ controlHeard \in Seq(BOOLEAN) /\ controlSync \in BOOLEAN \cup {None}
      /\ controlStartup \in {"begin", "off", "on", "sync", "done"}
      /\ controlHosts \subseteq Conns /\ controlAsked \in Asked /\ controlLine \in Seq(Requests)
      /\ Sound(controlCtl) /\ Owed(controlCtl, controlAsked) /\ controlCtl \in Control!Ctl
  BY DEF ControlInv, Sound
<1>2. CASE Control!Changed
  <2>1. Head(controlHeard) \in BOOLEAN /\ Tail(controlHeard) \in Seq(BOOLEAN)
    BY <1>1, <1>2 DEF Control!Changed
  <2>2. Sound(controlCtl') /\ Owed(controlCtl', controlAsked) /\ controlHosts' \subseteq Conns
    BY <1>2, <2>1, SetEnabledIsSound DEF Control!Changed
  <2> QED BY <1>1, <1>2, <2>1, <2>2 DEF ControlInv, Control!Changed
<1>3. CASE Control!ApplySetting
  <2>1. controlSync \in BOOLEAN
    BY <1>1, <1>3 DEF Control!ApplySetting
  <2>2. Sound(controlCtl') /\ Owed(controlCtl', controlAsked) /\ controlHosts' \subseteq Conns
    BY <1>3, <2>1, SetEnabledIsSound DEF Control!ApplySetting
  <2> QED BY <1>1, <1>3, <2>2 DEF ControlInv, Control!ApplySetting
<1>4. ASSUME UNCHANGED <<controlSetting, controlPermission, controlHeard, controlRevoked, controlPage, controlSync,
                         controlStartup, controlAsked, controlLine>>,
             controlHosts' \subseteq Conns, Sound(controlCtl'), Owed(controlCtl', controlAsked)
      PROVE  ControlInv'
  BY <1>1, <1>4 DEF ControlInv
<1>5. CASE Control!TimesOut
  <2> DEFINE u == Control!Unavailable(controlCtl)
  <2>1. controlCtl' = [u EXCEPT !.port = None] /\ controlCtl.timer
    BY <1>5 DEF Control!TimesOut
  <2>2. /\ Sound(u) /\ u \in Control!Ctl /\ u.status = "unavailable" /\ ~u.timer
        /\ u.enabled /\ u.active = controlCtl.active
    BY <1>1, <2>1, UnavailableIsSound DEF Sound
  <2> HIDE DEF u
  <2>3. Sound(controlCtl') /\ controlCtl'.port = None /\ controlCtl'.active = controlCtl.active
    BY <2>1, <2>2 DEF Sound, Control!Ctl
  <2>4. Owed(controlCtl', controlAsked)
    BY <1>1, <2>3 DEF Owed
  <2> QED BY <1>1, <1>4, <1>5, <2>3, <2>4 DEF Control!TimesOut, Control!store, Control!work
<1>6. ASSUME NEW c \in Conns, Control!Ready(c) PROVE ControlInv'
  <2>1. /\ Sound(controlCtl') /\ controlCtl'.port = controlCtl.port /\ controlCtl'.active = controlCtl.active
    BY <1>1, <1>6 DEF Control!Ready, Sound, Control!Ctl, Control!Status
  <2>2. Owed(controlCtl', controlAsked)
    BY <1>1, <2>1 DEF Owed
  <2> QED BY <1>1, <1>4, <1>6, <2>1, <2>2 DEF Control!Ready, Control!store, Control!work
<1>7. ASSUME NEW c \in Conns, Control!HostEnds(c) PROVE ControlInv'
  <2>1. Sound(controlCtl') /\ Owed(controlCtl', controlAsked)
    <3> DEFINE u == Control!Unavailable(controlCtl)
               n == [u EXCEPT !.port = None, !.active = {}]
    <3>1. controlCtl' = IF controlCtl.port # c THEN controlCtl
                        ELSE IF controlCtl.enabled THEN n ELSE Control!Off
      BY <1>7 DEF Control!HostEnds
    <3>2. Sound(u) /\ u.status = "unavailable" /\ ~u.timer
      BY <1>1, UnavailableIsSound DEF Sound
    <3>3. Sound(Control!Off) /\ Owed(Control!Off, controlAsked)
      BY DEF Sound, Owed, Control!Off, Control!Ctl, Control!Status
    <3> HIDE DEF u
    <3>4. Sound(n) /\ n.active = {}
      BY <3>2 DEF Sound, Control!Ctl
    <3>5. Owed(n, controlAsked)
      BY <3>4 DEF Owed
    <3> HIDE DEF n
    <3> QED BY <1>1, <3>1, <3>3, <3>4, <3>5
  <2> QED BY <1>1, <1>4, <1>7, <2>1 DEF Control!HostEnds, Control!store, Control!work
<1> QED BY <1>2, <1>3, <1>5, <1>6, <1>7

(* The requests of the host.                                                *)
LEMMA AnswerIsSound ==
    ASSUME None \notin Conns, ControlInv, NEW r \in Requests, Control!Answer(r),
           controlAsked[r].at \in {"waiting", "checked"}
    PROVE  Sound(controlCtl') /\ Owed(controlCtl', controlAsked') /\ controlAsked' \in Asked
<1>1. /\ Sound(controlCtl) /\ Owed(controlCtl, controlAsked)
      /\ controlCtl \in Control!Ctl /\ controlAsked \in Asked
  BY DEF ControlInv, Sound
<1> DEFINE c == [controlCtl EXCEPT !.active = controlCtl.active \ {r}]
<1>2. /\ c \in Control!Ctl /\ Sound(c) /\ c.port = controlCtl.port
      /\ c.active = controlCtl.active \ {r} /\ c.enabled = controlCtl.enabled
  BY <1>1 DEF Sound, Control!Ctl
<1>3. controlCtl' \in {c, Control!Unavailable(c)}
  BY DEF Control!Answer
<1> HIDE DEF c
<1>4. /\ Sound(Control!Unavailable(c)) /\ Control!Unavailable(c).port = c.port
      /\ Control!Unavailable(c).active = c.active
  BY <1>2, UnavailableIsSound DEF Sound
<1>5. /\ controlAsked' \in Asked
      /\ \A q \in Requests \ {r} : controlAsked'[q] = controlAsked[q]
  <2>1. \E at \in {"answered", "dropped"} : controlAsked' = [controlAsked EXCEPT ![r].at = at]
    BY DEF Control!Answer
  <2> QED BY <1>1, <2>1 DEF Asked, Control!Served
<1>6. /\ controlCtl'.active = controlCtl.active \ {r} /\ controlCtl'.port = controlCtl.port
      /\ controlCtl.active \subseteq Requests
  BY <1>1, <1>2, <1>3, <1>4 DEF Control!Ctl
<1>7. Owed(controlCtl', controlAsked')
  BY <1>1, <1>5, <1>6 DEF Owed
<1> QED BY <1>2, <1>3, <1>4, <1>5, <1>7

LEMMA RequestSteps ==
    ASSUME None \notin Conns, ControlInv,
           \/ Control!CheckSetting \/ Control!RunCommand
           \/ \E r \in Requests : Control!Enter(r) \/ Control!Refuse(r) \/ \E c \in Conns : Control!Ask(c, r)
    PROVE  ControlInv'
<1>1. /\ controlSetting \in BOOLEAN /\ controlPermission \in BOOLEAN /\ controlRevoked \in BOOLEAN
      /\ controlPage \in {"idle", "granted", "off"}
      /\ controlHeard \in Seq(BOOLEAN) /\ controlSync \in BOOLEAN \cup {None}
      /\ controlStartup \in {"begin", "off", "on", "sync", "done"}
      /\ controlHosts \subseteq Conns /\ controlAsked \in Asked /\ controlLine \in Seq(Requests)
      /\ Sound(controlCtl) /\ Owed(controlCtl, controlAsked) /\ controlCtl \in Control!Ctl
  BY DEF ControlInv, Sound
<1>2. /\ UNCHANGED <<controlSetting, controlPermission, controlHeard, controlRevoked, controlPage, controlSync,
                     controlStartup, controlHosts>>
  BY DEF Control!CheckSetting, Control!RunCommand, Control!Enter, Control!Refuse, Control!Ask, Control!store
<1>3. ASSUME controlAsked' \in Asked, controlLine' \in Seq(Requests), Sound(controlCtl'), Owed(controlCtl', controlAsked')
      PROVE  ControlInv'
  BY <1>1, <1>2, <1>3 DEF ControlInv
<1>4. controlLine # <<>> => Head(controlLine) \in Requests /\ Tail(controlLine) \in Seq(Requests)
  BY <1>1
<1>5. CASE Control!CheckSetting /\ controlSetting
  <2>1. /\ controlAsked' \in Asked
        /\ \A q \in Requests : /\ controlAsked'[q].conn = controlAsked[q].conn
                               /\ controlAsked[q].at \in {"waiting", "checked"}
                                    => controlAsked'[q].at \in {"waiting", "checked"}
    <3>1. /\ Head(controlLine) \in Requests /\ controlAsked[Head(controlLine)].at = "waiting"
          /\ controlAsked' = [controlAsked EXCEPT ![Head(controlLine)].at = "checked"]
      BY <1>4, <1>5 DEF Control!CheckSetting
    <3>2. controlAsked \in [Requests -> [conn : Conns \cup {None}, at : Control!Served]]
      BY <1>1 DEF Asked
    <3>3. controlAsked' \in [Requests -> [conn : Conns \cup {None}, at : Control!Served]]
          /\ \A q \in Requests : /\ controlAsked'[q].conn = controlAsked[q].conn
                                 /\ q # Head(controlLine) => controlAsked'[q].at = controlAsked[q].at
                                 /\ q = Head(controlLine) => controlAsked'[q].at = "checked"
      BY <3>1, <3>2 DEF Control!Served
    <3> QED BY <1>1, <3>1, <3>3 DEF Asked
  <2>2. UNCHANGED <<controlCtl, controlLine>> /\ controlCtl.active \subseteq Requests
    BY <1>1, <1>5 DEF Control!CheckSetting, Control!Ctl
  <2>3. Owed(controlCtl', controlAsked')
    BY <1>1, <2>1, <2>2 DEF Owed
  <2> QED BY <1>1, <1>3, <2>1, <2>2, <2>3
<1>6. CASE (Control!CheckSetting /\ ~controlSetting) \/ Control!RunCommand
  <2>1. /\ Head(controlLine) \in Requests /\ controlLine' \in Seq(Requests) /\ Control!Answer(Head(controlLine))
        /\ controlAsked[Head(controlLine)].at \in {"waiting", "checked"}
    BY <1>4, <1>6 DEF Control!CheckSetting, Control!RunCommand
  <2> QED BY <1>3, <2>1, AnswerIsSound
<1>7. ASSUME NEW r \in Requests, Control!Enter(r) PROVE ControlInv'
  <2>1. controlLine' \in Seq(Requests)
    BY <1>1, <1>7, AppendProperties DEF Control!Enter
  <2> QED BY <1>1, <1>3, <1>7, <2>1 DEF Control!Enter
<1>8. ASSUME NEW r \in Requests, Control!Refuse(r) PROVE ControlInv'
  BY <1>1, <1>3, <1>8, AnswerIsSound DEF Control!Refuse
<1>9. ASSUME NEW r \in Requests, NEW c \in Conns, Control!Ask(c, r) PROVE ControlInv'
  <2>1. /\ controlAsked' \in Asked /\ controlAsked'[r] = [conn |-> c, at |-> "waiting"]
        /\ \A q \in Requests \ {r} : controlAsked'[q] = controlAsked[q]
    BY <1>1, <1>9 DEF Control!Ask, Asked, Control!Served
  <2>2. /\ Sound(controlCtl') /\ controlCtl'.port = controlCtl.port /\ controlCtl.port = c
        /\ controlCtl'.active = controlCtl.active \cup {r} /\ controlCtl'.active \subseteq Requests
    BY <1>1, <1>9 DEF Control!Ask, Sound, Control!Ctl
  <2>3. Owed(controlCtl', controlAsked')
    BY <1>1, <2>1, <2>2 DEF Owed
  <2> QED BY <1>1, <1>3, <1>9, <2>1, <2>2, <2>3 DEF Control!Ask
<1> QED BY <1>5, <1>6, <1>7, <1>8, <1>9

LEMMA ControlHolds == None \notin Conns /\ ControlInv /\ (Control!Next \/ UNCHANGED controlVars) => ControlInv'
<1> SUFFICES ASSUME None \notin Conns, ControlInv, Control!Next \/ UNCHANGED controlVars PROVE ControlInv'
  OBVIOUS
<1>1. CASE UNCHANGED controlVars
  BY <1>1 DEF controlVars, ControlInv
<1>2. CASE Control!Next
  BY <1>2, SettingSteps, ConnectionSteps, RequestSteps DEF Control!Next, Control!Step
<1> QED BY <1>1, <1>2

----------------------------------------------------------------------------
(* The host processes and their clients.                                    *)

(* A line is owed while none has been written: to a client that has not    *)
(* asked, and to one that waits in a table, which it does only after it    *)
(* has asked, and at the host it is connected to.                          *)
LinesAreOwed ==
    \A c \in Clients :
       /\ processClient[c] \in {"new", "file", "connected"} =>
             processGot[c] = 0 /\ \A h \in Hosts : c \notin processPending[h]
       /\ processClient[c] = "connected" => processPeer[c] \in Hosts

HostInv == Host!TypeOK /\ Host!OneLine /\ LinesAreOwed

(* Lines written to clients that had none leave every client with one at   *)
(* most, and the others as they were.                                      *)
LEMMA WrittenOnce ==
    ASSUME processGot \in [Clients -> Nat], Host!OneLine, NEW C, \A c \in C \cap Clients : processGot[c] = 0, Host!Lines(C)
    PROVE  /\ processGot' \in [Clients -> Nat] /\ Host!OneLine'
           /\ \A c \in Clients : c \notin C => processGot'[c] = processGot[c]
BY DEF Host!Lines, Host!OneLine

(* ServicesInit and every step keep the invariant.                                 *)
LEMMA HostStarts == Host!Init => HostInv
BY DEF Host!Init, HostInv, Host!TypeOK, Host!OneLine, LinesAreOwed, Host!HostAt, Host!ClientAt

(* What a host does alone touches neither its clients nor its table.       *)
LEMMA HostAlone ==
    ASSUME HostInv, UNCHANGED <<Host!clients, processPending, processAsked>>,
           processHost' \in [Hosts -> Host!HostAt],
           processSocket' \in Hosts \cup {None}, processFile' \in Hosts \cup {None}
    PROVE  HostInv'
BY DEF HostInv, Host!TypeOK, Host!OneLine, LinesAreOwed, Host!clients

(* A host that starts, ends or crashes; its table may be emptied.          *)
LEMMA HostActions ==
    ASSUME HostInv, NEW h \in Hosts,
           Host!Start(h) \/ Host!Probe(h) \/ Host!RemoveStale(h) \/ Host!Bind(h) \/ Host!Publish(h)
             \/ Host!ShutDown(h) \/ Host!Exit(h) \/ Host!Crash(h)
    PROVE  HostInv'
<1>1. processHost \in [Hosts -> Host!HostAt] /\ processSocket \in Hosts \cup {None} /\ processFile \in Hosts \cup {None}
  BY DEF HostInv, Host!TypeOK
<1>2. CASE Host!Start(h) \/ Host!Probe(h) \/ Host!RemoveStale(h)
  BY <1>1, <1>2, HostAlone DEF Host!Start, Host!Probe, Host!RemoveStale, Host!Goes, Host!HostAt
<1>3. CASE Host!Bind(h) \/ Host!Publish(h) \/ Host!Exit(h)
  BY <1>1, <1>3, HostAlone DEF Host!Bind, Host!Publish, Host!Exit, Host!CleanUp, Host!Goes, Host!HostAt
<1>4. CASE Host!ShutDown(h)
  <2>1. /\ processGot' \in [Clients -> Nat] /\ Host!OneLine'
        /\ \A c \in Clients : c \notin processPending[h] => processGot'[c] = processGot[c]
    BY <1>4, WrittenOnce DEF Host!ShutDown, HostInv, Host!TypeOK
  <2>2. /\ processPending' \in [Hosts -> SUBSET Clients]
        /\ \A g \in Hosts : processPending'[g] \subseteq processPending[g] /\ (g = h => processPending'[g] = {})
    BY <1>4 DEF Host!ShutDown, HostInv, Host!TypeOK
  <2>3. processHost' \in [Hosts -> Host!HostAt] /\ processSocket' \in Hosts \cup {None}
    BY <1>1, <1>4 DEF Host!ShutDown, Host!Goes, Host!HostAt
  <2>4. ASSUME NEW g \in Hosts, NEW c \in processPending'[g]
        PROVE  processPeer'[c] = g /\ processGot'[c] = 0
    BY <1>4, <2>1, <2>2, <2>4 DEF Host!ShutDown, HostInv, Host!TypeOK
  <2>5. Host!TypeOK'
    BY <1>1, <1>4, <2>1, <2>2, <2>3, <2>4 DEF Host!ShutDown, HostInv, Host!TypeOK
  <2>6. LinesAreOwed'
    BY <1>4, <2>1, <2>2 DEF Host!ShutDown, HostInv, LinesAreOwed
  <2> QED BY <2>1, <2>5, <2>6 DEF HostInv
<1>5. CASE Host!Crash(h)
  BY <1>1, <1>5 DEF Host!Crash, Host!Goes, Host!HostAt, Host!clients, HostInv, Host!TypeOK, Host!OneLine, LinesAreOwed
<1> QED BY <1>2, <1>3, <1>4, <1>5

(* The answer of the extension and the timer of the host take the client   *)
(* off the table with the line they write.                                 *)
LEMMA AnswerActions ==
    ASSUME HostInv, NEW h \in Hosts, NEW c \in Clients, Host!RequestTimesOut(h, c) \/ Host!Respond(h, c)
    PROVE  HostInv'
<1>1. \E C \in SUBSET Clients :
        /\ C \subseteq {c} \cap processPending[h] /\ Host!Lines(C)
        /\ processPending' = [processPending EXCEPT ![h] = @ \ {c}]
  <2>1. CASE Host!RequestTimesOut(h, c)
    BY <2>1 DEF Host!RequestTimesOut
  <2>2. CASE Host!Respond(h, c)
    BY <2>2 DEF Host!Respond
  <2> QED BY <2>1, <2>2
<1>2. PICK C \in SUBSET Clients :
        /\ C \subseteq {c} \cap processPending[h] /\ Host!Lines(C)
        /\ processPending' = [processPending EXCEPT ![h] = @ \ {c}]
  BY <1>1
<1>3. processGot' \in [Clients -> Nat] /\ Host!OneLine' /\ \A d \in Clients : d \notin C => processGot'[d] = processGot[d]
  BY <1>2, WrittenOnce DEF HostInv, Host!TypeOK
<1>4. UNCHANGED <<processHost, processSocket, processFile, processClient, processPeer>> /\ processAsked' \subseteq Clients
  BY DEF Host!RequestTimesOut, Host!Respond, HostInv, Host!TypeOK
<1>5. /\ processPending' \in [Hosts -> SUBSET Clients]
      /\ \A g \in Hosts : processPending'[g] \subseteq processPending[g] /\ (g = h => c \notin processPending'[g])
  BY <1>2 DEF HostInv, Host!TypeOK
<1>6. ASSUME NEW g \in Hosts, NEW d \in processPending'[g]
      PROVE  processPeer'[d] = g /\ processGot'[d] = 0
  BY <1>2, <1>3, <1>4, <1>5, <1>6 DEF HostInv, Host!TypeOK
<1>7. Host!TypeOK'
  BY <1>3, <1>4, <1>5, <1>6 DEF HostInv, Host!TypeOK
<1>8. LinesAreOwed'
  BY <1>2, <1>3, <1>4, <1>5 DEF HostInv, LinesAreOwed
<1> QED BY <1>3, <1>7, <1>8 DEF HostInv

(* A client reads the file, connects, asks, and leaves.                    *)
LEMMA ClientActions ==
    ASSUME HostInv, NEW c \in Clients,
           Host!ReadConnection(c) \/ Host!Dial(c) \/ Host!Send(c) \/ Host!End(c) \/ Host!GiveUp(c)
    PROVE  HostInv'
<1>1. CASE Host!ReadConnection(c)
  BY <1>1 DEF Host!ReadConnection, Host!Moves, HostInv, Host!TypeOK, Host!OneLine, LinesAreOwed, Host!ClientAt
<1>2. CASE Host!Dial(c)
  BY <1>2 DEF Host!Dial, Host!Moves, HostInv, Host!TypeOK, Host!OneLine, LinesAreOwed, Host!ClientAt
<1>3. CASE Host!Send(c)
  <2>1. processGot[c] = 0 /\ processPeer[c] \in Hosts
    BY <1>3 DEF Host!Send, HostInv, LinesAreOwed
  <2>2. CASE Host!Lines({c}) /\ UNCHANGED <<processPending, processAsked>>
    <3>1. processGot' \in [Clients -> Nat] /\ Host!OneLine' /\ \A d \in Clients : d # c => processGot'[d] = processGot[d]
      BY <2>1, <2>2, WrittenOnce DEF HostInv, Host!TypeOK
    <3>2. \A h \in Hosts : c \notin processPending[h]
      BY <1>3 DEF Host!Send, HostInv, LinesAreOwed
    <3>3. /\ processClient' \in [Clients -> Host!ClientAt] /\ processClient'[c] = "sent"
          /\ \A d \in Clients : d # c => processClient'[d] = processClient[d]
      BY <1>3 DEF Host!Send, Host!Moves, HostInv, Host!TypeOK, Host!ClientAt
    <3>4. Host!TypeOK'
      BY <1>3, <2>2, <3>1, <3>2, <3>3 DEF Host!Send, HostInv, Host!TypeOK
    <3>5. LinesAreOwed'
      BY <1>3, <2>2, <3>1, <3>3 DEF Host!Send, HostInv, LinesAreOwed
    <3> QED BY <3>1, <3>4, <3>5 DEF HostInv
  <2>3. CASE /\ processPending' = [processPending EXCEPT ![processPeer[c]] = @ \cup {c}]
             /\ processAsked' = processAsked \cup {c} /\ UNCHANGED processGot
    BY <1>3, <2>1, <2>3 DEF Host!Send, Host!Moves, HostInv, Host!TypeOK, Host!OneLine, LinesAreOwed, Host!ClientAt
  <2> QED BY <1>3, <2>2, <2>3 DEF Host!Send
<1>4. CASE Host!End(c)
  BY <1>4 DEF Host!End, Host!Moves, HostInv, Host!TypeOK, Host!OneLine, LinesAreOwed, Host!ClientAt
<1>5. CASE Host!GiveUp(c)
  BY <1>5 DEF Host!GiveUp, Host!Moves, HostInv, Host!TypeOK, Host!OneLine, LinesAreOwed, Host!ClientAt
<1> QED BY <1>1, <1>2, <1>3, <1>4, <1>5

LEMMA HostHolds == HostInv /\ (Host!Next \/ UNCHANGED processVars) => HostInv'
<1> SUFFICES ASSUME HostInv, Host!Next \/ UNCHANGED processVars PROVE HostInv'
  OBVIOUS
<1>1. CASE UNCHANGED processVars
  BY <1>1 DEF processVars, HostInv, Host!TypeOK, Host!OneLine, LinesAreOwed
<1>2. ASSUME NEW h \in Hosts, NEW c \in Clients, Host!RequestTimesOut(h, c) \/ Host!Respond(h, c)
      PROVE  HostInv'
  BY <1>2, AnswerActions
<1>3. ASSUME NEW h \in Hosts,
             Host!Start(h) \/ Host!Probe(h) \/ Host!RemoveStale(h) \/ Host!Bind(h) \/ Host!Publish(h)
               \/ Host!ShutDown(h) \/ Host!Exit(h) \/ Host!Crash(h)
      PROVE  HostInv'
  BY <1>3, HostActions
<1>4. ASSUME NEW c \in Clients, Host!ReadConnection(c) \/ Host!Dial(c) \/ Host!Send(c) \/ Host!End(c) \/ Host!GiveUp(c)
      PROVE  HostInv'
  BY <1>4, ClientActions
<1> QED BY <1>1, <1>2, <1>3, <1>4 DEF Host!Next

----------------------------------------------------------------------------
(* The services together.                                                   *)

(* Every step is one of a component's own, or leaves it alone.              *)
LEMMA EachIsOneOfItsOwn ==
    ASSUME [ServicesNext]_servicesVars
    PROVE  /\ Warmup!Next \/ UNCHANGED warmupVars
           /\ Control!Next \/ UNCHANGED controlVars
           /\ Host!Next \/ UNCHANGED processVars
           /\ [Notes!Next]_(Notes!vars)
           /\ [Documents!Next]_(Documents!vars)
           /\ [Guide!Next]_(Guide!vars)
           /\ [Reset!Next]_(Reset!vars)
           /\ [Copies!Next]_(Copies!vars)
<1>1. /\ Warmup!Next \/ UNCHANGED warmupVars
      /\ Control!Next \/ UNCHANGED controlVars
      /\ Host!Next \/ UNCHANGED processVars
      /\ Notes!Next \/ UNCHANGED noteVars
      /\ Documents!Next \/ UNCHANGED documentVars
      /\ Guide!Next \/ UNCHANGED guideVars
      /\ Reset!Next \/ UNCHANGED resetVars
      /\ Copies!Next \/ UNCHANGED copyVars
  <2>1. CASE UNCHANGED servicesVars
    BY <2>1 DEF servicesVars
  <2>2. CASE ServicesNext
    <3>1. CASE Only("warmup") /\ Warmup!Next
      BY <3>1 DEF Only
    <3>2. CASE Only("control") /\ Control!Next
      BY <3>2 DEF Only
    <3>3. CASE Only("host") /\ Host!Next
      BY <3>3 DEF Only
    <3>4. CASE Only("notes") /\ Notes!Next
      BY <3>4 DEF Only
    <3>5. CASE Only("documents") /\ Documents!Next
      BY <3>5 DEF Only
    <3>6. CASE Only("guide") /\ Guide!Next
      BY <3>6 DEF Only
    <3>7. CASE Only("reset") /\ Reset!Next
      BY <3>7 DEF Only
    <3>8. CASE Only("copies") /\ Copies!Next
      BY <3>8 DEF Only
    <3>9. CASE \/ Only("gate") /\ GateNext /\ UNCHANGED vars
               \/ Only("gated") /\ GatedNext /\ \A op \in Spare : gateStatus'[op] = "idle"
      BY <3>9 DEF Only
    <3> QED BY <2>2, <3>1, <3>2, <3>3, <3>4, <3>5, <3>6, <3>7, <3>8, <3>9 DEF ServicesNext
  <2> QED BY <2>1, <2>2
<1>2. /\ UNCHANGED noteVars => UNCHANGED Notes!vars
      /\ UNCHANGED documentVars => UNCHANGED Documents!vars
  BY DEF noteVars, Notes!vars, documentVars, Documents!vars
<1>3. /\ UNCHANGED guideVars => UNCHANGED Guide!vars
      /\ UNCHANGED resetVars => UNCHANGED Reset!vars
      /\ UNCHANGED copyVars => UNCHANGED Copies!vars
  BY DEF guideVars, Guide!vars, resetVars, Reset!vars, copyVars, Copies!vars,
     Copies!store, Copies!browser, Copies!schedule, Copies!lines, Copies!history
<1> QED BY <1>1, <1>2, <1>3

(* When the warmup of a bound window has nothing left to do, none of its    *)
(* tabs is at its placeholder (workspaceTabWarmup.ts 268-335 and 391-437).  *)
THEOREM NoTabIsLeftBehind == ASSUME WarmupNone PROVE ServicesSpec => []NobodyIsLeftBehind
<1>1. ServicesInit => WarmupInv
  BY WarmupStarts DEF ServicesInit
<1>2. WarmupInv /\ [ServicesNext]_servicesVars => WarmupInv'
  BY WarmupHolds, EachIsOneOfItsOwn
<1>3. WarmupInv => NobodyIsLeftBehind
  BY WarmupLeavesNobody DEF NobodyIsLeftBehind
<1> QED BY <1>1, <1>2, <1>3, PTL DEF ServicesSpec

(* A tab that shows its target or is on its way to it is not navigated to   *)
(* it again, and none for a workspace that is no longer the one of the      *)
(* window (workspaceTabWarmup.ts 300-335 and 418-425).                      *)
THEOREM TabsAreLoadedOnce == ASSUME WarmupNone PROVE ServicesSpec => LoadedOnce
<1>1. ServicesInit => WarmupInv
  BY WarmupStarts DEF ServicesInit
<1>2. WarmupInv /\ [ServicesNext]_servicesVars => WarmupInv'
  BY WarmupHolds, EachIsOneOfItsOwn
<1>3. WarmupInv => [\A t \in Warmup!Here : warmupPhase[t] = "navigate" /\ warmupPhase'[t] = "confirm"
                       => /\ ~Warmup!Expected(t) \/ warmupTab[t].discarded
                          /\ warmupBound \in {None, warmupJob.ws}]_(Warmup!vars)
  BY WarmupLoadsOnce
<1> QED BY <1>1, <1>2, <1>3, PTL DEF ServicesSpec, LoadedOnce, Warmup!LoadedOnce

(* The status of the agent channel is true to its port, and no client of a  *)
(* host is written two lines (agentControlNativePort.ts 117-304,            *)
(* tabplex-native-host.mjs 86-93, 120-150 and 182-187).                     *)
THEOREM ChannelTellsTheTruth == ASSUME None \notin Conns PROVE ServicesSpec => []StatusAndLinesAreTrue
<1>1. ServicesInit => ControlInv /\ HostInv
  BY ControlStarts, HostStarts DEF ServicesInit
<1>2. ControlInv /\ HostInv /\ [ServicesNext]_servicesVars => ControlInv' /\ HostInv'
  BY ControlHolds, HostHolds, EachIsOneOfItsOwn
<1>3. ControlInv /\ HostInv => StatusAndLinesAreTrue
  BY ControlTypes DEF HostInv, StatusAndLinesAreTrue
<1> QED BY <1>1, <1>2, <1>3, PTL DEF ServicesSpec

(* What was typed is kept and what is left of a deleted workspace is still  *)
(* to be removed, in the editors of one document and in those that change   *)
(* between two (noteDraftJournal.ts 31-94, storageQueues.ts 176-215).       *)
THEOREM EveryDraftIsKept ==
    ASSUME Notes!NoneIsApart, Documents!NoneIsApart
    PROVE  ServicesSpec => []DraftsAreKept
<1>1. ServicesInit => Notes!IInv /\ Documents!IInv
  BY Notes!InitInv, Documents!InitInv DEF ServicesInit
<1>2. Notes!IInv /\ Documents!IInv /\ [ServicesNext]_servicesVars => Notes!IInv' /\ Documents!IInv'
  BY Notes!NextInv, Documents!NextInv, EachIsOneOfItsOwn
<1>3. Notes!IInv /\ Documents!IInv => DraftsAreKept
  BY Notes!InvKeepsDrafts, Documents!InvKeepsDrafts DEF DraftsAreKept, Notes!DraftsAreKept, Documents!DraftsAreKept
<1> QED BY <1>1, <1>2, <1>3, PTL DEF ServicesSpec

(* A text that is edited stays shown, in both (useNoteLogic.ts 223-249).    *)
THEOREM EditedTextsStayShown ==
    ASSUME Notes!NoneIsApart, Documents!NoneIsApart
    PROVE  ServicesSpec => EditedStaysShown
<1>1. ServicesInit => Notes!IInv /\ Documents!IInv
  BY Notes!InitInv, Documents!InitInv DEF ServicesInit
<1>2. Notes!IInv /\ Documents!IInv /\ [ServicesNext]_servicesVars => Notes!IInv' /\ Documents!IInv'
  BY Notes!NextInv, Documents!NextInv, EachIsOneOfItsOwn
<1>3. Notes!IInv /\ Notes!IInv' => [\A e \in Pages : Notes!StaysShown(e)]_(Notes!vars)
  BY Notes!InvShowsEdited
<1>4. Documents!IInv /\ Documents!IInv' => [\A e \in Pages : Documents!StaysShown(e)]_(Documents!vars)
  BY Documents!InvShowsEdited
<1> QED BY <1>1, <1>2, <1>3, <1>4, PTL
    DEF ServicesSpec, EditedStaysShown, Notes!EditedStaysShown, Documents!EditedStaysShown, Notes!StaysShown, Documents!StaysShown

(* Few guides are made, in the first run of many pages and in that of one   *)
(* whose user resets it (onboardingCoordinator.ts 36-47 and 72-84).         *)
THEOREM FewGuidesAreMade ==
    ASSUME Guide!RunNumbers, Reset!RunNumbers
    PROVE  ServicesSpec => []GuidesAreFew
<1> DEFINE Few == /\ Guide!IInv /\ Guide!MakersAreFew
                  /\ Reset!IInv /\ Reset!MakersAreFew
<1>1. ServicesInit => Few
  BY Guide!InitHolds, Guide!CountStarts, Reset!InitHolds, Reset!CountStarts DEF ServicesInit
<1>2. Few /\ [ServicesNext]_servicesVars => Few'
  BY Guide!StepHolds, Guide!CountHolds, Reset!StepHolds, Reset!CountHolds, EachIsOneOfItsOwn
<1>3. Few => GuidesAreFew
  BY Guide!InvBoundsGuides, Reset!InvBoundsGuides DEF GuidesAreFew
<1> QED BY <1>1, <1>2, <1>3, PTL DEF ServicesSpec

(* The run that holds the first run completes it, and no other, in both     *)
(* (onboardingCoordinator.ts 85-106).                                       *)
THEOREM HoldersComplete ==
    ASSUME Guide!RunNumbers, Reset!RunNumbers
    PROVE  ServicesSpec => HolderCompletes
<1>1. ServicesInit => Guide!IInv /\ Reset!IInv
  BY Guide!InitHolds, Reset!InitHolds DEF ServicesInit
<1>2. Guide!IInv /\ Reset!IInv /\ [ServicesNext]_servicesVars => Guide!IInv' /\ Reset!IInv'
  BY Guide!StepHolds, Reset!StepHolds, EachIsOneOfItsOwn
<1>3. Guide!IInv /\ [ServicesNext]_servicesVars => [\A r \in Runs : Guide!Completes(r)]_(Guide!vars)
  BY Guide!StepCompletes, EachIsOneOfItsOwn
<1>4. Reset!IInv /\ [ServicesNext]_servicesVars => [\A r \in Runs : Reset!Completes(r)]_(Reset!vars)
  BY Reset!StepCompletes, EachIsOneOfItsOwn
<1> QED BY <1>1, <1>2, <1>3, <1>4, PTL
    DEF ServicesSpec, HolderCompletes, Guide!HolderCompletes, Reset!HolderCompletes, Guide!Completes, Reset!Completes

(* Nothing that a window is bound to, a plan or a journal is taken for none *)
(* at all, and the loop that saves is none of the edits.                    *)
CopiesConstants ==
    /\ MaxEdits \in Nat /\ Drain \notin Edits /\ Workspaces \subseteq Both
    /\ None \notin Pages \cup Both
    /\ None \notin Copies!Binding \cup Copies!Plans \cup Copies!Journals

LEMMA CopiesAreEditedElsewhere ==
    ASSUME CopiesConstants
    PROVE  /\ Copies!AutosaveConstants
           /\ Copies!SwitchesRespected
           /\ Copies!FromElsewhere
<1>1. DataMenu \subseteq [kind : Copies!Kinds, window : Pages \cup {None}, ws : Both]
  BY DEF CopiesConstants, DataMenu, Copies!Kinds
<1>2. \A m \in DataMenu : m.window = None /\ m.kind \in {"edit", "trash", "restore"}
  BY DEF DataMenu
<1> QED BY <1>1, <1>2 DEF CopiesConstants, Copies!AutosaveConstants, Copies!SwitchesRespected, Copies!FromElsewhere

(* When nobody is at work, the copies that windows show of a workspace that *)
(* was changed elsewhere, trashed or brought back are marked stale, or are  *)
(* at its revision (workspaceAutosave.ts 189-330, workspaceController.ts,   *)
(* materializeChangedWorkspaces).                                           *)
THEOREM OldCopiesAreShown == ASSUME CopiesConstants PROVE ServicesSpec => []OldCopiesAreStale
<1> USE CopiesAreEditedElsewhere
<1>1. ServicesInit => Copies!EInv
  BY Copies!ElsewhereStarts DEF ServicesInit
<1>2. Copies!EInv /\ [ServicesNext]_servicesVars => Copies!EInv'
  BY Copies!ElsewhereHolds, EachIsOneOfItsOwn
<1>3. Copies!EInv => OldCopiesAreStale
  BY Copies!ElsewhereMarks DEF OldCopiesAreStale
<1> QED BY <1>1, <1>2, <1>3, PTL DEF ServicesSpec
=============================================================================
