----------------------------- MODULE WindowTabs -----------------------------
(***************************************************************************)
(* How a switch replaces the tabs of one window (TabOrchestrator.ts), tab  *)
(* by tab, while the user goes on browsing; and what a capture of the      *)
(* window then reads (recordableWindowTabs.ts).  Tabs with the URL of a    *)
(* target are reused, the others are created, the rest of the source is    *)
(* closed, groups are put back; what fails is compensated.                 *)
(*                                                                         *)
(* A URL is one of Pages, "home", "placeholder", "internal" or, without    *)
(* any URL, "blank".  A busy tab is loading or has a pending URL.          *)
(***************************************************************************)
EXTENDS Naturals, Sequences, SequencesExt, Lists

CONSTANTS Pages, Keys, None,
          Windows,    \* the windows a switch may meet: sequences of tabs
          Targets,    \* the lists of tabs it may be asked for
          LastId,     \* the ids up to it are of tabs there have been before
          MaxUser, MaxFaults

VARIABLES window, pc, plan, made, seen, touched, broken, left

vars == <<window, pc, plan, made, seen, touched, broken, left>>

Tab(id, url, busy, pinned, group) ==
    [id |-> id, url |-> url, busy |-> busy, pinned |-> pinned, group |-> group]

IsTab(t) ==
    /\ t.id \in Nat /\ t.group \in Nat
    /\ t.url \in Pages \cup {"home", "placeholder", "internal", "blank"}
    /\ t.busy \in BOOLEAN /\ t.pinned \in BOOLEAN

Ids(w) == {t.id : t \in ToSet(w)}
TabOf(id) == CHOOSE t \in ToSet(window) : t.id = id
Open(id) == id \in Ids(window)
Without(S) == Where(window, LAMBDA t : t.id \notin S)

(* The browser gives no id twice.                                          *)
Fresh == Max(Ids(window) \cup {a.id : a \in made} \cup {u[1] : u \in touched} \cup {LastId}) + 1

-----------------------------------------------------------------------------
(* The plan, from one query of the window. *)

Candidate(t) == ~t.pinned /\ t.url \in Pages \cup {"placeholder", "blank"}

(* Each target takes the first idle candidate with its URL that is left:   *)
(* the n-th with a URL takes the n-th, and 0 stands for a tab to create.   *)
Shows(w, target) ==
    [i \in DOMAIN target |->
        LET n == Cardinality({j \in 1 .. i : target[j].url = target[i].url})
            fits == Where(w, LAMBDA t : Candidate(t) /\ ~t.busy /\ t.url = target[i].url)
        IN  IF n <= Len(fits) THEN fits[n].id ELSE 0]

Plan(w, target, lazy) ==
    LET shows == Shows(w, target)
        free == {t \in ToSet(w) : Candidate(t) /\ t.id \notin ToSet(shows)}
        k == SelectInSeq(w, LAMBDA t : t.url = "home")
    IN [target |-> target, lazy |-> lazy, shows |-> shows, committed |-> FALSE,
        source |-> Where(w, LAMBDA t : Candidate(t) /\ t.url # "placeholder"),
        close |-> {[id |-> t.id, url |-> t.url, force |-> t.busy \/ t.url = "blank"] : t \in free},
        ungroup |-> {t.id : t \in {u \in ToSet(w) : u.group # 0}},
        home |-> IF k = 0 THEN [id |-> 0, pinned |-> FALSE]
                 ELSE [id |-> w[k].id, pinned |-> w[k].pinned]]

(* A type invariant: the tabs of the window are distinct, and so are the   *)
(* tabs the targets are shown in.                                          *)
TypeOK ==
    /\ \A t \in ToSet(window) : IsTab(t)
    /\ Len(window) = Cardinality(Ids(window))
    /\ pc \in {"idle", "create", "home", "check", "commit", "close", "group", "done",
               "rollback", "unmake", "restore", "failed"}
    /\ plan # None => \A i, j \in DOMAIN plan.shows :
                          i # j => plan.shows[i] = 0 \/ plan.shows[i] # plan.shows[j]

Init ==
    /\ window \in Windows
    /\ pc = "idle" /\ plan = None
    /\ made = {} /\ seen = {} /\ touched = {}
    /\ broken = FALSE
    /\ left = [user |-> MaxUser, faults |-> MaxFaults]

Go(from, to) == pc = from /\ pc' = to

(* A failing call, an abort of the switch or a conflict of its target. *)
Fault == left.faults > 0 /\ left' = [left EXCEPT !.faults = @ - 1]

(* prepareWindowSwitch up to the first tab.  A switch creates placeholders,*)
(* a recovery the pages themselves.                                        *)
Query ==
    /\ Go("idle", "create")
    /\ \E target \in Targets, lazy \in BOOLEAN : plan' = Plan(window, target, lazy)
    /\ UNCHANGED <<window, made, seen, touched, broken, left>>

Missing == {i \in DOMAIN plan.target : plan.shows[i] = 0}

CreateTab ==
    /\ pc = "create" /\ Missing # {}
    /\ LET i == Min(Missing)
           page == plan.target[i].url
           url == IF plan.lazy THEN "placeholder" ELSE page
       IN /\ window' = Append(window, Tab(Fresh, url, ~plan.lazy, FALSE, 0))
          /\ made' = made \cup {[id |-> Fresh, urls |-> {page, url}]}
          /\ plan' = [plan EXCEPT !.shows[i] = Fresh]
    /\ UNCHANGED <<pc, seen, touched, broken, left>>

Created ==
    /\ Go("create", "home") /\ Missing = {}
    /\ UNCHANGED <<window, plan, made, seen, touched, broken, left>>

(* ensureHomeTabPrepared: pin the home tab of the query, or create one.  A *)
(* home tab that was to be pinned may be gone by now.                      *)
EnsureHome ==
    /\ Go("home", "check")
    /\ \/ plan.home.pinned /\ UNCHANGED <<window, made>>
       \/ /\ ~plan.home.pinned
          /\ \E k \in DOMAIN window :
                window[k].id = plan.home.id /\ window' = [window EXCEPT ![k].pinned = TRUE]
          /\ UNCHANGED made
       \/ /\ plan.home.id = 0
          /\ window' = <<Tab(Fresh, "home", FALSE, TRUE, 0)>> \o window
          /\ made' = made \cup {[id |-> Fresh, urls |-> {"home"}]}
    /\ UNCHANGED <<plan, seen, touched, broken, left>>

HomeIsGone ==
    /\ Go("home", "rollback")
    /\ ~plan.home.pinned /\ plan.home.id # 0 /\ ~Open(plan.home.id)
    /\ UNCHANGED <<window, plan, made, seen, touched, broken, left>>

(* onBeforeCommit *)
Check == Go("check", "commit") /\ UNCHANGED <<window, plan, made, seen, touched, broken, left>>

(* commitPreparedWindow: only tabs that still show what they did at the    *)
(* query are closed, or that were in flight then.                          *)
Validate ==
    /\ Go("commit", "close")
    /\ seen' = {c.id : c \in {d \in plan.close : Open(d.id) /\ (d.force \/ TabOf(d.id).url = d.url)}}
    /\ plan' = [plan EXCEPT !.committed = TRUE]
    /\ UNCHANGED <<window, made, touched, broken, left>>

(* The window cannot be read again: every tab is kept, the switch goes on. *)
ValidateBlind ==
    /\ Fault /\ Go("commit", "close") /\ seen' = {} /\ broken' = TRUE
    /\ plan' = [plan EXCEPT !.committed = TRUE]
    /\ UNCHANGED <<window, made, touched>>

Close ==
    /\ Go("close", "group")
    /\ window' = Without(seen)
    /\ UNCHANGED <<plan, made, seen, touched, broken, left>>

CloseSome ==
    /\ Fault /\ Go("close", "rollback")
    /\ \E S \in SUBSET seen : window' = Without(S)
    /\ UNCHANGED <<plan, made, seen, touched, broken>>

(* restorePreparedTabGroups: a target without a group leaves the group it  *)
(* was in, those with one key form a new group.                            *)
OfKey(k) == {plan.shows[i] : i \in {j \in DOMAIN plan.target : plan.target[j].group = k}}

Grouped ==
    /\ OfKey(None) \cap plan.ungroup \subseteq Ids(window)
    /\ \A k \in Keys : OfKey(k) \subseteq Ids(window)

NewGroup_Keep(t) ==
    IF \E k \in Keys : t.id \in OfKey(k) THEN Min(OfKey(CHOOSE k \in Keys : t.id \in OfKey(k)))
    ELSE t.group

NewGroup(t) ==
    IF \E k \in Keys : t.id \in OfKey(k) THEN Min(OfKey(CHOOSE k \in Keys : t.id \in OfKey(k)))
    ELSE IF t.id \in OfKey(None) \cap plan.ungroup THEN 0
    ELSE t.group

Group ==
    /\ Go("group", "done") /\ Grouped
    /\ window' = [k \in DOMAIN window |-> [window[k] EXCEPT !.group = NewGroup(window[k])]]
    /\ UNCHANGED <<plan, made, seen, touched, broken, left>>

GroupFails ==
    /\ Go("group", "rollback") /\ ~Grouped
    /\ UNCHANGED <<window, plan, made, seen, touched, broken, left>>

Fail ==
    /\ Fault /\ pc \in {"create", "home", "check", "commit", "group"} /\ pc' = "rollback"
    /\ UNCHANGED <<window, plan, made, seen, touched, broken>>

(* removeVerifiedOwnedArtifacts: what the switch created is asked about tab *)
(* by tab, and goes unless it showed something else then.                  *)
Owned == {a.id : a \in {b \in made : Open(b.id) /\ TabOf(b.id).url \in b.urls \cup {"blank"}}}

VerifyMade_Trusting ==
    /\ Go("rollback", "unmake") /\ seen' = {a.id : a \in made}
    /\ UNCHANGED <<window, plan, made, touched, broken, left>>

VerifyMade ==
    /\ Go("rollback", "unmake") /\ seen' = Owned
    /\ UNCHANGED <<window, plan, made, touched, broken, left>>

Rollback ==
    /\ Go("unmake", "restore")
    /\ window' = Without(seen)
    /\ UNCHANGED <<plan, made, seen, touched, broken, left>>

(* The removal fails; the source is restored all the same.                 *)
RollbackFails ==
    /\ Fault /\ Go("unmake", "restore")
    /\ \E S \in SUBSET seen : window' = Without(S)
    /\ UNCHANGED <<plan, made, seen, touched, broken>>

Count(s, url) == Cardinality({i \in DOMAIN s : s[i].url = url /\ ~s[i].pinned})

(* restorePreparedSource: once committed, each source page that the window *)
(* shows less often than it did is opened again.                           *)
Lost ==
    SetToSeq({c \in Pages \X (1 .. Len(plan.source)) :
                 plan.committed /\ c[2] > Count(window, c[1]) /\ c[2] <= Count(plan.source, c[1])})

Restore ==
    /\ Go("restore", "failed")
    /\ window' = window \o [n \in DOMAIN Lost |-> Tab(Fresh + n, Lost[n][1], TRUE, FALSE, 0)]
    /\ UNCHANGED <<plan, made, seen, touched, broken, left>>

RestoreFails ==
    /\ Fault /\ Go("restore", "failed") /\ broken' = TRUE
    /\ \E n \in 0 .. Len(Lost) :
          window' = window \o [m \in 1 .. n |-> Tab(Fresh + m, Lost[m][1], TRUE, FALSE, 0)]
    /\ UNCHANGED <<plan, made, seen, touched>>

-----------------------------------------------------------------------------
(* The user navigates, closes or opens a tab; a page is loaded. *)

User == left.user > 0 /\ left' = [left EXCEPT !.user = @ - 1]
Browsing == pc # "failed" /\ UNCHANGED <<pc, plan, made, seen, broken>>

UserNavigates ==
    /\ User /\ Browsing
    /\ \E k \in DOMAIN window, p \in Pages :
          /\ window' = [window EXCEPT ![k].url = p, ![k].busy = TRUE]
          /\ touched' = touched \cup {<<window[k].id, pc>>}

UserCloses ==
    /\ User /\ Browsing
    /\ \E t \in ToSet(window) :
          window' = Without({t.id}) /\ touched' = touched \cup {<<t.id, pc>>}

UserOpens ==
    /\ User /\ Browsing
    /\ \E p \in Pages : window' = Append(window, Tab(Fresh, p, TRUE, FALSE, 0))
    /\ touched' = touched \cup {<<Fresh, pc>>}

Loads ==
    /\ Browsing
    /\ \E k \in DOMAIN window : window[k].busy /\ window' = [window EXCEPT ![k].busy = FALSE]
    /\ UNCHANGED <<touched, left>>

(* The warmup of the window (TabWarmup) puts the page in a placeholder.    *)
WarmUp ==
    /\ pc = "done" /\ Browsing
    /\ \E i \in DOMAIN plan.shows :
          \E k \in DOMAIN window :
             /\ window[k].id = plan.shows[i] /\ window[k].url = "placeholder"
             /\ window' = [window EXCEPT ![k].url = plan.target[i].url]
    /\ UNCHANGED <<touched, left>>

Next ==
    \/ Query \/ CreateTab \/ Created \/ EnsureHome \/ HomeIsGone \/ Check
    \/ Validate \/ ValidateBlind \/ Close \/ CloseSome
    \/ Group \/ GroupFails \/ Fail
    \/ VerifyMade \/ Rollback \/ RollbackFails \/ Restore \/ RestoreFails
    \/ UserNavigates \/ UserCloses \/ UserOpens \/ Loads \/ WarmUp

Spec == Init /\ [][Next]_vars

-----------------------------------------------------------------------------
(* What a capture of the window records, with the groups of the tabs; it   *)
(* refuses while a tab is loading or cannot be read.                       *)
Recordable(w) == Where(w, LAMBDA t : ~t.pinned /\ t.url \in Pages)
CaptureRefuses(w) ==
    \E t \in ToSet(w) : ~t.pinned /\ (t.url \in {"placeholder", "blank"} \/ (t.busy /\ t.url \in Pages))

(* preservePortableTabGroups: the n-th tab with a URL had the key of the   *)
(* n-th tab with that URL in the list recorded before.                     *)
KeyBefore(tabs, prev, i) ==
    LET n == Cardinality({j \in 1 .. i : tabs[j].url = tabs[i].url})
        same == Where(prev, LAMBDA r : r.url = tabs[i].url)
    IN IF n <= Len(same) THEN same[n].group ELSE None

(* capturePortableTabGroups: a group keeps its key if its tabs had one.    *)
Captured(w, prev) ==
    LET tabs == Recordable(w)
        keys(g) == {KeyBefore(tabs, prev, j) : j \in {k \in DOMAIN tabs : tabs[k].group = g}} \ {None}
    IN [i \in DOMAIN tabs |->
           [url |-> tabs[i].url,
            group |-> IF tabs[i].group = 0 THEN None
                      ELSE IF Cardinality(keys(tabs[i].group)) = 1
                           THEN CHOOSE k \in keys(tabs[i].group) : TRUE
                      ELSE tabs[i].group]]

Touched == {u[1] : u \in touched}

(* A switch that succeeded shows every target in a tab of its own, in the  *)
(* groups of the workspace, and nothing else that a capture would record   *)
(* except what the user opened meanwhile; the home tab is there.           *)
Shown(i) == plan.shows[i]
SwitchShowsTarget ==
    pc = "done" =>
        /\ \A i \in DOMAIN plan.target : Shown(i) \notin Touched =>
               /\ Open(Shown(i))
               /\ TabOf(Shown(i)).url \in {plan.target[i].url, "placeholder"}
               /\ (TabOf(Shown(i)).group = 0) = (plan.target[i].group = None)
               /\ \A j \in DOMAIN plan.target : Shown(j) \notin Touched =>
                      (plan.target[i].group = plan.target[j].group)
                         = (TabOf(Shown(i)).group = TabOf(Shown(j)).group)
        /\ ~broken => \A t \in ToSet(Recordable(window)) : t.id \in Touched \cup ToSet(plan.shows)
        /\ touched = {} => \E t \in ToSet(window) : t.url = "home" /\ t.pinned

(* The window that a switch has left, once loaded, is recorded as the list *)
(* of tabs that was switched to, whatever the order of the tabs became.    *)
CaptureFindsTarget ==
    pc = "done" /\ touched = {} /\ ~broken /\ ~CaptureRefuses(window) =>
        LET now == Captured(window, plan.target)
        IN /\ Len(now) = Len(plan.target)
           /\ \A r \in ToSet(plan.target) :
                 Cardinality({i \in DOMAIN now : now[i] = r})
                    = Cardinality({i \in DOMAIN plan.target : plan.target[i] = r})

(* A switch that failed leaves every page of the source in the window, as  *)
(* often as it was there, but for those the user closed or left.           *)
FailedSwitchKeepsSource ==
    pc = "failed" /\ ~broken =>
        \A p \in Pages :
            Count(window, p) >= Count(Where(plan.source, LAMBDA t : t.id \notin Touched), p)

(* The switch closes a tab only if it shows what it did at the query, was  *)
(* in flight then, or was made by the switch and shows its page; a page    *)
(* the user went to is closed only in the moment between the verification  *)
(* of its tab and the call that closes it, in the commit or the rollback.  *)
UserPagesStay ==
    [][left'.user = left.user =>
          \A t \in ToSet(window) : t.id \notin Ids(window') =>
              \/ \E d \in plan.close :
                    d.id = t.id /\ (d.force \/ d.url = t.url \/ <<t.id, "close">> \in touched)
              \/ \E a \in made :
                    a.id = t.id /\ (t.url \in a.urls \/ <<t.id, "unmake">> \in touched)]_vars
=============================================================================
