------------------------------ MODULE Onboarding ------------------------------
(***************************************************************************)
(* The first start: Home pages that find no onboarding state claim it from *)
(* the worker, create the workspaces a new user begins with and complete   *)
(* it (useOnboarding.ts, onboardingCoordinator.ts).  The worker takes the  *)
(* requests one at a time.  A claim is one run; a run that has been going  *)
(* for more than 30 s is old, and another page may take the state over.    *)
(***************************************************************************)
EXTENDS Naturals, FiniteSets, Sequences

CONSTANTS None, Pages,
          Runs,      \* 1, 2, ...; a reset leaves the number 0
          MaxFaults, \* pages closed and requests that fail
          MaxUser    \* dismissals, resets by the developer and workspaces of the user's own

VARIABLES stored,    \* the onboarding state
          made,      \* workspaces there are: the user's own and the runs'
          page,      \* the pages, with what each has seen
          run,       \* the runs, with what each is at
          old,       \* runs that have been going for more than 30 s
          faults, acts

vars == <<stored, made, page, run, old, faults, acts>>

Closed == [open |-> FALSE, read |-> None, loaded |-> FALSE, seen |-> None, count |-> None,
           own |-> None, effect |-> None, events |-> <<>>, asks |-> FALSE]
NotMade == [of |-> None, at |-> "free", old |-> {}, guide |-> None]
Seeding(r) == [status |-> "seeding", dismissed |-> FALSE, seeded |-> r, run |-> r, guide |-> None]
Existing == [status |-> "ready", dismissed |-> TRUE, seeded |-> None, run |-> None, guide |-> None]

Init ==
    /\ stored = None /\ made \in {{}, {<<None, "own">>}}
    /\ page = [p \in Pages |-> Closed]
    /\ run = [r \in Runs |-> NotMade]
    /\ old = {} /\ faults = 0 /\ acts = 0

Fault == faults < MaxFaults /\ faults' = faults + 1

----------------------------------------------------------------------------
(* The worker.  Every page hears of a state that is written.               *)
Heard(state) ==
    [p \in Pages |-> IF page[p].open THEN [page[p] EXCEPT !.events = Append(@, state)] ELSE page[p]]
Save(state) == stored' = state /\ page' = Heard(state)

(* An answer is used if the page has not looked again since it asked.      *)
Told(p, r) == [page EXCEPT ![p].events = IF page[p].effect = r THEN Append(@, stored) ELSE @]

IsSeeding == stored # None /\ stored.status = "seeding"
Holds(r) == IsSeeding /\ stored.run = r

CanClaim_Seeding(r) ==   \* mutant: whoever asks, if it is being seeded
    stored = None \/ IsSeeding

CanClaim(r) ==
    \/ stored = None
    \/ IsSeeding /\ (stored.run = r \/ stored.seeded \in run[r].old \cup {0})
Claim(r) ==
    /\ run[r].at = "claim"
    /\ \/ /\ CanClaim(r) /\ Save(Seeding(r))
          /\ run' = [run EXCEPT ![r].at = IF page[run[r].of].open THEN "create" ELSE "cut"]
       \/ /\ ~CanClaim(r) /\ page' = Told(run[r].of, r)
          /\ run' = [run EXCEPT ![r].at = "ended"]
          /\ UNCHANGED stored
    /\ UNCHANGED <<made, old, faults, acts>>

Completed_Any(r) == IsSeeding   \* mutant: by any run

Completed_Shown(r) ==   \* mutant: not if the page has looked again
    Holds(r) /\ page[run[r].of].effect = r

Completed(r) == Holds(r)
Complete(r) ==
    /\ run[r].at = "complete"
    /\ \/ Completed(r) /\ Save([stored EXCEPT !.status = "ready", !.run = None, !.guide = run[r].guide])
       \/ ~Completed(r) /\ UNCHANGED <<stored, page>>
    /\ run' = [run EXCEPT ![r].at = "ended"]
    /\ UNCHANGED <<made, old, faults, acts>>
MarkExistingUserReady(p) ==
    /\ page[p].asks
    /\ LET heard == IF stored = None THEN Heard(Existing) ELSE Told(p, 0)
       IN  page' = [heard EXCEPT ![p].asks = FALSE]
    /\ stored' = IF stored = None THEN Existing ELSE stored
    /\ UNCHANGED <<made, run, old, faults, acts>>
Dismiss(p) ==
    /\ page[p].open /\ page[p].seen # None /\ ~page[p].seen.dismissed
    /\ stored # None /\ ~stored.dismissed
    /\ acts < MaxUser /\ acts' = acts + 1
    /\ Save([stored EXCEPT !.dismissed = TRUE])
    /\ UNCHANGED <<made, run, old, faults>>
ResetForDeveloper ==
    /\ acts < MaxUser /\ acts' = acts + 1
    /\ Save([Seeding(None) EXCEPT !.seeded = 0])
    /\ UNCHANGED <<made, run, old, faults>>
(* A request that fails ends the run.                                      *)
Fails(r) ==
    /\ run[r].at \in {"claim", "complete"} /\ Fault
    /\ run' = [run EXCEPT ![r].at = "cut"]
    /\ UNCHANGED <<stored, made, page, old, acts>>

----------------------------------------------------------------------------
(* A page.  It reads the state and the workspaces, hears of changes, and   *)
(* looks again at what there is to do after each of them.                  *)
Open(p) ==
    /\ ~page[p].open /\ \A r \in Runs : run[r].of # p
    /\ page' = [page EXCEPT ![p] = [Closed EXCEPT !.open = TRUE, !.read = <<stored>>]]
    /\ UNCHANGED <<stored, made, run, old, faults, acts>>
ShouldStart(pg) ==
    pg.seen # None =>
      /\ pg.seen.status = "seeding"
      /\ pg.seen.run = None \/ pg.seen.run # pg.own
      /\ pg.seen.seeded \in old \cup {0}
Todo(pg) ==
    IF ~pg.loaded \/ pg.count = None \/ (pg.seen # None /\ pg.seen.status # "seeding") THEN "nothing"
    ELSE IF pg.seen = None /\ pg.count > 0 THEN "ready"
    ELSE IF ShouldStart(pg) THEN "claim" ELSE "nothing"
Look(p, pg) ==
    /\ \/ /\ Todo(pg) = "ready"
          /\ page' = [page EXCEPT ![p] = [pg EXCEPT !.asks = TRUE, !.effect = 0]] /\ UNCHANGED run
       \/ /\ Todo(pg) = "claim"
          /\ \E r \in Runs :
               /\ run[r].at = "free" /\ \A x \in 1..(r - 1) : run[x].at # "free"
               /\ page' = [page EXCEPT ![p] = [pg EXCEPT !.own = r, !.effect = r]]
               /\ run' = [run EXCEPT ![r] = [NotMade EXCEPT !.of = p, !.at = "claim", !.old = old]]
       \/ /\ Todo(pg) = "nothing"
          /\ page' = [page EXCEPT ![p] = [pg EXCEPT !.effect = None]] /\ UNCHANGED run
    /\ UNCHANGED <<stored, made, old, faults, acts>>
Load(p) ==
    /\ page[p].open /\ ~page[p].loaded
    /\ Look(p, [page[p] EXCEPT !.loaded = TRUE, !.seen = page[p].read[1], !.read = None])
Hydrate(p) ==
    /\ page[p].open /\ page[p].count # Cardinality(made)
    /\ Look(p, [page[p] EXCEPT !.count = Cardinality(made)])
Hear(p) ==
    /\ page[p].events # <<>>
    /\ Look(p, [page[p] EXCEPT !.events = Tail(@), !.seen = Head(page[p].events)])

(* The run creates its workspaces: the guide, and one of the current tabs, *)
(* which is left out.  If that fails, the run is completed without.        *)
Create(r) ==
    /\ run[r].at = "create"
    /\ \/ run' = [run EXCEPT ![r].at = "complete", ![r].guide = <<r, "guide">>]
          /\ made' = made \cup {<<r, "guide">>} /\ UNCHANGED faults
       \/ Fault /\ run' = [run EXCEPT ![r].at = "complete"] /\ UNCHANGED made
    /\ UNCHANGED <<stored, page, old, acts>>

(* The page is closed: its runs go no further, a request on its way does.  *)
Close(p) ==
    /\ page[p].open /\ Fault
    /\ page' = [page EXCEPT ![p] = [Closed EXCEPT !.asks = page[p].asks]]
    /\ run' = [r \in Runs |-> IF run[r].of = p /\ run[r].at = "create"
                              THEN [run[r] EXCEPT !.at = "cut"] ELSE run[r]]
    /\ UNCHANGED <<stored, made, old, acts>>
(* Time passes, and the user makes a workspace.                            *)
Wait(r) ==
    /\ Holds(r) /\ r \notin old /\ old' = old \cup {r}
    /\ UNCHANGED <<stored, made, page, run, faults, acts>>
CreateOwn ==
    /\ acts < MaxUser /\ acts' = acts + 1
    /\ made' = made \cup {<<None, "own">>}
    /\ UNCHANGED <<stored, page, run, old, faults>>

Next ==
    \/ \E r \in Runs : Claim(r) \/ Complete(r) \/ Fails(r) \/ Create(r) \/ Wait(r)
    \/ \E p \in Pages :
         \/ MarkExistingUserReady(p) \/ Dismiss(p) \/ Open(p) \/ Load(p) \/ Hydrate(p)
         \/ Hear(p) \/ Close(p)
    \/ ResetForDeveloper \/ CreateOwn

(* The worker answers and an open page goes on.                            *)
Fairness ==
    /\ \A r \in Runs : WF_vars(Claim(r)) /\ WF_vars(Complete(r)) /\ WF_vars(Create(r))
    /\ \A p \in Pages : WF_vars(MarkExistingUserReady(p)) /\ WF_vars(Hear(p))

Spec == Init /\ [][Next]_vars /\ Fairness
----------------------------------------------------------------------------
(* A new user is given one guide, and another one only after a run that    *)
(* had been going for more than 30 s, or a reset                           *)
(* (onboardingCoordinator.ts 36-47 and 72-84).                             *)
GuidesAreFew == Cardinality({r \in Runs : <<r, "guide">> \in made}) <= 1 + Cardinality(old) + acts

(* The onboarding becomes ready with the guide of the run that holds it: a *)
(* run that has been taken over completes nothing                          *)
(* (onboardingCoordinator.ts 85-106).                                      *)
HolderCompletes ==
    [][\A r \in Runs :
         Holds(r) /\ stored'.status = "ready"
           => /\ run[r].at = "complete" /\ stored'.guide = run[r].guide
              /\ stored'.guide # None => stored'.guide \in made]_vars

(* A run that has claimed the state ends its seeding, however often its    *)
(* page has looked again meanwhile, unless it is cut off                   *)
(* (useOnboarding.ts 141-225).                                             *)
NobodySeeds == \A r \in Runs : Holds(r) => run[r].at = "cut"
SeedingEnds == []<>NobodySeeds
=============================================================================
