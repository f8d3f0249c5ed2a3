------------------------- MODULE Onboarding_proofs -------------------------
(***************************************************************************)
(* The first run is completed by the run that holds it, and makes few      *)
(* guides, for every number of pages, runs, failures and acts of the user. *)
(***************************************************************************)
EXTENDS Onboarding, FiniteSetTheorems, TLAPS

Guides == Runs \X {"guide"}
RunAt == {"free", "claim", "create", "complete", "ended", "cut"}
RunStates == [of : Pages \cup {None}, at : RunAt, old : SUBSET Runs, guide : Guides \cup {None}]
States == [status : {"seeding", "ready"}, dismissed : BOOLEAN, seeded : Runs \cup {None, 0},
           run : Runs \cup {None}, guide : Guides \cup {None}]

(* Runs are numbered from 1, and no run or state is taken for none at all.  *)
RunNumbers == 0 \notin Runs /\ None \notin Runs /\ None \notin States

(* A run knows of old runs only, has a guide that was made, and holds the   *)
(* state only after it has claimed it; a state that is held was made by the *)
(* run that holds it.                                                       *)
RunsAreKnown ==
    /\ stored \in States \cup {None}
    /\ run \in [Runs -> RunStates]
    /\ old \subseteq Runs
    /\ \A r \in Runs : run[r].old \subseteq old /\ run[r].guide \in made \cup {None}

HolderHasClaimed ==
    /\ stored = None => old = {}
    /\ stored # None =>
      /\ stored.run # None => stored.seeded = stored.run /\ run[stored.run].at \notin {"free", "claim"}
      /\ \A r \in Runs : run[r].at \in {"free", "claim"} => r \notin old /\ stored.seeded # r

(* The runs that have made a guide or are about to.                         *)
Makers == {r \in Runs : <<r, "guide">> \in made \/ run[r].at = "create"}

(* What may have been taken over once already: every old run but the one    *)
(* that seeded the state, and every reset but the one that did.             *)
MakersAreFew ==
    /\ acts \in Nat /\ IsFiniteSet(old) /\ IsFiniteSet(Makers)
    /\ stored = None => Makers = {}
    /\ stored # None =>
         Cardinality(Makers) + (IF stored.seeded = 0 THEN 1 ELSE 0)
            <= 1 + Cardinality(old \ {stored.seeded}) + acts

IInv == RunsAreKnown /\ HolderHasClaimed

----------------------------------------------------------------------------
LEMMA InitHolds == Init => IInv
BY DEF Init, IInv, RunsAreKnown, HolderHasClaimed, NotMade, RunStates, RunAt

(* A run goes on: it learns and makes more, and does not ask again.         *)
LEMMA RunMoves ==
    ASSUME IInv, NEW r \in Runs, NEW s \in RunStates,
           UNCHANGED <<stored, old>>, run' = [run EXCEPT ![r] = s],
           made \subseteq made', s.old \subseteq old, s.guide \in made' \cup {None},
           s.at \in {"free", "claim"} => run[r].at \in {"free", "claim"}
    PROVE  IInv'
<1>1. /\ run' \in [Runs -> RunStates] /\ run'[r] = s
      /\ \A x \in Runs : x # r => run'[x] = run[x]
  BY DEF IInv, RunsAreKnown
<1>2. RunsAreKnown'
  BY <1>1 DEF IInv, RunsAreKnown
<1>3. stored # None /\ stored.run # None => stored.run \in Runs
  BY DEF IInv, RunsAreKnown, States
<1>4. HolderHasClaimed'
  BY <1>1, <1>3 DEF IInv, HolderHasClaimed
<1> QED BY <1>2, <1>4 DEF IInv

(* A state is written; what held it does so no more, or goes on.            *)
LEMMA StateMoves ==
    ASSUME RunNumbers, IInv, UNCHANGED <<old, run>>, made \subseteq made',
           stored' \in States,
           \/ stored'.run = None /\ stored'.seeded \in {None, 0}
           \/ stored # None /\ stored'.seeded = stored.seeded /\ stored'.run \in {None, stored.run}
    PROVE  IInv'
BY DEF RunNumbers, IInv, RunsAreKnown, HolderHasClaimed, States

LEMMA Claims ==
    ASSUME RunNumbers, NEW r \in Runs, IInv, Claim(r)
    PROVE  IInv'
<1>1. run[r] \in RunStates /\ run[r].at = "claim" /\ run[r].old \subseteq old /\ run[r].guide \in made \cup {None}
  BY DEF Claim, IInv, RunsAreKnown
<1>2. UNCHANGED <<made, old>>
  BY DEF Claim
<1>3. CASE ~CanClaim(r)
  BY <1>1, <1>2, <1>3, RunMoves, [run[r] EXCEPT !.at = "ended"] \in RunStates
     DEF Claim, RunStates, RunAt
<1>4. CASE CanClaim(r)
  <2>1. PICK at \in {"create", "cut"} : run' = [run EXCEPT ![r].at = at] /\ stored' = Seeding(r)
    BY <1>4 DEF Claim, Save
  <2>2. /\ run' \in [Runs -> RunStates] /\ run'[r].at = at
        /\ run'[r].old = run[r].old /\ run'[r].guide = run[r].guide
        /\ \A x \in Runs : x # r => run'[x] = run[x]
    BY <1>1, <2>1 DEF IInv, RunsAreKnown, RunStates, RunAt
  <2>3. Seeding(r) \in States /\ Seeding(r).run = r /\ Seeding(r).seeded = r
    BY DEF Seeding, States
  <2>4. RunsAreKnown'
    BY <1>2, <2>1, <2>2, <2>3 DEF IInv, RunsAreKnown
  <2>5. \A x \in Runs : run[x].at \in {"free", "claim"} => x \notin old
    BY DEF IInv, HolderHasClaimed
  <2>6. HolderHasClaimed'
    BY <1>2, <2>1, <2>2, <2>3, <2>5 DEF RunNumbers, HolderHasClaimed
  <2> QED BY <2>4, <2>6 DEF IInv
<1> QED BY <1>3, <1>4

LEMMA RunsGoOn ==
    ASSUME RunNumbers, NEW r \in Runs, IInv, Complete(r) \/ Fails(r) \/ Create(r) \/ Wait(r)
    PROVE  IInv'
<1>1. run \in [Runs -> RunStates] /\ run[r] \in RunStates /\ run[r].old \subseteq old /\ run[r].guide \in made \cup {None}
  BY DEF IInv, RunsAreKnown
<1>2. CASE Complete(r) /\ ~Completed(r)
  BY <1>1, <1>2, RunMoves, [run[r] EXCEPT !.at = "ended"] \in RunStates DEF Complete, RunStates, RunAt
<1>3. CASE Complete(r) /\ Completed(r)
  <2>1. /\ stored \in States /\ stored.run = r /\ stored.seeded = r /\ run[r].guide \in Guides \cup {None}
        /\ stored' = [stored EXCEPT !.status = "ready", !.run = None, !.guide = run[r].guide]
        /\ run' = [run EXCEPT ![r].at = "ended"] /\ UNCHANGED <<made, old>>
    BY <1>1, <1>3 DEF Complete, Completed, Holds, IsSeeding, Save, IInv, RunsAreKnown, HolderHasClaimed, RunNumbers, RunStates
  <2>2. /\ run' \in [Runs -> RunStates] /\ run'[r].at = "ended"
        /\ run'[r].old = run[r].old /\ run'[r].guide = run[r].guide
        /\ \A x \in Runs : x # r => run'[x] = run[x]
    BY <1>1, <2>1 DEF RunStates, RunAt
  <2>3. stored' \in States /\ stored'.run = None /\ stored'.seeded = r
    BY <2>1 DEF States
  <2>4. RunsAreKnown'
    BY <2>1, <2>2, <2>3 DEF IInv, RunsAreKnown
  <2>5. stored # None /\ stored' # None
    BY <2>1, <2>3 DEF RunNumbers
  <2>6. HolderHasClaimed'
    BY <2>1, <2>2, <2>3, <2>5 DEF IInv, HolderHasClaimed
  <2> QED BY <2>4, <2>6 DEF IInv
<1>4. CASE Fails(r)
  BY <1>1, <1>4, RunMoves, [run[r] EXCEPT !.at = "cut"] \in RunStates DEF Fails, RunStates, RunAt
<1>5. CASE Create(r)
  <2>1. CASE run' = [run EXCEPT ![r].at = "complete", ![r].guide = <<r, "guide">>] /\ made' = made \cup {<<r, "guide">>}
    <3>1. [run[r] EXCEPT !.at = "complete", !.guide = <<r, "guide">>] \in RunStates
      BY <1>1 DEF RunStates, RunAt, Guides
    <3>2. run' = [run EXCEPT ![r] = [run[r] EXCEPT !.at = "complete", !.guide = <<r, "guide">>]]
      BY <1>1, <2>1 DEF RunStates
    <3> QED BY <1>1, <1>5, <2>1, <3>1, <3>2, RunMoves DEF Create, RunStates
  <2>2. CASE run' = [run EXCEPT ![r].at = "complete"] /\ UNCHANGED made
    BY <1>1, <1>5, <2>2, RunMoves, [run[r] EXCEPT !.at = "complete"] \in RunStates DEF Create, RunStates, RunAt
  <2> QED BY <1>5, <2>1, <2>2 DEF Create
<1>6. CASE Wait(r)
  <2>1. stored \in States /\ stored # None /\ stored.run = r /\ stored.seeded = r /\ run[r].at \notin {"free", "claim"}
    BY <1>6 DEF Wait, Holds, IsSeeding, IInv, RunsAreKnown, HolderHasClaimed, RunNumbers
  <2> QED BY <1>6, <2>1 DEF Wait, IInv, RunsAreKnown, HolderHasClaimed
<1> QED BY <1>2, <1>3, <1>4, <1>5, <1>6

LEMMA OthersWrite ==
    ASSUME RunNumbers, IInv,
           \/ \E p \in Pages : MarkExistingUserReady(p) \/ Dismiss(p)
           \/ ResetForDeveloper \/ CreateOwn
    PROVE  IInv'
<1>1. CASE ResetForDeveloper
  BY <1>1, StateMoves DEF ResetForDeveloper, Save, Seeding, States
<1>2. CASE CreateOwn
  BY <1>2 DEF CreateOwn, IInv, RunsAreKnown, HolderHasClaimed
<1>3. ASSUME NEW p \in Pages, MarkExistingUserReady(p) PROVE IInv'
  <2>1. CASE stored = None
    BY <1>3, <2>1, StateMoves DEF MarkExistingUserReady, Existing, States
  <2>2. CASE stored # None
    BY <1>3, <2>2 DEF MarkExistingUserReady, IInv, RunsAreKnown, HolderHasClaimed
  <2> QED BY <2>1, <2>2
<1>4. ASSUME NEW p \in Pages, Dismiss(p) PROVE IInv'
  <2>1. /\ stored \in States /\ stored # None /\ UNCHANGED <<made, old, run>>
        /\ stored' = [stored EXCEPT !.dismissed = TRUE]
    BY <1>4 DEF Dismiss, Save, IInv, RunsAreKnown
  <2>2. stored' \in States /\ stored'.run = stored.run /\ stored'.seeded = stored.seeded
    BY <2>1 DEF States
  <2> QED BY <2>1, <2>2, StateMoves
<1> QED BY <1>1, <1>2, <1>3, <1>4

LEMMA PagesLook ==
    ASSUME RunNumbers, NEW p \in Pages, IInv, Open(p) \/ Load(p) \/ Hydrate(p) \/ Hear(p) \/ Close(p)
    PROVE  IInv'
<1>1. CASE Open(p)
  BY <1>1 DEF Open, IInv, RunsAreKnown, HolderHasClaimed
<1>2. ASSUME NEW pg, Look(p, pg) PROVE IInv'
  <2>1. CASE UNCHANGED run
    BY <1>2, <2>1 DEF Look, IInv, RunsAreKnown, HolderHasClaimed
  <2>2. CASE run' # run
    <3>1. PICK r \in Runs : run[r].at = "free"
                            /\ run' = [run EXCEPT ![r] = [NotMade EXCEPT !.of = p, !.at = "claim", !.old = old]]
      BY <1>2, <2>2 DEF Look
    <3>2. [NotMade EXCEPT !.of = p, !.at = "claim", !.old = old] \in RunStates
      BY DEF NotMade, RunStates, RunAt, IInv, RunsAreKnown
    <3> QED BY <1>2, <3>1, <3>2, RunMoves DEF Look, NotMade
  <2> QED BY <2>1, <2>2
<1>3. CASE Close(p)
  <2>1. /\ run' \in [Runs -> RunStates]
        /\ \A r \in Runs : /\ run'[r].old = run[r].old /\ run'[r].guide = run[r].guide
                           /\ run'[r].at \in {"free", "claim"} => run[r].at \in {"free", "claim"}
                           /\ run[r].at \notin {"free", "claim"} => run'[r].at \notin {"free", "claim"}
    BY <1>3 DEF Close, IInv, RunsAreKnown, RunStates, RunAt
  <2>2. stored # None /\ stored.run # None => stored.run \in Runs
    BY DEF IInv, RunsAreKnown, States
  <2>3. UNCHANGED <<stored, made, old>>
    BY <1>3 DEF Close
  <2> QED BY <2>1, <2>2, <2>3 DEF IInv, RunsAreKnown, HolderHasClaimed
<1> QED BY <1>1, <1>2, <1>3 DEF Load, Hydrate, Hear

LEMMA StepHolds == RunNumbers /\ IInv /\ [Next]_vars => IInv'
<1> SUFFICES ASSUME RunNumbers, IInv, [Next]_vars PROVE IInv'
  OBVIOUS
<1>1. CASE UNCHANGED vars
  BY <1>1 DEF vars, IInv, RunsAreKnown, HolderHasClaimed
<1>2. CASE Next
  BY <1>2, Claims, RunsGoOn, OthersWrite, PagesLook DEF Next
<1> QED BY <1>1, <1>2

----------------------------------------------------------------------------
(* How many guides.  Cardinalities in numbers the prover can add.           *)
LEMMA CountsAreNumbers ==
    ASSUME IsFiniteSet(old), IsFiniteSet(Makers), NEW x
    PROVE  /\ Cardinality(Makers) \in Nat /\ Cardinality(old) \in Nat
           /\ IsFiniteSet(old \ {x}) /\ Cardinality(old \ {x}) \in Nat
           /\ Cardinality(old \ {x}) = IF x \in old THEN Cardinality(old) - 1 ELSE Cardinality(old)
BY FS_CardinalityType, FS_RemoveElement

LEMMA OldIsMore ==
    ASSUME IsFiniteSet(old), NEW x
    PROVE  Cardinality(old \ {x}) <= Cardinality(old) /\ Cardinality(old \ {x}) \in Nat
BY FS_Subset, FS_CardinalityType, old \ {x} \in SUBSET old

(* Nobody makes more, and the state is seeded as it was, if it was.         *)
LEMMA NobodyMore ==
    ASSUME MakersAreFew, Makers' \subseteq Makers, old' = old, acts' \in Nat, acts <= acts',
           stored' = None => stored = None,
           stored' # None /\ stored # None => stored'.seeded = stored.seeded
    PROVE  MakersAreFew'
<1>1. IsFiniteSet(Makers') /\ Cardinality(Makers') \in Nat /\ Cardinality(Makers') <= Cardinality(Makers)
      /\ Cardinality(Makers) \in Nat
  BY FS_Subset, FS_CardinalityType DEF MakersAreFew
<1>2. CASE stored = None
  <2>1. Makers' = {} /\ Cardinality(Makers') = 0
    BY <1>2, FS_EmptySet DEF MakersAreFew
  <2>2. Cardinality(old \ {stored'.seeded}) \in Nat
    BY CountsAreNumbers DEF MakersAreFew
  <2> QED BY <1>1, <2>1, <2>2 DEF MakersAreFew
<1>3. CASE stored # None
  <2>1. Cardinality(old \ {stored.seeded}) \in Nat
    BY CountsAreNumbers DEF MakersAreFew
  <2> QED BY <1>1, <1>3, <2>1 DEF MakersAreFew
<1> QED BY <1>2, <1>3

(* A claim is of a state nobody has seeded, or takes one over: from an old  *)
(* run, which is counted from now on, or from a reset.                      *)
LEMMA ClaimsAreCounted ==
    ASSUME RunNumbers, IInv, MakersAreFew, NEW r \in Runs, Claim(r)
    PROVE  MakersAreFew'
<1>1. /\ run[r] \in RunStates /\ run[r].at = "claim" /\ run[r].old \subseteq old
      /\ run \in [Runs -> RunStates]
      /\ UNCHANGED <<made, old, acts>>
  BY DEF Claim, IInv, RunsAreKnown, HolderHasClaimed
<1>2. CASE ~CanClaim(r)
  <2>0. \A x \in Runs : run'[x].at = "create" => run[x].at = "create"
    BY <1>1, <1>2 DEF Claim, RunStates
  <2>1. Makers' \subseteq Makers
    BY <1>1, <2>0 DEF Makers
  <2> QED BY <1>1, <1>2, <2>1, NobodyMore DEF Claim, MakersAreFew
<1>3. CASE CanClaim(r)
  <2>1. stored' = Seeding(r) /\ stored' # None /\ stored'.seeded = r /\ r # 0
    <3>1. stored' = Seeding(r) /\ Seeding(r) \in States /\ Seeding(r).seeded = r
      BY <1>3 DEF Claim, Save, Seeding, States
    <3> QED BY <3>1 DEF RunNumbers
  <2>2. Makers' \subseteq Makers \cup {r}
    <3>1. \A x \in Runs : x # r => run'[x] = run[x]
      BY <1>1, <1>3 DEF Claim
    <3> QED BY <1>1, <3>1 DEF Makers
  <2>3. /\ IsFiniteSet(Makers \cup {r}) /\ Cardinality(Makers \cup {r}) <= Cardinality(Makers) + 1
        /\ Cardinality(Makers) \in Nat /\ Cardinality(Makers \cup {r}) \in Nat
    <3>1. IsFiniteSet(Makers) /\ Cardinality(Makers) \in Nat
      BY FS_CardinalityType DEF MakersAreFew
    <3>2. IsFiniteSet(Makers \cup {r})
          /\ Cardinality(Makers \cup {r}) = IF r \in Makers THEN Cardinality(Makers) ELSE Cardinality(Makers) + 1
      BY <3>1, FS_AddElement
    <3> QED BY <3>1, <3>2
  <2>4. /\ IsFiniteSet(Makers') /\ Cardinality(Makers') \in Nat
        /\ Cardinality(Makers') <= Cardinality(Makers) + 1
    BY <2>2, <2>3, FS_Subset, FS_CardinalityType
  <2>5. CASE stored = None
    <3>1. old = {} /\ Makers = {} /\ Cardinality(Makers) = 0 /\ Cardinality(old \ {r}) \in Nat
      BY <2>5, FS_EmptySet, CountsAreNumbers DEF MakersAreFew, IInv, HolderHasClaimed
    <3> QED BY <1>1, <2>1, <2>4, <3>1 DEF MakersAreFew
  <2>6. CASE stored # None
    <3>1. stored.seeded \in old \cup {0} /\ r \notin old
      BY <1>1, <1>3, <2>6 DEF CanClaim, IsSeeding, IInv, HolderHasClaimed, RunNumbers
    <3>2. Cardinality(old \ {r}) = Cardinality(old) /\ Cardinality(old) \in Nat
      BY <3>1, CountsAreNumbers DEF MakersAreFew
    <3>3. Cardinality(old \ {stored.seeded})
            = IF stored.seeded \in old THEN Cardinality(old) - 1 ELSE Cardinality(old)
      BY CountsAreNumbers DEF MakersAreFew
    <3>4. 0 \notin old
      BY DEF IInv, RunsAreKnown, RunNumbers
    <3> QED BY <1>1, <2>1, <2>3, <2>4, <2>6, <3>1, <3>2, <3>3, <3>4 DEF MakersAreFew
  <2> QED BY <2>5, <2>6
<1> QED BY <1>2, <1>3

(* The run that holds the state becomes old.                                *)
LEMMA WaitIsCounted ==
    ASSUME RunNumbers, IInv, MakersAreFew, NEW r \in Runs, Wait(r)
    PROVE  MakersAreFew'
<1>1. /\ stored # None /\ stored.seeded = r /\ r \notin old /\ old' = old \cup {r} /\ r # 0
      /\ UNCHANGED <<stored, acts>> /\ Makers' = Makers
  BY DEF Wait, Holds, IsSeeding, IInv, RunsAreKnown, HolderHasClaimed, RunNumbers, Makers
<1>2. old' \ {r} = old \ {r} /\ IsFiniteSet(old')
  BY <1>1, FS_AddElement DEF MakersAreFew
<1> QED BY <1>1, <1>2 DEF MakersAreFew

(* A reset may be taken over once more.                                     *)
LEMMA ResetIsCounted ==
    ASSUME RunNumbers, IInv, MakersAreFew, ResetForDeveloper
    PROVE  MakersAreFew'
<1>1. /\ stored' # None /\ stored'.seeded = 0 /\ acts' = acts + 1 /\ acts \in Nat
      /\ UNCHANGED old /\ Makers' = Makers
  BY DEF ResetForDeveloper, Save, Seeding, States, RunNumbers, Makers, MakersAreFew
<1>2. 0 \notin old
  BY DEF IInv, RunsAreKnown, RunNumbers
<1>3. Cardinality(old \ {0}) = Cardinality(old) /\ Cardinality(old) \in Nat /\ Cardinality(Makers) \in Nat
  BY <1>2, CountsAreNumbers DEF MakersAreFew
<1>4. CASE stored = None
  BY <1>1, <1>3, <1>4, FS_EmptySet DEF MakersAreFew
<1>5. CASE stored # None
  <2>1. Cardinality(old \ {stored.seeded}) <= Cardinality(old) /\ Cardinality(old \ {stored.seeded}) \in Nat
    BY OldIsMore DEF MakersAreFew
  <2> QED BY <1>1, <1>3, <1>5, <2>1 DEF MakersAreFew
<1> QED BY <1>4, <1>5

(* Every other step.                                                        *)
LEMMA RestMakesNoMore ==
    ASSUME RunNumbers, IInv, MakersAreFew, Next,
           ~ResetForDeveloper, \A r \in Runs : ~Claim(r) /\ ~Wait(r)
    PROVE  MakersAreFew'
<1>1. run \in [Runs -> RunStates] /\ acts \in Nat
  BY DEF IInv, RunsAreKnown, MakersAreFew
<1>2. ASSUME NEW r \in Runs, Complete(r) \/ Fails(r) \/ Create(r) PROVE MakersAreFew'
  <2>1. Makers' \subseteq Makers
    <3>1. CASE Complete(r) \/ Fails(r)
      BY <1>1, <3>1 DEF Complete, Fails, Makers, RunStates
    <3>2. CASE Create(r)
      BY <1>1, <3>2 DEF Create, Makers, RunStates
    <3> QED BY <1>2, <3>1, <3>2
  <2>2. /\ UNCHANGED <<old, acts>>
        /\ stored' = None => stored = None
        /\ stored' # None /\ stored # None => stored'.seeded = stored.seeded
    <3>1. CASE Complete(r) /\ Completed(r)
      <4>1. stored \in States /\ stored' = [stored EXCEPT !.status = "ready", !.run = None, !.guide = run[r].guide]
        BY <3>1 DEF Complete, Completed, Save, Holds, IsSeeding, IInv, RunsAreKnown
      <4>2. stored' \in States /\ stored'.seeded = stored.seeded
        BY <1>1, <4>1 DEF States, RunStates
      <4> QED BY <3>1, <4>2 DEF Complete, RunNumbers
    <3>2. CASE ~(Complete(r) /\ Completed(r))
      BY <1>2, <3>2 DEF Complete, Fails, Create
    <3> QED BY <3>1, <3>2
  <2>3. acts' \in Nat /\ acts <= acts' /\ old' = old
    BY <1>1, <2>2
  <2> QED BY <2>1, <2>2, <2>3, NobodyMore
<1>3. ASSUME NEW p \in Pages, MarkExistingUserReady(p) \/ Dismiss(p) PROVE MakersAreFew'
  <2>1. Makers' = Makers /\ old' = old /\ acts' \in Nat /\ acts <= acts'
    BY <1>1, <1>3 DEF MarkExistingUserReady, Dismiss, Makers
  <2>2. CASE MarkExistingUserReady(p)
    <3>1. Existing \in States
      BY DEF Existing, States
    <3> QED BY <2>1, <2>2, <3>1, NobodyMore DEF MarkExistingUserReady, RunNumbers
  <2>3. CASE Dismiss(p)
    <3>1. stored \in States /\ stored # None /\ stored' = [stored EXCEPT !.dismissed = TRUE]
      BY <2>3 DEF Dismiss, Save, IInv, RunsAreKnown
    <3>2. stored' \in States /\ stored'.seeded = stored.seeded
      BY <3>1 DEF States
    <3> QED BY <2>1, <3>1, <3>2, NobodyMore DEF RunNumbers
  <2> QED BY <1>3, <2>2, <2>3
<1>4. ASSUME NEW p \in Pages, NEW pg, Look(p, pg) PROVE MakersAreFew'
  <2>1. Makers' \subseteq Makers /\ UNCHANGED <<stored, old, acts>>
    BY <1>1, <1>4 DEF Look, Makers, NotMade, RunStates
  <2> QED BY <1>1, <2>1, NobodyMore
<1>5. ASSUME NEW p \in Pages, Open(p) \/ Close(p) PROVE MakersAreFew'
  <2>1. Makers' \subseteq Makers /\ UNCHANGED <<stored, old, acts>>
    BY <1>1, <1>5 DEF Open, Close, Makers, RunStates
  <2> QED BY <1>1, <2>1, NobodyMore
<1>6. CASE CreateOwn
  <2>1. Makers' \subseteq Makers /\ UNCHANGED <<stored, old>> /\ acts' = acts + 1
    BY <1>6 DEF CreateOwn, Makers
  <2> QED BY <1>1, <2>1, NobodyMore
<1> QED BY <1>2, <1>3, <1>4, <1>5, <1>6 DEF Next, Load, Hydrate, Hear

LEMMA CountHolds == RunNumbers /\ IInv /\ MakersAreFew /\ [Next]_vars => MakersAreFew'
<1> SUFFICES ASSUME RunNumbers, IInv, MakersAreFew, [Next]_vars PROVE MakersAreFew'
  OBVIOUS
<1>1. CASE UNCHANGED vars
  BY <1>1 DEF vars, MakersAreFew, Makers
<1> QED BY <1>1, ClaimsAreCounted, WaitIsCounted, ResetIsCounted, RestMakesNoMore DEF Next

LEMMA CountStarts == Init => MakersAreFew
<1> SUFFICES ASSUME Init PROVE MakersAreFew
  OBVIOUS
<1>1. Makers = {}
  BY DEF Init, Makers, NotMade
<1> QED BY <1>1, FS_EmptySet DEF Init, MakersAreFew

----------------------------------------------------------------------------
(* What the two invariants say of the number of guides.                     *)
LEMMA InvBoundsGuides == IInv /\ MakersAreFew => GuidesAreFew
<1> SUFFICES ASSUME IInv, MakersAreFew PROVE GuidesAreFew
  OBVIOUS
<1> DEFINE G == {r \in Runs : <<r, "guide">> \in made}
<1>1. G \subseteq Makers
  BY DEF Makers
<1>2. /\ IsFiniteSet(G) /\ Cardinality(G) \in Nat /\ Cardinality(G) <= Cardinality(Makers)
      /\ Cardinality(Makers) \in Nat /\ Cardinality(old) \in Nat
  BY <1>1, FS_Subset, FS_CardinalityType DEF MakersAreFew
<1>3. CASE stored = None
  <2>1. Cardinality(Makers) = 0
    BY <1>3, FS_EmptySet DEF MakersAreFew
  <2> QED BY <1>2, <2>1 DEF GuidesAreFew, MakersAreFew
<1>4. CASE stored # None
  <2>1. Cardinality(old \ {stored.seeded}) <= Cardinality(old) /\ Cardinality(old \ {stored.seeded}) \in Nat
    BY OldIsMore DEF MakersAreFew
  <2> QED BY <1>2, <1>4, <2>1 DEF GuidesAreFew, MakersAreFew
<1> QED BY <1>3, <1>4

(* What a step does to a first run that is held.                            *)
Completes(r) ==
    Holds(r) /\ stored'.status = "ready"
      => /\ run[r].at = "complete" /\ stored'.guide = run[r].guide
         /\ stored'.guide # None => stored'.guide \in made

LEMMA StepCompletes ==
    ASSUME IInv, Next, NEW r \in Runs
    PROVE  Completes(r)
<1> SUFFICES ASSUME Holds(r), stored'.status = "ready"
             PROVE  /\ run[r].at = "complete" /\ stored'.guide = run[r].guide
                    /\ stored'.guide # None => stored'.guide \in made
  BY DEF Completes
<1>1. stored \in States /\ stored # None /\ stored.status = "seeding" /\ stored.run = r /\ stored' # stored
  BY DEF Holds, IsSeeding, IInv, RunsAreKnown
<1>2. PICK x \in Runs : Complete(x) /\ Completed(x)
  <2>1. ASSUME NEW x \in Runs, Claim(x) PROVE FALSE
    BY <1>1, <2>1 DEF Claim, Save, Seeding
  <2>2. ASSUME NEW p \in Pages, Dismiss(p) PROVE FALSE
    BY <1>1, <2>2 DEF Dismiss, Save, States
  <2>3. ASSUME NEW p \in Pages, MarkExistingUserReady(p) PROVE FALSE
    BY <1>1, <2>3 DEF MarkExistingUserReady
  <2>4. ~ResetForDeveloper /\ ~CreateOwn
    BY <1>1 DEF ResetForDeveloper, CreateOwn, Save, Seeding
  <2>5. ASSUME NEW p \in Pages, NEW pg, Look(p, pg) PROVE FALSE
    BY <1>1, <2>5 DEF Look
  <2>6. ASSUME NEW p \in Pages, Open(p) \/ Close(p) PROVE FALSE
    BY <1>1, <2>6 DEF Open, Close
  <2>7. ASSUME NEW x \in Runs, Fails(x) \/ Create(x) \/ Wait(x) PROVE FALSE
    BY <1>1, <2>7 DEF Fails, Create, Wait
  <2>8. ASSUME NEW x \in Runs, Complete(x), ~Completed(x) PROVE FALSE
    BY <1>1, <2>8 DEF Complete
  <2> QED BY <2>1, <2>2, <2>3, <2>4, <2>5, <2>6, <2>7, <2>8 DEF Next, Load, Hydrate, Hear
<1>3. x = r
  BY <1>1, <1>2 DEF Completed, Holds
<1>4. run[r].guide \in made \cup {None}
  BY DEF IInv, RunsAreKnown
<1> QED BY <1>1, <1>2, <1>3, <1>4 DEF Complete, Save, States

(* However many pages claim the first run, close, and take it over, there   *)
(* are no more guides than one, one for every run that had been going for   *)
(* more than 30 s, and one for every act of the user                        *)
(* (onboardingCoordinator.ts 36-47 and 72-84).                              *)
THEOREM NewUsersGetOneGuide ==
    ASSUME RunNumbers
    PROVE  Spec => []GuidesAreFew
<1>1. IInv /\ MakersAreFew => GuidesAreFew
  BY InvBoundsGuides
<1> QED BY RunNumbers, InitHolds, StepHolds, CountStarts, CountHolds, <1>1, PTL DEF Spec

(* A run that has been taken over completes nothing; the one that holds the *)
(* first run completes it with its own guide, which exists                  *)
(* (onboardingCoordinator.ts 85-106).                                       *)
THEOREM HolderCompletesIt ==
    ASSUME RunNumbers
    PROVE  Spec => HolderCompletes
<1>1. IInv /\ [Next]_vars => [\A r \in Runs :
         Holds(r) /\ stored'.status = "ready"
           => /\ run[r].at = "complete" /\ stored'.guide = run[r].guide
              /\ stored'.guide # None => stored'.guide \in made]_vars
  BY StepCompletes DEF Completes
<1> QED BY RunNumbers, InitHolds, StepHolds, <1>1, PTL DEF Spec, HolderCompletes
=============================================================================
