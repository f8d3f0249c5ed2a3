------------------------ MODULE MCStorage_proofs ------------------------
(***************************************************************************)
(* Proofs about the tabs that are stored and shown: the migration of older *)
(* storage, and the switch of a window to the tabs of a workspace; for any *)
(* stored data, any tabs of the window and any acts of the user.           *)
(*                                                                         *)
(* The argument for the migration: each of its steps writes a value that   *)
(* is read back as itself (a workspace that is Clean, a journal that is    *)
(* Settled, a state that is flat), and writes it before it removes what it *)
(* was read from; so at every cut (MigrationInv) what the next startup     *)
(* reads is what this one would have read.                                 *)
(*                                                                         *)
(* The argument for the tabs: until the commit, what the switch asked      *)
(* about is there or was clicked, and every target has a tab that shows it *)
(* (WindowInv). Tabs with one URL stand in the order of the targets        *)
(* (InOrder), so that the capture, which finds a key by its rank, finds    *)
(* the right one. When a switch fails, the pages opened again make up for  *)
(* those that are gone (ReopenedMakeUp).                                   *)
(***************************************************************************)
EXTENDS MCStorage, Lists, SequenceTheorems, FiniteSetTheorems, TLAPS

-----------------------------------------------------------------------------
(* What is chosen of a list.  Each of the chosen indexes has a rank, and no *)
(* two the same; so every place of the result comes from one of them.  The  *)
(* same holds of any finite set and any strict total order of it.           *)
Less == {p \in Nat \X Nat : p[1] < p[2]}

LEMMA LessIsWellFounded == IsWellFoundedOn(Less, Nat)
<1>1. OpToRel(<, Nat) = Less
  BY DEF OpToRel, Less
<1> QED BY <1>1, NatLessThanWellFounded, Zenon

LEMMA Least ==
    ASSUME NEW S, S \subseteq Nat, S # {}
    PROVE  \E m \in S : \A k \in S : m <= k
<1>1. PICK m \in S : \A k \in S : ~(<<k, m>> \in Less)
  BY LessIsWellFounded, WFMin
<1>2. \A k \in S : k \in Nat /\ m \in Nat
  OBVIOUS
<1>3. \A k \in S : ~(k < m)
  BY <1>1, <1>2 DEF Less
<1> QED BY <1>2, <1>3

LEMMA Greatest ==
    ASSUME NEW S, S \subseteq Nat, S # {}, NEW b \in Nat, \A k \in S : k <= b
    PROVE  \E m \in S : \A k \in S : k <= m
<1> DEFINE gaps == {b - k : k \in S}
<1>0. \A k \in S : k \in Nat /\ b - k \in Nat
  OBVIOUS
<1>1. gaps \subseteq Nat /\ gaps # {}
  BY <1>0
<1>2. PICK g \in gaps : \A h \in gaps : g <= h
  BY <1>1, Least
<1>3. PICK m \in S : g = b - m
  OBVIOUS
<1>4. \A k \in S : b - m <= b - k
  BY <1>2, <1>3
<1> QED BY <1>0, <1>4

LEMMA RankedBy ==
    ASSUME NEW I, IsFiniteSet(I), NEW R,
           \A x \in I : <<x, x>> \notin R,
           \A x, y, z \in I : <<x, y>> \in R /\ <<y, z>> \in R => <<x, z>> \in R,
           \A x, y \in I : x # y => <<x, y>> \in R \/ <<y, x>> \in R
    PROVE  \A n \in 1 .. Cardinality(I) : \E i \in I : Cardinality({j \in I : <<j, i>> \in R}) = n - 1
<1> DEFINE below(i) == {j \in I : <<j, i>> \in R}
           rank == [i \in I |-> Cardinality(below(i)) + 1]
<1>1. \A i \in I : /\ IsFiniteSet(below(i)) /\ Cardinality(below(i)) \in Nat
                   /\ Cardinality(below(i)) + 1 <= Cardinality(I)
  <2> TAKE i \in I
  <2>1. IsFiniteSet(I \ {i}) /\ Cardinality(I \ {i}) = Cardinality(I) - 1
    BY FS_RemoveElement
  <2>2. below(i) \in SUBSET (I \ {i})
    OBVIOUS
  <2>3. IsFiniteSet(below(i)) /\ Cardinality(below(i)) <= Cardinality(I \ {i})
    BY <2>1, <2>2, FS_Subset
  <2> HIDE DEF below
  <2>4. Cardinality(I) \in Nat /\ Cardinality(below(i)) \in Nat
    BY <2>3, FS_CardinalityType
  <2> QED BY <2>1, <2>3, <2>4
<1>2. ASSUME NEW i \in I, NEW k \in I, <<i, k>> \in R
      PROVE  Cardinality(below(i)) # Cardinality(below(k))
  <2>1. below(i) \in SUBSET below(k) /\ i \in below(k) /\ i \notin below(i)
    BY <1>2
  <2> HIDE DEF below
  <2>2. IsFiniteSet(below(k))
    BY <1>1
  <2>3. Cardinality(below(k)) = Cardinality(below(i)) => below(k) = below(i)
    BY <2>1, <2>2, FS_Subset
  <2> QED BY <2>1, <2>3
<1>3. Cardinality(I) \in Nat
  BY FS_CardinalityType
<1>4. IsFiniteSet(1 .. Cardinality(I)) /\ Cardinality(1 .. Cardinality(I)) = Cardinality(I)
  BY <1>3, FS_Interval
<1> HIDE DEF below
<1>5. rank \in [I -> 1 .. Cardinality(I)]
  BY <1>1, <1>3
<1>6. \A i, k \in I : i # k => rank[i] # rank[k]
  <2> TAKE i \in I, k \in I
  <2> HAVE i # k
  <2>1. <<i, k>> \in R \/ <<k, i>> \in R
    OBVIOUS
  <2>2. Cardinality(below(i)) # Cardinality(below(k))
    BY <1>2, <2>1
  <2>3. Cardinality(below(i)) \in Nat /\ Cardinality(below(k)) \in Nat
    BY <1>1
  <2> QED BY <2>2, <2>3
<1>7. rank \in Injection(I, 1 .. Cardinality(I))
  <2> HIDE DEF rank
  <2> QED BY <1>5, <1>6 DEF Injection, IsInjective
<1>8. rank \in Surjection(I, 1 .. Cardinality(I))
  BY <1>4, <1>7, FS_Injection
<1> TAKE n \in 1 .. Cardinality(I)
<1>9. PICK i \in I : rank[i] = n
  BY <1>8 DEF Surjection
<1>10. Cardinality(below(i)) = n - 1
  BY <1>1, <1>3, <1>9
<1> QED BY <1>10 DEF below

(* Of numbers by the usual order.                                           *)
LEMMA Ranked ==
    ASSUME NEW I, IsFiniteSet(I), I \subseteq Nat, NEW n \in 1 .. Cardinality(I)
    PROVE  \E i \in I : Before(i, I) = n - 1
<1>1. \A x \in I : x \in Nat
  OBVIOUS
<1>0. PICK R : R = Less
  OBVIOUS
<1>2. \A x \in I : <<x, x>> \notin R
  BY <1>0, <1>1 DEF Less
<1>3. \A x, y, z \in I : <<x, y>> \in R /\ <<y, z>> \in R => <<x, z>> \in R
  BY <1>0, <1>1 DEF Less
<1>4. \A x, y \in I : x # y => <<x, y>> \in R \/ <<y, x>> \in R
  BY <1>0, <1>1 DEF Less
<1>5. \A i \in I : {j \in I : <<j, i>> \in R} = {j \in I : j < i}
  BY <1>0, <1>1 DEF Less
<1>6. \A m \in 1 .. Cardinality(I) : \E i \in I : Cardinality({j \in I : <<j, i>> \in R}) = m - 1
  BY <1>2, <1>3, <1>4, RankedBy
<1> QED BY <1>5, <1>6 DEF Before

LEMMA Chosen ==
    ASSUME NEW T, NEW list \in Seq(T), NEW S
    PROVE  /\ At(list, S) \in Seq(T)
           /\ S \cap DOMAIN list = {} => At(list, S) = <<>>
           /\ \A n \in DOMAIN At(list, S) : \E i \in S \cap DOMAIN list : At(list, S)[n] = list[i]
<1> DEFINE I == S \cap DOMAIN list
           rank(n) == CHOOSE i \in I : Before(i, I) = n - 1
<1>1. DOMAIN list = 1 .. Len(list) /\ Len(list) \in Nat
  OBVIOUS
<1>2. IsFiniteSet(I) /\ I \subseteq Nat
  <2>1. IsFiniteSet(1 .. Len(list))
    BY <1>1, FS_Interval
  <2>2. I \in SUBSET (1 .. Len(list)) /\ 1 .. Len(list) \subseteq Nat
    BY <1>1
  <2> QED BY <2>1, <2>2, FS_Subset
<1>3. Cardinality(I) \in Nat
  BY <1>2, FS_CardinalityType
<1>4. At(list, S) = [n \in 1 .. Cardinality(I) |-> list[rank(n)]]
  BY DEF At
<1>5. \A n \in 1 .. Cardinality(I) : rank(n) \in I
  BY <1>2, Ranked
<1> HIDE DEF I, rank
<1>6. \A n \in 1 .. Cardinality(I) : list[rank(n)] \in T
  BY <1>1, <1>5 DEF I
<1>7. At(list, S) \in Seq(T)
  BY <1>3, <1>4, <1>6, IsASeq
<1>8. S \cap DOMAIN list = {} => At(list, S) = <<>>
  <2> HAVE S \cap DOMAIN list = {}
  <2>1. Cardinality(I) = 0
    BY FS_EmptySet DEF I
  <2>2. Len(At(list, S)) = 0
    BY <1>3, <1>4, <1>7, <2>1
  <2> QED BY <1>7, <2>2, EmptySeq
<1> QED BY <1>3, <1>4, <1>5, <1>7, <1>8 DEF I

(* All of a list is that list.                                              *)
LEMMA AllChosen ==
    ASSUME NEW T, NEW list \in Seq(T)
    PROVE  At(list, DOMAIN list) = list
<1> DEFINE I == DOMAIN list \cap DOMAIN list
           rank(n) == CHOOSE i \in I : Before(i, I) = n - 1
<1>1. I = 1 .. Len(list) /\ Len(list) \in Nat /\ list = [n \in 1 .. Len(list) |-> list[n]]
  <2>1. DOMAIN list = 1 .. Len(list) /\ Len(list) \in Nat /\ list = [n \in 1 .. Len(list) |-> list[n]]
    OBVIOUS
  <2> QED BY <2>1
<1>2. \A i \in I : Before(i, I) = i - 1
  <2> TAKE i \in I
  <2>1. {j \in I : j < i} = 1 .. (i - 1) /\ i - 1 \in Nat
    BY <1>1
  <2>2. Cardinality(1 .. (i - 1)) = i - 1
    BY <2>1, FS_Interval
  <2> QED BY <2>1, <2>2 DEF Before
<1>3. At(list, DOMAIN list) = [n \in 1 .. Cardinality(I) |-> list[rank(n)]]
  BY DEF At
<1> HIDE DEF I
<1>4. Cardinality(I) = Len(list)
  <2>1. \A k \in Nat : Cardinality(1 .. k) = k
    BY FS_Interval
  <2> QED BY <1>1, <2>1
<1>5. \A n \in 1 .. Len(list) : rank(n) = n
  BY <1>1, <1>2
<1> HIDE DEF rank
<1>6. At(list, DOMAIN list) = [n \in 1 .. Len(list) |-> list[n]]
  BY <1>3, <1>4, <1>5
<1> QED BY <1>1, <1>6

LEMMA Retyped ==
    ASSUME NEW S, NEW T, NEW list \in Seq(S), \A n \in DOMAIN list : list[n] \in T
    PROVE  list \in Seq(T)
<1>1. list = [n \in 1 .. Len(list) |-> list[n]] /\ Len(list) \in Nat /\ DOMAIN list = 1 .. Len(list)
  OBVIOUS
<1>2. [n \in 1 .. Len(list) |-> list[n]] \in Seq(T)
  BY <1>1, IsASeq
<1> QED BY <1>1, <1>2

-----------------------------------------------------------------------------
(* The migration of old data.  The tabs of containers, in any order of      *)
(* these, are tabs.                                                         *)
LEMMA OrderedTabs ==
    ASSUME NEW cs \in Migration!Containers, NEW f, \A v \in DOMAIN f : f[v] \in Int
    PROVE  /\ Migration!OrderedLegacyTabs(cs, f) \in Seq(OldTabs)
           /\ cs = <<>> => Migration!OrderedLegacyTabs(cs, f) = <<>>
<1> DEFINE Ctx == [order : Int \cup {None}, vid : VirtualIds \cup {None}, tabs : Seq(OldTabs)]
           key(i) == IF cs[i].order # None THEN cs[i].order
                     ELSE IF cs[i].vid \in DOMAIN f THEN f[cs[i].vid]
                     ELSE i - 1
           precedes(i, j) == key(i) < key(j) \/ (key(i) = key(j) /\ i < j)
           places == UNION {{i} \X DOMAIN cs[i].tabs : i \in DOMAIN cs}
           earlier(p) == {q \in places : precedes(q[1], p[1]) \/ (q[1] = p[1] /\ q[2] < p[2])}
           place(n) == CHOOSE p \in places : Cardinality(earlier(p)) = n - 1
           R == {w \in places \X places : precedes(w[1][1], w[2][1]) \/ (w[1][1] = w[2][1] /\ w[1][2] < w[2][2])}
<1>0. Migration!OrderedLegacyTabs(cs, f) =
        [n \in 1 .. Cardinality(places) |-> cs[place(n)[1]].tabs[place(n)[2]]]
  BY DEF Migration!OrderedLegacyTabs, Migration!Cardinality, Cardinality
<1>1. cs \in Seq(Ctx) /\ DOMAIN cs = 1 .. Len(cs) /\ Len(cs) \in Nat
  BY DEF Migration!Containers
<1>2. \A i \in DOMAIN cs : /\ i \in Nat /\ cs[i] \in Ctx /\ cs[i].tabs \in Seq(OldTabs)
                           /\ DOMAIN cs[i].tabs = 1 .. Len(cs[i].tabs) /\ Len(cs[i].tabs) \in Nat
                           /\ key(i) \in Int
  <2> TAKE i \in DOMAIN cs
  <2>1. cs[i] \in Ctx
    BY <1>1, ElementOfSeq
  <2>2. cs[i].order \in Int \cup {None} /\ cs[i].tabs \in Seq(OldTabs) /\ i \in Nat
    BY <1>1, <2>1
  <2> QED BY <2>1, <2>2
<1> HIDE DEF Ctx, key
<1>3. \A p : p \in places <=> p = <<p[1], p[2]>> /\ p[1] \in DOMAIN cs /\ p[2] \in DOMAIN cs[p[1]].tabs
  OBVIOUS
<1>4. \A p \in places : p[1] \in Nat /\ p[2] \in Nat /\ key(p[1]) \in Int
  BY <1>2, <1>3
<1>5. IsFiniteSet(places)
  <2>1. \A i \in DOMAIN cs : IsFiniteSet({i} \X DOMAIN cs[i].tabs)
    <3> TAKE i \in DOMAIN cs
    <3>1. IsFiniteSet(DOMAIN cs[i].tabs)
      BY <1>2, FS_Interval
    <3>2. IsFiniteSet({i})
      BY FS_Singleton
    <3> QED BY <3>1, <3>2, FS_Product
  <2>2. IsFiniteSet(DOMAIN cs)
    BY <1>1, FS_Interval
  <2>3. IsFiniteSet({{i} \X DOMAIN cs[i].tabs : i \in DOMAIN cs})
    <3> DEFINE row == [i \in DOMAIN cs |-> {i} \X DOMAIN cs[i].tabs]
    <3>1. {{i} \X DOMAIN cs[i].tabs : i \in DOMAIN cs} = {row[i] : i \in DOMAIN cs}
      OBVIOUS
    <3>2. row \in Surjection(DOMAIN cs, {row[i] : i \in DOMAIN cs})
      BY DEF Surjection
    <3>3. IsFiniteSet({row[i] : i \in DOMAIN cs})
      BY <2>2, <3>2, FS_Surjection
    <3> QED BY <3>1, <3>3
  <2> QED BY <2>1, <2>3, FS_UNION
<1> HIDE DEF places
<1>6. /\ \A x \in places : <<x, x>> \notin R
      /\ \A x, y, z \in places : <<x, y>> \in R /\ <<y, z>> \in R => <<x, z>> \in R
      /\ \A x, y \in places : x # y => <<x, y>> \in R \/ <<y, x>> \in R
  <2>1. \A x, y \in places : <<x, y>> \in R <=> precedes(x[1], y[1]) \/ (x[1] = y[1] /\ x[2] < y[2])
    OBVIOUS
  <2> HIDE DEF R
  <2>2. \A x \in places : <<x, x>> \notin R
    BY <1>4, <2>1
  <2>3. \A x, y, z \in places : <<x, y>> \in R /\ <<y, z>> \in R => <<x, z>> \in R
    <3> TAKE x \in places, y \in places, z \in places
    <3>1. /\ x[1] \in Nat /\ x[2] \in Nat /\ key(x[1]) \in Int
          /\ y[1] \in Nat /\ y[2] \in Nat /\ key(y[1]) \in Int
          /\ z[1] \in Nat /\ z[2] \in Nat /\ key(z[1]) \in Int
      BY <1>4
    <3> QED BY <2>1, <3>1
  <2>4. \A x, y \in places : x # y => <<x, y>> \in R \/ <<y, x>> \in R
    <3> TAKE x \in places, y \in places
    <3>1. /\ x[1] \in Nat /\ x[2] \in Nat /\ key(x[1]) \in Int
          /\ y[1] \in Nat /\ y[2] \in Nat /\ key(y[1]) \in Int
      BY <1>4
    <3>2. x # y => x[1] # y[1] \/ x[2] # y[2]
      BY <1>3
    <3> QED BY <2>1, <3>1, <3>2
  <2> QED BY <2>2, <2>3, <2>4
<1>7. \A n \in 1 .. Cardinality(places) : place(n) \in places
  <2> TAKE n \in 1 .. Cardinality(places)
  <2>1. \A p \in places : earlier(p) = {q \in places : <<q, p>> \in R}
    OBVIOUS
  <2> HIDE DEF R, earlier
  <2>2. \E p \in places : Cardinality({q \in places : <<q, p>> \in R}) = n - 1
    BY <1>5, <1>6, RankedBy
  <2>3. \E p \in places : Cardinality(earlier(p)) = n - 1
    BY <2>1, <2>2
  <2> QED BY <2>3
<1> HIDE DEF place
<1>8. \A n \in 1 .. Cardinality(places) : cs[place(n)[1]].tabs[place(n)[2]] \in OldTabs
  BY <1>2, <1>3, <1>7, ElementOfSeq
<1>9. Cardinality(places) \in Nat
  BY <1>5, FS_CardinalityType
<1>10. Migration!OrderedLegacyTabs(cs, f) \in Seq(OldTabs)
  BY <1>0, <1>8, <1>9, IsASeq
<1>11. cs = <<>> => Migration!OrderedLegacyTabs(cs, f) = <<>>
  <2> HAVE cs = <<>>
  <2>1. places = {}
    BY <1>3
  <2>2. Cardinality(places) = 0
    BY <2>1, FS_EmptySet
  <2>3. 1 .. Cardinality(places) = {}
    BY <2>2
  <2> QED BY <1>0, <1>9, <1>10, <2>2, EmptySeq
<1> QED BY <1>10, <1>11

(* The last entry of an id is one of the entries.                           *)
LEMMA VirtualOrder ==
    ASSUME NEW entries \in Migration!VirtualWindows
    PROVE  \A v \in DOMAIN Migration!VirtualWindowOrder(entries) :
             Migration!VirtualWindowOrder(entries)[v] \in Int
<1> DEFINE V == [vid : VirtualIds \cup {None}, order : Int \cup {None}]
           those(v) == {i \in DOMAIN entries : entries[i].vid = v}
           last(v) == Migration!Max(those(v))
           ids == {entries[i].vid : i \in DOMAIN entries} \ {None}
           value(v) == IF entries[last(v)].order # None THEN entries[last(v)].order ELSE last(v) - 1
<1>1. Migration!VirtualWindowOrder(entries) = [v \in ids |-> value(v)]
  BY DEF Migration!VirtualWindowOrder
<1>2. entries \in Seq(V) /\ DOMAIN entries = 1 .. Len(entries) /\ Len(entries) \in Nat
  BY DEF Migration!VirtualWindows
<1> HIDE DEF V
<1>a. \A i \in DOMAIN entries : entries[i] \in V /\ i \in Nat
  BY <1>2, ElementOfSeq
<1>3. ASSUME NEW v \in ids
      PROVE  last(v) \in DOMAIN entries
  <2>1. those(v) # {} /\ those(v) \subseteq Nat /\ \A k \in those(v) : k <= Len(entries)
    BY <1>2
  <2>2. those(v) \subseteq DOMAIN entries
    OBVIOUS
  <2> HIDE DEF those
  <2>3. \E m \in those(v) : \A k \in those(v) : k <= m
    BY <1>2, <2>1, Greatest
  <2>4. \A k \in those(v) : k \in Int
    BY <2>1
  <2>5. \E m \in those(v) : \A k \in those(v) : m >= k
    BY <2>3, <2>4
  <2> QED BY <2>2, <2>5 DEF Migration!Max
<1> HIDE DEF last
<1>4. \A v \in ids : value(v) \in Int
  <2> TAKE v \in ids
  <2>1. entries[last(v)] \in V /\ last(v) \in Nat
    BY <1>3, <1>a
  <2> QED BY <2>1 DEF V
<1> HIDE DEF value, ids
<1> QED BY <1>1, <1>4

(* A sanitized list is recordable, and a recordable one stays as it is.     *)
LEMMA CleanTabs ==
    ASSUME NEW tabs \in Seq(OldTabs)
    PROVE  /\ Migration!Sanitized(tabs) \in Seq(GoodTabs)
           /\ tabs \in Seq(GoodTabs) => Migration!Sanitized(tabs) = tabs
<1> DEFINE S == {i \in DOMAIN tabs : tabs[i] \in GoodTabs}
<1>1. Migration!Sanitized(tabs) = At(tabs, S)
  <2>1. \A list, X : Migration!At(list, X) = At(list, X)
    BY DEF Migration!At, At, Migration!Before, Before, Migration!Cardinality, Cardinality
  <2> QED BY <2>1 DEF Migration!Sanitized, Migration!Where
<1>2. tabs \in Seq(GoodTabs) => S = DOMAIN tabs
  <2>1. tabs \in Seq(GoodTabs) => \A i \in DOMAIN tabs : tabs[i] \in GoodTabs
    BY ElementOfSeq
  <2> QED BY <2>1
<1>3. S \subseteq DOMAIN tabs /\ \A i \in S : tabs[i] \in GoodTabs
  OBVIOUS
<1> HIDE DEF S
<1>4. At(tabs, S) \in Seq(OldTabs) /\ \A n \in DOMAIN At(tabs, S) : \E i \in S : At(tabs, S)[n] = tabs[i]
  BY <1>3, Chosen
<1>5. At(tabs, S) \in Seq(GoodTabs)
  BY <1>3, <1>4, Retyped
<1> QED BY <1>1, <1>2, <1>5, AllChosen
-----------------------------------------------------------------------------
(* The shape of a migrated workspace, journal and state.                    *)
Clean == [slots : {<<>>}, tabs : Seq(GoodTabs), rev : Nat]
Settled(j) ==
  /\ j = [win |-> j.win, sources |-> {}, slots |-> <<>>, tabs |-> j.tabs, phase |-> j.phase]
  /\ j.win \in OpenWindows \cup {None} /\ j.tabs \in Seq(GoodTabs) /\ j.phase \in {"opening", "recovery_failed"}
  /\ j.win = None => j.phase = "recovery_failed"
FlatState(s) == s = Migration!Flat(s) /\ s.notes \in SUBSET OldTabs

LEMMA NoneIsNoData ==
    /\ None \notin Migration!RawWorkspaces /\ None \notin Migration!Journals /\ None \notin Migration!States
    /\ None # Unknown /\ None \notin OpenWindows /\ Unknown \notin OpenWindows
    /\ GoodTabs \subseteq OldTabs
  BY OldDataKnown

LEMMA NoContainers ==
    /\ <<>> \in Migration!Containers /\ <<>> \in Migration!VirtualWindows
    /\ <<>> \in Seq(GoodTabs) /\ <<>> \in Seq(OldTabs)
    /\ Seq(GoodTabs) \subseteq Seq(OldTabs)
<1>1. \A T : <<>> \in Seq(T)
  OBVIOUS
<1>2. Seq(GoodTabs) \subseteq Seq(OldTabs)
  BY NoneIsNoData, SeqMonotonic
<1> QED BY <1>1, <1>2 DEF Migration!Containers, Migration!VirtualWindows

LEMMA CleanIsRaw == Clean \subseteq Migration!RawWorkspaces
  BY NoContainers DEF Clean, Migration!RawWorkspaces

LEMMA OrderedContainers ==
    ASSUME NEW cs \in Migration!Containers, NEW entries \in Migration!VirtualWindows
    PROVE  /\ Migration!OrderedLegacyTabs(cs, <<>>) \in Seq(OldTabs)
           /\ cs = <<>> => Migration!OrderedLegacyTabs(cs, <<>>) = <<>>
           /\ Migration!OrderedLegacyTabs(cs, Migration!VirtualWindowOrder(entries)) \in Seq(OldTabs)
<1>1. \A v \in DOMAIN <<>> : <<>>[v] \in Int
  OBVIOUS
<1> QED BY <1>1, VirtualOrder, OrderedTabs

(* A workspace that was normalized is normalized to itself, also beside     *)
(* layouts that would be read in place of its list.                         *)
LEMMA NormalizedIsClean ==
    ASSUME NEW raw \in Migration!RawWorkspaces, NEW layouts \in Migration!Containers,
           NEW entries \in Migration!VirtualWindows
    PROVE  /\ Migration!Normalized(raw, layouts, entries) \in Clean
           /\ raw \in Clean /\ layouts = <<>> => Migration!Normalized(raw, layouts, entries) = raw
           /\ (layouts # <<>> => raw.slots = <<>>) =>
                Migration!Normalized(Migration!Normalized(raw, layouts, entries), layouts, entries)
                  = Migration!Normalized(raw, layouts, entries)
<1> DEFINE n == Migration!Normalized(raw, layouts, entries)
           ordered == Migration!OrderedLegacyTabs(layouts, Migration!VirtualWindowOrder(entries))
           slots == Migration!OrderedLegacyTabs(raw.slots, <<>>)
           from == IF raw.slots # <<>> THEN slots ELSE IF layouts # <<>> THEN ordered ELSE raw.tabs
<1>1. raw.slots \in Migration!Containers /\ raw.tabs \in Seq(OldTabs) /\ raw.rev \in Nat
  BY DEF Migration!RawWorkspaces
<1>2. ordered \in Seq(OldTabs) /\ slots \in Seq(OldTabs)
  BY <1>1, OrderedContainers
<1>3. n = [slots |-> <<>>, rev |-> raw.rev, tabs |-> Migration!Sanitized(from)]
  BY DEF Migration!Normalized
<1>4. Migration!Normalized(n, layouts, entries) =
        [slots |-> <<>>, rev |-> n.rev,
         tabs |-> Migration!Sanitized(IF n.slots # <<>> THEN Migration!OrderedLegacyTabs(n.slots, <<>>)
                                      ELSE IF layouts # <<>> THEN ordered ELSE n.tabs)]
  BY DEF Migration!Normalized
<1> HIDE DEF ordered, slots, n
<1>5. from \in Seq(OldTabs)
  BY <1>1, <1>2
<1>6. Migration!Sanitized(from) \in Seq(GoodTabs) /\ Migration!Sanitized(from) \in Seq(OldTabs)
  BY <1>5, CleanTabs, NoContainers
<1>7. n \in Clean
  BY <1>1, <1>3, <1>6 DEF Clean
<1>8. raw \in Clean /\ layouts = <<>> => n = raw
  <2> HAVE raw \in Clean /\ layouts = <<>>
  <2>1. raw.slots = <<>> /\ raw.tabs \in Seq(GoodTabs) /\ raw = [slots |-> <<>>, tabs |-> raw.tabs, rev |-> raw.rev]
    BY DEF Clean
  <2>2. Migration!Sanitized(from) = raw.tabs
    BY <1>1, <2>1, CleanTabs
  <2> QED BY <1>3, <2>1, <2>2
<1>9. (layouts # <<>> => raw.slots = <<>>) => Migration!Normalized(n, layouts, entries) = n
  <2> HAVE layouts # <<>> => raw.slots = <<>>
  <2>1. CASE layouts # <<>>
    <3>1. from = ordered
      BY <2>1
    <3> QED BY <1>3, <1>4, <2>1, <3>1
  <2>2. CASE layouts = <<>>
    <3>1. Migration!Sanitized(n.tabs) = n.tabs
      BY <1>3, <1>6, CleanTabs
    <3> QED BY <1>3, <1>4, <2>2, <3>1
  <2> QED BY <2>1, <2>2
<1> QED BY <1>7, <1>8, <1>9 DEF n

(* The windows of entries, and the one they all name.                       *)
LEMMA OnlyOne ==
    ASSUME NEW S, S \subseteq OpenWindows
    PROVE  /\ Migration!Only(S) \in S \cup {None}
           /\ Migration!Only(S) # None => S = {Migration!Only(S)}
<1>1. CASE \E w \in S : S = {w}
  BY <1>1 DEF Migration!Only
<1>2. CASE ~\E w \in S : S = {w}
  BY <1>2 DEF Migration!Only
<1> QED BY <1>1, <1>2

LEMMA EntryIds ==
    ASSUME NEW S \in SUBSET Migration!Entries
    PROVE  Migration!Ids(S) \subseteq OpenWindows
  BY DEF Migration!Entries, Migration!Ids

(* The window of a journal is one of those that were named.                 *)
LEMMA NamedWindow ==
    ASSUME NEW j \in Migration!Journals, NEW main \in Migration!States
    PROVE  LET w == Migration!ResolveLegacySwitchWindow(j, main) IN
           /\ j.win # None => w = j.win
           /\ \/ w = Unknown
              \/ w # None /\ w \in {j.win, Migration!Focused(j.sources), main.win, Migration!Only(Migration!Ids(j.sources)),
                                    Migration!Focused(main.windows), Migration!Only(Migration!Ids(main.windows))}
           /\ j.win = None /\ j.sources = {} /\ main.win = None /\ main.windows = {} => w = Unknown
<1> DEFINE sources == Migration!Ids(j.sources)
           third == IF sources = {} \/ main.win \in sources THEN main.win ELSE None
           choices == <<j.win, Migration!Focused(j.sources), third, Migration!Only(sources),
                        Migration!Focused(main.windows), Migration!Only(Migration!Ids(main.windows))>>
           named == {i \in DOMAIN choices : choices[i] # None}
           first == CHOOSE i \in named : \A k \in named : i <= k
           w == Migration!ResolveLegacySwitchWindow(j, main)
<1>1. w = IF named = {} THEN Unknown ELSE choices[first]
  BY DEF Migration!ResolveLegacySwitchWindow
<1>2. DOMAIN choices = 1 .. 6 /\ choices[1] = j.win /\ choices[2] = Migration!Focused(j.sources)
      /\ choices[3] = third /\ choices[4] = Migration!Only(sources)
      /\ choices[5] = Migration!Focused(main.windows) /\ choices[6] = Migration!Only(Migration!Ids(main.windows))
  OBVIOUS
<1> HIDE DEF choices, w
<1>3. named \subseteq Nat
  BY <1>2
<1>4. named # {} => first \in named /\ \A k \in named : first <= k
  <2> HAVE named # {}
  <2> HIDE DEF named
  <2> QED BY <1>3, Least
<1> HIDE DEF first
<1>5. j.win # None => w = j.win
  <2> HAVE j.win # None
  <2>1. 1 \in named
    BY <1>2
  <2>2. first <= 1 /\ first \in 1 .. 6
    BY <1>2, <1>4, <2>1
  <2>3. first = 1
    BY <2>2
  <2> QED BY <1>1, <1>2, <2>1, <2>3
<1>6. \/ w = Unknown
      \/ w # None /\ w \in {j.win, Migration!Focused(j.sources), main.win, Migration!Only(sources),
                            Migration!Focused(main.windows), Migration!Only(Migration!Ids(main.windows))}
  <2>1. CASE named = {}
    BY <1>1, <2>1
  <2>2. CASE named # {}
    <3>1. first \in 1 .. 6 /\ choices[first] # None
      BY <1>2, <1>4, <2>2
    <3>2. choices[first] \in {j.win, Migration!Focused(j.sources), third, Migration!Only(sources),
                              Migration!Focused(main.windows), Migration!Only(Migration!Ids(main.windows))}
      BY <1>2, <3>1
    <3>3. third \in {main.win, None}
      OBVIOUS
    <3> HIDE DEF third
    <3> QED BY <1>1, <2>2, <3>1, <3>2, <3>3
  <2> QED BY <2>1, <2>2
<1>7. j.win = None /\ j.sources = {} /\ main.win = None /\ main.windows = {} => w = Unknown
  <2> HAVE j.win = None /\ j.sources = {} /\ main.win = None /\ main.windows = {}
  <2>1. Migration!Ids({}) = {} /\ Migration!Focused({}) = None /\ Migration!Only({}) = None
    BY DEF Migration!Ids, Migration!Focused, Migration!Only
  <2>2. named = {}
    BY <1>2, <2>1
  <2> QED BY <1>1, <2>2
<1> QED BY <1>5, <1>6, <1>7 DEF w

(* A journal that is read is settled, and a settled one is read as itself.  *)
LEMMA JournalSettles ==
    ASSUME NEW j \in Migration!Journals, NEW main \in Migration!States
    PROVE  /\ Migration!ToSwitchState(j, main) # None
           /\ Settled(Migration!ToSwitchState(j, main))
           /\ Migration!ToSwitchState(j, main).win =
                IF Migration!ResolveLegacySwitchWindow(j, main) = Unknown THEN None
                ELSE Migration!ResolveLegacySwitchWindow(j, main)
<1> DEFINE w == Migration!ResolveLegacySwitchWindow(j, main)
           ordered == Migration!OrderedLegacyTabs(j.slots, <<>>)
           tabs == Migration!Sanitized(IF j.tabs # <<>> THEN j.tabs ELSE ordered)
           s == Migration!ToSwitchState(j, main)
<1>1. s = [win |-> IF w = Unknown THEN None ELSE w, sources |-> {}, slots |-> <<>>, tabs |-> tabs,
           phase |-> IF w = Unknown THEN "recovery_failed" ELSE j.phase]
  BY NoneIsNoData DEF Migration!ToSwitchState
<1>2. /\ j.win \in OpenWindows \cup {None} /\ j.tabs \in Seq(OldTabs) /\ j.phase \in {"opening", "recovery_failed"}
      /\ j.slots \in Migration!Containers /\ j.sources \in SUBSET Migration!Entries
      /\ main.win \in OpenWindows \cup {None} /\ main.windows \in SUBSET Migration!Entries
  BY DEF Migration!Journals, Migration!States
<1>3. ordered \in Seq(OldTabs)
  BY <1>2, OrderedTabs
<1> HIDE DEF ordered, s
<1>4. tabs \in Seq(GoodTabs)
  BY <1>2, <1>3, CleanTabs
<1>5. \A S \in SUBSET Migration!Entries :
        /\ Migration!Focused(S) \in OpenWindows \cup {None}
        /\ Migration!Only(Migration!Ids(S)) \in OpenWindows \cup {None}
  <2> TAKE S \in SUBSET Migration!Entries
  <2>1. {e \in S : e.focused} \in SUBSET Migration!Entries
    OBVIOUS
  <2> QED BY <2>1, EntryIds, OnlyOne DEF Migration!Focused
<1>6. w = Unknown \/ w \in OpenWindows
  BY <1>2, <1>5, NamedWindow
<1> HIDE DEF w, tabs
<1>7. s # None
  BY <1>1, NoneIsNoData, NoContainers, <1>2, <1>4, <1>6 DEF Migration!Journals
<1>8. Settled(s)
  BY <1>1, <1>2, <1>4, <1>6, NoneIsNoData DEF Settled
<1> QED BY <1>1, <1>7, <1>8 DEF s, w

(* A state without windows and without a journal of its own.                *)
LEMMA FlatFields ==
    ASSUME NEW s, FlatState(s)
    PROVE  /\ s = [notes |-> s.notes, win |-> None, windows |-> {}, journal |-> None]
           /\ s.notes \in SUBSET OldTabs /\ s \in Migration!States /\ s # None
<1>1. s = [notes |-> s.notes, win |-> None, windows |-> {}, journal |-> None] /\ s.notes \in SUBSET OldTabs
  BY DEF FlatState, Migration!Flat, Migration!NoMain
<1>2. s \in Migration!States
  BY <1>1 DEF Migration!States
<1> QED BY <1>1, <1>2, NoneIsNoData

LEMMA FlatOf ==
    ASSUME NEW s, s.notes \in SUBSET OldTabs
    PROVE  /\ FlatState(Migration!Flat(s)) /\ Migration!Flat(s).notes = s.notes
           /\ [Migration!NoMain EXCEPT !.notes = s.notes] = Migration!Flat(s)
           /\ FlatState(Migration!NoMain) /\ Migration!NoMain.notes = {}
  BY DEF FlatState, Migration!Flat, Migration!NoMain

LEMMA SettledStays ==
    ASSUME NEW j, Settled(j), NEW main, FlatState(main)
    PROVE  Migration!ToSwitchState(j, main) = j /\ j # None /\ j \in Migration!Journals
<1>1. /\ j = [win |-> j.win, sources |-> {}, slots |-> <<>>, tabs |-> j.tabs, phase |-> j.phase]
      /\ j.win \in OpenWindows \cup {None} /\ j.tabs \in Seq(GoodTabs) /\ j.phase \in {"opening", "recovery_failed"}
      /\ j.win = None => j.phase = "recovery_failed"
  BY DEF Settled
<1>2. j \in Migration!Journals /\ j # None
  BY <1>1, NoContainers, NoneIsNoData DEF Migration!Journals
<1> DEFINE w == Migration!ResolveLegacySwitchWindow(j, main)
           ordered == Migration!OrderedLegacyTabs(j.slots, <<>>)
<1>3. main \in Migration!States /\ main.win = None /\ main.windows = {}
  BY FlatFields
<1>4. IF j.win # None THEN w = j.win ELSE w = Unknown
  BY <1>1, <1>2, <1>3, NamedWindow
<1>5. ordered = <<>>
  <2>1. j.slots = <<>> /\ j.slots \in Migration!Containers /\ \A v \in DOMAIN <<>> : <<>>[v] \in Int
    BY <1>1, NoContainers
  <2> QED BY <2>1, OrderedTabs
<1>6. Migration!Sanitized(IF j.tabs # <<>> THEN j.tabs ELSE ordered) = j.tabs
  <2>1. (IF j.tabs # <<>> THEN j.tabs ELSE ordered) = j.tabs
    BY <1>5
  <2> QED BY <1>1, <2>1, CleanTabs, NoContainers
<1>7. Migration!ToSwitchState(j, main) =
        [win |-> IF w = Unknown THEN None ELSE w, sources |-> {}, slots |-> <<>>, tabs |-> j.tabs,
         phase |-> IF w = Unknown THEN "recovery_failed" ELSE j.phase]
  BY <1>2, <1>6 DEF Migration!ToSwitchState
<1> HIDE DEF w
<1>8. (IF w = Unknown THEN None ELSE w) = j.win /\ (IF w = Unknown THEN "recovery_failed" ELSE j.phase) = j.phase
  BY <1>1, <1>4, NoneIsNoData
<1> QED BY <1>1, <1>2, <1>7, <1>8

(* What is stored in one area.                                              *)
Area(a) ==
  /\ a = [workspaces |-> a.workspaces, tags |-> a.tags, state |-> a.state, switch |-> a.switch,
          layouts |-> a.layouts, entries |-> a.entries]
  /\ a.workspaces \in Migration!RawWorkspaces \cup {None} /\ a.tags \in Migration!RawWorkspaces \cup {None}
  /\ a.state \in Migration!States \cup {None} /\ a.switch \in Migration!Journals \cup {None}
  /\ a.layouts \in Migration!Containers /\ a.entries \in Migration!VirtualWindows

\* Layouts lie beside a workspace without contexts, under either key.
Fits(a) ==
  a.layouts # <<>> =>
    /\ a.workspaces # None \/ a.tags # None
    /\ a.workspaces # None => a.workspaces.slots = <<>>
    /\ a.tags # None => a.tags.slots = <<>>

\* The workspaces as the migration writes them.
Rewritten(a) ==
  a.workspaces # None =>
    a.workspaces \in Clean /\ Migration!Normalized(a.workspaces, a.layouts, a.entries) = a.workspaces

\* The state and the journal as the migration writes them.
FlatArea(a) ==
  /\ a.state = None \/ FlatState(a.state)
  /\ a.switch = None \/ Settled(a.switch)

\* What is loaded of them.
Loads(s) == s = [notes |-> s.notes, journal |-> s.journal] /\ s.notes \in SUBSET OldTabs
            /\ (s.journal = None \/ Settled(s.journal))

(* What is loaded of an area; of a flat one, just what it holds.            *)
LEMMA StateLoads ==
    ASSUME NEW a, Area(a)
    PROVE  Loads(Migration!StateIn(a))
<1> DEFINE main == IF a.state = None THEN Migration!NoMain ELSE a.state
           own == Migration!ToSwitchState(a.switch, main)
           older == Migration!ToSwitchState(main.journal, main)
<1>1. Migration!NoMain \in Migration!States
  BY DEF Migration!NoMain, Migration!States
<1>2. main \in Migration!States /\ a.switch \in Migration!Journals \cup {None}
  BY <1>1 DEF Area
<1>3. Migration!StateIn(a) = [notes |-> main.notes, journal |-> IF own # None THEN own ELSE older]
  BY DEF Migration!StateIn
<1> HIDE DEF main
<1>4. main.notes \in SUBSET OldTabs /\ main.journal \in Migration!Journals \cup {None}
  BY <1>2 DEF Migration!States
<1>5. \A j \in Migration!Journals \cup {None} :
        Migration!ToSwitchState(j, main) = None \/ Settled(Migration!ToSwitchState(j, main))
  <2> TAKE j \in Migration!Journals \cup {None}
  <2>1. j = None => Migration!ToSwitchState(j, main) = None
    BY DEF Migration!ToSwitchState
  <2> QED BY <1>2, <2>1, JournalSettles
<1>6. (own = None \/ Settled(own)) /\ (older = None \/ Settled(older))
  BY <1>2, <1>4, <1>5
<1> HIDE DEF own, older
<1> QED BY <1>3, <1>4, <1>6 DEF Loads

LEMMA FlatLoads ==
    ASSUME NEW a, FlatArea(a)
    PROVE  /\ Migration!StateIn(a) =
                [notes |-> IF a.state = None THEN {} ELSE a.state.notes, journal |-> a.switch]
           /\ a.state \in Migration!States \cup {None} /\ a.switch \in Migration!Journals \cup {None}
<1> DEFINE main == IF a.state = None THEN Migration!NoMain ELSE a.state
           own == Migration!ToSwitchState(a.switch, main)
           older == Migration!ToSwitchState(main.journal, main)
<1>0. FlatState(Migration!NoMain) /\ Migration!NoMain.notes = {}
  BY DEF FlatState, Migration!Flat, Migration!NoMain
<1>1. FlatState(main)
  BY <1>0 DEF FlatArea
<1>2. Migration!StateIn(a) = [notes |-> main.notes, journal |-> IF own # None THEN own ELSE older]
  BY DEF Migration!StateIn
<1>3. main.notes = IF a.state = None THEN {} ELSE a.state.notes
  BY <1>0
<1> HIDE DEF main
<1>4. main.journal = None
  BY <1>1, FlatFields
<1>5. older = None
  BY <1>4 DEF Migration!ToSwitchState
<1>6. a.switch = None => own = None
  BY DEF Migration!ToSwitchState
<1>7. a.switch # None => own = a.switch /\ a.switch \in Migration!Journals
  BY <1>1, SettledStays DEF FlatArea
<1> HIDE DEF own, older
<1>8. (IF own # None THEN own ELSE older) = a.switch
  BY <1>5, <1>6, <1>7
<1>9. a.state \in Migration!States \cup {None}
  BY FlatFields DEF FlatArea
<1> QED BY <1>2, <1>3, <1>7, <1>8, <1>9

-----------------------------------------------------------------------------
(* At every cut: what was read is what would be read, and what was written  *)
(* already has the shape it will be read back in.                           *)
MigrationInv ==
  /\ Area(legacyLocal) /\ Area(legacyRemote) /\ Fits(legacyLocal)
  /\ legacyAt \in {"begin", "workspaces", "tags", "state", "switch", "legacy", "open", "failed"}
  /\ legacyAt = "workspaces" =>
       /\ legacyLocal.workspaces # None \/ legacyLocal.tags # None => legacyRead = Migration!WorkspaceSource
       /\ legacyLocal.workspaces = None /\ legacyLocal.tags = None =>
            legacyRead.src = "none" \/ (legacyRead.src = "remote" /\ legacyRead.value \in Clean)
  /\ legacyAt = "tags" => legacyLocal.workspaces # None
  /\ legacyAt \in {"tags", "state", "switch", "legacy", "open"} => Rewritten(legacyLocal)
  /\ legacyAt \in {"state", "switch", "legacy", "open"} =>
       (legacyLocal.workspaces = None => legacyLocal.tags = None)
  /\ legacyAt = "switch" =>
       Loads(legacyRead) /\ (Migration!HasState(legacyLocal) => legacyRead = Migration!StateIn(legacyLocal))
  /\ legacyAt \in {"legacy", "open"} => FlatArea(legacyLocal)
  /\ legacyAt = "legacy" => legacyRead = None
  /\ legacyAt = "open" =>
       /\ legacyLocal.layouts = <<>>
       /\ legacySaid = [workspace |-> legacySaid.workspace, state |-> Migration!StateIn(legacyLocal)]
       /\ legacyLocal.workspaces # None => legacySaid.workspace = legacyLocal.workspaces
       /\ legacyRead # None => FlatState(legacyRead) /\ legacyRead.notes = Migration!StateIn(legacyLocal).notes

(* What the two areas hold of the workspaces.                               *)
LEMMA SourceHere ==
    ASSUME Area(legacyLocal), Fits(legacyLocal), legacyLocal.workspaces # None \/ legacyLocal.tags # None
    PROVE  LET raw == IF legacyLocal.workspaces # None THEN legacyLocal.workspaces ELSE legacyLocal.tags
               n == Migration!Normalized(raw, legacyLocal.layouts, legacyLocal.entries)
           IN  /\ Migration!WorkspaceSource =
                    [src |-> IF legacyLocal.workspaces # None THEN "workspaces" ELSE "tags", value |-> n]
               /\ n \in Clean
               /\ Migration!Normalized(n, legacyLocal.layouts, legacyLocal.entries) = n
<1> DEFINE raw == IF legacyLocal.workspaces # None THEN legacyLocal.workspaces ELSE legacyLocal.tags
           n == Migration!Normalized(raw, legacyLocal.layouts, legacyLocal.entries)
<1>1. Migration!WorkspaceSource =
        [src |-> IF legacyLocal.workspaces # None THEN "workspaces" ELSE "tags", value |-> n]
  BY DEF Migration!WorkspaceSource
<1>2. raw \in Migration!RawWorkspaces /\ (legacyLocal.layouts # <<>> => raw.slots = <<>>)
  BY DEF Area, Fits
<1>3. legacyLocal.layouts \in Migration!Containers /\ legacyLocal.entries \in Migration!VirtualWindows
  BY DEF Area
<1> HIDE DEF raw
<1>4. n \in Clean /\ Migration!Normalized(n, legacyLocal.layouts, legacyLocal.entries) = n
  BY <1>2, <1>3, NormalizedIsClean
<1> QED BY <1>1, <1>4 DEF raw

LEMMA SourceElsewhere ==
    ASSUME Area(legacyRemote), legacyLocal.workspaces = None, legacyLocal.tags = None
    PROVE  \/ Migration!WorkspaceSource = [src |-> "none", value |-> None]
           \/ Migration!WorkspaceSource.src = "remote" /\ Migration!WorkspaceSource.value \in Clean
<1>1. <<>> \in Migration!Containers /\ <<>> \in Migration!VirtualWindows
  <2>1. \A T : <<>> \in Seq(T)
    OBVIOUS
  <2> QED BY <2>1 DEF Migration!Containers, Migration!VirtualWindows
<1>2. \A raw \in Migration!RawWorkspaces : Migration!Normalized(raw, <<>>, <<>>) \in Clean
  BY <1>1, NormalizedIsClean
<1>3. legacyRemote.workspaces \in Migration!RawWorkspaces \cup {None}
      /\ legacyRemote.tags \in Migration!RawWorkspaces \cup {None}
  BY DEF Area
<1> QED BY <1>2, <1>3 DEF Migration!WorkspaceSource

(* Where the workspaces come from depends on local data alone, if there are *)
(* any; the same of the state.                                              *)
LEMMA SourceStays ==
    ASSUME legacyLocal' = legacyLocal
    PROVE  /\ legacyLocal.workspaces # None \/ legacyLocal.tags # None =>
                Migration!WorkspaceSource' = Migration!WorkspaceSource
           /\ legacyLocal.workspaces # None \/ legacyLocal.tags # None =>
                Migration!LoadedWorkspace' = Migration!LoadedWorkspace
  BY DEF Migration!WorkspaceSource, Migration!LoadedWorkspace

LEMMA StateStays ==
    ASSUME legacyLocal'.state = legacyLocal.state, legacyLocal'.switch = legacyLocal.switch
    PROVE  /\ Migration!StateIn(legacyLocal)' = Migration!StateIn(legacyLocal)
           /\ Migration!HasState(legacyLocal)' = Migration!HasState(legacyLocal)
           /\ Migration!HasState(legacyLocal) => Migration!LoadedState' = Migration!LoadedState
  BY DEF Migration!StateIn, Migration!HasState, Migration!LoadedState

LEMMA LoadedHere ==
    ASSUME legacyLocal.workspaces # None
    PROVE  Migration!LoadedWorkspace =
             Migration!Normalized(legacyLocal.workspaces, legacyLocal.layouts, legacyLocal.entries)
  BY DEF Migration!WorkspaceSource, Migration!LoadedWorkspace

LEMMA MigrationStarts == Migration!Init => MigrationInv
<1> SUFFICES ASSUME Migration!Init PROVE MigrationInv
  OBVIOUS
<1>1. Area(Migration!Empty) /\ Fits(Migration!Empty)
  BY NoContainers DEF Migration!Empty, Area, Fits
<1>2. PICK w \in OldWorkspaces, s \in OldStates, j \in OldJournals, under \in {"workspaces", "tags"} :
        LET area == [Migration!Empty EXCEPT ![under] = w.raw, !.state = s, !.switch = j]
        IN  \/ legacyLocal = [area EXCEPT !.layouts = w.layouts, !.entries = w.entries] /\ legacyRemote = Migration!Empty
            \/ legacyLocal = Migration!Empty /\ legacyRemote = area
  BY DEF Migration!Init
<1>3. /\ w.raw \in Migration!RawWorkspaces \cup {None} /\ s \in Migration!States \cup {None}
      /\ j \in Migration!Journals \cup {None}
      /\ w.layouts \in Migration!Containers /\ w.entries \in Migration!VirtualWindows
      /\ w.layouts # <<>> => w.raw # None /\ w.raw.slots = <<>>
  BY OldDataKnown
<1> DEFINE area == [Migration!Empty EXCEPT ![under] = w.raw, !.state = s, !.switch = j]
           here == [area EXCEPT !.layouts = w.layouts, !.entries = w.entries]
           inWorkspaces == [workspaces |-> w.raw, tags |-> None, state |-> s, switch |-> j, layouts |-> <<>>, entries |-> <<>>]
           inTags == [workspaces |-> None, tags |-> w.raw, state |-> s, switch |-> j, layouts |-> <<>>, entries |-> <<>>]
<1>a. area = inWorkspaces \/ area = inTags
  <2>1. ASSUME NEW a, a = [Migration!Empty EXCEPT !.workspaces = w.raw, !.state = s, !.switch = j]
        PROVE  a = inWorkspaces
    BY <2>1 DEF Migration!Empty
  <2>2. ASSUME NEW a, a = [Migration!Empty EXCEPT !.tags = w.raw, !.state = s, !.switch = j]
        PROVE  a = inTags
    BY <2>2 DEF Migration!Empty
  <2> HIDE DEF inWorkspaces, inTags
  <2>3. under = "workspaces" => area = [Migration!Empty EXCEPT !.workspaces = w.raw, !.state = s, !.switch = j]
    BY Zenon
  <2>4. under = "tags" => area = [Migration!Empty EXCEPT !.tags = w.raw, !.state = s, !.switch = j]
    BY Zenon
  <2> QED BY <2>1, <2>2, <2>3, <2>4
<1> HIDE DEF area
<1>b. here = [workspaces |-> area.workspaces, tags |-> area.tags, state |-> area.state, switch |-> area.switch,
              layouts |-> w.layouts, entries |-> w.entries]
  <2>1. ASSUME NEW a, a = [area EXCEPT !.layouts = w.layouts, !.entries = w.entries]
        PROVE a = [workspaces |-> area.workspaces, tags |-> area.tags, state |-> area.state, switch |-> area.switch,
               layouts |-> w.layouts, entries |-> w.entries]
    BY <1>a, <2>1
  <2> HIDE DEF inWorkspaces, inTags
  <2> QED BY <2>1
<1> HIDE DEF here
<1>4. Area(area)
  BY <1>3, <1>a, NoContainers DEF Area
<1>5. Area(here)
  BY <1>3, <1>a, <1>b DEF Area
<1>c. Fits(here)
  BY <1>3, <1>a, <1>b DEF Fits
<1>d. \/ legacyLocal = here /\ legacyRemote = Migration!Empty
      \/ legacyLocal = Migration!Empty /\ legacyRemote = area
  BY <1>2 DEF area, here
<1>6. Area(legacyLocal) /\ Area(legacyRemote) /\ Fits(legacyLocal)
  BY <1>1, <1>4, <1>5, <1>c, <1>d
<1> QED BY <1>6 DEF MigrationInv, Migration!Init

(* Step by step: the invariant stays, and so does what is loaded.           *)
LEMMA ReadWorkspacesKeeps == MigrationInv /\ Migration!ReadWorkspaces => MigrationInv' /\ Migration!StepKeepsData
<1> SUFFICES ASSUME MigrationInv, Migration!ReadWorkspaces PROVE MigrationInv' /\ Migration!StepKeepsData
  OBVIOUS
<1>1. /\ legacyAt = "begin" /\ legacyAt' = "workspaces" /\ legacyRead' = Migration!WorkspaceSource
      /\ legacyLocal' = legacyLocal /\ legacyRemote' = legacyRemote
  BY DEF Migration!ReadWorkspaces
<1>2. Area(legacyLocal) /\ Area(legacyRemote) /\ Fits(legacyLocal)
  BY DEF MigrationInv
<1>3. legacyLocal.workspaces # None \/ legacyLocal.tags # None =>
        Migration!WorkspaceSource' = Migration!WorkspaceSource
  BY <1>1, SourceStays
<1>4. legacyLocal.workspaces = None /\ legacyLocal.tags = None =>
        legacyRead'.src = "none" \/ (legacyRead'.src = "remote" /\ legacyRead'.value \in Clean)
  BY <1>1, <1>2, SourceElsewhere
<1>5. MigrationInv'
  BY <1>1, <1>2, <1>3, <1>4 DEF MigrationInv
<1>6. Migration!StepKeepsData
  BY <1>1, SourceStays, StateStays DEF Migration!StepKeepsData
<1> QED BY <1>5, <1>6

LEMMA WriteWorkspacesKeeps == MigrationInv /\ Migration!WriteWorkspaces => MigrationInv' /\ Migration!StepKeepsData
<1> SUFFICES ASSUME MigrationInv, Migration!WriteWorkspaces PROVE MigrationInv' /\ Migration!StepKeepsData
  OBVIOUS
<1>1. /\ legacyAt = "workspaces"
      /\ Area(legacyLocal) /\ Area(legacyRemote) /\ Fits(legacyLocal)
      /\ legacyLocal.workspaces # None \/ legacyLocal.tags # None => legacyRead = Migration!WorkspaceSource
      /\ legacyLocal.workspaces = None /\ legacyLocal.tags = None =>
           legacyRead.src = "none" \/ (legacyRead.src = "remote" /\ legacyRead.value \in Clean)
      /\ legacyRemote' = legacyRemote
  BY DEF MigrationInv, Migration!WriteWorkspaces
<1>2. CASE legacyRead.src = "none"
  <2>1. legacyAt' = "state" /\ legacyLocal' = legacyLocal
    BY <1>2 DEF Migration!WriteWorkspaces
  <2>2. legacyLocal.workspaces = None /\ legacyLocal.tags = None
    BY <1>1, <1>2, SourceHere
  <2>3. MigrationInv'
    BY <1>1, <2>1, <2>2 DEF MigrationInv, Rewritten
  <2>4. Migration!StepKeepsData
    BY <2>1, SourceStays, StateStays DEF Migration!StepKeepsData
  <2> QED BY <2>3, <2>4
<1>3. CASE legacyRead.src # "none"
  <2>1. legacyAt' = "tags" /\ legacyLocal' = [legacyLocal EXCEPT !.workspaces = legacyRead.value]
    BY <1>3 DEF Migration!WriteWorkspaces
  <2>2. /\ legacyRead.value \in Clean
        /\ Migration!Normalized(legacyRead.value, legacyLocal.layouts, legacyLocal.entries) = legacyRead.value
    <3>1. CASE legacyLocal.workspaces # None \/ legacyLocal.tags # None
      BY <1>1, <3>1, SourceHere
    <3>2. CASE legacyLocal.workspaces = None /\ legacyLocal.tags = None
      <4>1. legacyLocal.layouts = <<>> /\ legacyLocal.layouts \in Migration!Containers
            /\ legacyLocal.entries \in Migration!VirtualWindows
        BY <1>1, <3>2 DEF Fits, Area
      <4>2. legacyRead.value \in Clean /\ legacyRead.value \in Migration!RawWorkspaces
        BY <1>1, <1>3, <3>2, CleanIsRaw
      <4> QED BY <4>1, <4>2, NormalizedIsClean
    <3> QED BY <3>1, <3>2
  <2>3. legacyRead.value \in Migration!RawWorkspaces /\ legacyRead.value # None /\ legacyRead.value.slots = <<>>
    BY <2>2, CleanIsRaw, NoneIsNoData DEF Clean
  <2>4. /\ legacyLocal'.workspaces = legacyRead.value /\ legacyLocal'.tags = legacyLocal.tags
        /\ legacyLocal'.state = legacyLocal.state /\ legacyLocal'.switch = legacyLocal.switch
        /\ legacyLocal'.layouts = legacyLocal.layouts /\ legacyLocal'.entries = legacyLocal.entries
    BY <1>1, <2>1 DEF Area
  <2>5. Area(legacyLocal)' /\ Fits(legacyLocal)' /\ Rewritten(legacyLocal)'
    <3>1. Area(legacyLocal')
      BY <1>1, <2>1, <2>3 DEF Area
    <3>2. Fits(legacyLocal')
      BY <1>1, <2>3, <2>4 DEF Fits
    <3>3. Rewritten(legacyLocal')
      BY <2>2, <2>4 DEF Rewritten
    <3> QED BY <3>1, <3>2, <3>3
  <2>6. MigrationInv'
    BY <1>1, <2>1, <2>3, <2>4, <2>5 DEF MigrationInv
  <2>7. Migration!LoadedWorkspace' = legacyRead.value
    BY <2>2, <2>3, <2>4 DEF Migration!WorkspaceSource, Migration!LoadedWorkspace
  <2>8. legacyLocal.workspaces # None \/ legacyLocal.tags # None => Migration!LoadedWorkspace = legacyRead.value
    BY <1>1 DEF Migration!LoadedWorkspace
  <2>9. Migration!StepKeepsData
    BY <2>4, <2>7, <2>8, StateStays DEF Migration!StepKeepsData
  <2> QED BY <2>6, <2>9
<1> QED BY <1>2, <1>3

LEMMA RemoveTagsKeeps == MigrationInv /\ Migration!RemoveTags => MigrationInv' /\ Migration!StepKeepsData
<1> SUFFICES ASSUME MigrationInv, Migration!RemoveTags PROVE MigrationInv' /\ Migration!StepKeepsData
  OBVIOUS
<1>1. /\ legacyAt = "tags" /\ legacyAt' = "state" /\ legacyRemote' = legacyRemote
      /\ legacyLocal' = legacyLocal \/ legacyLocal' = [legacyLocal EXCEPT !.tags = None]
      /\ Area(legacyLocal) /\ Area(legacyRemote) /\ Fits(legacyLocal)
      /\ legacyLocal.workspaces # None /\ Rewritten(legacyLocal)
  BY DEF MigrationInv, Migration!RemoveTags
<1>2. /\ legacyLocal'.workspaces = legacyLocal.workspaces
      /\ legacyLocal'.state = legacyLocal.state /\ legacyLocal'.switch = legacyLocal.switch
      /\ legacyLocal'.layouts = legacyLocal.layouts /\ legacyLocal'.entries = legacyLocal.entries
      /\ legacyLocal'.tags = legacyLocal.tags \/ legacyLocal'.tags = None
  BY <1>1 DEF Area
<1>3. Area(legacyLocal') /\ Fits(legacyLocal') /\ Rewritten(legacyLocal')
  <2>1. Area(legacyLocal')
    BY <1>1 DEF Area
  <2>2. Fits(legacyLocal')
    BY <1>1, <1>2 DEF Fits
  <2>3. Rewritten(legacyLocal')
    BY <1>1, <1>2 DEF Rewritten
  <2> QED BY <2>1, <2>2, <2>3
<1>4. MigrationInv'
  BY <1>1, <1>2, <1>3 DEF MigrationInv
<1>5. Migration!LoadedWorkspace' = Migration!LoadedWorkspace
  BY <1>1, <1>2 DEF Migration!WorkspaceSource, Migration!LoadedWorkspace
<1>6. Migration!StepKeepsData
  BY <1>2, <1>5, StateStays DEF Migration!StepKeepsData
<1> QED BY <1>4, <1>6

LEMMA ReadStateKeeps == MigrationInv /\ Migration!ReadState => MigrationInv' /\ Migration!StepKeepsData
<1> SUFFICES ASSUME MigrationInv, Migration!ReadState PROVE MigrationInv' /\ Migration!StepKeepsData
  OBVIOUS
<1>1. /\ legacyAt = "state" /\ legacyLocal' = legacyLocal /\ legacyRemote' = legacyRemote
      /\ Area(legacyLocal) /\ Area(legacyRemote) /\ Fits(legacyLocal) /\ Rewritten(legacyLocal)
      /\ (legacyLocal.workspaces = None => legacyLocal.tags = None)
  BY DEF MigrationInv, Migration!ReadState
<1>2. Migration!StepKeepsData
  BY <1>1, SourceStays, StateStays DEF Migration!StepKeepsData
<1>3. CASE Migration!HasState(legacyLocal) \/ Migration!HasState(legacyRemote)
  <2>1. legacyAt' = "switch" /\ legacyRead' = Migration!LoadedState
    BY <1>3 DEF Migration!ReadState
  <2>2. Loads(legacyRead')
    BY <1>1, <2>1, StateLoads DEF Migration!LoadedState
  <2>3. Migration!HasState(legacyLocal) => legacyRead' = Migration!StateIn(legacyLocal)
    BY <2>1 DEF Migration!LoadedState
  <2> QED BY <1>1, <1>2, <2>1, <2>2, <2>3 DEF MigrationInv
<1>4. CASE ~(Migration!HasState(legacyLocal) \/ Migration!HasState(legacyRemote))
  <2>1. legacyAt' = "legacy" /\ legacyRead' = None
    BY <1>4 DEF Migration!ReadState
  <2>2. FlatArea(legacyLocal)
    BY <1>4 DEF FlatArea, Migration!HasState
  <2> QED BY <1>1, <1>2, <2>1, <2>2 DEF MigrationInv
<1> QED BY <1>3, <1>4

LEMMA WriteStateKeeps == MigrationInv /\ Migration!WriteState => MigrationInv' /\ Migration!StepKeepsData
<1> SUFFICES ASSUME MigrationInv, Migration!WriteState PROVE MigrationInv' /\ Migration!StepKeepsData
  OBVIOUS
<1> DEFINE written == [Migration!NoMain EXCEPT !.notes = legacyRead.notes]
<1>1. /\ legacyAt = "switch" /\ legacyAt' = "legacy" /\ legacyRead' = None /\ legacyRemote' = legacyRemote
      /\ legacyLocal' = [legacyLocal EXCEPT !.state = written, !.switch = legacyRead.journal]
      /\ Area(legacyLocal) /\ Area(legacyRemote) /\ Fits(legacyLocal) /\ Rewritten(legacyLocal)
      /\ (legacyLocal.workspaces = None => legacyLocal.tags = None)
      /\ Loads(legacyRead) /\ (Migration!HasState(legacyLocal) => legacyRead = Migration!StateIn(legacyLocal))
  BY DEF MigrationInv, Migration!WriteState
<1>2. FlatState(written) /\ written.notes = legacyRead.notes
  <2>1. legacyRead.notes \in SUBSET OldTabs
    BY <1>1 DEF Loads
  <2> QED BY <2>1, FlatOf
<1>3. written # None /\ written \in Migration!States
  BY <1>2, FlatFields
<1> HIDE DEF written
<1>4. /\ legacyLocal'.workspaces = legacyLocal.workspaces /\ legacyLocal'.tags = legacyLocal.tags
      /\ legacyLocal'.state = written /\ legacyLocal'.switch = legacyRead.journal
      /\ legacyLocal'.layouts = legacyLocal.layouts /\ legacyLocal'.entries = legacyLocal.entries
  BY <1>1 DEF Area
<1>5. FlatArea(legacyLocal')
  BY <1>1, <1>2, <1>4 DEF FlatArea, Loads
<1>6. /\ Migration!StateIn(legacyLocal') = [notes |-> legacyRead.notes, journal |-> legacyRead.journal]
      /\ legacyLocal'.switch \in Migration!Journals \cup {None}
  BY <1>2, <1>3, <1>4, <1>5, FlatLoads
<1>7. Migration!StateIn(legacyLocal') = legacyRead
  BY <1>1, <1>6 DEF Loads
<1>8. Area(legacyLocal') /\ Fits(legacyLocal') /\ Rewritten(legacyLocal')
  <2>1. Area(legacyLocal')
    BY <1>1, <1>3, <1>4, <1>6 DEF Area
  <2>2. Fits(legacyLocal')
    BY <1>1, <1>4 DEF Fits
  <2>3. Rewritten(legacyLocal')
    BY <1>1, <1>4 DEF Rewritten
  <2> QED BY <2>1, <2>2, <2>3
<1>9. MigrationInv'
  BY <1>1, <1>4, <1>5, <1>8 DEF MigrationInv
<1>10. legacyLocal.workspaces # None \/ legacyLocal.tags # None =>
         Migration!LoadedWorkspace' = Migration!LoadedWorkspace
  BY <1>4 DEF Migration!WorkspaceSource, Migration!LoadedWorkspace
<1>11. Migration!HasState(legacyLocal) => Migration!LoadedState' = Migration!LoadedState
  <2>1. Migration!HasState(legacyLocal')
    BY <1>3, <1>4 DEF Migration!HasState
  <2>2. Migration!LoadedState' = Migration!StateIn(legacyLocal')
    BY <2>1 DEF Migration!LoadedState
  <2>3. Migration!HasState(legacyLocal) => Migration!LoadedState = Migration!StateIn(legacyLocal)
    BY DEF Migration!LoadedState
  <2> QED BY <1>1, <1>7, <2>2, <2>3
<1> QED BY <1>9, <1>10, <1>11 DEF Migration!StepKeepsData

LEMMA RemoveLegacyKeeps == MigrationInv /\ Migration!RemoveLegacy => MigrationInv' /\ Migration!StepKeepsData
<1> SUFFICES ASSUME MigrationInv, Migration!RemoveLegacy PROVE MigrationInv' /\ Migration!StepKeepsData
  OBVIOUS
<1>1. /\ legacyAt = "legacy" /\ legacyAt' = "open" /\ legacyRead' = legacyRead /\ legacyRemote' = legacyRemote
      /\ legacyLocal' = [legacyLocal EXCEPT !.layouts = <<>>, !.entries = <<>>]
      /\ legacySaid' = [workspace |-> Migration!LoadedWorkspace, state |-> Migration!StateIn(legacyLocal)]
      /\ Area(legacyLocal) /\ Area(legacyRemote) /\ Rewritten(legacyLocal) /\ FlatArea(legacyLocal)
      /\ legacyRead = None
      /\ (legacyLocal.workspaces = None => legacyLocal.tags = None)
  BY DEF MigrationInv, Migration!RemoveLegacy
<1>2. /\ legacyLocal'.workspaces = legacyLocal.workspaces /\ legacyLocal'.tags = legacyLocal.tags
      /\ legacyLocal'.state = legacyLocal.state /\ legacyLocal'.switch = legacyLocal.switch
      /\ legacyLocal'.layouts = <<>> /\ legacyLocal'.entries = <<>>
  BY <1>1 DEF Area
<1>3. Area(legacyLocal') /\ Fits(legacyLocal') /\ FlatArea(legacyLocal')
  <2>1. Area(legacyLocal')
    BY <1>1, NoContainers DEF Area
  <2>2. Fits(legacyLocal')
    BY <1>2 DEF Fits
  <2>3. FlatArea(legacyLocal')
    BY <1>1, <1>2 DEF FlatArea
  <2> QED BY <2>1, <2>2, <2>3
<1>4. legacyLocal.workspaces # None =>
        /\ legacyLocal.workspaces \in Clean
        /\ Migration!LoadedWorkspace = legacyLocal.workspaces
        /\ Migration!Normalized(legacyLocal.workspaces, <<>>, <<>>) = legacyLocal.workspaces
  <2> HAVE legacyLocal.workspaces # None
  <2>1. /\ legacyLocal.workspaces \in Clean
        /\ Migration!Normalized(legacyLocal.workspaces, legacyLocal.layouts, legacyLocal.entries) = legacyLocal.workspaces
    BY <1>1 DEF Rewritten
  <2>2. Migration!LoadedWorkspace = legacyLocal.workspaces
    BY <2>1, LoadedHere
  <2>3. legacyLocal.workspaces \in Migration!RawWorkspaces
    BY <2>1, CleanIsRaw
  <2>4. Migration!Normalized(legacyLocal.workspaces, <<>>, <<>>) = legacyLocal.workspaces
    BY <2>1, <2>3, NoContainers, NormalizedIsClean
  <2> QED BY <2>1, <2>2, <2>4
<1>5. Rewritten(legacyLocal')
  BY <1>2, <1>4 DEF Rewritten
<1>6. Migration!StateIn(legacyLocal') = Migration!StateIn(legacyLocal)
  BY <1>2 DEF Migration!StateIn
<1>7. MigrationInv'
  BY <1>1, <1>2, <1>3, <1>4, <1>5, <1>6 DEF MigrationInv
<1>8. legacyLocal.workspaces # None => Migration!LoadedWorkspace' = legacyLocal.workspaces
  BY <1>2, <1>4 DEF Migration!WorkspaceSource, Migration!LoadedWorkspace
<1>9. Migration!StepKeepsData
  BY <1>1, <1>2, <1>4, <1>8, StateStays DEF Migration!StepKeepsData
<1> QED BY <1>7, <1>9

LEMMA CutOffKeeps == MigrationInv /\ (Migration!Fails \/ Migration!Restart) => MigrationInv' /\ Migration!StepKeepsData
<1> SUFFICES ASSUME MigrationInv, Migration!Fails \/ Migration!Restart PROVE MigrationInv' /\ Migration!StepKeepsData
  OBVIOUS
<1>1. /\ legacyAt' \in {"failed", "begin"} /\ legacyLocal' = legacyLocal /\ legacyRemote' = legacyRemote
      /\ Area(legacyLocal) /\ Area(legacyRemote) /\ Fits(legacyLocal)
  BY DEF MigrationInv, Migration!Fails, Migration!Restart
<1>2. MigrationInv'
  BY <1>1 DEF MigrationInv
<1>3. Migration!StepKeepsData
  BY <1>1, SourceStays, StateStays DEF Migration!StepKeepsData
<1> QED BY <1>2, <1>3

LEMMA RemoteWritesKeeps == MigrationInv /\ Migration!RemoteWrites => MigrationInv' /\ Migration!StepKeepsData
<1> SUFFICES ASSUME MigrationInv, Migration!RemoteWrites PROVE MigrationInv' /\ Migration!StepKeepsData
  OBVIOUS
<1>1. /\ legacyLocal' = legacyLocal /\ legacyAt' = legacyAt /\ legacyRead' = legacyRead /\ legacySaid' = legacySaid
      /\ Area(legacyLocal) /\ Area(legacyRemote)
  BY DEF MigrationInv, Migration!RemoteWrites
<1>2. PICK w \in OldWorkspaces, j \in OldJournals :
        legacyRemote' = [legacyRemote EXCEPT !.workspaces = w.raw, !.switch = j]
  BY DEF Migration!RemoteWrites
<1>3. w.raw \in Migration!RawWorkspaces \cup {None} /\ j \in Migration!Journals \cup {None}
  BY OldDataKnown
<1>4. Area(legacyRemote')
  BY <1>1, <1>2, <1>3 DEF Area
<1>5. /\ legacyLocal.workspaces # None \/ legacyLocal.tags # None => Migration!WorkspaceSource' = Migration!WorkspaceSource
      /\ Migration!StateIn(legacyLocal)' = Migration!StateIn(legacyLocal)
      /\ Migration!HasState(legacyLocal)' = Migration!HasState(legacyLocal)
  BY <1>1, SourceStays, StateStays
<1>6. MigrationInv'
  BY <1>1, <1>4, <1>5 DEF MigrationInv
<1>7. Migration!StepKeepsData
  BY <1>1, SourceStays, StateStays DEF Migration!StepKeepsData
<1> QED BY <1>6, <1>7

LEMMA SaveWorkspacesKeeps == MigrationInv /\ Migration!SaveWorkspaces => MigrationInv' /\ Migration!StepKeepsData
<1> SUFFICES ASSUME MigrationInv, Migration!SaveWorkspaces PROVE MigrationInv'
  BY DEF Migration!SaveWorkspaces, Migration!StepKeepsData
<1>1. /\ legacyAt = "open" /\ legacyAt' = "open" /\ legacyRemote' = legacyRemote /\ legacyRead' = legacyRead
      /\ legacyLocal.workspaces # None
      /\ Area(legacyLocal) /\ Area(legacyRemote) /\ FlatArea(legacyLocal) /\ Rewritten(legacyLocal)
      /\ legacyLocal.layouts = <<>>
      /\ legacySaid = [workspace |-> legacySaid.workspace, state |-> Migration!StateIn(legacyLocal)]
      /\ legacyRead # None => FlatState(legacyRead) /\ legacyRead.notes = Migration!StateIn(legacyLocal).notes
      /\ (legacyLocal.workspaces = None => legacyLocal.tags = None)
  BY DEF MigrationInv, Migration!SaveWorkspaces
<1>2. PICK t \in OldTabs :
        legacyLocal' = [legacyLocal EXCEPT !.workspaces =
          Migration!Normalized([slots |-> <<>>, tabs |-> <<t>>, rev |-> @.rev + 1], <<>>, <<>>)]
  BY DEF Migration!SaveWorkspaces
<1>3. legacySaid' = [legacySaid EXCEPT !.workspace = legacyLocal'.workspaces]
  BY DEF Migration!SaveWorkspaces
<1> DEFINE raw == [slots |-> <<>>, tabs |-> <<t>>, rev |-> legacyLocal.workspaces.rev + 1]
           n == Migration!Normalized(raw, <<>>, <<>>)
<1>4. raw \in Migration!RawWorkspaces
  <2>1. legacyLocal.workspaces.rev \in Nat
    BY <1>1 DEF Rewritten, Clean
  <2>2. <<t>> \in Seq(OldTabs)
    OBVIOUS
  <2> QED BY <2>1, <2>2, NoContainers DEF Migration!RawWorkspaces
<1>5. legacyLocal' = [legacyLocal EXCEPT !.workspaces = n]
  BY <1>2
<1> HIDE DEF raw
<1>6. n \in Clean /\ n \in Migration!RawWorkspaces
  BY <1>4, NoContainers, NormalizedIsClean, CleanIsRaw
<1> HIDE DEF n
<1>7. Migration!Normalized(n, <<>>, <<>>) = n /\ n # None
  BY <1>6, NoContainers, NormalizedIsClean, NoneIsNoData
<1>8. /\ legacyLocal'.workspaces = n /\ legacyLocal'.tags = legacyLocal.tags
      /\ legacyLocal'.state = legacyLocal.state /\ legacyLocal'.switch = legacyLocal.switch
      /\ legacyLocal'.layouts = <<>> /\ legacyLocal'.entries = legacyLocal.entries
  BY <1>1, <1>5 DEF Area
<1>9. Area(legacyLocal') /\ Fits(legacyLocal') /\ Rewritten(legacyLocal') /\ FlatArea(legacyLocal')
  <2>1. Area(legacyLocal')
    BY <1>1, <1>5, <1>6 DEF Area
  <2>2. Fits(legacyLocal')
    BY <1>8 DEF Fits
  <2>3. Rewritten(legacyLocal')
    <3>1. \A entries, more : Migration!Normalized(n, <<>>, entries) = Migration!Normalized(n, <<>>, more)
      BY DEF Migration!Normalized
    <3> QED BY <1>6, <1>7, <1>8, <3>1 DEF Rewritten
  <2>4. FlatArea(legacyLocal')
    BY <1>1, <1>8 DEF FlatArea
  <2> QED BY <2>1, <2>2, <2>3, <2>4
<1>10. Migration!StateIn(legacyLocal') = Migration!StateIn(legacyLocal)
  BY <1>8 DEF Migration!StateIn
<1>11. legacySaid' = [workspace |-> n, state |-> Migration!StateIn(legacyLocal)]
  BY <1>1, <1>3, <1>8
<1> QED BY <1>1, <1>7, <1>8, <1>9, <1>10, <1>11 DEF MigrationInv

LEMMA ReadPatchKeeps == MigrationInv /\ Migration!ReadPatch => MigrationInv' /\ Migration!StepKeepsData
<1> SUFFICES ASSUME MigrationInv, Migration!ReadPatch PROVE MigrationInv'
  BY DEF Migration!ReadPatch, Migration!StepKeepsData
<1>1. /\ legacyAt = "open" /\ legacyAt' = "open" /\ legacyRemote' = legacyRemote /\ legacyLocal' = legacyLocal
      /\ legacySaid' = legacySaid
      /\ legacyRead' = IF legacyLocal.state = None THEN Migration!NoMain ELSE legacyLocal.state
      /\ FlatArea(legacyLocal)
  BY DEF MigrationInv, Migration!ReadPatch
<1>2. FlatState(Migration!NoMain) /\ Migration!NoMain.notes = {}
  BY DEF FlatState, Migration!Flat, Migration!NoMain
<1>3. Migration!StateIn(legacyLocal).notes = IF legacyLocal.state = None THEN {} ELSE legacyLocal.state.notes
  BY <1>1, FlatLoads
<1>4. FlatState(legacyRead') /\ legacyRead'.notes = Migration!StateIn(legacyLocal).notes
  BY <1>1, <1>2, <1>3 DEF FlatArea
<1> QED BY <1>1, <1>4 DEF MigrationInv

LEMMA WritePatchKeeps == MigrationInv /\ Migration!WritePatch => MigrationInv' /\ Migration!StepKeepsData
<1> SUFFICES ASSUME MigrationInv, Migration!WritePatch PROVE MigrationInv'
  BY DEF Migration!WritePatch, Migration!StepKeepsData
<1>1. /\ legacyAt = "open" /\ legacyAt' = "open" /\ legacyRemote' = legacyRemote /\ legacyRead' = None
      /\ Area(legacyLocal) /\ Area(legacyRemote) /\ FlatArea(legacyLocal) /\ Rewritten(legacyLocal)
      /\ legacyLocal.layouts = <<>>
      /\ legacySaid = [workspace |-> legacySaid.workspace, state |-> Migration!StateIn(legacyLocal)]
      /\ legacyLocal.workspaces # None => legacySaid.workspace = legacyLocal.workspaces
      /\ FlatState(legacyRead) /\ legacyRead.notes = Migration!StateIn(legacyLocal).notes
      /\ (legacyLocal.workspaces = None => legacyLocal.tags = None)
  BY DEF MigrationInv, Migration!WritePatch
<1>2. PICK t \in OldTabs :
        /\ legacyLocal' = [legacyLocal EXCEPT !.state = [Migration!Flat(legacyRead) EXCEPT !.notes = @ \cup {t}]]
        /\ legacySaid' = [legacySaid EXCEPT !.state.notes = @ \cup {t}]
  BY DEF Migration!WritePatch
<1> DEFINE new == [Migration!Flat(legacyRead) EXCEPT !.notes = @ \cup {t}]
<1>3. FlatState(new) /\ new.notes = legacyRead.notes \cup {t}
  <2>1. Migration!Flat(legacyRead) = legacyRead /\ legacyRead.notes \in SUBSET OldTabs
        /\ legacyRead = [notes |-> legacyRead.notes, win |-> None, windows |-> {}, journal |-> None]
    BY <1>1, FlatFields DEF FlatState
  <2>2. new = [notes |-> legacyRead.notes \cup {t}, win |-> None, windows |-> {}, journal |-> None]
    BY <2>1
  <2> QED BY <2>1, <2>2 DEF FlatState, Migration!Flat, Migration!NoMain
<1>4. new # None /\ new \in Migration!States
  BY <1>3, FlatFields
<1> HIDE DEF new
<1>5. /\ legacyLocal'.workspaces = legacyLocal.workspaces /\ legacyLocal'.tags = legacyLocal.tags
      /\ legacyLocal'.state = new /\ legacyLocal'.switch = legacyLocal.switch
      /\ legacyLocal'.layouts = <<>> /\ legacyLocal'.entries = legacyLocal.entries
  BY <1>1, <1>2 DEF Area, new
<1>6. Area(legacyLocal') /\ Fits(legacyLocal') /\ Rewritten(legacyLocal') /\ FlatArea(legacyLocal')
  <2>1. Area(legacyLocal')
    BY <1>1, <1>2, <1>4 DEF Area, new
  <2>2. Fits(legacyLocal')
    BY <1>5 DEF Fits
  <2>3. Rewritten(legacyLocal')
    BY <1>1, <1>5 DEF Rewritten
  <2>4. FlatArea(legacyLocal')
    BY <1>1, <1>3, <1>5 DEF FlatArea
  <2> QED BY <2>1, <2>2, <2>3, <2>4
<1>7. Migration!StateIn(legacyLocal) =
        [notes |-> legacyRead.notes, journal |-> legacyLocal.switch]
  BY <1>1, FlatLoads
<1>8. Migration!StateIn(legacyLocal') = [notes |-> legacyRead.notes \cup {t}, journal |-> legacyLocal.switch]
  <2>1. Migration!StateIn(legacyLocal') =
          [notes |-> IF legacyLocal'.state = None THEN {} ELSE legacyLocal'.state.notes, journal |-> legacyLocal'.switch]
    BY <1>6, FlatLoads
  <2> QED BY <1>3, <1>4, <1>5, <2>1
<1>9. legacySaid' = [workspace |-> legacySaid.workspace, state |-> Migration!StateIn(legacyLocal')]
  <2>1. legacySaid.state = [notes |-> legacyRead.notes, journal |-> legacyLocal.switch]
    BY <1>1, <1>7
  <2>2. legacySaid = [workspace |-> legacySaid.workspace, state |-> legacySaid.state]
    BY <1>1
  <2>3. legacySaid' = [workspace |-> legacySaid.workspace, state |-> [legacySaid.state EXCEPT !.notes = @ \cup {t}]]
    BY <1>2, <2>2
  <2> QED BY <1>8, <2>1, <2>3
<1> QED BY <1>1, <1>5, <1>6, <1>9 DEF MigrationInv

LEMMA SaveSwitchStateKeeps == MigrationInv /\ Migration!SaveSwitchState => MigrationInv' /\ Migration!StepKeepsData
<1> SUFFICES ASSUME MigrationInv, Migration!SaveSwitchState PROVE MigrationInv'
  BY DEF Migration!SaveSwitchState, Migration!StepKeepsData
<1>1. /\ legacyAt = "open" /\ legacyAt' = "open" /\ legacyRemote' = legacyRemote /\ legacyRead' = legacyRead
      /\ Area(legacyLocal) /\ Area(legacyRemote) /\ FlatArea(legacyLocal) /\ Rewritten(legacyLocal)
      /\ legacyLocal.layouts = <<>>
      /\ legacySaid = [workspace |-> legacySaid.workspace, state |-> Migration!StateIn(legacyLocal)]
      /\ legacyLocal.workspaces # None => legacySaid.workspace = legacyLocal.workspaces
      /\ legacyRead # None => FlatState(legacyRead) /\ legacyRead.notes = Migration!StateIn(legacyLocal).notes
      /\ (legacyLocal.workspaces = None => legacyLocal.tags = None)
  BY DEF MigrationInv, Migration!SaveSwitchState
<1>2. PICK w \in OpenWindows, j \in {None, "set"} :
        /\ legacyLocal' = [legacyLocal EXCEPT !.switch = IF j = None THEN None
             ELSE [win |-> w, sources |-> {}, slots |-> <<>>, tabs |-> <<>>, phase |-> "opening"]]
        /\ legacySaid' = [legacySaid EXCEPT !.state.journal = legacyLocal'.switch]
  BY DEF Migration!SaveSwitchState
<1> DEFINE new == IF j = None THEN None
                  ELSE [win |-> w, sources |-> {}, slots |-> <<>>, tabs |-> <<>>, phase |-> "opening"]
<1>3. new = None \/ Settled(new)
  BY NoContainers, NoneIsNoData DEF Settled
<1>4. legacyLocal' = [legacyLocal EXCEPT !.switch = new]
  BY <1>2
<1> HIDE DEF new
<1>5. /\ legacyLocal'.workspaces = legacyLocal.workspaces /\ legacyLocal'.tags = legacyLocal.tags
      /\ legacyLocal'.state = legacyLocal.state /\ legacyLocal'.switch = new
      /\ legacyLocal'.layouts = <<>> /\ legacyLocal'.entries = legacyLocal.entries
  BY <1>1, <1>4 DEF Area
<1>6. FlatArea(legacyLocal')
  BY <1>1, <1>3, <1>5 DEF FlatArea
<1>7. /\ Migration!StateIn(legacyLocal') =
           [notes |-> Migration!StateIn(legacyLocal).notes, journal |-> new]
      /\ Migration!StateIn(legacyLocal) =
           [notes |-> Migration!StateIn(legacyLocal).notes, journal |-> legacyLocal.switch]
      /\ new \in Migration!Journals \cup {None}
  <2>1. Migration!StateIn(legacyLocal) =
          [notes |-> IF legacyLocal.state = None THEN {} ELSE legacyLocal.state.notes, journal |-> legacyLocal.switch]
    BY <1>1, FlatLoads
  <2>2. /\ Migration!StateIn(legacyLocal') =
             [notes |-> IF legacyLocal'.state = None THEN {} ELSE legacyLocal'.state.notes, journal |-> legacyLocal'.switch]
        /\ legacyLocal'.switch \in Migration!Journals \cup {None}
    BY <1>6, FlatLoads
  <2> QED BY <1>5, <2>1, <2>2
<1>8. Area(legacyLocal') /\ Fits(legacyLocal') /\ Rewritten(legacyLocal')
  <2>1. Area(legacyLocal')
    BY <1>1, <1>4, <1>7 DEF Area
  <2>2. Fits(legacyLocal')
    BY <1>5 DEF Fits
  <2>3. Rewritten(legacyLocal')
    BY <1>1, <1>5 DEF Rewritten
  <2> QED BY <2>1, <2>2, <2>3
<1>9. legacySaid' = [workspace |-> legacySaid.workspace, state |-> Migration!StateIn(legacyLocal')]
  <2>1. legacySaid' = [legacySaid EXCEPT !.state.journal = new]
    BY <1>2, <1>5
  <2> QED BY <1>1, <1>7, <2>1
<1>10. legacyRead # None => legacyRead.notes = Migration!StateIn(legacyLocal').notes
  BY <1>1, <1>7
<1> QED BY <1>1, <1>5, <1>6, <1>8, <1>9, <1>10 DEF MigrationInv

LEMMA MigrationSteps == MigrationInv /\ (Migration!Next \/ UNCHANGED legacyVars) => MigrationInv' /\ Migration!StepKeepsData
<1>1. MigrationInv /\ UNCHANGED legacyVars => MigrationInv' /\ Migration!StepKeepsData
  <2> SUFFICES ASSUME MigrationInv, UNCHANGED legacyVars PROVE MigrationInv' /\ Migration!StepKeepsData
    OBVIOUS
  <2>1. /\ legacyLocal' = legacyLocal /\ legacyRemote' = legacyRemote /\ legacyAt' = legacyAt
        /\ legacyRead' = legacyRead /\ legacySaid' = legacySaid
    BY DEF legacyVars
  <2>2. Migration!StepKeepsData
    BY <2>1, SourceStays, StateStays DEF Migration!StepKeepsData
  <2>3. /\ Migration!WorkspaceSource' = Migration!WorkspaceSource
        /\ Migration!StateIn(legacyLocal)' = Migration!StateIn(legacyLocal)
        /\ Migration!HasState(legacyLocal)' = Migration!HasState(legacyLocal)
    BY <2>1, StateStays DEF Migration!WorkspaceSource
  <2> QED BY <2>1, <2>2, <2>3 DEF MigrationInv
<1> QED BY <1>1, ReadWorkspacesKeeps, WriteWorkspacesKeeps, RemoveTagsKeeps, ReadStateKeeps, WriteStateKeeps, RemoveLegacyKeeps,
           CutOffKeeps, RemoteWritesKeeps, SaveWorkspacesKeeps, ReadPatchKeeps, WritePatchKeeps, SaveSwitchStateKeeps
        DEF Migration!Next

(* Two windows that a set of entries does not tell apart.                   *)
LEMMA Twins ==
    ASSUME NEW S \in SUBSET Migration!Entries, NEW v \in OpenWindows, NEW w \in OpenWindows, v # w,
           S = {[e EXCEPT !.win = IF @ = v THEN w ELSE IF @ = w THEN v ELSE @] : e \in S}
    PROVE  /\ Migration!Only(Migration!Ids(S)) \notin {v, w}
           /\ Migration!Focused(S) \notin {v, w}
<1> DEFINE swapped(e) == [e EXCEPT !.win = IF @ = v THEN w ELSE IF @ = w THEN v ELSE @]
<1>1. \A e \in S : /\ swapped(e) \in S /\ swapped(e).focused = e.focused
                   /\ swapped(e).win = IF e.win = v THEN w ELSE IF e.win = w THEN v ELSE e.win
  <2> TAKE e \in S
  <2>1. swapped(e) \in S
    OBVIOUS
  <2>2. e \in [win : OpenWindows \cup {None}, focused : BOOLEAN]
    BY DEF Migration!Entries
  <2> QED BY <2>1, <2>2
<1> HIDE DEF swapped
<1>2. ASSUME NEW T \in SUBSET S, \A e \in T : swapped(e) \in T
      PROVE  Migration!Only(Migration!Ids(T)) \notin {v, w}
  <2>1. Migration!Ids(T) \subseteq OpenWindows
    BY EntryIds
  <2>2. v # None /\ w # None
    BY NoneIsNoData
  <2>3. v \in Migration!Ids(T) <=> w \in Migration!Ids(T)
    BY <1>1, <1>2, <2>2 DEF Migration!Ids
  <2>4. Migration!Only(Migration!Ids(T)) # None => Migration!Ids(T) = {Migration!Only(Migration!Ids(T))}
    BY <2>1, OnlyOne
  <2> QED BY <2>2, <2>3, <2>4
<1>3. Migration!Only(Migration!Ids(S)) \notin {v, w}
  BY <1>1, <1>2
<1>4. Migration!Only(Migration!Ids({e \in S : e.focused})) \notin {v, w}
  BY <1>1, <1>2
<1> QED BY <1>3, <1>4 DEF Migration!Focused

LEMMA WindowsAreNotGuessed == Area(legacyLocal) => Migration!NeverGuessed
<1> SUFFICES ASSUME Area(legacyLocal), legacyLocal.switch # None PROVE Migration!NeverGuessed
  BY DEF Migration!NeverGuessed
<1> DEFINE main == IF legacyLocal.state = None THEN Migration!NoMain ELSE legacyLocal.state
           j == legacyLocal.switch
           own == Migration!ToSwitchState(j, main)
           alike(S, v, w) == S = {[e EXCEPT !.win = IF @ = v THEN w ELSE IF @ = w THEN v ELSE @] : e \in S}
<1>1. main \in Migration!States /\ j \in Migration!Journals
  BY DEF Area, Migration!NoMain, Migration!States
<1>2. Migration!StateIn(legacyLocal).journal = IF own # None THEN own ELSE Migration!ToSwitchState(main.journal, main)
  BY DEF Migration!StateIn
<1> HIDE DEF main, j
<1>3. own # None /\ own.win = IF Migration!ResolveLegacySwitchWindow(j, main) = Unknown THEN None
                              ELSE Migration!ResolveLegacySwitchWindow(j, main)
  BY <1>1, JournalSettles
<1> HIDE DEF own
<1>4. Migration!StateIn(legacyLocal).journal = own
  BY <1>2, <1>3
<1>5. j.sources \in SUBSET Migration!Entries /\ main.windows \in SUBSET Migration!Entries
  BY <1>1 DEF Migration!Journals, Migration!States
<1> HIDE DEF alike
<1>6. ASSUME NEW v \in OpenWindows, NEW w \in OpenWindows, v # w, j.win \notin {v, w}, main.win \notin {v, w},
             alike(j.sources, v, w), alike(main.windows, v, w)
      PROVE  own.win \notin {v, w}
  <2>1. Migration!Only(Migration!Ids(j.sources)) \notin {v, w} /\ Migration!Focused(j.sources) \notin {v, w}
    BY <1>5, <1>6, Twins DEF alike
  <2>2. Migration!Only(Migration!Ids(main.windows)) \notin {v, w} /\ Migration!Focused(main.windows) \notin {v, w}
    BY <1>5, <1>6, Twins DEF alike
  <2>3. v # None /\ w # None /\ v # Unknown /\ w # Unknown
    BY NoneIsNoData
  <2>4. \/ Migration!ResolveLegacySwitchWindow(j, main) = Unknown
        \/ Migration!ResolveLegacySwitchWindow(j, main) \in
             {j.win, Migration!Focused(j.sources), main.win, Migration!Only(Migration!Ids(j.sources)),
              Migration!Focused(main.windows), Migration!Only(Migration!Ids(main.windows))}
    BY <1>1, NamedWindow
  <2> QED BY <1>3, <1>6, <2>1, <2>2, <2>3, <2>4
<1>7. \A v, w \in OpenWindows :
        v # w /\ j.win \notin {v, w} /\ main.win \notin {v, w} /\ alike(j.sources, v, w) /\ alike(main.windows, v, w)
        => Migration!StateIn(legacyLocal).journal.win \notin {v, w}
  BY <1>4, <1>6
<1> QED BY <1>7 DEF Migration!NeverGuessed, main, j, alike

LEMMA MigrationTyped == MigrationInv => Migration!TypeOK /\ Migration!SavedIsLoaded
<1> SUFFICES ASSUME MigrationInv PROVE Migration!TypeOK /\ Migration!SavedIsLoaded
  OBVIOUS
<1>1. Area(legacyLocal) /\ Area(legacyRemote) /\ Fits(legacyLocal)
  BY DEF MigrationInv
<1>2. Migration!LoadedWorkspace = None \/ Migration!LoadedWorkspace \in Clean
  BY <1>1, SourceHere, SourceElsewhere DEF Migration!LoadedWorkspace
<1>3. \A list \in Seq(GoodTabs) : Migration!ToSet(list) \subseteq GoodTabs
  <2> TAKE list \in Seq(GoodTabs)
  <2>1. \A i \in DOMAIN list : list[i] \in GoodTabs
    BY ElementOfSeq
  <2> QED BY <2>1 DEF Migration!ToSet
<1>4. Migration!LoadedWorkspace # None => Migration!ToSet(Migration!LoadedWorkspace.tabs) \subseteq GoodTabs
  BY <1>2, <1>3 DEF Clean
<1>5. Loads(Migration!LoadedState)
  BY <1>1, StateLoads DEF Migration!LoadedState
<1>6. Migration!LoadedState.journal # None =>
        /\ Migration!ToSet(Migration!LoadedState.journal.tabs) \subseteq GoodTabs
        /\ Migration!LoadedState.journal.win = None => Migration!LoadedState.journal.phase = "recovery_failed"
  BY <1>3, <1>5 DEF Loads, Settled
<1>7. Migration!NeverGuessed
  BY <1>1, WindowsAreNotGuessed
<1>8. Migration!TypeOK
  BY <1>4, <1>6, <1>7 DEF MigrationInv, Migration!TypeOK
<1>9. ASSUME legacyAt = "open"
      PROVE  /\ Migration!LoadedState = legacySaid.state \/ ~Migration!HasState(legacyLocal)
             /\ legacyLocal.workspaces # None => Migration!LoadedWorkspace = legacySaid.workspace
  <2>1. /\ Rewritten(legacyLocal)
        /\ legacySaid = [workspace |-> legacySaid.workspace, state |-> Migration!StateIn(legacyLocal)]
        /\ legacyLocal.workspaces # None => legacySaid.workspace = legacyLocal.workspaces
    BY <1>9 DEF MigrationInv
  <2>2. Migration!HasState(legacyLocal) => Migration!LoadedState = Migration!StateIn(legacyLocal)
    BY DEF Migration!LoadedState
  <2>3. legacySaid.state = Migration!StateIn(legacyLocal)
    BY <2>1
  <2> QED BY <2>1, <2>2, <2>3, LoadedHere DEF Rewritten
<1> QED BY <1>8, <1>9 DEF Migration!SavedIsLoaded

LEMMA MigrationAlone ==
    ASSUME [AllNext]_allVars
    PROVE  Migration!Next \/ UNCHANGED legacyVars
<1>1. CASE AllNext
  BY <1>1 DEF AllNext, Only
<1>2. CASE UNCHANGED allVars
  BY <1>2 DEF allVars
<1> QED BY <1>1, <1>2

(* Whatever shape the old data has, wherever the migration is cut off and   *)
(* however often it is begun again, what is loaded afterwards is what was   *)
(* loaded before, from the local data if there is any; then what was saved  *)
(* last is what is loaded; and of windows that the data does not tell apart *)
(* none is chosen (core/storage/index.ts, lib/migration).  For any old      *)
(* workspaces, states and journals of those shapes.                         *)
THEOREM OldDataIsKept == Together => MigrationKeepsData
<1>1. AllInit => MigrationInv
  BY MigrationStarts DEF AllInit
<1>2. MigrationInv /\ [AllNext]_allVars => MigrationInv' /\ Migration!StepKeepsData
  BY MigrationAlone, MigrationSteps
<1> DEFINE Fine == part = "migration" => Migration!TypeOK /\ Migration!SavedIsLoaded
           Step == part = "migration" => Migration!StepKeepsData
<1>3. MigrationInv => Fine
  BY MigrationTyped
<1>4. Migration!StepKeepsData => Step
  OBVIOUS
<1>5. Together => []MigrationInv
  BY <1>1, <1>2, PTL DEF Together
<1>6. Together => [][Step]_legacyVars
  <2> HIDE DEF Step
  <2> QED BY <1>1, <1>2, <1>4, PTL DEF Together
<1>7. Together => []Fine
  <2> HIDE DEF Fine
  <2> QED BY <1>3, <1>5, PTL
<1> QED BY <1>6, <1>7 DEF MigrationKeepsData

-----------------------------------------------------------------------------
LEMMA BeforeGrows ==
    ASSUME NEW I, IsFiniteSet(I), I \subseteq Nat, NEW i \in I, NEW k \in I, i < k
    PROVE  /\ Before(i, I) \in Nat /\ Before(k, I) \in Nat
           /\ Before(i, I) < Before(k, I)
<1> DEFINE below == {j \in I : j < i}
           more == {j \in I : j < k}
<1>0. i \in Nat /\ k \in Nat /\ \A j \in I : j \in Nat
  OBVIOUS
<1>1. below \in SUBSET more /\ i \in more /\ i \notin below /\ more \in SUBSET I
  <2>1. \A j \in I : j < i => j < k
    BY <1>0
  <2>2. ~(i < i)
    BY <1>0
  <2> QED BY <2>1, <2>2
<1> HIDE DEF below, more
<1>2. IsFiniteSet(more)
  BY <1>1, FS_Subset
<1>3. IsFiniteSet(below) /\ Cardinality(below) <= Cardinality(more) /\ Cardinality(below) # Cardinality(more)
  BY <1>1, <1>2, FS_Subset
<1>4. Cardinality(below) \in Nat /\ Cardinality(more) \in Nat
  BY <1>2, <1>3, FS_CardinalityType
<1> QED BY <1>3, <1>4 DEF Before, below, more

(* The places the members of a choice come from, in their order.            *)
Places(list, S, pos) ==
  /\ pos \in [DOMAIN At(list, S) -> S \cap DOMAIN list]
  /\ \A n \in DOMAIN pos : At(list, S)[n] = list[pos[n]]
  /\ \A n, m \in DOMAIN pos : n < m => pos[n] < pos[m]
  /\ \A i \in S \cap DOMAIN list : \E n \in DOMAIN pos : pos[n] = i

LEMMA ChosenInOrder ==
    ASSUME NEW T, NEW list \in Seq(T), NEW S
    PROVE  /\ At(list, S) \in Seq(T)
           /\ Len(At(list, S)) = Cardinality(S \cap DOMAIN list)
           /\ \E pos : Places(list, S, pos)
<1> DEFINE I == S \cap DOMAIN list
           rank(n) == CHOOSE i \in I : Before(i, I) = n - 1
           pos == [n \in 1 .. Cardinality(I) |-> rank(n)]
<1>1. DOMAIN list = 1 .. Len(list) /\ Len(list) \in Nat
  OBVIOUS
<1>2. IsFiniteSet(I) /\ I \subseteq Nat
  <2>1. IsFiniteSet(1 .. Len(list))
    BY <1>1, FS_Interval
  <2>2. I \in SUBSET (1 .. Len(list)) /\ 1 .. Len(list) \subseteq Nat
    BY <1>1
  <2> QED BY <2>1, <2>2, FS_Subset
<1>3. Cardinality(I) \in Nat
  BY <1>2, FS_CardinalityType
<1>4. At(list, S) = [n \in 1 .. Cardinality(I) |-> list[rank(n)]]
  BY DEF At
<1>5. At(list, S) \in Seq(T)
  BY Chosen
<1>6. \A n \in 1 .. Cardinality(I) : rank(n) \in I /\ Before(rank(n), I) = n - 1
  BY <1>2, Ranked
<1> HIDE DEF I, rank
<1>7. DOMAIN At(list, S) = 1 .. Cardinality(I) /\ Len(At(list, S)) = Cardinality(I)
  BY <1>3, <1>4, <1>5
<1>8. \A n, m \in 1 .. Cardinality(I) : n < m => rank(n) < rank(m)
  <2> SUFFICES ASSUME NEW n \in 1 .. Cardinality(I), NEW m \in 1 .. Cardinality(I), n < m, ~(rank(n) < rank(m))
               PROVE  FALSE
    OBVIOUS
  <2>1. rank(n) \in I /\ rank(m) \in I /\ Before(rank(n), I) = n - 1 /\ Before(rank(m), I) = m - 1
    BY <1>6
  <2>2. rank(n) \in Nat /\ rank(m) \in Nat /\ n \in Nat /\ m \in Nat
    <3>1. \A x \in I : x \in Nat
      BY <1>2
    <3>2. \A x \in 1 .. Cardinality(I) : x \in Nat
      BY <1>3
    <3> QED BY <2>1, <3>1, <3>2
  <2>3. rank(n) = rank(m) \/ rank(m) < rank(n)
    BY <2>2
  <2>4. CASE rank(n) = rank(m)
    BY <2>1, <2>2, <2>4
  <2>5. CASE rank(m) < rank(n)
    <3>1. Before(rank(m), I) < Before(rank(n), I)
      BY <1>2, <2>1, <2>5, BeforeGrows
    <3> QED BY <2>1, <2>2, <3>1
  <2> QED BY <2>3, <2>4, <2>5
<1>9. \A i \in I : \E n \in 1 .. Cardinality(I) : rank(n) = i
  <2> TAKE i \in I
  <2>1. IsFiniteSet(I \ {i}) /\ Cardinality(I \ {i}) = Cardinality(I) - 1
    BY <1>2, FS_RemoveElement
  <2>2. {j \in I : j < i} \in SUBSET (I \ {i})
    BY <1>2
  <2>3. IsFiniteSet({j \in I : j < i}) /\ Before(i, I) <= Cardinality(I) - 1
    BY <2>1, <2>2, FS_Subset DEF Before
  <2>4. Before(i, I) \in Nat
    BY <2>3, FS_CardinalityType DEF Before
  <2> DEFINE n == Before(i, I) + 1
  <2>5. n \in 1 .. Cardinality(I) /\ n - 1 = Before(i, I)
    BY <1>3, <2>3, <2>4
  <2>6. rank(n) \in I /\ Before(rank(n), I) = Before(i, I)
    BY <1>6, <2>5
  <2>7. rank(n) = i
    <3>1. rank(n) < i => Before(rank(n), I) < Before(i, I)
      BY <1>2, <2>6, BeforeGrows
    <3>2. i < rank(n) => Before(i, I) < Before(rank(n), I)
      BY <1>2, <2>6, BeforeGrows
    <3>3. rank(n) \in Nat /\ i \in Nat
      BY <1>2, <2>6
    <3>5. ~(Before(i, I) < Before(i, I))
      BY <2>4
    <3>4. ~(rank(n) < i) /\ ~(i < rank(n))
      BY <2>6, <3>1, <3>2, <3>5
    <3> QED BY <3>3, <3>4
  <2> QED BY <2>5, <2>7
<1>10. Places(list, S, pos)
  BY <1>4, <1>6, <1>7, <1>8, <1>9 DEF Places, I
<1> QED BY <1>5, <1>7, <1>10 DEF I

-----------------------------------------------------------------------------
(* The tabs of a window, which stand in it by their ids and in their order. *)
AnyUrl == Pages \cup {"home", "placeholder", "internal", "blank"}
WindowTab == [id : Nat \ {0}, url : AnyUrl, busy : BOOLEAN, pinned : BOOLEAN, group : Nat]

TabsOf(w) == {w[i] : i \in DOMAIN w}
IdsOf(w) == {w[i].id : i \in DOMAIN w}
Apart(w) == \A i, j \in DOMAIN w : w[i].id = w[j].id => i = j
Ahead(w, a, b) == \E i, j \in DOMAIN w : i < j /\ w[i].id = a /\ w[j].id = b
AWindow(w) == w \in Seq(WindowTab) /\ Apart(w)

LEMMA SameLists == \A list, S : Browser!At(list, S) = At(list, S)
  BY DEF Browser!At, Browser!Before, At, Before, Browser!Cardinality, Cardinality

LEMMA WindowSets == /\ \A w : Browser!ToSet(w) = TabsOf(w)
                    /\ \A w : Browser!Ids(w) = IdsOf(w)
                    /\ \A w : IdsOf(w) = {t.id : t \in TabsOf(w)}
  BY DEF Browser!ToSet, Browser!Ids, TabsOf, IdsOf

LEMMA TabTypes ==
    ASSUME NEW w, AWindow(w)
    PROVE  /\ TabsOf(w) \subseteq WindowTab
           /\ \A t, u \in TabsOf(w) : t.id = u.id => t = u
           /\ IsFiniteSet(IdsOf(w)) /\ IdsOf(w) \subseteq Nat \ {0}
<1>1. w \in Seq(WindowTab) /\ DOMAIN w = 1 .. Len(w) /\ Len(w) \in Nat
  BY DEF AWindow
<1>2. \A i \in DOMAIN w : w[i] \in WindowTab /\ w[i].id \in Nat \ {0}
  <2>1. \A i \in DOMAIN w : w[i] \in WindowTab
    BY <1>1, ElementOfSeq
  <2> QED BY <2>1 DEF WindowTab
<1>3. IsFiniteSet(IdsOf(w))
  <2> DEFINE f == [i \in DOMAIN w |-> w[i].id]
  <2>1. IsFiniteSet(DOMAIN w)
    BY <1>1, FS_Interval
  <2>2. f \in Surjection(DOMAIN w, IdsOf(w))
    BY DEF Surjection, IdsOf
  <2> HIDE DEF f
  <2> QED BY <2>1, <2>2, FS_Surjection
<1> QED BY <1>2, <1>3 DEF AWindow, Apart, TabsOf, IdsOf

Rest(w, S) == At(w, {i \in DOMAIN w : w[i].id \notin S})
Put(w, k, x) == [w EXCEPT ![k] = x]

LEMMA Removed ==
    ASSUME NEW w, AWindow(w), NEW S, NEW v, v = Rest(w, S)
    PROVE  /\ AWindow(v)
           /\ TabsOf(v) = {t \in TabsOf(w) : t.id \notin S}
           /\ \A a, b : a \notin S /\ b \notin S /\ Ahead(w, a, b) => Ahead(v, a, b)
<1> DEFINE I == {i \in DOMAIN w : w[i].id \notin S}
<1>1. v = At(w, I)
  BY DEF Rest
<1>2. w \in Seq(WindowTab) /\ I \cap DOMAIN w = I /\ DOMAIN w \subseteq Nat
  BY DEF AWindow
<1>3. At(w, I) \in Seq(WindowTab) /\ \E pos : Places(w, I, pos)
  BY <1>2, ChosenInOrder
<1>4. PICK pos : Places(w, I, pos)
  BY <1>3
<1>5. /\ DOMAIN pos = DOMAIN v
      /\ \A n \in DOMAIN v : pos[n] \in I /\ v[n] = w[pos[n]]
      /\ \A n, m \in DOMAIN v : n < m => pos[n] < pos[m]
      /\ \A i \in I : \E n \in DOMAIN v : pos[n] = i
  BY <1>1, <1>2, <1>4 DEF Places
<1>0. DOMAIN v \subseteq Nat /\ \A n \in DOMAIN v : n \in Nat /\ pos[n] \in Nat
  <2>1. v \in Seq(WindowTab)
    BY <1>1, <1>3
  <2>2. DOMAIN v \subseteq Nat
    BY <2>1
  <2>3. \A n \in DOMAIN v : pos[n] \in DOMAIN w
    BY <1>5
  <2> QED BY <1>2, <2>2, <2>3
<1>6. \A n, m \in DOMAIN v : pos[n] = pos[m] => n = m
  <2> TAKE n \in DOMAIN v, m \in DOMAIN v
  <2>1. n < m => pos[n] < pos[m]
    BY <1>5
  <2>2. m < n => pos[m] < pos[n]
    BY <1>5
  <2> QED BY <1>0, <2>1, <2>2
<1>7. AWindow(v)
  BY <1>1, <1>3, <1>5, <1>6 DEF AWindow, Apart
<1>8. TabsOf(v) = {t \in TabsOf(w) : t.id \notin S}
  <2>1. \A n \in DOMAIN v : pos[n] \in DOMAIN w /\ w[pos[n]].id \notin S /\ v[n] = w[pos[n]]
    BY <1>5
  <2>2. \A i \in DOMAIN w : w[i].id \notin S => \E n \in DOMAIN v : v[n] = w[i]
    BY <1>5
  <2> HIDE DEF I
  <2>3. \A t : t \in TabsOf(v) <=> t \in TabsOf(w) /\ t.id \notin S
    BY <2>1, <2>2 DEF TabsOf
  <2> QED BY <2>3
<1>9. ASSUME NEW a, NEW b, a \notin S, b \notin S, Ahead(w, a, b)
      PROVE  Ahead(v, a, b)
  <2>1. PICK i \in DOMAIN w, j \in DOMAIN w : i < j /\ w[i].id = a /\ w[j].id = b
    BY <1>9 DEF Ahead
  <2>2. i \in I /\ j \in I
    BY <1>9, <2>1
  <2>3. PICK n \in DOMAIN v, m \in DOMAIN v : pos[n] = i /\ pos[m] = j
    BY <1>5, <2>2
  <2>4. n < m
    <3>1. m < n => pos[m] < pos[n]
      BY <1>5
    <3>2. n # m
      BY <1>0, <2>1, <2>3
    <3> QED BY <1>0, <2>1, <2>3, <3>1, <3>2
  <2> QED BY <1>5, <2>1, <2>3, <2>4 DEF Ahead
<1> QED BY <1>7, <1>8, <1>9

LEMMA Joined ==
    ASSUME NEW w, AWindow(w), NEW u, AWindow(u), IdsOf(w) \cap IdsOf(u) = {}
    PROVE  /\ AWindow(w \o u)
           /\ TabsOf(w \o u) = TabsOf(w) \cup TabsOf(u)
           /\ \A a, b : Ahead(w, a, b) \/ Ahead(u, a, b) \/ (a \in IdsOf(w) /\ b \in IdsOf(u)) => Ahead(w \o u, a, b)
<1> DEFINE v == w \o u
<1>1. /\ w \in Seq(WindowTab) /\ u \in Seq(WindowTab)
      /\ DOMAIN w = 1 .. Len(w) /\ DOMAIN u = 1 .. Len(u) /\ Len(w) \in Nat /\ Len(u) \in Nat
  BY DEF AWindow
<1>2. /\ v \in Seq(WindowTab) /\ DOMAIN v = 1 .. (Len(w) + Len(u))
      /\ \A i \in DOMAIN w : v[i] = w[i]
      /\ \A i \in DOMAIN u : v[Len(w) + i] = u[i]
  BY <1>1
<1>3. \A k \in DOMAIN v : k \in DOMAIN w \/ \E i \in DOMAIN u : k = Len(w) + i
  <2> TAKE k \in DOMAIN v
  <2>1. k \in Nat /\ 1 <= k /\ k <= Len(w) + Len(u)
    BY <1>1, <1>2
  <2>2. CASE k <= Len(w)
    BY <1>1, <2>1, <2>2
  <2>3. CASE ~(k <= Len(w))
    <3>1. k - Len(w) \in DOMAIN u /\ k = Len(w) + (k - Len(w))
      BY <1>1, <2>1, <2>3
    <3> QED BY <3>1
  <2> QED BY <2>2, <2>3
<1>4. \A i \in DOMAIN w : i \in DOMAIN v
  BY <1>1, <1>2
<1>5. \A i \in DOMAIN u : Len(w) + i \in DOMAIN v
  BY <1>1, <1>2
<1> HIDE DEF v
<1>6. Apart(v)
  <2> SUFFICES ASSUME NEW k \in DOMAIN v, NEW l \in DOMAIN v, v[k].id = v[l].id PROVE k = l
    BY DEF Apart
  <2>1. CASE k \in DOMAIN w /\ l \in DOMAIN w
    BY <1>2, <2>1 DEF AWindow, Apart
  <2>2. CASE k \in DOMAIN w /\ ~(l \in DOMAIN w)
    BY <1>2, <1>3, <2>2 DEF IdsOf
  <2>3. CASE ~(k \in DOMAIN w) /\ l \in DOMAIN w
    BY <1>2, <1>3, <2>3 DEF IdsOf
  <2>4. CASE ~(k \in DOMAIN w) /\ ~(l \in DOMAIN w)
    <3>1. PICK i \in DOMAIN u, j \in DOMAIN u : k = Len(w) + i /\ l = Len(w) + j
      BY <1>3, <2>4
    <3>2. u[i].id = u[j].id
      BY <1>2, <3>1
    <3> QED BY <3>1, <3>2 DEF AWindow, Apart
  <2> QED BY <2>1, <2>2, <2>3, <2>4
<1>7. TabsOf(v) = TabsOf(w) \cup TabsOf(u)
  BY <1>2, <1>3, <1>4, <1>5 DEF TabsOf
<1>8. ASSUME NEW a, NEW b, Ahead(w, a, b)
      PROVE  Ahead(v, a, b)
  BY <1>2, <1>4, <1>8 DEF Ahead
<1>9. ASSUME NEW a, NEW b, Ahead(u, a, b)
      PROVE  Ahead(v, a, b)
  <2>1. PICK i \in DOMAIN u, j \in DOMAIN u : i < j /\ u[i].id = a /\ u[j].id = b
    BY <1>9 DEF Ahead
  <2>2. Len(w) + i < Len(w) + j
    BY <1>1, <2>1
  <2> QED BY <1>2, <1>5, <2>1, <2>2 DEF Ahead
<1>10. ASSUME NEW a \in IdsOf(w), NEW b \in IdsOf(u)
       PROVE  Ahead(v, a, b)
  <2>1. PICK i \in DOMAIN w, j \in DOMAIN u : w[i].id = a /\ u[j].id = b
    BY DEF IdsOf
  <2>2. i < Len(w) + j
    BY <1>1
  <2> QED BY <1>2, <1>4, <1>5, <2>1, <2>2 DEF Ahead
<1> QED BY <1>2, <1>6, <1>7, <1>8, <1>9, <1>10 DEF AWindow, v

LEMMA OneTab ==
    ASSUME NEW t \in WindowTab
    PROVE  /\ AWindow(<<t>>) /\ TabsOf(<<t>>) = {t} /\ IdsOf(<<t>>) = {t.id}
           /\ \A w : w \in Seq(WindowTab) => Append(w, t) = w \o <<t>>
<1>1. DOMAIN <<t>> = {1} /\ <<t>>[1] = t
  OBVIOUS
<1>2. <<t>> \in Seq(WindowTab)
  OBVIOUS
<1> QED BY <1>1, <1>2, AppendIsConcat DEF AWindow, Apart, TabsOf, IdsOf

LEMMA Altered ==
    ASSUME NEW w, AWindow(w), NEW v, v \in Seq(WindowTab), DOMAIN v = DOMAIN w, \A k \in DOMAIN w : v[k].id = w[k].id
    PROVE  AWindow(v) /\ IdsOf(v) = IdsOf(w) /\ \A a, b : Ahead(w, a, b) => Ahead(v, a, b)
  BY DEF AWindow, Apart, IdsOf, Ahead

-----------------------------------------------------------------------------
(* The switch of a window.  Taken are the ids that the browser has given.   *)
Here == TabsOf(windowWindow)
Clicked == Browser!Touched
Taken == IdsOf(windowWindow) \cup {a.id : a \in windowMade} \cup Clicked
ListedTab(t) == ~t.pinned /\ t.url \in Pages
TheShown == {windowPlan.shows[i] : i \in DOMAIN windowPlan.shows} \ {0}
ToClose == {d.id : d \in windowPlan.close}

Preparing == windowPc \in {"create", "home", "check", "commit"}
Going == Preparing \/ windowPc \in {"close", "group", "done"}

WindowShape ==
  /\ AWindow(windowWindow)
  /\ \A t \in Here : t.id > LastTabId => t.url # "blank"
  /\ \A a \in windowMade : a.id > LastTabId
  /\ Taken \subseteq Nat /\ \E b \in Nat : \A id \in Taken : id <= b
  /\ windowLeft = [user |-> windowLeft.user, faults |-> windowLeft.faults] /\ windowLeft.user \in Nat

Target == [url : Pages, group : GroupKeys \cup {None}]
HomeThen == [id : Nat, pinned : BOOLEAN]
Closing == [id : Nat, url : Pages \cup {"placeholder", "blank"}, force : BOOLEAN]

PlanShape ==
  /\ windowPlan \in [target : Seq(Target), lazy : BOOLEAN, shows : Seq(Nat), committed : BOOLEAN,
                     source : Seq(WindowTab), close : SUBSET Closing, ungroup : SUBSET Nat, home : HomeThen]
  /\ DOMAIN windowPlan.shows = DOMAIN windowPlan.target
  /\ \A i, j \in DOMAIN windowPlan.shows :
       i # j => windowPlan.shows[i] = 0 \/ windowPlan.shows[i] # windowPlan.shows[j]
  /\ windowPlan.home.pinned => windowPlan.home.id # 0
  /\ TheShown \cap ToClose = {}
  /\ Apart(windowPlan.source)
  /\ \A s \in TabsOf(windowPlan.source) :
       ~s.pinned /\ s.url \in Pages \cup {"blank"} /\ s.id \notin {a.id : a \in windowMade}
  /\ Preparing => ~windowPlan.committed
  /\ windowPc \in {"close", "group", "done"} => windowPlan.committed

(* Until a switch has committed, what it found in the window is there.      *)
SourceThere ==
  ~windowPlan.committed /\ windowPc # "failed" =>
    \A s \in TabsOf(windowPlan.source) :
      s.id \in Clicked \/ \E t \in Here : t.id = s.id /\ t.url = s.url /\ ~t.pinned

CloseFits ==
  Preparing =>
    /\ \A d \in windowPlan.close : d.id \in Clicked \/ \E t \in Here : t.id = d.id /\ t.url = d.url
    /\ \A t \in Here : ListedTab(t) => t.id \in Clicked \cup TheShown \cup ToClose

ShowsTarget ==
  Going =>
    /\ TheShown \subseteq IdsOf(windowWindow) \cup Clicked
    /\ windowPc # "create" => \A i \in DOMAIN windowPlan.shows : windowPlan.shows[i] # 0
    /\ \A i \in DOMAIN windowPlan.shows : windowPlan.shows[i] \in TheShown \ Clicked =>
         \E t \in Here : /\ t.id = windowPlan.shows[i] /\ ~t.pinned
                         /\ t.url \in {windowPlan.target[i].url, "placeholder"}

KeyGroup(k) == IF k = None THEN 0 ELSE Browser!Min(Browser!OfKey(k))

GroupsFit ==
  /\ Preparing \/ windowPc \in {"close", "group"} => \A t \in Here : t.group # 0 => t.id \in windowPlan.ungroup
  /\ windowPc = "done" => \A i \in DOMAIN windowPlan.shows : \A t \in Here :
       t.id = windowPlan.shows[i] => t.group = KeyGroup(windowPlan.target[i].group)

(* The home tab of the query, until it is pinned, and then a pinned one.    *)
HomeStays ==
  /\ windowPc \in {"create", "home"} /\ windowPlan.home.id # 0 =>
       \/ windowPlan.home.id \in Clicked
       \/ \E t \in Here : t.id = windowPlan.home.id /\ t.url = "home" /\ t.pinned = windowPlan.home.pinned
  /\ windowPc \in {"check", "commit", "close", "group", "done"} /\ windowTouched = {} =>
       \E t \in Here : t.url = "home" /\ t.pinned /\ t.id \notin ToClose

Verified ==
  /\ windowPc = "close" =>
       /\ windowSeen \subseteq ToClose /\ windowSeen \subseteq IdsOf(windowWindow) \cup Clicked
       /\ \A t \in Here : t.id \in windowSeen =>
            \E d \in windowPlan.close : d.id = t.id /\ (d.force \/ d.url = t.url \/ <<t.id, "close">> \in windowTouched)
       /\ ~windowBroken => \A t \in Here : ListedTab(t) => t.id \in Clicked \cup TheShown \cup windowSeen
  /\ windowPc \in {"group", "done"} /\ ~windowBroken =>
       \A t \in Here : ListedTab(t) => t.id \in Clicked \cup TheShown
  /\ windowPc = "unmake" =>
       /\ windowSeen \subseteq {a.id : a \in windowMade}
       /\ \A t \in Here : t.id \in windowSeen =>
            \E a \in windowMade : a.id = t.id /\ (t.url \in a.urls \/ <<t.id, "unmake">> \in windowTouched)

(* Of targets with one URL the earlier one is shown to the left.            *)
InOrder ==
  Going =>
    \A i, j \in DOMAIN windowPlan.shows :
      i < j /\ windowPlan.target[i].url = windowPlan.target[j].url /\ windowPlan.shows[j] # 0 =>
        /\ windowPlan.shows[i] # 0
        /\ \/ windowPlan.shows[i] \in Clicked \/ windowPlan.shows[j] \in Clicked
           \/ Ahead(windowWindow, windowPlan.shows[i], windowPlan.shows[j])

WindowInv ==
  /\ WindowShape
  /\ windowPc = "idle" => windowMade = {} /\ windowPlan = None
  /\ windowPc # "idle" =>
       /\ PlanShape /\ SourceThere /\ CloseFits /\ ShowsTarget /\ GroupsFit
       /\ HomeStays /\ Verified /\ InOrder
       /\ windowPc = "failed" => Browser!FailedSwitchKeepsSource
  /\ windowPc \in {"idle", "create", "home", "check", "commit", "close", "group", "done",
                   "rollback", "unmake", "restore", "failed"}

LEMMA IdsAreNumbers == LastTabId \in Nat
  BY WindowsKnown

LEMMA FreshIs ==
    ASSUME WindowShape
    PROVE  Browser!Fresh \in Nat /\ Browser!Fresh > LastTabId /\ \A id \in Taken : id < Browser!Fresh
<1> DEFINE S == Taken \cup {LastTabId}
<1>1. S \subseteq Nat /\ S # {}
  BY IdsAreNumbers DEF WindowShape
<1>2. PICK b \in Nat : \A id \in Taken : id <= b
  BY DEF WindowShape
<1>3. \E m \in S : \A k \in S : k <= m
  <2> DEFINE c == IF b <= LastTabId THEN LastTabId ELSE b
  <2>1. c \in Nat /\ \A k \in S : k <= c
    BY <1>1, <1>2, IdsAreNumbers
  <2> HIDE DEF S, c
  <2> QED BY <1>1, <2>1, Greatest
<1>4. Browser!Fresh = Browser!Max(S) + 1
  BY WindowSets DEF Browser!Fresh, Taken, Clicked, Browser!Touched
<1> HIDE DEF S
<1>5. Browser!Max(S) \in S /\ \A k \in S : Browser!Max(S) >= k
  BY <1>1, <1>3 DEF Browser!Max
<1>6. LastTabId \in S /\ Taken \subseteq S
  BY DEF S
<1>7. Browser!Max(S) \in Nat /\ \A k \in S : k \in Nat /\ k < Browser!Max(S) + 1
  <2>1. \A k \in S : k \in Nat
    BY <1>1
  <2>2. \A m, k \in Nat : m >= k => k < m + 1
    OBVIOUS
  <2> QED BY <1>5, <2>1, <2>2
<1> QED BY <1>4, <1>6, <1>7

LEMMA TabOfIs ==
    ASSUME WindowShape, NEW t \in Here
    PROVE  Browser!TabOf(t.id) = t /\ Browser!Open(t.id)
<1>1. Browser!ToSet(windowWindow) = Here /\ Browser!Ids(windowWindow) = {u.id : u \in Here}
  BY WindowSets DEF Here
<1>2. \A u \in Here : u.id = t.id => u = t
  BY TabTypes DEF WindowShape, Here
<1>3. Browser!Open(t.id)
  BY <1>1 DEF Browser!Open
<1>4. Browser!TabOf(t.id) = CHOOSE u \in Here : u.id = t.id
  BY <1>1 DEF Browser!TabOf
<1> QED BY <1>2, <1>3, <1>4

(* What the user, a page that loads and the warmup do to a window: a tab    *)
(* stays what it is, is put in its place by the warmup, or is clicked.      *)
Warmed(t, u) ==
  windowPc = "done" /\ t.url = "placeholder"
    /\ \E i \in DOMAIN windowPlan.shows : t.id = windowPlan.shows[i] /\ u.url = windowPlan.target[i].url
Becomes(t, u) == u.id = t.id /\ u.group = t.group /\ u.pinned = t.pinned /\ (u.url = t.url \/ Warmed(t, u))

Drift ==
  /\ windowPc' = windowPc /\ windowPlan' = windowPlan /\ windowMade' = windowMade /\ windowSeen' = windowSeen
  /\ windowBroken' = windowBroken /\ windowTouched \subseteq windowTouched'
  /\ WindowShape'
  /\ \A t \in Here : t.id \in Clicked' \/ \E u \in Here' : Becomes(t, u)
  /\ \A u \in Here' :
       \/ u.id \notin Taken /\ u.group = 0 /\ u.id \in Clicked'
       \/ \E t \in Here : Becomes(t, u)
       \/ \E t \in Here : u.id = t.id /\ u.group = t.group /\ <<u.id, windowPc>> \in windowTouched'
  /\ \A a, b : a \notin Clicked' /\ b \notin Clicked' /\ Ahead(windowWindow, a, b) => Ahead(windowWindow', a, b)

LEMMA DriftKeeps == WindowInv /\ Drift /\ windowPc # "failed" => WindowInv'
<1> SUFFICES ASSUME WindowInv, Drift, windowPc # "failed" PROVE WindowInv'
  OBVIOUS
<1>1. /\ windowPc' = windowPc /\ windowPlan' = windowPlan /\ windowMade' = windowMade /\ windowSeen' = windowSeen
      /\ windowBroken' = windowBroken /\ windowTouched \subseteq windowTouched' /\ WindowShape'
      /\ TheShown' = TheShown /\ ToClose' = ToClose /\ Preparing' = Preparing /\ Going' = Going
  BY DEF Drift, TheShown, ToClose, Preparing, Going
<1>2. Clicked \subseteq Clicked'
  BY <1>1 DEF Clicked, Browser!Touched
<1>3. \A id, at : <<id, at>> \in windowTouched' => id \in Clicked'
  BY DEF Clicked, Browser!Touched
<1>4. \A t \in Here : t.id \in Clicked' \/ \E u \in Here' : Becomes(t, u)
  BY DEF Drift
<1>5. \A u \in Here' :
       \/ u.id \notin Taken /\ u.group = 0 /\ u.id \in Clicked'
       \/ \E t \in Here : Becomes(t, u)
       \/ \E t \in Here : u.id = t.id /\ u.group = t.group /\ <<u.id, windowPc>> \in windowTouched'
  BY DEF Drift
<1>6. IdsOf(windowWindow) \subseteq IdsOf(windowWindow') \cup Clicked'
  <2>1. IdsOf(windowWindow) = {t.id : t \in Here} /\ IdsOf(windowWindow') = {t.id : t \in Here'}
    BY WindowSets DEF Here
  <2>2. \A t \in Here : t.id \in Clicked' \/ \E u \in Here' : u.id = t.id
    BY <1>4 DEF Becomes
  <2> QED BY <2>1, <2>2
<1>7. CASE windowPc = "idle"
  BY <1>1, <1>7 DEF WindowInv
<1>8. CASE windowPc # "idle"
  <2>1. PlanShape /\ SourceThere /\ CloseFits /\ ShowsTarget /\ GroupsFit /\ HomeStays /\ Verified /\ InOrder /\ WindowShape
    BY <1>8 DEF WindowInv
  <2>2. PlanShape'
    BY <1>1, <2>1 DEF PlanShape
  <2>3. SourceThere'
    <3> SUFFICES ASSUME ~windowPlan.committed, NEW s \in TabsOf(windowPlan.source)
                 PROVE  s.id \in Clicked' \/ \E t \in Here' : t.id = s.id /\ t.url = s.url /\ ~t.pinned
      BY <1>1 DEF SourceThere
    <3>1. s.id \in Clicked \/ \E t \in Here : t.id = s.id /\ t.url = s.url /\ ~t.pinned
      BY <2>1, <1>1 DEF SourceThere
    <3>2. windowPc # "done"
      BY <2>1 DEF PlanShape
    <3> QED BY <1>2, <1>4, <3>1, <3>2 DEF Becomes, Warmed
  <2>4. CloseFits'
    <3> SUFFICES ASSUME Preparing PROVE CloseFits'
      BY <1>1 DEF CloseFits
    <3>0. windowPc # "done" /\ windowPc # "close"
      BY DEF Preparing
    <3>1. \A d \in windowPlan.close : d.id \in Clicked' \/ \E t \in Here' : t.id = d.id /\ t.url = d.url
      BY <1>2, <1>4, <2>1, <3>0 DEF CloseFits, Becomes, Warmed
    <3>2. \A u \in Here' : ListedTab(u) => u.id \in Clicked' \cup TheShown \cup ToClose
      <4> TAKE u \in Here'
      <4>1. CASE \E t \in Here : Becomes(t, u)
        BY <1>2, <2>1, <3>0, <4>1 DEF CloseFits, Becomes, Warmed, ListedTab
      <4> QED BY <1>3, <1>5, <4>1
    <3> QED BY <1>1, <3>1, <3>2 DEF CloseFits
  <2>5. ShowsTarget'
    <3> SUFFICES ASSUME Going PROVE ShowsTarget'
      BY <1>1 DEF ShowsTarget
    <3>1. TheShown \subseteq IdsOf(windowWindow') \cup Clicked'
      BY <1>2, <1>6, <2>1 DEF ShowsTarget
    <3>2. ASSUME NEW i \in DOMAIN windowPlan.shows, windowPlan.shows[i] \in TheShown \ Clicked'
          PROVE  \E t \in Here' : /\ t.id = windowPlan.shows[i] /\ ~t.pinned
                                  /\ t.url \in {windowPlan.target[i].url, "placeholder"}
      <4>1. PICK t \in Here : /\ t.id = windowPlan.shows[i] /\ ~t.pinned
                              /\ t.url \in {windowPlan.target[i].url, "placeholder"}
        BY <1>2, <2>1, <3>2 DEF ShowsTarget
      <4>2. PICK u \in Here' : Becomes(t, u)
        BY <1>4, <3>2, <4>1
      <4>3. u.url = t.url \/ u.url = windowPlan.target[i].url
        <5>1. ASSUME Warmed(t, u) PROVE u.url = windowPlan.target[i].url
          <6>1. PICK j \in DOMAIN windowPlan.shows : t.id = windowPlan.shows[j] /\ u.url = windowPlan.target[j].url
            BY <5>1 DEF Warmed
          <6>2. windowPlan.shows[i] # 0 /\ windowPlan.shows[j] = windowPlan.shows[i]
            BY <3>2, <4>1, <6>1 DEF TheShown
          <6>3. i = j
            BY <2>1, <6>2 DEF PlanShape
          <6> QED BY <6>1, <6>3
        <5> QED BY <4>2, <5>1 DEF Becomes
      <4> QED BY <4>1, <4>2, <4>3 DEF Becomes
    <3> QED BY <1>1, <2>1, <3>1, <3>2 DEF ShowsTarget
  <2>6. GroupsFit'
    <3>1. \A u \in Here' : (u.group = 0 /\ u.id \notin Taken) \/ \E t \in Here : u.id = t.id /\ u.group = t.group
      BY <1>5 DEF Becomes
    <3>2. \A k : KeyGroup(k)' = KeyGroup(k)
      BY <1>1 DEF KeyGroup, Browser!OfKey
    <3>3. windowPc = "done" => \A i \in DOMAIN windowPlan.shows : windowPlan.shows[i] \in Taken
      BY <2>1 DEF ShowsTarget, Taken, TheShown, Going
    <3>4. Preparing \/ windowPc \in {"close", "group"} => \A t \in Here' : t.group # 0 => t.id \in windowPlan.ungroup
      BY <2>1, <3>1 DEF GroupsFit
    <3>5. windowPc = "done" => \A i \in DOMAIN windowPlan.shows : \A t \in Here' :
            t.id = windowPlan.shows[i] => t.group = KeyGroup(windowPlan.target[i].group)
      BY <2>1, <3>1, <3>3 DEF GroupsFit
    <3> QED BY <1>1, <3>2, <3>4, <3>5 DEF GroupsFit
  <2>7. HomeStays'
    <3>0. ASSUME windowPc \in {"create", "home"}, windowPlan.home.id # 0, windowPlan.home.id \notin Clicked'
          PROVE  \E t \in Here' : t.id = windowPlan.home.id /\ t.url = "home" /\ t.pinned = windowPlan.home.pinned
      <4>1. PICK t \in Here : t.id = windowPlan.home.id /\ t.url = "home" /\ t.pinned = windowPlan.home.pinned
        BY <1>2, <2>1, <3>0 DEF HomeStays
      <4>2. PICK u \in Here' : Becomes(t, u)
        BY <1>4, <3>0, <4>1
      <4> QED BY <3>0, <4>1, <4>2 DEF Becomes, Warmed
    <3> SUFFICES ASSUME windowPc \in {"check", "commit", "close", "group", "done"}, windowTouched' = {}
                 PROVE  \E t \in Here' : t.url = "home" /\ t.pinned /\ t.id \notin ToClose
      BY <1>1, <3>0 DEF HomeStays
    <3>1. windowTouched = {} /\ Clicked' = {}
      BY <1>1 DEF Clicked, Browser!Touched
    <3>2. PICK t \in Here : t.url = "home" /\ t.pinned /\ t.id \notin ToClose
      BY <2>1, <3>1 DEF HomeStays
    <3>3. PICK u \in Here' : Becomes(t, u)
      BY <1>4, <3>1
    <3> QED BY <3>2, <3>3 DEF Becomes, Warmed
  <2>8. Verified'
    <3>1. ASSUME windowPc = "close", NEW u \in Here', u.id \in windowSeen
          PROVE  \E d \in windowPlan.close : d.id = u.id /\ (d.force \/ d.url = u.url \/ <<u.id, "close">> \in windowTouched')
      <4>1. u.id \in Taken
        BY <2>1, <3>1 DEF Verified, Taken
      <4>2. PICK t \in Here : Becomes(t, u) \/ (u.id = t.id /\ <<u.id, windowPc>> \in windowTouched')
        BY <1>5, <4>1
      <4>3. PICK d \in windowPlan.close : d.id = t.id /\ (d.force \/ d.url = t.url \/ <<t.id, "close">> \in windowTouched)
        BY <2>1, <3>1, <4>2 DEF Verified, Becomes
      <4>4. u.id = t.id /\ (u.url = t.url \/ <<u.id, "close">> \in windowTouched')
        BY <3>1, <4>2 DEF Becomes, Warmed
      <4> QED BY <1>1, <4>3, <4>4
    <3>2. ASSUME windowPc \in {"close", "group", "done"}, ~windowBroken, NEW u \in Here', ListedTab(u)
          PROVE  \/ u.id \in Clicked' \cup TheShown
                 \/ windowPc = "close" /\ u.id \in windowSeen
      <4>1. CASE \E t \in Here : Becomes(t, u)
        <5>1. PICK t \in Here : Becomes(t, u)
          BY <4>1
        <5>2. Warmed(t, u) => u.id \in TheShown
          BY <2>1, <5>1 DEF Warmed, Becomes, TheShown, ShowsTarget, Going
        <5>3. ~Warmed(t, u) => ListedTab(t)
          BY <3>2, <5>1 DEF Becomes, ListedTab
        <5>4. ListedTab(t) => t.id \in Clicked \cup TheShown \/ (windowPc = "close" /\ t.id \in windowSeen)
          BY <2>1, <3>2 DEF Verified
        <5> QED BY <1>2, <5>1, <5>2, <5>3, <5>4 DEF Becomes
      <4> QED BY <1>3, <1>5, <4>1
    <3>3. windowPc = "close" => windowSeen \subseteq ToClose /\ windowSeen \subseteq IdsOf(windowWindow') \cup Clicked'
      BY <1>2, <1>6, <2>1 DEF Verified
    <3>4. ASSUME windowPc = "unmake", NEW u \in Here', u.id \in windowSeen
          PROVE  \E a \in windowMade : a.id = u.id /\ (u.url \in a.urls \/ <<u.id, "unmake">> \in windowTouched')
      <4>1. u.id \in Taken
        BY <2>1, <3>4 DEF Verified, Taken
      <4>2. PICK t \in Here : Becomes(t, u) \/ (u.id = t.id /\ <<u.id, windowPc>> \in windowTouched')
        BY <1>5, <4>1
      <4>3. PICK a \in windowMade : a.id = t.id /\ (t.url \in a.urls \/ <<t.id, "unmake">> \in windowTouched)
        BY <2>1, <3>4, <4>2 DEF Verified, Becomes
      <4>4. u.id = t.id /\ (u.url = t.url \/ <<u.id, "unmake">> \in windowTouched')
        BY <3>4, <4>2 DEF Becomes, Warmed
      <4> QED BY <1>1, <4>3, <4>4
    <3>5. windowPc = "unmake" => windowSeen \subseteq {a.id : a \in windowMade}
      BY <2>1 DEF Verified
    <3> QED BY <1>1, <3>1, <3>2, <3>3, <3>4, <3>5 DEF Verified
  <2>9. InOrder'
    <3>1. \A a, b : a \notin Clicked' /\ b \notin Clicked' /\ Ahead(windowWindow, a, b) => Ahead(windowWindow', a, b)
      BY DEF Drift
    <3> QED BY <1>1, <1>2, <2>1, <3>1 DEF InOrder
  <2> QED BY <1>1, <1>8, <2>2, <2>3, <2>4, <2>5, <2>6, <2>7, <2>8, <2>9 DEF WindowInv
<1> QED BY <1>7, <1>8

LEMMA AlteredOne ==
    ASSUME NEW w, AWindow(w), NEW k \in DOMAIN w, NEW x \in WindowTab, x.id = w[k].id, NEW v, v = Put(w, k, x)
    PROVE  /\ AWindow(v) /\ IdsOf(v) = IdsOf(w) /\ DOMAIN v = DOMAIN w
           /\ \A a, b : Ahead(w, a, b) => Ahead(v, a, b)
           /\ x \in TabsOf(v) /\ TabsOf(v) \subseteq TabsOf(w) \cup {x} /\ TabsOf(w) \subseteq TabsOf(v) \cup {w[k]}
<1>1. w \in Seq(WindowTab)
  BY DEF AWindow
<1>2. v \in Seq(WindowTab) /\ DOMAIN v = DOMAIN w /\ \A i \in DOMAIN w : v[i] = IF i = k THEN x ELSE w[i]
  BY <1>1 DEF Put
<1>3. \A i \in DOMAIN w : v[i].id = w[i].id
  BY <1>2
<1>4. AWindow(v) /\ IdsOf(v) = IdsOf(w) /\ \A a, b : Ahead(w, a, b) => Ahead(v, a, b)
  BY <1>2, <1>3, Altered
<1> QED BY <1>2, <1>4 DEF TabsOf

LEMMA OneDrifts ==
    ASSUME WindowInv, NEW k \in DOMAIN windowWindow, NEW x \in WindowTab, windowWindow' = [windowWindow EXCEPT ![k] = x],
           x.id = windowWindow[k].id, x.group = windowWindow[k].group, x.url = "blank" => windowWindow[k].url = "blank",
           windowPc' = windowPc, windowPlan' = windowPlan, windowMade' = windowMade, windowSeen' = windowSeen,
           windowBroken' = windowBroken,
           \/ windowTouched' = windowTouched /\ Becomes(windowWindow[k], x)
           \/ windowTouched' = windowTouched \cup {<<x.id, windowPc>>},
           windowLeft' = [user |-> windowLeft'.user, faults |-> windowLeft'.faults], windowLeft'.user \in Nat
    PROVE  Drift /\ Browser!Ids(windowWindow') = Browser!Ids(windowWindow)
<1> DEFINE t == windowWindow[k]
<1>0. WindowShape /\ t \in Here
  BY DEF WindowInv, Here, TabsOf
<1>1. /\ AWindow(windowWindow') /\ IdsOf(windowWindow') = IdsOf(windowWindow)
      /\ \A a, b : Ahead(windowWindow, a, b) => Ahead(windowWindow', a, b)
      /\ x \in Here' /\ Here' \subseteq Here \cup {x} /\ Here \subseteq Here' \cup {t}
  <2>1. AWindow(windowWindow)
    BY <1>0 DEF WindowShape
  <2>0. PICK v : v = Put(windowWindow, k, x)
    OBVIOUS
  <2>2. /\ AWindow(v) /\ IdsOf(v) = IdsOf(windowWindow)
        /\ \A a, b : Ahead(windowWindow, a, b) => Ahead(v, a, b)
        /\ x \in TabsOf(v) /\ TabsOf(v) \subseteq TabsOf(windowWindow) \cup {x}
        /\ TabsOf(windowWindow) \subseteq TabsOf(v) \cup {windowWindow[k]}
    <3>1. x \in WindowTab /\ x.id = windowWindow[k].id /\ k \in DOMAIN windowWindow
      OBVIOUS
    <3> QED BY <2>0, <2>1, <3>1, AlteredOne
  <2>3. v = windowWindow'
    BY <2>0 DEF Put
  <2>4. /\ AWindow(windowWindow') /\ IdsOf(windowWindow') = IdsOf(windowWindow)
        /\ \A a, b : Ahead(windowWindow, a, b) => Ahead(windowWindow', a, b)
        /\ x \in TabsOf(windowWindow') /\ TabsOf(windowWindow') \subseteq TabsOf(windowWindow) \cup {x}
        /\ TabsOf(windowWindow) \subseteq TabsOf(windowWindow') \cup {windowWindow[k]}
    BY <2>2, <2>3
  <2> QED BY <2>4 DEF Here
<1>2. x.id \in IdsOf(windowWindow)
  BY DEF IdsOf
<1>3. Clicked' \subseteq Clicked \cup {x.id} /\ windowTouched \subseteq windowTouched'
  BY DEF Clicked, Browser!Touched
<1>4. Taken' \subseteq Taken
  BY <1>1, <1>2, <1>3 DEF Taken
<1>5. WindowShape'
  <2>1. Taken' \subseteq Nat /\ \E b \in Nat : \A id \in Taken' : id <= b
    BY <1>0, <1>4 DEF WindowShape
  <2>2. \A u \in Here' : u.id > LastTabId => u.url # "blank"
    BY <1>0, <1>1 DEF WindowShape
  <2>3. \A a \in windowMade' : a.id > LastTabId
    BY <1>0 DEF WindowShape
  <2> QED BY <1>1, <2>1, <2>2, <2>3 DEF WindowShape
<1>6. \A u \in Here : Becomes(u, u)
  BY DEF Becomes
<1>7. <<x.id, windowPc>> \in windowTouched' => x.id \in Clicked'
  BY DEF Clicked, Browser!Touched
<1>8. \A u \in Here : u.id \in Clicked' \/ \E n \in Here' : Becomes(u, n)
  <2> TAKE u \in Here
  <2>1. CASE u \in Here'
    BY <1>6, <2>1
  <2>2. CASE u = t
    BY <1>1, <1>7, <2>2
  <2> QED BY <1>1, <2>1, <2>2
<1>9. \A n \in Here' : \/ \E u \in Here : Becomes(u, n)
                       \/ \E u \in Here : n.id = u.id /\ n.group = u.group /\ <<n.id, windowPc>> \in windowTouched'
  <2> TAKE n \in Here'
  <2>1. CASE n \in Here
    BY <1>6, <2>1
  <2>2. CASE n = x
    BY <1>0, <2>2
  <2> QED BY <1>1, <2>1, <2>2
<1>10. Drift
  BY <1>1, <1>3, <1>5, <1>8, <1>9 DEF Drift
<1> QED BY <1>1, <1>10, WindowSets

(* What the property asks of a step.                                        *)
PagesStayNow ==
  windowLeft'.user = windowLeft.user =>
    \A t \in Browser!ToSet(windowWindow) : t.id \notin Browser!Ids(windowWindow') =>
      \/ \E d \in windowPlan.close :
            d.id = t.id /\ (d.force \/ d.url = t.url \/ <<t.id, "close">> \in windowTouched)
      \/ \E a \in windowMade :
            a.id = t.id /\ (t.url \in a.urls \/ <<t.id, "unmake">> \in windowTouched)

LEMMA NoneGoes == Browser!Ids(windowWindow) \subseteq Browser!Ids(windowWindow') => PagesStayNow
  BY WindowSets DEF PagesStayNow, IdsOf, TabsOf

LEMMA UserSpends ==
    ASSUME WindowShape, Browser!User
    PROVE  /\ windowLeft' = [user |-> windowLeft'.user, faults |-> windowLeft'.faults] /\ windowLeft'.user \in Nat
           /\ PagesStayNow
<1>1. windowLeft' = [windowLeft EXCEPT !.user = @ - 1] /\ windowLeft.user > 0
  BY DEF Browser!User
<1>2. windowLeft = [user |-> windowLeft.user, faults |-> windowLeft.faults] /\ windowLeft.user \in Nat
  BY DEF WindowShape
<1>3. windowLeft' = [user |-> windowLeft.user - 1, faults |-> windowLeft.faults]
  BY <1>1, <1>2
<1>4. windowLeft'.user = windowLeft.user - 1 /\ windowLeft.user - 1 # windowLeft.user /\ windowLeft.user - 1 \in Nat
  BY <1>1, <1>2, <1>3
<1> QED BY <1>3, <1>4 DEF PagesStayNow

LEMMA UserNavigatesKeeps == WindowInv /\ Browser!UserNavigates => WindowInv' /\ PagesStayNow
<1> SUFFICES ASSUME WindowInv, Browser!UserNavigates PROVE WindowInv' /\ PagesStayNow
  OBVIOUS
<1>0. /\ windowPc # "failed" /\ windowPc' = windowPc /\ windowPlan' = windowPlan /\ windowMade' = windowMade
      /\ windowSeen' = windowSeen /\ windowBroken' = windowBroken /\ WindowShape /\ Browser!User
  BY DEF Browser!UserNavigates, Browser!Browsing, WindowInv
<1>1. PICK k \in DOMAIN windowWindow, p \in Pages :
        /\ windowWindow' = [windowWindow EXCEPT ![k].url = p, ![k].busy = TRUE]
        /\ windowTouched' = windowTouched \cup {<<windowWindow[k].id, windowPc>>}
  BY DEF Browser!UserNavigates
<1> DEFINE x == [windowWindow[k] EXCEPT !.url = p, !.busy = TRUE]
<1>2. windowWindow[k] \in WindowTab
  BY <1>0, TabTypes DEF WindowShape, TabsOf
<1>3. x \in WindowTab /\ x.id = windowWindow[k].id /\ x.group = windowWindow[k].group /\ x.url = p
  BY <1>2 DEF WindowTab, AnyUrl
<1>4. windowWindow' = [windowWindow EXCEPT ![k] = x]
  BY <1>1
<1>5. p # "blank"
  BY WindowsKnown
<1> HIDE DEF x
<1>6. Drift
  BY <1>0, <1>1, <1>3, <1>4, <1>5, UserSpends, OneDrifts
<1> QED BY <1>0, <1>6, DriftKeeps, UserSpends

LEMMA LoadsKeeps == WindowInv /\ Browser!Loads => WindowInv' /\ PagesStayNow
<1> SUFFICES ASSUME WindowInv, Browser!Loads PROVE WindowInv' /\ PagesStayNow
  OBVIOUS
<1>0. /\ windowPc # "failed" /\ windowPc' = windowPc /\ windowPlan' = windowPlan /\ windowMade' = windowMade
      /\ windowSeen' = windowSeen /\ windowBroken' = windowBroken /\ WindowShape
      /\ windowTouched' = windowTouched /\ windowLeft' = windowLeft
  BY DEF Browser!Loads, Browser!Browsing, WindowInv
<1>1. PICK k \in DOMAIN windowWindow : windowWindow' = [windowWindow EXCEPT ![k].busy = FALSE]
  BY DEF Browser!Loads
<1> DEFINE x == [windowWindow[k] EXCEPT !.busy = FALSE]
<1>2. windowWindow[k] \in WindowTab
  BY <1>0, TabTypes DEF WindowShape, TabsOf
<1>3. x \in WindowTab /\ x.id = windowWindow[k].id /\ x.group = windowWindow[k].group /\ x.url = windowWindow[k].url
      /\ x.pinned = windowWindow[k].pinned
  BY <1>2 DEF WindowTab, AnyUrl
<1>4. windowWindow' = [windowWindow EXCEPT ![k] = x]
  BY <1>1
<1> HIDE DEF x
<1>5. Becomes(windowWindow[k], x)
  BY <1>3 DEF Becomes
<1>6. Drift /\ Browser!Ids(windowWindow') = Browser!Ids(windowWindow)
  BY <1>0, <1>3, <1>4, <1>5, OneDrifts DEF WindowShape
<1> QED BY <1>0, <1>6, DriftKeeps, NoneGoes

LEMMA WarmUpKeeps == WindowInv /\ Browser!WarmUp => WindowInv' /\ PagesStayNow
<1> SUFFICES ASSUME WindowInv, Browser!WarmUp PROVE WindowInv' /\ PagesStayNow
  OBVIOUS
<1>0. /\ windowPc = "done" /\ windowPc' = windowPc /\ windowPlan' = windowPlan /\ windowMade' = windowMade
      /\ windowSeen' = windowSeen /\ windowBroken' = windowBroken /\ WindowShape
      /\ windowTouched' = windowTouched /\ windowLeft' = windowLeft
  BY DEF Browser!WarmUp, Browser!Browsing, WindowInv
<1>1. PICK i \in DOMAIN windowPlan.shows, k \in DOMAIN windowWindow :
        /\ windowWindow[k].id = windowPlan.shows[i] /\ windowWindow[k].url = "placeholder"
        /\ windowWindow' = [windowWindow EXCEPT ![k].url = windowPlan.target[i].url]
  BY DEF Browser!WarmUp
<1> DEFINE p == windowPlan.target[i].url
           x == [windowWindow[k] EXCEPT !.url = p]
<1>2. windowWindow[k] \in WindowTab
  BY <1>0, TabTypes DEF WindowShape, TabsOf
<1>3. p \in Pages
  <2>1. PlanShape
    BY <1>0 DEF WindowInv
  <2>2. windowPlan.target \in Seq(Target) /\ i \in DOMAIN windowPlan.target
    BY <1>1, <2>1 DEF PlanShape
  <2>3. windowPlan.target[i] \in Target
    BY <2>2, ElementOfSeq
  <2> QED BY <2>3 DEF Target
<1> HIDE DEF p
<1>4. x \in WindowTab /\ x.id = windowWindow[k].id /\ x.group = windowWindow[k].group /\ x.url = p
      /\ x.pinned = windowWindow[k].pinned
  BY <1>2, <1>3 DEF WindowTab, AnyUrl
<1>5. windowWindow' = [windowWindow EXCEPT ![k] = x]
  BY <1>1 DEF p
<1> HIDE DEF x
<1>6. Becomes(windowWindow[k], x)
  BY <1>0, <1>1, <1>4 DEF Becomes, Warmed, p
<1>7. x.url # "blank"
  BY <1>3, <1>4, WindowsKnown
<1>8. Drift /\ Browser!Ids(windowWindow') = Browser!Ids(windowWindow)
  BY <1>0, <1>4, <1>5, <1>6, <1>7, OneDrifts DEF WindowShape
<1> QED BY <1>0, <1>8, DriftKeeps, NoneGoes

LEMMA Without ==
    ASSUME AWindow(windowWindow), NEW S, windowWindow' = Browser!Without(S)
    PROVE  /\ AWindow(windowWindow') /\ Here' = {u \in Here : u.id \notin S}
           /\ \A a, b : a \notin S /\ b \notin S /\ Ahead(windowWindow, a, b) => Ahead(windowWindow', a, b)
<1>0. PICK v : v = Rest(windowWindow, S)
  OBVIOUS
<1>1. windowWindow' = v
  BY <1>0, SameLists DEF Rest, Browser!Without, Browser!Where
<1>2. /\ AWindow(v) /\ TabsOf(v) = {u \in TabsOf(windowWindow) : u.id \notin S}
      /\ \A a, b : a \notin S /\ b \notin S /\ Ahead(windowWindow, a, b) => Ahead(v, a, b)
  BY <1>0, Removed
<1> QED BY <1>1, <1>2 DEF Here

LEMMA ClickedGrows ==
    ASSUME NEW id, NEW now, windowTouched' = windowTouched \cup {<<id, now>>}
    PROVE  Clicked' = Clicked \cup {id} /\ windowTouched \subseteq windowTouched'
<1>1. \A x : (\E u \in windowTouched' : x = u[1]) <=> (x = id \/ \E u \in windowTouched : x = u[1])
  <2>1. <<id, now>>[1] = id
    OBVIOUS
  <2> QED BY <2>1
<1> QED BY <1>1 DEF Clicked, Browser!Touched

LEMMA UserClosesKeeps == WindowInv /\ Browser!UserCloses => WindowInv' /\ PagesStayNow
<1> SUFFICES ASSUME WindowInv, Browser!UserCloses PROVE WindowInv' /\ PagesStayNow
  OBVIOUS
<1>0. /\ windowPc # "failed" /\ windowPc' = windowPc /\ windowPlan' = windowPlan /\ windowMade' = windowMade
      /\ windowSeen' = windowSeen /\ windowBroken' = windowBroken /\ WindowShape /\ Browser!User
  BY DEF Browser!UserCloses, Browser!Browsing, WindowInv
<1>1. PICK t \in Here : windowWindow' = Browser!Without({t.id}) /\ windowTouched' = windowTouched \cup {<<t.id, windowPc>>}
  BY WindowSets DEF Browser!UserCloses, Here
<1>2. /\ AWindow(windowWindow') /\ Here' = {u \in Here : u.id \notin {t.id}}
      /\ \A a, b : a \notin {t.id} /\ b \notin {t.id} /\ Ahead(windowWindow, a, b) => Ahead(windowWindow', a, b)
  BY <1>0, <1>1, Without DEF WindowShape
<1>3. t.id \in Clicked' /\ Clicked' = Clicked \cup {t.id} /\ windowTouched \subseteq windowTouched'
  BY <1>1, ClickedGrows
<1>4. IdsOf(windowWindow) = {u.id : u \in Here} /\ IdsOf(windowWindow') = {u.id : u \in Here'}
  BY WindowSets DEF Here
<1>5. Taken' \subseteq Taken
  BY <1>0, <1>2, <1>3, <1>4 DEF Taken
<1>6. WindowShape'
  <2>1. Taken' \subseteq Nat /\ \E b \in Nat : \A id \in Taken' : id <= b
    BY <1>0, <1>5 DEF WindowShape
  <2>2. \A u \in Here' : u.id > LastTabId => u.url # "blank"
    BY <1>0, <1>2 DEF WindowShape
  <2>3. \A a \in windowMade' : a.id > LastTabId
    BY <1>0 DEF WindowShape
  <2> QED BY <1>0, <1>2, <2>1, <2>2, <2>3, UserSpends DEF WindowShape
<1>7. \A u \in Here : Becomes(u, u)
  BY DEF Becomes
<1>8. \A u \in Here : u.id \in Clicked' \/ \E n \in Here' : Becomes(u, n)
  BY <1>2, <1>3, <1>7
<1>9. \A n \in Here' : \E u \in Here : Becomes(u, n)
  BY <1>2, <1>7
<1>10. Drift
  BY <1>0, <1>2, <1>3, <1>6, <1>8, <1>9 DEF Drift
<1> QED BY <1>0, <1>10, DriftKeeps, UserSpends

LEMMA UserOpensKeeps == WindowInv /\ Browser!UserOpens => WindowInv' /\ PagesStayNow
<1> SUFFICES ASSUME WindowInv, Browser!UserOpens PROVE WindowInv' /\ PagesStayNow
  OBVIOUS
<1>0. /\ windowPc # "failed" /\ windowPc' = windowPc /\ windowPlan' = windowPlan /\ windowMade' = windowMade
      /\ windowSeen' = windowSeen /\ windowBroken' = windowBroken /\ WindowShape /\ Browser!User
  BY DEF Browser!UserOpens, Browser!Browsing, WindowInv
<1> DEFINE new == Browser!Fresh
<1>1. PICK p \in Pages : /\ windowWindow' = Append(windowWindow, Browser!Tab(new, p, TRUE, FALSE, 0))
                         /\ windowTouched' = windowTouched \cup {<<new, windowPc>>}
  BY DEF Browser!UserOpens
<1> DEFINE x == Browser!Tab(new, p, TRUE, FALSE, 0)
<1>2. new \in Nat /\ new > LastTabId /\ \A id \in Taken : id < new
  BY <1>0, FreshIs
<1> HIDE DEF new
<1>3. x \in WindowTab /\ x.id = new /\ x.url = p /\ x.group = 0
  BY <1>2, IdsAreNumbers DEF WindowTab, AnyUrl, Browser!Tab
<1> HIDE DEF x
<1>4. new \notin Taken
  BY <1>0, <1>2 DEF WindowShape
<1>5. /\ AWindow(windowWindow') /\ Here' = Here \cup {x}
      /\ \A a, b : Ahead(windowWindow, a, b) => Ahead(windowWindow', a, b)
  <2>1. AWindow(windowWindow) /\ windowWindow \in Seq(WindowTab)
    BY <1>0 DEF WindowShape, AWindow
  <2>2. windowWindow' = windowWindow \o <<x>>
    BY <1>1, <1>3, <2>1, OneTab DEF x
  <2> DEFINE one == <<x>>
  <2>3. AWindow(one) /\ TabsOf(one) = {x} /\ IdsOf(one) = {x.id} /\ windowWindow' = windowWindow \o one
    BY <1>3, <2>2, OneTab
  <2> HIDE DEF one
  <2>4. IdsOf(windowWindow) \cap IdsOf(one) = {}
    BY <1>3, <1>4, <2>3 DEF Taken
  <2>5. /\ AWindow(windowWindow \o one) /\ TabsOf(windowWindow \o one) = TabsOf(windowWindow) \cup {x}
        /\ \A a, b : Ahead(windowWindow, a, b) => Ahead(windowWindow \o one, a, b)
    BY <2>1, <2>3, <2>4, Joined
  <2> QED BY <2>3, <2>5 DEF Here
<1>6. Clicked' = Clicked \cup {new} /\ windowTouched \subseteq windowTouched'
  BY <1>1, ClickedGrows
<1>7. IdsOf(windowWindow) = {u.id : u \in Here} /\ IdsOf(windowWindow') = {u.id : u \in Here'}
  BY WindowSets DEF Here
<1>8. Taken' = Taken \cup {new}
  BY <1>0, <1>3, <1>5, <1>6, <1>7 DEF Taken
<1>9. WindowShape'
  <2>1. Taken' \subseteq Nat /\ \A id \in Taken' : id <= new
    BY <1>0, <1>2, <1>8 DEF WindowShape
  <2>2. \A u \in Here' : u.id > LastTabId => u.url # "blank"
    BY <1>0, <1>3, <1>5, WindowsKnown DEF WindowShape
  <2>3. \A a \in windowMade' : a.id > LastTabId
    BY <1>0 DEF WindowShape
  <2> QED BY <1>0, <1>2, <1>5, <2>1, <2>2, <2>3, UserSpends DEF WindowShape
<1>10. \A u \in Here : Becomes(u, u)
  BY DEF Becomes
<1>11. Drift
  <2>1. \A u \in Here : \E n \in Here' : Becomes(u, n)
    BY <1>5, <1>10
  <2>2. \A n \in Here' : \/ n.id \notin Taken /\ n.group = 0 /\ n.id \in Clicked'
                         \/ \E u \in Here : Becomes(u, n)
    BY <1>3, <1>4, <1>5, <1>6, <1>10
  <2> QED BY <1>0, <1>5, <1>6, <1>9, <2>1, <2>2 DEF Drift
<1> QED BY <1>0, <1>11, DriftKeeps, UserSpends

LEMMA WindowStarts == Browser!Init => WindowInv
<1> SUFFICES ASSUME Browser!Init PROVE WindowInv
  OBVIOUS
<1>0. /\ windowWindow \in WindowsMet /\ windowPc = "idle" /\ windowPlan = None /\ windowMade = {}
      /\ windowTouched = {} /\ windowLeft = [user |-> MaxClicks, faults |-> MaxTabFaults]
  BY DEF Browser!Init
<1>1. /\ windowWindow \in Seq([id : 1 .. LastTabId, url : AnyUrl, busy : BOOLEAN, pinned : BOOLEAN, group : Nat])
      /\ Apart(windowWindow)
  BY <1>0, WindowsKnown DEF AnyUrl, Apart
<1> DEFINE FirstTabs == [id : 1 .. LastTabId, url : AnyUrl, busy : BOOLEAN, pinned : BOOLEAN, group : Nat]
<1>a. FirstTabs \subseteq WindowTab /\ \A t \in FirstTabs : t.id \in 1 .. LastTabId
  BY DEF WindowTab
<1>b. windowWindow \in Seq(FirstTabs)
  BY <1>1
<1> HIDE DEF FirstTabs
<1>2. \A i \in DOMAIN windowWindow : windowWindow[i] \in FirstTabs
  BY <1>b, ElementOfSeq
<1>3. windowWindow \in Seq(WindowTab)
  BY <1>a, <1>b
<1>4. \A id \in IdsOf(windowWindow) : id \in 1 .. LastTabId
  BY <1>2, <1>a DEF IdsOf
<1>5. Clicked = {} /\ Taken = IdsOf(windowWindow)
  BY <1>0 DEF Clicked, Browser!Touched, Taken
<1>6. \A t \in Here : ~(t.id > LastTabId)
  <2>1. \A t \in Here : t.id \in 1 .. LastTabId
    BY <1>2, <1>a DEF Here, TabsOf
  <2> QED BY <2>1, IdsAreNumbers
<1>7. Taken \subseteq Nat /\ \A id \in Taken : id <= LastTabId
  BY <1>4, <1>5
<1>8. WindowShape
  BY <1>0, <1>1, <1>3, <1>6, <1>7, WindowsKnown DEF WindowShape, AWindow
<1> QED BY <1>0, <1>8 DEF WindowInv

(* What is chosen of a window is one, in its order.                         *)
LEMMA Picked ==
    ASSUME NEW w, AWindow(w), NEW S, NEW v, v = At(w, S)
    PROVE  /\ AWindow(v)
           /\ TabsOf(v) = {w[i] : i \in S \cap DOMAIN w}
           /\ \A n, m \in DOMAIN v : n < m => Ahead(w, v[n].id, v[m].id)
<1>1. w \in Seq(WindowTab) /\ DOMAIN w \subseteq Nat
  BY DEF AWindow
<1>2. v \in Seq(WindowTab) /\ \E pos : Places(w, S, pos)
  BY <1>1, ChosenInOrder
<1>3. PICK pos : Places(w, S, pos)
  BY <1>2
<1>4. /\ \A n \in DOMAIN v : pos[n] \in S \cap DOMAIN w /\ v[n] = w[pos[n]]
      /\ \A n, m \in DOMAIN v : n < m => pos[n] < pos[m]
      /\ \A i \in S \cap DOMAIN w : \E n \in DOMAIN v : pos[n] = i
  BY <1>3 DEF Places
<1>5. \A n \in DOMAIN v : n \in Nat /\ pos[n] \in Nat
  BY <1>1, <1>2, <1>4
<1>6. \A n, m \in DOMAIN v : pos[n] = pos[m] => n = m
  <2> TAKE n \in DOMAIN v, m \in DOMAIN v
  <2>1. n < m => pos[n] < pos[m]
    BY <1>4
  <2>2. m < n => pos[m] < pos[n]
    BY <1>4
  <2> QED BY <1>5, <2>1, <2>2
<1>7. AWindow(v)
  BY <1>2, <1>4, <1>6 DEF AWindow, Apart
<1>8. TabsOf(v) = {w[i] : i \in S \cap DOMAIN w}
  <2>1. \A n \in DOMAIN v : \E i \in S \cap DOMAIN w : v[n] = w[i]
    BY <1>4
  <2>2. \A i \in S \cap DOMAIN w : \E n \in DOMAIN v : v[n] = w[i]
    BY <1>4
  <2> QED BY <2>1, <2>2 DEF TabsOf
<1>9. \A n, m \in DOMAIN v : n < m => Ahead(w, v[n].id, v[m].id)
  BY <1>4 DEF Ahead
<1> QED BY <1>7, <1>8, <1>9

-----------------------------------------------------------------------------
(* The tabs a target may be shown in, and how many targets with its URL     *)
(* there are up to it.                                                      *)
Fitting(w, url) == At(w, {i \in DOMAIN w : Browser!Candidate(w[i]) /\ ~w[i].busy /\ w[i].url = url})
Rank(target, i) == Cardinality({j \in 1 .. i : target[j].url = target[i].url})

LEMMA ShowsIs ==
    \A w, target : Browser!Shows(w, target) =
      [i \in DOMAIN target |-> IF Rank(target, i) <= Len(Fitting(w, target[i].url))
                               THEN Fitting(w, target[i].url)[Rank(target, i)].id ELSE 0]
  BY SameLists DEF Browser!Shows, Browser!Where, Fitting, Rank, Browser!Cardinality, Cardinality

LEMMA RankGrows ==
    ASSUME NEW target, NEW i \in Nat, NEW j \in Nat, 1 <= i, i <= j, target[i].url = target[j].url
    PROVE  /\ Rank(target, i) \in Nat /\ Rank(target, j) \in Nat /\ 1 <= Rank(target, i)
           /\ i # j => Rank(target, i) < Rank(target, j)
<1> DEFINE lower == {k \in 1 .. i : target[k].url = target[i].url}
           upper == {k \in 1 .. j : target[k].url = target[j].url}
<1>1. IsFiniteSet(1 .. j)
  BY FS_Interval
<1>2. upper \in SUBSET (1 .. j) /\ lower \in SUBSET upper /\ i \in lower
  BY 1 <= i, i <= j
<1>3. i # j => j \in upper /\ j \notin lower
  BY 1 <= i, i <= j
<1>4. Rank(target, i) = Cardinality(lower) /\ Rank(target, j) = Cardinality(upper)
  BY DEF Rank
<1> HIDE DEF lower, upper
<1>5. IsFiniteSet(upper)
  BY <1>1, <1>2, FS_Subset
<1>6. IsFiniteSet(lower) /\ Cardinality(lower) <= Cardinality(upper)
      /\ (Cardinality(lower) = Cardinality(upper) => lower = upper)
  BY <1>2, <1>5, FS_Subset
<1>7. Cardinality(lower) \in Nat /\ Cardinality(upper) \in Nat
  BY <1>5, <1>6, FS_CardinalityType
<1>8. Cardinality(lower) # 0
  BY <1>2, <1>6, FS_EmptySet
<1> QED BY <1>2, <1>3, <1>4, <1>6, <1>7, <1>8

LEMMA FittingAre ==
    ASSUME NEW w, AWindow(w), NEW url
    PROVE  /\ AWindow(Fitting(w, url))
           /\ \A n \in DOMAIN Fitting(w, url) :
                \E t \in TabsOf(w) : t = Fitting(w, url)[n] /\ Browser!Candidate(t) /\ ~t.busy /\ t.url = url
           /\ \A n, m \in DOMAIN Fitting(w, url) : n < m => Ahead(w, Fitting(w, url)[n].id, Fitting(w, url)[m].id)
<1> DEFINE S == {i \in DOMAIN w : Browser!Candidate(w[i]) /\ ~w[i].busy /\ w[i].url = url}
<1>1. PICK v : v = Fitting(w, url)
  OBVIOUS
<1>2. v = At(w, S)
  BY <1>1 DEF Fitting
<1>3. \A i \in S \cap DOMAIN w : Browser!Candidate(w[i]) /\ ~w[i].busy /\ w[i].url = url
  OBVIOUS
<1> HIDE DEF S
<1>4. /\ AWindow(v) /\ TabsOf(v) = {w[i] : i \in S \cap DOMAIN w}
      /\ \A n, m \in DOMAIN v : n < m => Ahead(w, v[n].id, v[m].id)
  BY <1>2, Picked
<1>5. \A n \in DOMAIN v : v[n] \in TabsOf(v)
  BY DEF TabsOf
<1>6. \A n \in DOMAIN v : \E i \in S \cap DOMAIN w : v[n] = w[i]
  BY <1>4, <1>5
<1>7. \A n \in DOMAIN v : \E t \in TabsOf(w) : t = v[n] /\ Browser!Candidate(t) /\ ~t.busy /\ t.url = url
  BY <1>3, <1>6 DEF TabsOf
<1> QED BY <1>1, <1>4, <1>7

LEMMA ShowsFit ==
    ASSUME NEW w, AWindow(w), NEW target \in Seq(Target), NEW shows, shows = Browser!Shows(w, target)
    PROVE  /\ shows \in Seq(Nat) /\ DOMAIN shows = DOMAIN target
           /\ \A i \in DOMAIN shows : shows[i] # 0 =>
                \E t \in TabsOf(w) : t.id = shows[i] /\ ~t.pinned /\ t.url = target[i].url
           /\ \A i, j \in DOMAIN shows : i # j => shows[i] = 0 \/ shows[i] # shows[j]
           /\ \A i, j \in DOMAIN shows : i < j /\ target[i].url = target[j].url /\ shows[j] # 0 =>
                shows[i] # 0 /\ Ahead(w, shows[i], shows[j])
<1> DEFINE fits(i) == Fitting(w, target[i].url)
           rank(i) == Rank(target, i)
<1>0. DOMAIN target = 1 .. Len(target) /\ Len(target) \in Nat
  OBVIOUS
<1>1. DOMAIN shows = DOMAIN target
      /\ \A i \in DOMAIN target : shows[i] = IF rank(i) <= Len(fits(i)) THEN fits(i)[rank(i)].id ELSE 0
  BY ShowsIs
<1>2. \A i \in DOMAIN target : /\ AWindow(fits(i)) /\ fits(i) \in Seq(WindowTab)
                               /\ DOMAIN fits(i) = 1 .. Len(fits(i)) /\ Len(fits(i)) \in Nat
                               /\ \A n \in DOMAIN fits(i) : fits(i)[n].id \in Nat \ {0}
  <2> TAKE i \in DOMAIN target
  <2>1. AWindow(fits(i))
    BY FittingAre
  <2>2. fits(i) \in Seq(WindowTab)
    BY <2>1 DEF AWindow
  <2>3. DOMAIN fits(i) = 1 .. Len(fits(i)) /\ Len(fits(i)) \in Nat
    BY <2>2
  <2>4. \A n \in DOMAIN fits(i) : fits(i)[n] \in WindowTab
    BY <2>2, ElementOfSeq
  <2> QED BY <2>1, <2>2, <2>3, <2>4 DEF WindowTab
<1>3. \A i \in DOMAIN target : rank(i) \in Nat /\ 1 <= rank(i)
  BY <1>0, RankGrows
<1>4. \A i, j \in DOMAIN target : i < j /\ target[i].url = target[j].url => rank(i) < rank(j)
  BY <1>0, RankGrows
<1> HIDE DEF fits, rank
<1>5. \A i \in DOMAIN target : shows[i] # 0 => rank(i) \in DOMAIN fits(i) /\ shows[i] = fits(i)[rank(i)].id
  BY <1>1, <1>2, <1>3
<1>6. \A i \in DOMAIN target : shows[i] \in Nat
  BY <1>1, <1>2, <1>3, <1>5
<1>7. shows \in Seq(Nat)
  <2>1. shows = [i \in 1 .. Len(target) |-> shows[i]]
    <3>1. shows = Browser!Shows(w, target)
      OBVIOUS
    <3> QED BY <1>0, <3>1, ShowsIs
  <2>2. \A i \in 1 .. Len(target) : shows[i] \in Nat
    BY <1>0, <1>6
  <2> QED BY <1>0, <2>1, <2>2, IsASeq
<1>8. \A i \in DOMAIN shows : shows[i] # 0 =>
        \E t \in TabsOf(w) : t = fits(i)[rank(i)] /\ t.id = shows[i] /\ ~t.pinned /\ t.url = target[i].url
  <2> TAKE i \in DOMAIN shows
  <2> HAVE shows[i] # 0
  <2>1. PICK t \in TabsOf(w) : t = fits(i)[rank(i)] /\ Browser!Candidate(t) /\ t.url = target[i].url
    BY <1>1, <1>5, FittingAre DEF fits
  <2> QED BY <1>1, <1>5, <2>1 DEF Browser!Candidate
<1>9. ASSUME NEW i \in DOMAIN shows, NEW j \in DOMAIN shows, i < j, target[i].url = target[j].url, shows[j] # 0
      PROVE  shows[i] # 0 /\ Ahead(w, shows[i], shows[j])
  <2>1. rank(i) < rank(j) /\ rank(j) \in DOMAIN fits(j) /\ shows[j] = fits(j)[rank(j)].id
    BY <1>1, <1>4, <1>5, <1>9
  <2>2. fits(i) = fits(j)
    BY <1>9 DEF fits
  <2>3. rank(i) \in DOMAIN fits(i)
    BY <1>1, <1>2, <1>3, <2>1, <2>2
  <2>4. shows[i] = fits(i)[rank(i)].id /\ shows[i] # 0
    BY <1>1, <1>2, <2>3
  <2>5. \A n, m \in DOMAIN fits(i) : n < m => Ahead(w, fits(i)[n].id, fits(i)[m].id)
    BY FittingAre DEF fits
  <2> QED BY <2>1, <2>2, <2>3, <2>4, <2>5
<1>10. ASSUME NEW i \in DOMAIN shows, NEW j \in DOMAIN shows, i # j, shows[i] # 0, shows[i] = shows[j]
       PROVE  FALSE
  <2>1. target[i].url = target[j].url
    BY <1>8, <1>10, TabTypes
  <2>2. i \in Nat /\ j \in Nat
    BY <1>0, <1>1
  <2>3. Ahead(w, shows[i], shows[j]) \/ Ahead(w, shows[j], shows[i])
    BY <1>9, <1>10, <2>1, <2>2
  <2>4. Ahead(w, shows[i], shows[i])
    BY <1>10, <2>3
  <2>5. DOMAIN w \subseteq Nat
    BY DEF AWindow
  <2> QED BY <2>4, <2>5 DEF Ahead, AWindow, Apart
<1> QED BY <1>1, <1>7, <1>8, <1>9, <1>10

LEMMA PlanIs ==
    ASSUME NEW w, AWindow(w), NEW target, NEW lazy, NEW p, p = Browser!Plan(w, target, lazy)
    PROVE  /\ p.target = target /\ p.lazy = lazy /\ p.shows = Browser!Shows(w, target) /\ ~p.committed
           /\ AWindow(p.source)
           /\ \A s \in TabsOf(p.source) : s \in TabsOf(w) /\ Browser!Candidate(s) /\ s.url # "placeholder"
           /\ \A d \in p.close : \E t \in TabsOf(w) : /\ Browser!Candidate(t) /\ t.id \notin Browser!ToSet(p.shows)
                                                      /\ d = [id |-> t.id, url |-> t.url, force |-> t.busy \/ t.url = "blank"]
           /\ \A t \in TabsOf(w) : Browser!Candidate(t) /\ t.id \notin Browser!ToSet(p.shows) =>
                \E d \in p.close : d.id = t.id
           /\ \A t \in TabsOf(w) : t.group # 0 => t.id \in p.ungroup
           /\ \A id \in p.ungroup : \E t \in TabsOf(w) : id = t.id
           /\ p = [target |-> p.target, lazy |-> p.lazy, shows |-> p.shows, committed |-> p.committed,
                   source |-> p.source, close |-> p.close, ungroup |-> p.ungroup, home |-> p.home]
<1> DEFINE S == {i \in DOMAIN w : Browser!Candidate(w[i]) /\ w[i].url # "placeholder"}
           free == {t \in TabsOf(w) : Browser!Candidate(t) /\ t.id \notin Browser!ToSet(p.shows)}
<1>1. /\ p.target = target /\ p.lazy = lazy /\ p.shows = Browser!Shows(w, target) /\ p.committed = FALSE
      /\ p = [target |-> p.target, lazy |-> p.lazy, shows |-> p.shows, committed |-> p.committed,
              source |-> p.source, close |-> p.close, ungroup |-> p.ungroup, home |-> p.home]
  BY DEF Browser!Plan
<1>2. p.source = At(w, S)
  BY SameLists DEF Browser!Plan, Browser!Where
<1>3. p.close = {[id |-> t.id, url |-> t.url, force |-> t.busy \/ t.url = "blank"] : t \in free}
  BY WindowSets DEF Browser!Plan
<1>4. p.ungroup = {t.id : t \in {u \in TabsOf(w) : u.group # 0}}
  BY WindowSets DEF Browser!Plan
<1>5. \A i \in S \cap DOMAIN w : w[i] \in TabsOf(w) /\ Browser!Candidate(w[i]) /\ w[i].url # "placeholder"
  BY DEF TabsOf
<1> HIDE DEF S
<1>6. AWindow(p.source) /\ TabsOf(p.source) = {w[i] : i \in S \cap DOMAIN w}
  BY <1>2, Picked
<1>7. \A d \in p.close : \E t \in free : d = [id |-> t.id, url |-> t.url, force |-> t.busy \/ t.url = "blank"]
  BY <1>3
<1>8. \A t \in free : \E d \in p.close : d.id = t.id
  <2> TAKE t \in free
  <2> DEFINE d == [id |-> t.id, url |-> t.url, force |-> t.busy \/ t.url = "blank"]
  <2>1. d \in p.close /\ d.id = t.id
    BY <1>3
  <2> QED BY <2>1
<1> QED BY <1>1, <1>4, <1>5, <1>6, <1>7, <1>8

(* The first of some indexes.                                               *)
LEMMA First ==
    ASSUME NEW S, S \subseteq Nat, S # {}
    PROVE  Browser!Min(S) \in S /\ \A k \in S : Browser!Min(S) <= k
<1>1. \E m \in S : \A k \in S : m <= k
  BY Least
<1> QED BY <1>1 DEF Browser!Min

(* The home tab of a plan is the first of the window.                       *)
LEMMA HomeIs ==
    ASSUME NEW w, AWindow(w), NEW target, NEW lazy, NEW home, home = Browser!Plan(w, target, lazy).home
    PROVE  /\ home \in HomeThen /\ (home.pinned => home.id # 0)
           /\ home.id # 0 => \E t \in TabsOf(w) : t.id = home.id /\ t.url = "home" /\ t.pinned = home.pinned
<1> DEFINE I == {i \in 1 .. Len(w) : w[i].url = "home"}
           k == IF I # {} THEN Browser!Min(I) ELSE 0
<1>1. home = IF k = 0 THEN [id |-> 0, pinned |-> FALSE] ELSE [id |-> w[k].id, pinned |-> w[k].pinned]
  BY DEF Browser!Plan, Browser!SelectInSeq
<1>2. I \subseteq Nat /\ w \in Seq(WindowTab) /\ DOMAIN w = 1 .. Len(w)
  BY DEF AWindow
<1>3. CASE I = {}
  <2>1. home = [id |-> 0, pinned |-> FALSE]
    BY <1>1, <1>3
  <2> QED BY <2>1 DEF HomeThen
<1>4. CASE I # {}
  <2>1. PICK m : m = Browser!Min(I)
    OBVIOUS
  <2>2. m \in I
    <3> HIDE DEF I
    <3> QED BY <1>2, <1>4, <2>1, First
  <2>3. m \in DOMAIN w /\ w[m].url = "home" /\ m # 0 /\ k = m
    BY <1>2, <1>4, <2>1, <2>2
  <2>4. w[m] \in WindowTab /\ w[m] \in TabsOf(w)
    BY <1>2, <2>3, ElementOfSeq DEF TabsOf
  <2>5. home = [id |-> w[m].id, pinned |-> w[m].pinned]
    BY <1>1, <2>3
  <2> QED BY <2>3, <2>4, <2>5 DEF HomeThen, WindowTab
<1> QED BY <1>3, <1>4

LEMMA QueryKeeps == WindowInv /\ Browser!Query => WindowInv' /\ PagesStayNow
<1> SUFFICES ASSUME WindowInv, Browser!Query PROVE WindowInv' /\ PagesStayNow
  OBVIOUS
<1>0. /\ windowPc = "idle" /\ windowPc' = "create" /\ windowWindow' = windowWindow /\ windowMade' = windowMade
      /\ windowSeen' = windowSeen /\ windowTouched' = windowTouched /\ windowBroken' = windowBroken
      /\ windowLeft' = windowLeft /\ WindowShape /\ windowMade = {}
  BY DEF Browser!Query, Browser!Go, WindowInv
<1>1. PICK target \in TargetLists, lazy \in BOOLEAN : windowPlan' = Browser!Plan(windowWindow, target, lazy)
  BY DEF Browser!Query
<1>2. PICK p : p = windowPlan'
  OBVIOUS
<1>3. PICK shows : shows = Browser!Shows(windowWindow, target)
  OBVIOUS
<1>4. AWindow(windowWindow) /\ target \in Seq(Target)
  BY <1>0, WindowsKnown DEF WindowShape, Target
<1>5. /\ shows \in Seq(Nat) /\ DOMAIN shows = DOMAIN target
      /\ \A i \in DOMAIN shows : shows[i] # 0 =>
           \E t \in Here : t.id = shows[i] /\ ~t.pinned /\ t.url = target[i].url
      /\ \A i, j \in DOMAIN shows : i # j => shows[i] = 0 \/ shows[i] # shows[j]
      /\ \A i, j \in DOMAIN shows : i < j /\ target[i].url = target[j].url /\ shows[j] # 0 =>
           shows[i] # 0 /\ Ahead(windowWindow, shows[i], shows[j])
  BY <1>3, <1>4, ShowsFit DEF Here
<1>6. /\ p.target = target /\ p.lazy = lazy /\ p.shows = shows /\ ~p.committed
      /\ AWindow(p.source)
      /\ \A s \in TabsOf(p.source) : s \in Here /\ Browser!Candidate(s) /\ s.url # "placeholder"
      /\ \A d \in p.close : \E t \in Here : /\ Browser!Candidate(t) /\ t.id \notin Browser!ToSet(shows)
                                            /\ d = [id |-> t.id, url |-> t.url, force |-> t.busy \/ t.url = "blank"]
      /\ \A t \in Here : Browser!Candidate(t) /\ t.id \notin Browser!ToSet(shows) => \E d \in p.close : d.id = t.id
      /\ \A t \in Here : t.group # 0 => t.id \in p.ungroup
      /\ \A id \in p.ungroup : \E t \in Here : id = t.id
      /\ p = [target |-> p.target, lazy |-> p.lazy, shows |-> p.shows, committed |-> p.committed,
              source |-> p.source, close |-> p.close, ungroup |-> p.ungroup, home |-> p.home]
  BY <1>1, <1>2, <1>3, <1>4, PlanIs DEF Here
<1>a. /\ p.home \in HomeThen /\ (p.home.pinned => p.home.id # 0)
      /\ p.home.id # 0 => \E t \in Here : t.id = p.home.id /\ t.url = "home" /\ t.pinned = p.home.pinned
  BY <1>1, <1>2, <1>4, HomeIs DEF Here
<1>7. /\ TheShown' = {shows[i] : i \in DOMAIN shows} \ {0} /\ ToClose' = {d.id : d \in p.close}
      /\ Preparing' /\ Going' /\ Here' = Here /\ Clicked' = Clicked
  BY <1>0, <1>2, <1>6 DEF TheShown, ToClose, Preparing, Going, Here, Clicked, Browser!Touched
<1>8. \A t \in Here : /\ t.id \in Nat \ {0} /\ t \in WindowTab
                      /\ t.id \in Browser!ToSet(shows) <=> t.id \in TheShown'
  <2>1. \A t \in Here : t \in WindowTab /\ t.id \in Nat \ {0}
    BY <1>4, TabTypes DEF Here, WindowTab
  <2>2. Browser!ToSet(shows) = {shows[i] : i \in DOMAIN shows}
    BY DEF Browser!ToSet
  <2> QED BY <1>7, <2>1, <2>2
<1>9. WindowShape'
  <2>1. Taken' = Taken
    BY <1>0, <1>7 DEF Taken
  <2> QED BY <1>0, <1>7, <2>1 DEF WindowShape
<1>10. \A d \in p.close : \E t \in Here : d.id = t.id /\ d.url = t.url /\ t.id \notin TheShown' /\ d \in Closing
  <2> TAKE d \in p.close
  <2>1. PICK t \in Here : /\ Browser!Candidate(t) /\ t.id \notin Browser!ToSet(shows)
                          /\ d = [id |-> t.id, url |-> t.url, force |-> t.busy \/ t.url = "blank"]
    BY <1>6
  <2>2. t.id \in Nat /\ t.url \in Pages \cup {"placeholder", "blank"} /\ (t.busy \/ t.url = "blank") \in BOOLEAN
    BY <1>8, <2>1 DEF Browser!Candidate
  <2>3. d \in Closing /\ d.id = t.id /\ d.url = t.url
    BY <2>1, <2>2 DEF Closing
  <2> QED BY <1>8, <2>1, <2>3
<1>11. PlanShape'
  <2>1. p \in [target : Seq(Target), lazy : BOOLEAN, shows : Seq(Nat), committed : BOOLEAN,
               source : Seq(WindowTab), close : SUBSET Closing, ungroup : SUBSET Nat, home : HomeThen]
    <3>1. p.close \subseteq Closing /\ p.ungroup \subseteq Nat
      BY <1>6, <1>8, <1>10
    <3>2. p.source \in Seq(WindowTab) /\ p.committed \in BOOLEAN
      <4>1. p.committed = FALSE
        BY <1>1, <1>2 DEF Browser!Plan
      <4> QED BY <1>6, <4>1 DEF AWindow
    <3> QED BY <1>4, <1>5, <1>6, <1>a, <3>1, <3>2
  <2>2. TheShown' \cap ToClose' = {}
    BY <1>7, <1>10
  <2>3. \A s \in TabsOf(p.source) : ~s.pinned /\ s.url \in Pages \cup {"blank"} /\ s.id \notin {a.id : a \in windowMade'}
    BY <1>0, <1>6 DEF Browser!Candidate
  <2>4. Apart(p.source)
    BY <1>6 DEF AWindow
  <2>5. DOMAIN p.shows = DOMAIN p.target /\ \A i, j \in DOMAIN p.shows : i # j => p.shows[i] = 0 \/ p.shows[i] # p.shows[j]
    BY <1>5, <1>6
  <2>6. ~p.committed /\ windowPc' \notin {"close", "group", "done"}
    BY <1>0, <1>6
  <2> QED BY <1>2, <1>a, <2>1, <2>2, <2>3, <2>4, <2>5, <2>6 DEF PlanShape
<1>12. SourceThere'
  BY <1>2, <1>6, <1>7, <1>0 DEF SourceThere, Browser!Candidate
<1>13. CloseFits'
  <2>1. \A t \in Here : ListedTab(t) => t.id \in TheShown' \cup ToClose'
    <3> TAKE t \in Here
    <3> HAVE ListedTab(t)
    <3>1. Browser!Candidate(t)
      BY DEF ListedTab, Browser!Candidate
    <3>2. CASE t.id \in Browser!ToSet(shows)
      BY <1>8, <3>2
    <3>3. CASE t.id \notin Browser!ToSet(shows)
      BY <1>6, <1>7, <3>1, <3>3
    <3> QED BY <3>2, <3>3
  <2> QED BY <1>0, <1>2, <1>7, <1>10, <2>1 DEF CloseFits
<1>14. ShowsTarget'
  <2>1. IdsOf(windowWindow) = {t.id : t \in Here}
    BY WindowSets DEF Here
  <2>2. TheShown' \subseteq IdsOf(windowWindow)
    BY <1>5, <1>7, <2>1
  <2>3. \A i \in DOMAIN shows : shows[i] \in TheShown' \ Clicked' =>
          \E t \in Here : /\ t.id = shows[i] /\ ~t.pinned /\ t.url \in {target[i].url, "placeholder"}
    BY <1>5, <1>7
  <2> QED BY <1>0, <1>2, <1>6, <1>7, <2>2, <2>3 DEF ShowsTarget
<1>15. GroupsFit'
  BY <1>0, <1>2, <1>6, <1>7 DEF GroupsFit
<1>16. HomeStays' /\ Verified'
  BY <1>0, <1>2, <1>7, <1>a DEF HomeStays, Verified
<1>17. InOrder'
  BY <1>0, <1>2, <1>5, <1>6, <1>7 DEF InOrder
<1>18. PagesStayNow
  BY <1>0, NoneGoes
<1> QED BY <1>0, <1>9, <1>11, <1>12, <1>13, <1>14, <1>15, <1>16, <1>17, <1>18 DEF WindowInv

LEMMA InPlan == WindowInv /\ windowPc # "idle" =>
    PlanShape /\ SourceThere /\ CloseFits /\ ShowsTarget /\ GroupsFit /\ HomeStays /\ Verified /\ InOrder /\ WindowShape
  BY DEF WindowInv

LEMMA CreateTabKeeps == WindowInv /\ Browser!CreateTab => WindowInv' /\ PagesStayNow
<1> SUFFICES ASSUME WindowInv, Browser!CreateTab PROVE WindowInv' /\ PagesStayNow
  OBVIOUS
<1> DEFINE i == Browser!Min(Browser!Missing)
           new == Browser!Fresh
           page == windowPlan.target[i].url
           url == IF windowPlan.lazy THEN "placeholder" ELSE page
           x == Browser!Tab(new, url, ~windowPlan.lazy, FALSE, 0)
<1>0. /\ windowPc = "create" /\ windowPc' = windowPc /\ windowSeen' = windowSeen /\ windowTouched' = windowTouched
      /\ windowBroken' = windowBroken /\ windowLeft' = windowLeft /\ Browser!Missing # {}
      /\ windowWindow' = Append(windowWindow, x)
      /\ windowMade' = windowMade \cup {[id |-> new, urls |-> {page, url}]}
      /\ windowPlan' = [windowPlan EXCEPT !.shows[i] = new]
  BY DEF Browser!CreateTab
<1>1. PlanShape /\ SourceThere /\ CloseFits /\ ShowsTarget /\ GroupsFit /\ InOrder /\ WindowShape
  BY <1>0, InPlan
<1>2. /\ windowPlan \in [target : Seq(Target), lazy : BOOLEAN, shows : Seq(Nat), committed : BOOLEAN,
                         source : Seq(WindowTab), close : SUBSET Closing, ungroup : SUBSET Nat, home : HomeThen]
      /\ DOMAIN windowPlan.shows = DOMAIN windowPlan.target /\ DOMAIN windowPlan.shows \subseteq Nat
  BY <1>1 DEF PlanShape
<1>3. i \in DOMAIN windowPlan.shows /\ windowPlan.shows[i] = 0 /\ \A j \in DOMAIN windowPlan.shows : j < i => windowPlan.shows[j] # 0
  <2>1. Browser!Missing = {j \in DOMAIN windowPlan.target : windowPlan.shows[j] = 0}
    BY DEF Browser!Missing
  <2>2. Browser!Missing \subseteq Nat /\ Browser!Missing # {}
    BY <1>0, <1>2, <2>1
  <2>3. i \in Browser!Missing /\ \A k \in Browser!Missing : i <= k
    BY <2>2, First
  <2> HIDE DEF i
  <2>5. i \in Nat
    BY <2>2, <2>3
  <2>4. \A j \in Nat : j < i => ~(i <= j)
    BY <2>5
  <2> QED BY <1>2, <2>1, <2>3, <2>4
<1>4. new \in Nat /\ new > LastTabId /\ (\A id \in Taken : id < new) /\ new # 0
  BY <1>1, FreshIs, IdsAreNumbers
<1>5. new \notin Taken
  BY <1>1, <1>4 DEF WindowShape
<1> HIDE DEF i, new
<1>6. page \in Pages /\ url \in Pages \cup {"placeholder"} /\ page \notin {"home", "placeholder", "internal", "blank"}
  <2>1. windowPlan.target[i] \in Target
    BY <1>2, <1>3, ElementOfSeq
  <2> QED BY <2>1, WindowsKnown DEF Target
<1>7. x \in WindowTab /\ x.id = new /\ x.url = url /\ x.group = 0 /\ x.pinned = FALSE
  BY <1>2, <1>4, <1>6 DEF WindowTab, AnyUrl, Browser!Tab
<1>8. url # "blank" /\ url \in {page, "placeholder"}
  BY <1>6
<1> HIDE DEF x, url, page
<1>9. PICK shows : shows = windowPlan'.shows
  OBVIOUS
<1>10. /\ DOMAIN shows = DOMAIN windowPlan.shows /\ shows \in Seq(Nat)
       /\ shows[i] = new /\ \A j \in DOMAIN shows : j # i => shows[j] = windowPlan.shows[j]
  BY <1>0, <1>2, <1>3, <1>4, <1>9
<1>11. windowPlan' = [target |-> windowPlan.target, lazy |-> windowPlan.lazy, shows |-> shows,
                      committed |-> windowPlan.committed, source |-> windowPlan.source,
                      close |-> windowPlan.close, ungroup |-> windowPlan.ungroup, home |-> windowPlan.home]
  BY <1>0, <1>2, <1>9
<1>12. /\ AWindow(windowWindow') /\ Here' = Here \cup {x}
       /\ \A a, b : Ahead(windowWindow, a, b) \/ (a \in IdsOf(windowWindow) /\ b = new) => Ahead(windowWindow', a, b)
  <2>1. AWindow(windowWindow) /\ windowWindow \in Seq(WindowTab)
    BY <1>1 DEF WindowShape, AWindow
  <2>2. windowWindow' = windowWindow \o <<x>>
    BY <1>0, <1>7, <2>1, OneTab
  <2>3. AWindow(<<x>>) /\ TabsOf(<<x>>) = {x} /\ IdsOf(<<x>>) = {new}
    BY <1>7, OneTab
  <2>4. IdsOf(windowWindow) \cap IdsOf(<<x>>) = {}
    BY <1>5, <2>3 DEF Taken
  <2>5. /\ AWindow(windowWindow \o <<x>>)
        /\ TabsOf(windowWindow \o <<x>>) = TabsOf(windowWindow) \cup TabsOf(<<x>>)
        /\ \A a, b : Ahead(windowWindow, a, b) \/ (a \in IdsOf(windowWindow) /\ b \in IdsOf(<<x>>)) =>
              Ahead(windowWindow \o <<x>>, a, b)
    BY <2>1, <2>3, <2>4, Joined
  <2> QED BY <2>2, <2>3, <2>5 DEF Here
<1>13. IdsOf(windowWindow) = {u.id : u \in Here} /\ IdsOf(windowWindow') = {u.id : u \in Here'}
  BY WindowSets DEF Here
<1>14. Clicked' = Clicked /\ Preparing /\ Preparing' /\ Going /\ Going' /\ ToClose' = ToClose
  BY <1>0, <1>11 DEF Clicked, Browser!Touched, Preparing, Going, ToClose
<1>15. {a.id : a \in windowMade'} = {a.id : a \in windowMade} \cup {new}
  <2> DEFINE z == [id |-> new, urls |-> {page, url}]
  <2>1. windowMade' = windowMade \cup {z} /\ z.id = new
    BY <1>0
  <2> HIDE DEF z
  <2> QED BY <2>1
<1>16. Taken' = Taken \cup {new}
  BY <1>7, <1>12, <1>13, <1>14, <1>15 DEF Taken
<1>17. TheShown' = TheShown \cup {new}
  <2>1. TheShown' = {shows[j] : j \in DOMAIN shows} \ {0} /\ TheShown = {windowPlan.shows[j] : j \in DOMAIN windowPlan.shows} \ {0}
    BY <1>9 DEF TheShown
  <2>2. \A id : id \in TheShown' <=> id \in TheShown \cup {new}
    BY <1>3, <1>4, <1>10, <2>1
  <2> QED BY <2>2
<1>18. TheShown \subseteq Taken /\ ToClose \subseteq Taken /\ \A s \in TabsOf(windowPlan.source) : s.id \in Taken
  <2>1. TheShown \subseteq Taken
    BY <1>1, <1>14 DEF ShowsTarget, Taken
  <2>2. ToClose \subseteq Taken
    BY <1>1, <1>13, <1>14 DEF CloseFits, Taken, ToClose
  <2>3. ~windowPlan.committed /\ windowPc # "failed"
    BY <1>0, <1>1, <1>14 DEF PlanShape
  <2>4. \A s \in TabsOf(windowPlan.source) : s.id \in Taken
    BY <1>1, <1>13, <2>3 DEF SourceThere, Taken
  <2> QED BY <2>1, <2>2, <2>4
<1>19. WindowShape'
  <2>1. Taken' \subseteq Nat /\ \A id \in Taken' : id <= new
    BY <1>1, <1>4, <1>16 DEF WindowShape
  <2>2. \A u \in Here' : u.id > LastTabId => u.url # "blank"
    BY <1>1, <1>7, <1>8, <1>12 DEF WindowShape
  <2>3. \A a \in windowMade' : a.id > LastTabId
    BY <1>0, <1>1, <1>4 DEF WindowShape
  <2> QED BY <1>0, <1>1, <1>4, <1>12, <2>1, <2>2, <2>3 DEF WindowShape
<1>20. PlanShape'
  <2>1. windowPlan' \in [target : Seq(Target), lazy : BOOLEAN, shows : Seq(Nat), committed : BOOLEAN,
                         source : Seq(WindowTab), close : SUBSET Closing, ungroup : SUBSET Nat, home : HomeThen]
    BY <1>2, <1>10, <1>11
  <2>2. \A k, j \in DOMAIN shows : k # j => shows[k] = 0 \/ shows[k] # shows[j]
    <3>1. \A k \in DOMAIN shows : k # i => shows[k] # new
      BY <1>4, <1>5, <1>10, <1>18 DEF TheShown
    <3>2. \A k, j \in DOMAIN windowPlan.shows : k # j => windowPlan.shows[k] = 0 \/ windowPlan.shows[k] # windowPlan.shows[j]
      BY <1>1 DEF PlanShape
    <3> QED BY <1>10, <3>1, <3>2
  <2>3. TheShown' \cap ToClose' = {}
    BY <1>1, <1>5, <1>14, <1>17, <1>18 DEF PlanShape
  <2>4. Apart(windowPlan.source) /\ \A s \in TabsOf(windowPlan.source) :
          ~s.pinned /\ s.url \in Pages \cup {"blank"} /\ s.id \notin {a.id : a \in windowMade'}
    <3>1. Apart(windowPlan.source) /\ \A s \in TabsOf(windowPlan.source) :
            ~s.pinned /\ s.url \in Pages \cup {"blank"} /\ s.id \notin {a.id : a \in windowMade}
      BY <1>1 DEF PlanShape
    <3> QED BY <1>5, <1>15, <1>18, <3>1
  <2>5. ~windowPlan.committed
    BY <1>1, <1>14 DEF PlanShape
  <2>6. /\ windowPlan'.target = windowPlan.target /\ windowPlan'.shows = shows /\ windowPlan'.source = windowPlan.source
        /\ windowPlan'.home = windowPlan.home /\ (windowPlan.home.pinned => windowPlan.home.id # 0)
        /\ windowPlan'.committed = windowPlan.committed /\ DOMAIN shows = DOMAIN windowPlan.target
        /\ windowPc' \notin {"close", "group", "done"}
    BY <1>0, <1>1, <1>2, <1>10, <1>11 DEF PlanShape
  <2> QED BY <2>1, <2>2, <2>3, <2>4, <2>5, <2>6 DEF PlanShape
<1>21. SourceThere'
  BY <1>0, <1>1, <1>11, <1>12, <1>14 DEF SourceThere
<1>22. CloseFits'
  <2>1. \A d \in windowPlan.close : d.id \in Clicked \/ \E t \in Here' : t.id = d.id /\ t.url = d.url
    BY <1>1, <1>12, <1>14 DEF CloseFits
  <2>2. \A t \in Here' : ListedTab(t) => t.id \in Clicked \cup TheShown' \cup ToClose
    BY <1>1, <1>7, <1>12, <1>14, <1>17 DEF CloseFits
  <2> QED BY <1>11, <1>14, <2>1, <2>2 DEF CloseFits
<1>23. ShowsTarget'
  <2>1. TheShown' \subseteq IdsOf(windowWindow') \cup Clicked'
    BY <1>1, <1>7, <1>12, <1>13, <1>14, <1>17 DEF ShowsTarget
  <2>2. \A j \in DOMAIN shows : shows[j] \in TheShown' \ Clicked' =>
          \E t \in Here' : t.id = shows[j] /\ ~t.pinned /\ t.url \in {windowPlan.target[j].url, "placeholder"}
    <3> TAKE j \in DOMAIN shows
    <3> HAVE shows[j] \in TheShown' \ Clicked'
    <3>1. CASE j = i
      BY <1>7, <1>8, <1>10, <1>12, <3>1 DEF page
    <3>2. CASE j # i
      <4>1. shows[j] = windowPlan.shows[j] /\ j \in DOMAIN windowPlan.shows /\ windowPlan.shows[j] \in TheShown \ Clicked
        BY <1>10, <1>14, <1>17, <3>2 DEF TheShown
      <4> QED BY <1>1, <1>12, <1>14, <4>1 DEF ShowsTarget
    <3> QED BY <3>1, <3>2
  <2> QED BY <1>0, <1>9, <1>11, <2>1, <2>2 DEF ShowsTarget
<1>24. GroupsFit'
  BY <1>0, <1>1, <1>7, <1>11, <1>12, <1>14 DEF GroupsFit
<1>25. HomeStays' /\ Verified'
  <2>1. HomeStays /\ windowPlan'.home = windowPlan.home
    BY <1>0, <1>11, InPlan
  <2> QED BY <1>0, <1>12, <1>14, <2>1 DEF HomeStays, Verified
<1>26. InOrder'
  <2> SUFFICES ASSUME NEW k \in DOMAIN shows, NEW j \in DOMAIN shows, k < j,
                      windowPlan.target[k].url = windowPlan.target[j].url, shows[j] # 0
               PROVE  /\ shows[k] # 0
                      /\ \/ shows[k] \in Clicked \/ shows[j] \in Clicked
                         \/ Ahead(windowWindow', shows[k], shows[j])
    BY <1>9, <1>11, <1>14 DEF InOrder
  <2>0. k \in Nat /\ j \in Nat /\ k # j
    BY <1>2, <1>10
  <2>1. CASE j = i
    <3>1. shows[k] = windowPlan.shows[k] /\ windowPlan.shows[k] # 0
      BY <1>3, <1>10, <2>0, <2>1
    <3>2. shows[k] \in TheShown
      BY <1>10, <3>1 DEF TheShown
    <3>3. shows[k] \in IdsOf(windowWindow) \cup Clicked
      BY <1>1, <1>14, <3>2 DEF ShowsTarget
    <3> QED BY <1>10, <1>12, <2>1, <3>1, <3>3
  <2>2. CASE j # i
    <3>1. /\ windowPlan.shows[k] # 0
          /\ \/ windowPlan.shows[k] \in Clicked \/ windowPlan.shows[j] \in Clicked
             \/ Ahead(windowWindow, windowPlan.shows[k], windowPlan.shows[j])
      BY <1>1, <1>10, <1>14, <2>2 DEF InOrder
    <3>2. k # i
      BY <1>3, <3>1
    <3> QED BY <1>10, <1>12, <2>2, <3>1, <3>2
  <2> QED BY <2>1, <2>2
<1>27. PagesStayNow
  <2>1. Browser!Ids(windowWindow) \subseteq Browser!Ids(windowWindow')
    BY <1>12, <1>13, WindowSets
  <2> QED BY <2>1, NoneGoes
<1> QED BY <1>0, <1>19, <1>20, <1>21, <1>22, <1>23, <1>24, <1>25, <1>26, <1>27 DEF WindowInv

LEMMA NothingMoves ==
    ASSUME windowWindow' = windowWindow, windowMade' = windowMade, windowTouched' = windowTouched
    PROVE  /\ Here' = Here /\ Clicked' = Clicked /\ Taken' = Taken /\ PagesStayNow
  BY NoneGoes DEF Here, Clicked, Taken, Browser!Touched

LEMMA CreatedKeeps == WindowInv /\ Browser!Created => WindowInv' /\ PagesStayNow
<1> SUFFICES ASSUME WindowInv, Browser!Created PROVE WindowInv' /\ PagesStayNow
  OBVIOUS
<1>0. /\ windowPc = "create" /\ windowPc' = "home" /\ windowWindow' = windowWindow /\ windowMade' = windowMade
      /\ windowPlan' = windowPlan /\ windowSeen' = windowSeen /\ windowTouched' = windowTouched
      /\ windowBroken' = windowBroken /\ windowLeft' = windowLeft /\ Browser!Missing = {}
  BY DEF Browser!Created, Browser!Go
<1>1. PlanShape /\ SourceThere /\ CloseFits /\ ShowsTarget /\ GroupsFit /\ InOrder /\ WindowShape
  BY <1>0, InPlan
<1>2. Here' = Here /\ Clicked' = Clicked /\ Taken' = Taken /\ PagesStayNow
  BY <1>0, NothingMoves
<1>3. Preparing /\ Preparing' /\ Going /\ Going' /\ TheShown' = TheShown /\ ToClose' = ToClose
  BY <1>0 DEF Preparing, Going, TheShown, ToClose
<1>4. \A i \in DOMAIN windowPlan.shows : windowPlan.shows[i] # 0
  BY <1>0, <1>1 DEF Browser!Missing, PlanShape
<1>5. WindowShape'
  BY <1>0, <1>1, <1>2 DEF WindowShape
<1>6. PlanShape'
  BY <1>0, <1>1, <1>3 DEF PlanShape
<1>7. SourceThere' /\ CloseFits'
  BY <1>0, <1>1, <1>2, <1>3 DEF SourceThere, CloseFits
<1>8. ShowsTarget'
  BY <1>0, <1>1, <1>2, <1>3, <1>4 DEF ShowsTarget
<1>9. GroupsFit' /\ InOrder'
  BY <1>0, <1>1, <1>2, <1>3 DEF GroupsFit, InOrder
<1>10. HomeStays' /\ Verified'
  BY <1>0, <1>2, InPlan DEF HomeStays, Verified
<1> QED BY <1>0, <1>2, <1>5, <1>6, <1>7, <1>8, <1>9, <1>10 DEF WindowInv

LEMMA CheckKeeps == WindowInv /\ Browser!Check => WindowInv' /\ PagesStayNow
<1> SUFFICES ASSUME WindowInv, Browser!Check PROVE WindowInv' /\ PagesStayNow
  OBVIOUS
<1>0. /\ windowPc = "check" /\ windowPc' = "commit" /\ windowWindow' = windowWindow /\ windowMade' = windowMade
      /\ windowPlan' = windowPlan /\ windowSeen' = windowSeen /\ windowTouched' = windowTouched
      /\ windowBroken' = windowBroken /\ windowLeft' = windowLeft
  BY DEF Browser!Check, Browser!Go
<1>1. PlanShape /\ SourceThere /\ CloseFits /\ ShowsTarget /\ GroupsFit /\ HomeStays /\ InOrder /\ WindowShape
  BY <1>0, InPlan
<1>2. Here' = Here /\ Clicked' = Clicked /\ Taken' = Taken /\ PagesStayNow
  BY <1>0, NothingMoves
<1>3. Preparing /\ Preparing' /\ Going /\ Going' /\ TheShown' = TheShown /\ ToClose' = ToClose
  BY <1>0 DEF Preparing, Going, TheShown, ToClose
<1>5. WindowShape'
  BY <1>0, <1>1, <1>2 DEF WindowShape
<1>6. PlanShape'
  BY <1>0, <1>1, <1>3 DEF PlanShape
<1>7. SourceThere' /\ CloseFits'
  BY <1>0, <1>1, <1>2, <1>3 DEF SourceThere, CloseFits
<1>8. ShowsTarget' /\ HomeStays'
  BY <1>0, <1>1, <1>2, <1>3 DEF ShowsTarget, HomeStays
<1>9. GroupsFit' /\ InOrder'
  BY <1>0, <1>1, <1>2, <1>3 DEF GroupsFit, InOrder
<1>10. Verified'
  BY <1>0 DEF Verified
<1> QED BY <1>0, <1>2, <1>5, <1>6, <1>7, <1>8, <1>9, <1>10 DEF WindowInv

LEMMA GivesUp ==
    ASSUME WindowInv, windowPc # "idle", windowPc # "failed", windowPc' = "rollback", windowPlan' = windowPlan,
           windowMade' = windowMade, windowTouched' = windowTouched, WindowShape',
           windowPlan.committed \/ windowWindow' = windowWindow
    PROVE  WindowInv'
<1>1. PlanShape /\ SourceThere
  BY InPlan
<1>2. Clicked' = Clicked /\ TheShown' = TheShown /\ ToClose' = ToClose /\ ~Preparing' /\ ~Going'
  BY DEF Clicked, Browser!Touched, TheShown, ToClose, Preparing, Going
<1>3. PlanShape'
  BY <1>1, <1>2 DEF PlanShape
<1>4. SourceThere'
  BY <1>1, <1>2 DEF SourceThere, Here
<1>5. CloseFits' /\ ShowsTarget' /\ GroupsFit' /\ HomeStays' /\ Verified' /\ InOrder'
  BY <1>2 DEF CloseFits, ShowsTarget, GroupsFit, HomeStays, Verified, InOrder
<1> QED BY <1>3, <1>4, <1>5 DEF WindowInv

LEMMA FaultSpends ==
    ASSUME WindowShape, Browser!Fault
    PROVE  windowLeft' = [user |-> windowLeft'.user, faults |-> windowLeft'.faults] /\ windowLeft'.user \in Nat
<1>1. windowLeft' = [windowLeft EXCEPT !.faults = @ - 1]
  BY DEF Browser!Fault
<1>2. windowLeft = [user |-> windowLeft.user, faults |-> windowLeft.faults] /\ windowLeft.user \in Nat
  BY DEF WindowShape
<1>3. windowLeft' = [user |-> windowLeft.user, faults |-> windowLeft.faults - 1]
  BY <1>1, <1>2
<1> QED BY <1>2, <1>3

LEMMA FailKeeps == WindowInv /\ Browser!Fail => WindowInv' /\ PagesStayNow
<1> SUFFICES ASSUME WindowInv, Browser!Fail PROVE WindowInv' /\ PagesStayNow
  OBVIOUS
<1>0. /\ windowPc \in {"create", "home", "check", "commit", "group"} /\ windowPc' = "rollback"
      /\ windowWindow' = windowWindow /\ windowMade' = windowMade /\ windowPlan' = windowPlan
      /\ windowTouched' = windowTouched /\ WindowShape /\ Browser!Fault
  BY DEF Browser!Fail, WindowInv
<1>1. Here' = Here /\ Taken' = Taken /\ PagesStayNow
  BY <1>0, NothingMoves
<1>2. WindowShape'
  BY <1>0, <1>1, FaultSpends DEF WindowShape
<1>3. WindowInv'
  BY <1>0, <1>2, GivesUp
<1> QED BY <1>1, <1>3

LEMMA HomeIsGoneKeeps == WindowInv /\ Browser!HomeIsGone => WindowInv' /\ PagesStayNow
<1> SUFFICES ASSUME WindowInv, Browser!HomeIsGone PROVE WindowInv' /\ PagesStayNow
  OBVIOUS
<1>0. /\ windowPc = "home" /\ windowPc' = "rollback" /\ windowWindow' = windowWindow /\ windowMade' = windowMade
      /\ windowPlan' = windowPlan /\ windowTouched' = windowTouched /\ windowLeft' = windowLeft /\ WindowShape
  BY DEF Browser!HomeIsGone, Browser!Go, WindowInv
<1>1. Here' = Here /\ Taken' = Taken /\ PagesStayNow
  BY <1>0, NothingMoves
<1>2. WindowShape'
  BY <1>0, <1>1 DEF WindowShape
<1>3. WindowInv'
  BY <1>0, <1>2, GivesUp
<1> QED BY <1>1, <1>3

LEMMA GroupFailsKeeps == WindowInv /\ Browser!GroupFails => WindowInv' /\ PagesStayNow
<1> SUFFICES ASSUME WindowInv, Browser!GroupFails PROVE WindowInv' /\ PagesStayNow
  OBVIOUS
<1>0. /\ windowPc = "group" /\ windowPc' = "rollback" /\ windowWindow' = windowWindow /\ windowMade' = windowMade
      /\ windowPlan' = windowPlan /\ windowTouched' = windowTouched /\ windowLeft' = windowLeft /\ WindowShape
  BY DEF Browser!GroupFails, Browser!Go, WindowInv
<1>1. Here' = Here /\ Taken' = Taken /\ PagesStayNow
  BY <1>0, NothingMoves
<1>2. WindowShape'
  BY <1>0, <1>1 DEF WindowShape
<1>3. WindowInv'
  BY <1>0, <1>2, GivesUp
<1> QED BY <1>1, <1>3

(* The verification puts on the list of what is closed only what still      *)
(* shows what it did.                                                       *)
LEMMA ValidatesTo ==
    ASSUME WindowInv, windowPc = "commit", windowPc' = "close", windowPlan' = [windowPlan EXCEPT !.committed = TRUE],
           windowWindow' = windowWindow, windowMade' = windowMade, windowTouched' = windowTouched, WindowShape',
           Verified'
    PROVE  WindowInv' /\ PagesStayNow
<1>1. PlanShape /\ ShowsTarget /\ GroupsFit /\ HomeStays /\ InOrder /\ WindowShape
  BY InPlan
<1>2. Here' = Here /\ Clicked' = Clicked /\ Taken' = Taken /\ PagesStayNow
  BY NothingMoves
<1>3. windowPlan \in [target : Seq(Target), lazy : BOOLEAN, shows : Seq(Nat), committed : BOOLEAN,
                      source : Seq(WindowTab), close : SUBSET Closing, ungroup : SUBSET Nat, home : HomeThen]
  BY <1>1 DEF PlanShape
<1>4. windowPlan' = [target |-> windowPlan.target, lazy |-> windowPlan.lazy, shows |-> windowPlan.shows,
                     committed |-> TRUE, source |-> windowPlan.source,
                     close |-> windowPlan.close, ungroup |-> windowPlan.ungroup, home |-> windowPlan.home]
  BY <1>3
<1>5. /\ windowPlan'.target = windowPlan.target /\ windowPlan'.shows = windowPlan.shows
      /\ windowPlan'.committed = TRUE /\ windowPlan'.source = windowPlan.source
      /\ windowPlan'.close = windowPlan.close /\ windowPlan'.ungroup = windowPlan.ungroup
      /\ windowPlan'.home = windowPlan.home
  BY <1>4
<1>6. Preparing /\ ~Preparing' /\ Going /\ Going' /\ TheShown' = TheShown /\ ToClose' = ToClose
  BY <1>5 DEF Preparing, Going, TheShown, ToClose
<1>7. PlanShape'
  <2>1. windowPlan' \in [target : Seq(Target), lazy : BOOLEAN, shows : Seq(Nat), committed : BOOLEAN,
                         source : Seq(WindowTab), close : SUBSET Closing, ungroup : SUBSET Nat, home : HomeThen]
    BY <1>3, <1>4
  <2> QED BY <1>1, <1>5, <1>6, <2>1 DEF PlanShape
<1>8. SourceThere' /\ CloseFits'
  BY <1>5, <1>6 DEF SourceThere, CloseFits
<1>9. ShowsTarget' /\ HomeStays'
  BY <1>1, <1>2, <1>5, <1>6 DEF ShowsTarget, HomeStays
<1>10. GroupsFit' /\ InOrder'
  BY <1>1, <1>2, <1>5, <1>6 DEF GroupsFit, InOrder
<1> QED BY <1>2, <1>7, <1>8, <1>9, <1>10 DEF WindowInv

LEMMA ValidateKeeps == WindowInv /\ Browser!Validate => WindowInv' /\ PagesStayNow
<1> SUFFICES ASSUME WindowInv, Browser!Validate PROVE WindowInv' /\ PagesStayNow
  OBVIOUS
<1>0. /\ windowPc = "commit" /\ windowPc' = "close" /\ windowPlan' = [windowPlan EXCEPT !.committed = TRUE]
      /\ windowWindow' = windowWindow /\ windowMade' = windowMade /\ windowTouched' = windowTouched
      /\ windowBroken' = windowBroken /\ windowLeft' = windowLeft
      /\ windowSeen' = {c.id : c \in {d \in windowPlan.close :
                          Browser!Open(d.id) /\ (d.force \/ Browser!TabOf(d.id).url = d.url)}}
  BY DEF Browser!Validate, Browser!Go
<1>1. PlanShape /\ CloseFits /\ WindowShape
  BY <1>0, InPlan
<1>2. Here' = Here /\ Clicked' = Clicked /\ Taken' = Taken
  BY <1>0, NothingMoves
<1>3. WindowShape'
  BY <1>0, <1>1, <1>2 DEF WindowShape
<1>4. windowPlan'.close = windowPlan.close /\ windowPlan'.shows = windowPlan.shows
  BY <1>0, <1>1 DEF PlanShape
<1>5. IdsOf(windowWindow) = {u.id : u \in Here}
  BY WindowSets DEF Here
<1>6. ToClose' = ToClose /\ TheShown' = TheShown /\ Preparing
  BY <1>0, <1>4 DEF ToClose, TheShown, Preparing
<1>7. \A id : Browser!Open(id) => id \in IdsOf(windowWindow)
  BY WindowSets DEF Browser!Open
<1>8. windowSeen' \subseteq ToClose /\ windowSeen' \subseteq IdsOf(windowWindow)
  BY <1>0, <1>7 DEF ToClose
<1>9. \A t \in Here : t.id \in windowSeen' => \E d \in windowPlan.close : d.id = t.id /\ (d.force \/ d.url = t.url)
  <2> TAKE t \in Here
  <2> HAVE t.id \in windowSeen'
  <2>1. PICK d \in windowPlan.close : d.id = t.id /\ (d.force \/ Browser!TabOf(d.id).url = d.url)
    BY <1>0
  <2>2. Browser!TabOf(t.id) = t
    BY <1>1, TabOfIs
  <2> QED BY <2>1, <2>2
<1>10. \A t \in Here : ListedTab(t) => t.id \in Clicked \cup TheShown \cup windowSeen'
  <2> SUFFICES ASSUME NEW t \in Here, ListedTab(t), t.id \notin Clicked \cup TheShown PROVE t.id \in windowSeen'
    OBVIOUS
  <2>1. PICK d \in windowPlan.close : d.id = t.id
    BY <1>1, <1>6 DEF CloseFits, ToClose
  <2>2. PICK u \in Here : u.id = d.id /\ u.url = d.url
    BY <1>1, <1>6, <2>1 DEF CloseFits
  <2>3. Browser!TabOf(u.id) = u /\ Browser!Open(u.id)
    BY <1>1, TabOfIs
  <2> QED BY <1>0, <2>1, <2>2, <2>3
<1>11. Verified'
  <2>1. windowPc' = "close" /\ windowPlan'.close = windowPlan.close
    BY <1>0, <1>4
  <2> QED BY <1>0, <1>2, <1>6, <1>8, <1>9, <1>10, <2>1 DEF Verified
<1> QED BY <1>0, <1>3, <1>11, ValidatesTo

LEMMA ValidateBlindKeeps == WindowInv /\ Browser!ValidateBlind => WindowInv' /\ PagesStayNow
<1> SUFFICES ASSUME WindowInv, Browser!ValidateBlind PROVE WindowInv' /\ PagesStayNow
  OBVIOUS
<1>0. /\ windowPc = "commit" /\ windowPc' = "close" /\ windowPlan' = [windowPlan EXCEPT !.committed = TRUE]
      /\ windowWindow' = windowWindow /\ windowMade' = windowMade /\ windowTouched' = windowTouched
      /\ windowBroken' = TRUE /\ Browser!Fault /\ windowSeen' = {}
  BY DEF Browser!ValidateBlind, Browser!Go
<1>1. WindowShape
  BY <1>0, InPlan
<1>2. Here' = Here /\ Taken' = Taken
  BY <1>0, NothingMoves
<1>3. WindowShape'
  BY <1>0, <1>1, <1>2, FaultSpends DEF WindowShape
<1>4. Verified'
  BY <1>0 DEF Verified
<1> QED BY <1>0, <1>3, <1>4, ValidatesTo

(* The home tab is found and pinned, or made.                               *)
LEMMA HomesIn ==
    ASSUME WindowInv, windowPc = "home", windowPc' = "check", windowPlan' = windowPlan, windowTouched' = windowTouched,
           windowMade \subseteq windowMade', WindowShape',
           NEW home \in Here', home.url = "home" \/ home.id \in Clicked, home.pinned,
           home.id \notin ToClose \/ windowTouched # {},
           {a.id : a \in windowMade'} \subseteq {a.id : a \in windowMade} \cup ({home.id} \ Taken),
           \A t \in Here : t \in Here' \/ (t.id = home.id /\ (t.url = "home" \/ t.id \in Clicked)),
           \A u \in Here' : u \in Here \/ (u = home /\ (u.group = 0 \/ \E t \in Here : u.id = t.id /\ u.group = t.group)),
           \A a, b : Ahead(windowWindow, a, b) => Ahead(windowWindow', a, b)
    PROVE  WindowInv' /\ PagesStayNow
<1>1. PlanShape /\ SourceThere /\ CloseFits /\ ShowsTarget /\ GroupsFit /\ InOrder /\ WindowShape
  BY InPlan
<1>2. Clicked' = Clicked /\ TheShown' = TheShown /\ ToClose' = ToClose
  BY DEF Clicked, Browser!Touched, TheShown, ToClose
<1>3. Preparing /\ Preparing' /\ Going /\ Going'
  BY DEF Preparing, Going
<1>4. IdsOf(windowWindow) = {u.id : u \in Here} /\ IdsOf(windowWindow') = {u.id : u \in Here'}
  BY WindowSets DEF Here
<1>5. IdsOf(windowWindow) \subseteq IdsOf(windowWindow')
  BY <1>4
<1>6. "home" \notin Pages \cup {"placeholder", "blank"}
  BY WindowsKnown
<1>7. ~windowPlan.committed /\ \A s \in TabsOf(windowPlan.source) : s.id \in Taken /\ s.url # "home"
  <2>1. ~windowPlan.committed
    BY <1>1, <1>3 DEF PlanShape
  <2>2. \A s \in TabsOf(windowPlan.source) : s.id \in Taken
    BY <1>1, <1>4, <2>1 DEF SourceThere, Taken
  <2> QED BY <1>1, <1>6, <2>1, <2>2 DEF PlanShape
<1>8. PlanShape'
  <2>1. \A s \in TabsOf(windowPlan.source) : s.id \notin {a.id : a \in windowMade'}
    BY <1>1, <1>7 DEF PlanShape
  <2> QED BY <1>1, <1>2, <1>3, <2>1 DEF PlanShape
<1>9. SourceThere'
  <2>1. \A s \in TabsOf(windowPlan.source) : s.id \in Clicked \/ \E t \in Here : t.id = s.id /\ t.url = s.url /\ ~t.pinned
    BY <1>1, <1>7 DEF SourceThere
  <2>2. \A s \in TabsOf(windowPlan.source) : s.id \in Clicked \/ \E t \in Here' : t.id = s.id /\ t.url = s.url /\ ~t.pinned
    BY <1>7, <2>1
  <2> QED BY <1>2, <2>2 DEF SourceThere
<1>10. CloseFits'
  <2>1. \A d \in windowPlan.close : d.url # "home"
    <3>1. windowPlan.close \subseteq Closing
      BY <1>1 DEF PlanShape
    <3> QED BY <1>6, <3>1 DEF Closing
  <2>2. \A d \in windowPlan.close : d.id \in Clicked \/ \E t \in Here' : t.id = d.id /\ t.url = d.url
    BY <1>1, <1>3, <2>1 DEF CloseFits
  <2>3. \A u \in Here' : ListedTab(u) => u.id \in Clicked \cup TheShown \cup ToClose
    BY <1>1, <1>3, <1>6 DEF CloseFits, ListedTab
  <2> QED BY <1>2, <2>2, <2>3 DEF CloseFits
<1>11. ShowsTarget'
  <2>1. TheShown \subseteq IdsOf(windowWindow') \cup Clicked
    BY <1>1, <1>3, <1>5 DEF ShowsTarget
  <2>2. \A i \in DOMAIN windowPlan.shows : windowPlan.target[i].url \in Pages
    <3>1. windowPlan.target \in Seq(Target) /\ DOMAIN windowPlan.shows = DOMAIN windowPlan.target
      BY <1>1 DEF PlanShape
    <3>2. \A i \in DOMAIN windowPlan.target : windowPlan.target[i] \in Target
      BY <3>1, ElementOfSeq
    <3> QED BY <3>1, <3>2 DEF Target
  <2>3. \A i \in DOMAIN windowPlan.shows : windowPlan.shows[i] \in TheShown \ Clicked =>
          \E t \in Here : t.id = windowPlan.shows[i] /\ ~t.pinned /\ t.url \in {windowPlan.target[i].url, "placeholder"}
    BY <1>1, <1>3 DEF ShowsTarget
  <2>4. \A i \in DOMAIN windowPlan.shows : windowPlan.shows[i] \in TheShown \ Clicked =>
          \E t \in Here' : t.id = windowPlan.shows[i] /\ ~t.pinned /\ t.url \in {windowPlan.target[i].url, "placeholder"}
    <3> TAKE i \in DOMAIN windowPlan.shows
    <3> HAVE windowPlan.shows[i] \in TheShown \ Clicked
    <3>1. PICK t \in Here : t.id = windowPlan.shows[i] /\ ~t.pinned /\ t.url \in {windowPlan.target[i].url, "placeholder"}
      BY <2>3
    <3>2. t.url # "home" /\ t.id \notin Clicked
      BY <1>6, <2>2, <3>1
    <3>3. t \in Here'
      BY <3>2
    <3> QED BY <3>1, <3>3
  <2>5. windowPc # "create" => \A i \in DOMAIN windowPlan.shows : windowPlan.shows[i] # 0
    BY <1>1, <1>3 DEF ShowsTarget
  <2> QED BY <1>2, <2>1, <2>4, <2>5 DEF ShowsTarget
<1>12. GroupsFit'
  <2>1. \A t \in Here' : t.group # 0 => t.id \in windowPlan.ungroup
    BY <1>1, <1>3 DEF GroupsFit
  <2> QED BY <2>1 DEF GroupsFit
<1>13. HomeStays'
  <2>1. windowTouched = {} => Clicked = {}
    BY DEF Clicked, Browser!Touched
  <2> QED BY <1>2, <2>1 DEF HomeStays
<1>14. Verified'
  BY DEF Verified
<1>15. InOrder'
  BY <1>1, <1>2, <1>3 DEF InOrder
<1>16. PagesStayNow
  BY <1>5, NoneGoes, WindowSets
<1> QED BY <1>8, <1>9, <1>10, <1>11, <1>12, <1>13, <1>14, <1>15, <1>16 DEF WindowInv

LEMMA EnsureHomeKeeps == WindowInv /\ Browser!EnsureHome => WindowInv' /\ PagesStayNow
<1> SUFFICES ASSUME WindowInv, Browser!EnsureHome PROVE WindowInv' /\ PagesStayNow
  OBVIOUS
<1> DEFINE new == Browser!Fresh
           x == Browser!Tab(new, "home", FALSE, TRUE, 0)
<1>0. /\ windowPc = "home" /\ windowPc' = "check" /\ windowPlan' = windowPlan /\ windowSeen' = windowSeen
      /\ windowTouched' = windowTouched /\ windowBroken' = windowBroken /\ windowLeft' = windowLeft
  BY DEF Browser!EnsureHome, Browser!Go
<1>1. \/ windowPlan.home.pinned /\ windowWindow' = windowWindow /\ windowMade' = windowMade
      \/ /\ \E k \in DOMAIN windowWindow : /\ windowWindow[k].id = windowPlan.home.id
                                             /\ windowWindow' = [windowWindow EXCEPT ![k].pinned = TRUE]
         /\ windowMade' = windowMade
      \/ windowWindow' = <<x>> \o windowWindow /\ windowMade' = windowMade \cup {[id |-> new, urls |-> {"home"}]}
  BY DEF Browser!EnsureHome
<1> HIDE DEF new, x
<1>2. PlanShape /\ CloseFits /\ HomeStays /\ WindowShape /\ Preparing
  BY <1>0, InPlan DEF Preparing
<1>3. AWindow(windowWindow) /\ windowWindow \in Seq(WindowTab) /\ DOMAIN windowWindow = 1 .. Len(windowWindow)
  BY <1>2 DEF WindowShape, AWindow
<1>4. Clicked' = Clicked
  BY <1>0 DEF Clicked, Browser!Touched
<1>5. IdsOf(windowWindow) = {u.id : u \in Here} /\ IdsOf(windowWindow') = {u.id : u \in Here'}
  BY WindowSets DEF Here
<1>a. \A t \in Here : t.url = "home" => t.id \notin ToClose \/ windowTouched # {}
  <2> SUFFICES ASSUME NEW t \in Here, t.url = "home", t.id \in ToClose, windowTouched = {} PROVE FALSE
    OBVIOUS
  <2>1. PICK d \in windowPlan.close : d.id = t.id
    BY DEF ToClose
  <2>2. Clicked = {}
    BY DEF Clicked, Browser!Touched
  <2>3. PICK u \in Here : u.id = d.id /\ u.url = d.url
    BY <1>2, <2>1, <2>2 DEF CloseFits
  <2>4. u = t
    BY <1>3, <2>1, <2>3, TabTypes DEF Here
  <2>5. d.url \in Pages \cup {"placeholder", "blank"}
    BY <1>2 DEF PlanShape, Closing
  <2> QED BY <2>3, <2>4, <2>5, WindowsKnown
<1>5a. CASE windowPlan.home.pinned /\ windowWindow' = windowWindow /\ windowMade' = windowMade
  <2>1. Here' = Here /\ Taken' = Taken /\ PagesStayNow
    BY <1>0, <1>5a, NothingMoves
  <2>2. PlanShape /\ SourceThere /\ CloseFits /\ ShowsTarget /\ GroupsFit /\ InOrder /\ windowPlan.home.id # 0
    BY <1>0, <1>5a, InPlan DEF PlanShape
  <2>3. Preparing' /\ Going /\ Going' /\ TheShown' = TheShown /\ ToClose' = ToClose
    BY <1>0 DEF Preparing, Going, TheShown, ToClose
  <2>4. WindowShape'
    BY <1>0, <1>2, <1>5a, <2>1 DEF WindowShape
  <2>5. PlanShape'
    BY <1>0, <1>2, <1>5a, <2>2, <2>3 DEF PlanShape
  <2>6. SourceThere' /\ CloseFits'
    BY <1>0, <1>2, <1>4, <1>5a, <2>1, <2>2, <2>3 DEF SourceThere, CloseFits
  <2>7. ShowsTarget'
    BY <1>0, <1>2, <1>4, <1>5a, <2>1, <2>2, <2>3 DEF ShowsTarget
  <2>8. HomeStays'
    <3> SUFFICES ASSUME windowTouched = {} PROVE \E t \in Here : t.url = "home" /\ t.pinned /\ t.id \notin ToClose
      BY <1>0, <2>1, <2>3 DEF HomeStays
    <3>1. Clicked = {}
      BY DEF Clicked, Browser!Touched
    <3>2. PICK t \in Here : t.id = windowPlan.home.id /\ t.url = "home" /\ t.pinned
      BY <1>0, <1>2, <1>5a, <2>2, <3>1 DEF HomeStays
    <3> QED BY <1>a, <3>2
  <2>9. GroupsFit' /\ InOrder'
    BY <1>0, <1>2, <1>4, <1>5a, <2>1, <2>2, <2>3 DEF GroupsFit, InOrder
  <2>10. Verified'
    BY <1>0 DEF Verified
  <2> QED BY <1>0, <2>1, <2>4, <2>5, <2>6, <2>7, <2>8, <2>9, <2>10 DEF WindowInv
<1>6. CASE /\ \E k \in DOMAIN windowWindow : /\ windowWindow[k].id = windowPlan.home.id
                                              /\ windowWindow' = [windowWindow EXCEPT ![k].pinned = TRUE]
           /\ windowMade' = windowMade
  <2>0. PICK k \in DOMAIN windowWindow : /\ windowWindow[k].id = windowPlan.home.id
                                         /\ windowWindow' = [windowWindow EXCEPT ![k].pinned = TRUE]
    BY <1>6
  <2> DEFINE t == windowWindow[k]
             h == [t EXCEPT !.pinned = TRUE]
  <2>3. t \in WindowTab /\ t \in Here
    <3>1. t \in Here
      BY DEF Here, TabsOf
    <3> HIDE DEF t
    <3> QED BY <1>3, <3>1, TabTypes DEF Here
  <2>2. t.url = "home" \/ t.id \in Clicked
    <3>1. t.id = windowPlan.home.id /\ windowPlan.home.id # 0
      BY <2>0, <2>3 DEF WindowTab
    <3>2. CASE \E u \in Here : u.id = windowPlan.home.id /\ u.url = "home"
      BY <1>3, <2>3, <3>1, <3>2, TabTypes DEF Here
    <3> QED BY <1>0, <1>2, <3>1, <3>2 DEF HomeStays
  <2>4. h \in WindowTab /\ h.id = t.id /\ h.url = t.url /\ h.pinned = TRUE /\ h.group = t.group
    BY <2>3 DEF WindowTab, AnyUrl
  <2>5. windowWindow' = Put(windowWindow, k, h)
    BY <2>0 DEF Put
  <2> HIDE DEF h, t
  <2>6. PICK v : v = Put(windowWindow, k, h)
    OBVIOUS
  <2>7. /\ AWindow(v) /\ IdsOf(v) = IdsOf(windowWindow)
        /\ \A a, b : Ahead(windowWindow, a, b) => Ahead(v, a, b)
        /\ h \in TabsOf(v) /\ TabsOf(v) \subseteq TabsOf(windowWindow) \cup {h}
        /\ TabsOf(windowWindow) \subseteq TabsOf(v) \cup {windowWindow[k]}
    <3>1. h.id = windowWindow[k].id
      BY <2>4 DEF t
    <3> QED BY <1>3, <2>4, <2>6, <3>1, AlteredOne
  <2>8. /\ AWindow(windowWindow') /\ IdsOf(windowWindow') = IdsOf(windowWindow)
        /\ \A a, b : Ahead(windowWindow, a, b) => Ahead(windowWindow', a, b)
        /\ h \in Here' /\ Here' \subseteq Here \cup {h} /\ Here \subseteq Here' \cup {t}
    BY <2>5, <2>6, <2>7 DEF Here, t
  <2>9. Taken' = Taken
    BY <1>4, <1>6, <2>8 DEF Taken
  <2>10. WindowShape'
    <3>1. \A u \in Here' : u.id > LastTabId => u.url # "blank"
      BY <1>2, <2>3, <2>4, <2>8 DEF WindowShape
    <3> QED BY <1>0, <1>2, <1>6, <2>8, <2>9, <3>1 DEF WindowShape
  <2>11. h.id \notin ToClose \/ windowTouched # {}
    <3>1. t.id \in Clicked => windowTouched # {}
      BY DEF Clicked, Browser!Touched
    <3> QED BY <1>a, <2>2, <2>3, <2>4, <3>1
  <2>12. \A u \in Here' : u \in Here \/ (u = h /\ u.group = t.group /\ u.id = t.id)
    BY <2>4, <2>8
  <2>13. {a.id : a \in windowMade'} \subseteq {a.id : a \in windowMade} \cup ({h.id} \ Taken)
    BY <1>6
  <2>14. \A n \in Here : n \in Here' \/ (n.id = h.id /\ (n.url = "home" \/ n.id \in Clicked))
    BY <2>2, <2>4, <2>8
  <2>15. h.url = "home" \/ h.id \in Clicked
    BY <2>2, <2>4
  <2> QED BY <2>15, <1>0, <1>6, <2>3, <2>4, <2>8, <2>10, <2>11, <2>12, <2>13, <2>14, HomesIn
<1>7. CASE /\ windowWindow' = <<x>> \o windowWindow
           /\ windowMade' = windowMade \cup {[id |-> new, urls |-> {"home"}]}
  <2>1. new \in Nat /\ new > LastTabId /\ (\A id \in Taken : id < new) /\ new # 0
    BY <1>2, FreshIs, IdsAreNumbers DEF new
  <2>2. new \notin Taken
    BY <1>2, <2>1 DEF WindowShape
  <2>3. x \in WindowTab /\ x.id = new /\ x.url = "home" /\ x.group = 0 /\ x.pinned = TRUE
    BY <2>1 DEF WindowTab, AnyUrl, Browser!Tab, x
  <2>4. /\ AWindow(windowWindow') /\ Here' = Here \cup {x}
        /\ \A a, b : Ahead(windowWindow, a, b) => Ahead(windowWindow', a, b)
    <3>1. AWindow(<<x>>) /\ TabsOf(<<x>>) = {x} /\ IdsOf(<<x>>) = {x.id}
      BY <2>3, OneTab
    <3>2. IdsOf(<<x>>) \cap IdsOf(windowWindow) = {}
      BY <2>2, <2>3, <3>1 DEF Taken
    <3>3. /\ AWindow(<<x>> \o windowWindow)
          /\ TabsOf(<<x>> \o windowWindow) = TabsOf(<<x>>) \cup TabsOf(windowWindow)
          /\ \A a, b : Ahead(windowWindow, a, b) => Ahead(<<x>> \o windowWindow, a, b)
      BY <1>3, <3>1, <3>2, Joined
    <3> QED BY <1>7, <3>1, <3>3 DEF Here
  <2>5. {a.id : a \in windowMade'} = {a.id : a \in windowMade} \cup {new}
    <3> DEFINE z == [id |-> new, urls |-> {"home"}]
    <3>1. windowMade' = windowMade \cup {z} /\ z.id = new
      BY <1>7
    <3> HIDE DEF z
    <3> QED BY <3>1
  <2>6. Taken' = Taken \cup {new}
    BY <1>4, <1>5, <2>3, <2>4, <2>5 DEF Taken
  <2>7. WindowShape'
    <3>1. Taken' \subseteq Nat /\ \A id \in Taken' : id <= new
      BY <1>2, <2>1, <2>6 DEF WindowShape
    <3>2. \A u \in Here' : u.id > LastTabId => u.url # "blank"
      BY <1>2, <2>3, <2>4 DEF WindowShape
    <3>3. \A a \in windowMade' : a.id > LastTabId
      BY <1>2, <1>7, <2>1 DEF WindowShape
    <3> QED BY <1>0, <1>2, <2>1, <2>4, <3>1, <3>2, <3>3 DEF WindowShape
  <2>8. new \notin ToClose
    BY <1>2, <1>5, <2>2 DEF CloseFits, ToClose, Taken
  <2>9. x.id \in {x.id} \ Taken /\ windowMade \subseteq windowMade' /\ x \in Here'
    BY <1>7, <2>2, <2>3, <2>4
  <2>10. {a.id : a \in windowMade'} \subseteq {a.id : a \in windowMade} \cup ({x.id} \ Taken)
    BY <2>3, <2>5, <2>9
  <2> QED BY <1>0, <2>3, <2>4, <2>7, <2>8, <2>9, <2>10, HomesIn
<1> QED BY <1>1, <1>5a, <1>6, <1>7

(* A step that closes tabs and spends no click of the user gives no ids.    *)
LEMMA Leaves ==
    ASSUME WindowInv, NEW S, windowWindow' = Browser!Without(S), windowMade' = windowMade, windowTouched' = windowTouched,
           windowLeft' = [user |-> windowLeft'.user, faults |-> windowLeft'.faults] /\ windowLeft'.user \in Nat
    PROVE  /\ WindowShape' /\ Clicked' = Clicked
           /\ Here' = {u \in Here : u.id \notin S}
           /\ IdsOf(windowWindow') = {id \in IdsOf(windowWindow) : id \notin S}
           /\ \A a, b : a \notin S /\ b \notin S /\ Ahead(windowWindow, a, b) => Ahead(windowWindow', a, b)
<1>1. WindowShape
  BY DEF WindowInv
<1>2. Clicked' = Clicked
  BY DEF Clicked, Browser!Touched
<1>3. /\ AWindow(windowWindow') /\ Here' = {u \in Here : u.id \notin S}
      /\ \A a, b : a \notin S /\ b \notin S /\ Ahead(windowWindow, a, b) => Ahead(windowWindow', a, b)
  BY <1>1, Without DEF WindowShape
<1>4. IdsOf(windowWindow) = {u.id : u \in Here} /\ IdsOf(windowWindow') = {u.id : u \in Here'}
  BY WindowSets DEF Here
<1>5. IdsOf(windowWindow') = {id \in IdsOf(windowWindow) : id \notin S}
  BY <1>3, <1>4
<1>6. Taken' \subseteq Taken
  BY <1>2, <1>5 DEF Taken
<1>7. WindowShape'
  <2>1. Taken' \subseteq Nat /\ \E b \in Nat : \A id \in Taken' : id <= b
    BY <1>1, <1>6 DEF WindowShape
  <2> QED BY <1>1, <1>3, <2>1 DEF WindowShape
<1> QED BY <1>2, <1>3, <1>5, <1>7

LEMMA CloseKeeps == WindowInv /\ Browser!Close => WindowInv' /\ PagesStayNow
<1> SUFFICES ASSUME WindowInv, Browser!Close PROVE WindowInv' /\ PagesStayNow
  OBVIOUS
<1>0. /\ windowPc = "close" /\ windowPc' = "group" /\ windowWindow' = Browser!Without(windowSeen)
      /\ windowPlan' = windowPlan /\ windowMade' = windowMade /\ windowSeen' = windowSeen
      /\ windowTouched' = windowTouched /\ windowBroken' = windowBroken /\ windowLeft' = windowLeft
  BY DEF Browser!Close, Browser!Go
<1>1. PlanShape /\ ShowsTarget /\ GroupsFit /\ HomeStays /\ Verified /\ InOrder /\ WindowShape
  BY <1>0, InPlan
<1>2. /\ WindowShape' /\ Clicked' = Clicked
      /\ Here' = {u \in Here : u.id \notin windowSeen}
      /\ IdsOf(windowWindow') = {id \in IdsOf(windowWindow) : id \notin windowSeen}
      /\ \A a, b : a \notin windowSeen /\ b \notin windowSeen /\ Ahead(windowWindow, a, b) => Ahead(windowWindow', a, b)
  BY <1>0, <1>1, Leaves DEF WindowShape
<1>3. ~Preparing /\ ~Preparing' /\ Going /\ Going' /\ TheShown' = TheShown /\ ToClose' = ToClose
  BY <1>0 DEF Preparing, Going, TheShown, ToClose
<1>4. windowSeen \subseteq ToClose /\ TheShown \cap windowSeen = {}
  BY <1>0, <1>1 DEF Verified, PlanShape
<1>5. PlanShape'
  BY <1>0, <1>1, <1>3 DEF PlanShape
<1>6. SourceThere' /\ CloseFits'
  BY <1>0, <1>1, <1>3 DEF SourceThere, CloseFits, PlanShape
<1>7. ShowsTarget'
  <2>1. TheShown \subseteq IdsOf(windowWindow') \cup Clicked
    BY <1>1, <1>2, <1>3, <1>4 DEF ShowsTarget
  <2>2. \A i \in DOMAIN windowPlan.shows : windowPlan.shows[i] \in TheShown \ Clicked =>
          \E t \in Here' : t.id = windowPlan.shows[i] /\ ~t.pinned /\ t.url \in {windowPlan.target[i].url, "placeholder"}
    BY <1>1, <1>2, <1>3, <1>4 DEF ShowsTarget
  <2>3. \A i \in DOMAIN windowPlan.shows : windowPlan.shows[i] # 0
    BY <1>0, <1>1, <1>3 DEF ShowsTarget
  <2> QED BY <1>0, <1>2, <1>3, <2>1, <2>2, <2>3 DEF ShowsTarget
<1>8. GroupsFit'
  BY <1>0, <1>1, <1>2 DEF GroupsFit
<1>9. HomeStays'
  BY <1>0, <1>1, <1>2, <1>3, <1>4 DEF HomeStays
<1>10. Verified'
  BY <1>0, <1>1, <1>2, <1>3 DEF Verified
<1>11. InOrder'
  <2> SUFFICES ASSUME NEW i \in DOMAIN windowPlan.shows, NEW j \in DOMAIN windowPlan.shows, i < j,
                      windowPlan.target[i].url = windowPlan.target[j].url, windowPlan.shows[j] # 0
               PROVE  /\ windowPlan.shows[i] # 0
                      /\ \/ windowPlan.shows[i] \in Clicked \/ windowPlan.shows[j] \in Clicked
                         \/ Ahead(windowWindow', windowPlan.shows[i], windowPlan.shows[j])
    BY <1>0, <1>2 DEF InOrder
  <2>1. /\ windowPlan.shows[i] # 0
        /\ \/ windowPlan.shows[i] \in Clicked \/ windowPlan.shows[j] \in Clicked
           \/ Ahead(windowWindow, windowPlan.shows[i], windowPlan.shows[j])
    BY <1>1, <1>3 DEF InOrder
  <2>2. windowPlan.shows[i] \in TheShown /\ windowPlan.shows[j] \in TheShown
    BY <2>1 DEF TheShown
  <2> QED BY <1>2, <1>4, <2>1, <2>2
<1>12. PagesStayNow
  <2> SUFFICES ASSUME NEW t \in Here, t.id \notin IdsOf(windowWindow')
               PROVE  \E d \in windowPlan.close : d.id = t.id /\ (d.force \/ d.url = t.url \/ <<t.id, "close">> \in windowTouched)
    BY WindowSets DEF PagesStayNow, Here
  <2>1. t.id \in windowSeen
    BY <1>2, WindowSets DEF Here
  <2> QED BY <1>0, <1>1, <2>1 DEF Verified
<1> QED BY <1>0, <1>2, <1>5, <1>6, <1>7, <1>8, <1>9, <1>10, <1>11, <1>12 DEF WindowInv

LEMMA CloseSomeKeeps == WindowInv /\ Browser!CloseSome => WindowInv' /\ PagesStayNow
<1> SUFFICES ASSUME WindowInv, Browser!CloseSome PROVE WindowInv' /\ PagesStayNow
  OBVIOUS
<1>0. /\ windowPc = "close" /\ windowPc' = "rollback" /\ windowPlan' = windowPlan /\ windowMade' = windowMade
      /\ windowSeen' = windowSeen /\ windowTouched' = windowTouched /\ Browser!Fault
  BY DEF Browser!CloseSome, Browser!Go
<1>1. PICK S \in SUBSET windowSeen : windowWindow' = Browser!Without(S)
  BY DEF Browser!CloseSome
<1>2. PlanShape /\ Verified /\ WindowShape
  BY <1>0, InPlan
<1>3. /\ WindowShape' /\ Here' = {u \in Here : u.id \notin S}
      /\ IdsOf(windowWindow') = {id \in IdsOf(windowWindow) : id \notin S}
  BY <1>0, <1>1, <1>2, FaultSpends, Leaves
<1>4. windowPlan.committed
  BY <1>0, <1>2 DEF PlanShape
<1>5. PagesStayNow
  <2> SUFFICES ASSUME NEW t \in Here, t.id \notin IdsOf(windowWindow')
               PROVE  \E d \in windowPlan.close : d.id = t.id /\ (d.force \/ d.url = t.url \/ <<t.id, "close">> \in windowTouched)
    BY WindowSets DEF PagesStayNow, Here
  <2>1. t.id \in windowSeen
    BY <1>3, WindowSets DEF Here
  <2> QED BY <1>0, <1>2, <2>1 DEF Verified
<1> QED BY <1>0, <1>3, <1>4, <1>5, GivesUp

(* The rollback closes only tabs that the switch made, and of these those   *)
(* that showed their page when they were asked about.                       *)
LEMMA VerifyMadeKeeps == WindowInv /\ Browser!VerifyMade => WindowInv' /\ PagesStayNow
<1> SUFFICES ASSUME WindowInv, Browser!VerifyMade PROVE WindowInv' /\ PagesStayNow
  OBVIOUS
<1>0. /\ windowPc = "rollback" /\ windowPc' = "unmake" /\ windowPlan' = windowPlan /\ windowMade' = windowMade
      /\ windowSeen' = Browser!Owned /\ windowTouched' = windowTouched /\ windowBroken' = windowBroken
      /\ windowLeft' = windowLeft /\ windowWindow' = windowWindow
  BY DEF Browser!VerifyMade, Browser!Go
<1>1. PlanShape /\ SourceThere /\ WindowShape
  BY <1>0, InPlan
<1>2. Here' = Here /\ Clicked' = Clicked /\ Taken' = Taken /\ PagesStayNow
  BY <1>0, NothingMoves
<1>3. WindowShape'
  BY <1>0, <1>1, <1>2 DEF WindowShape
<1>4. TheShown' = TheShown /\ ToClose' = ToClose /\ ~Preparing' /\ ~Going'
  BY <1>0 DEF TheShown, ToClose, Preparing, Going
<1>5. PlanShape'
  BY <1>0, <1>1, <1>4 DEF PlanShape
<1>6. SourceThere'
  BY <1>0, <1>1, <1>2 DEF SourceThere
<1>7. Verified'
  <2>1. \A id \in windowSeen' : \E a \in windowMade : a.id = id /\ Browser!TabOf(id).url \in a.urls \cup {"blank"}
    BY <1>0 DEF Browser!Owned
  <2>2. \A t \in Here : t.id \in windowSeen' => \E a \in windowMade : a.id = t.id /\ t.url \in a.urls
    <3> TAKE t \in Here
    <3> HAVE t.id \in windowSeen'
    <3>1. PICK a \in windowMade : a.id = t.id /\ Browser!TabOf(t.id).url \in a.urls \cup {"blank"}
      BY <2>1
    <3>2. Browser!TabOf(t.id) = t
      BY <1>1, TabOfIs
    <3>3. t.url # "blank"
      BY <1>1, <3>1 DEF WindowShape
    <3> QED BY <3>1, <3>2, <3>3
  <2> QED BY <1>0, <1>2, <2>1, <2>2 DEF Verified
<1>8. CloseFits' /\ ShowsTarget' /\ GroupsFit' /\ HomeStays' /\ InOrder'
  BY <1>0, <1>4 DEF CloseFits, ShowsTarget, GroupsFit, HomeStays, InOrder
<1> QED BY <1>0, <1>2, <1>3, <1>5, <1>6, <1>7, <1>8 DEF WindowInv

LEMMA Unmakes ==
    ASSUME WindowInv, windowPc = "unmake", windowPc' = "restore", windowPlan' = windowPlan, windowMade' = windowMade,
           windowTouched' = windowTouched, NEW S \in SUBSET windowSeen, windowWindow' = Browser!Without(S),
           windowLeft' = [user |-> windowLeft'.user, faults |-> windowLeft'.faults] /\ windowLeft'.user \in Nat
    PROVE  WindowInv' /\ PagesStayNow
<1>1. PlanShape /\ SourceThere /\ Verified /\ WindowShape
  BY InPlan
<1>2. /\ WindowShape' /\ Clicked' = Clicked /\ Here' = {u \in Here : u.id \notin S}
      /\ IdsOf(windowWindow') = {id \in IdsOf(windowWindow) : id \notin S}
  BY Leaves
<1>3. /\ S \subseteq {a.id : a \in windowMade}
      /\ \A t \in Here : t.id \in S =>
           \E a \in windowMade : a.id = t.id /\ (t.url \in a.urls \/ <<t.id, "unmake">> \in windowTouched)
  BY <1>1 DEF Verified
<1>5. TheShown' = TheShown /\ ToClose' = ToClose /\ ~Preparing' /\ ~Going'
  BY DEF TheShown, ToClose, Preparing, Going
<1>6. PlanShape'
  BY <1>1, <1>5 DEF PlanShape
<1>7. SourceThere'
  <2>1. \A s \in TabsOf(windowPlan.source) : s.id \notin S
    BY <1>1, <1>3 DEF PlanShape
  <2> QED BY <1>1, <1>2, <2>1 DEF SourceThere
<1>8. CloseFits' /\ ShowsTarget' /\ GroupsFit' /\ HomeStays' /\ Verified' /\ InOrder'
  BY <1>5 DEF CloseFits, ShowsTarget, GroupsFit, HomeStays, Verified, InOrder
<1>9. PagesStayNow
  <2>1. \A t \in Here : t.id \notin IdsOf(windowWindow') => t.id \in S
    BY <1>2, WindowSets DEF Here
  <2>2. \A t \in Here : t.id \notin IdsOf(windowWindow') =>
          \E a \in windowMade : a.id = t.id /\ (t.url \in a.urls \/ <<t.id, "unmake">> \in windowTouched)
    BY <1>3, <2>1
  <2> QED BY <2>2, WindowSets DEF PagesStayNow, Here
<1> QED BY <1>2, <1>6, <1>7, <1>8, <1>9 DEF WindowInv

LEMMA RollbackKeeps == WindowInv /\ (Browser!Rollback \/ Browser!RollbackFails) => WindowInv' /\ PagesStayNow
<1> SUFFICES ASSUME WindowInv, Browser!Rollback \/ Browser!RollbackFails PROVE WindowInv' /\ PagesStayNow
  OBVIOUS
<1>1. WindowShape
  BY DEF WindowInv
<1>2. CASE Browser!Rollback
  <2>1. /\ windowPc = "unmake" /\ windowPc' = "restore" /\ windowPlan' = windowPlan /\ windowMade' = windowMade
        /\ windowTouched' = windowTouched /\ windowLeft' = windowLeft /\ windowWindow' = Browser!Without(windowSeen)
    BY <1>2 DEF Browser!Rollback, Browser!Go
  <2>2. windowLeft' = [user |-> windowLeft'.user, faults |-> windowLeft'.faults] /\ windowLeft'.user \in Nat
    BY <1>1, <2>1 DEF WindowShape
  <2>3. windowSeen \in SUBSET windowSeen
    OBVIOUS
  <2> QED BY <2>1, <2>2, <2>3, Unmakes
<1>3. CASE Browser!RollbackFails
  <2>1. /\ windowPc = "unmake" /\ windowPc' = "restore" /\ windowPlan' = windowPlan /\ windowMade' = windowMade
        /\ windowTouched' = windowTouched /\ Browser!Fault
    BY <1>3 DEF Browser!RollbackFails, Browser!Go
  <2>2. PICK S \in SUBSET windowSeen : windowWindow' = Browser!Without(S)
    BY <1>3 DEF Browser!RollbackFails
  <2> QED BY <1>1, <2>1, <2>2, FaultSpends, Unmakes
<1> QED BY <1>2, <1>3

LEMMA GroupKeeps == WindowInv /\ Browser!Group => WindowInv' /\ PagesStayNow
<1> SUFFICES ASSUME WindowInv, Browser!Group PROVE WindowInv' /\ PagesStayNow
  OBVIOUS
<1>0. /\ windowPc = "group" /\ windowPc' = "done" /\ windowPlan' = windowPlan /\ windowMade' = windowMade
      /\ windowSeen' = windowSeen /\ windowTouched' = windowTouched /\ windowBroken' = windowBroken
      /\ windowLeft' = windowLeft
      /\ windowWindow' = [k \in DOMAIN windowWindow |->
                            [windowWindow[k] EXCEPT !.group = Browser!NewGroup(windowWindow[k])]]
  BY DEF Browser!Group, Browser!Go
<1>1. PlanShape /\ ShowsTarget /\ GroupsFit /\ HomeStays /\ Verified /\ InOrder /\ WindowShape
  BY <1>0, InPlan
<1>2. /\ windowPlan.target \in Seq(Target) /\ windowPlan.shows \in Seq(Nat)
      /\ DOMAIN windowPlan.shows = DOMAIN windowPlan.target
      /\ \A i, j \in DOMAIN windowPlan.shows :
           i # j => windowPlan.shows[i] = 0 \/ windowPlan.shows[i] # windowPlan.shows[j]
  BY <1>1 DEF PlanShape
<1>3. \A i \in DOMAIN windowPlan.target : /\ windowPlan.target[i].group \in GroupKeys \cup {None}
                                          /\ windowPlan.shows[i] \in Nat \ {0}
  <2>1. \A i \in DOMAIN windowPlan.target : windowPlan.target[i] \in Target
    BY <1>2, ElementOfSeq
  <2>2. \A i \in DOMAIN windowPlan.shows : windowPlan.shows[i] \in Nat
    BY <1>2, ElementOfSeq
  <2>3. \A i \in DOMAIN windowPlan.shows : windowPlan.shows[i] # 0
    BY <1>0, <1>1 DEF ShowsTarget, Going
  <2> QED BY <1>2, <2>1, <2>2, <2>3 DEF Target
<1>4. \A k, id : id \in Browser!OfKey(k) <=>
        \E i \in DOMAIN windowPlan.target : windowPlan.target[i].group = k /\ id = windowPlan.shows[i]
  BY DEF Browser!OfKey
<1>5. \A k : Browser!OfKey(k) \subseteq Nat
  BY <1>3, <1>4
<1>6. \A k, l, id : id \in Browser!OfKey(k) /\ id \in Browser!OfKey(l) => k = l
  BY <1>2, <1>3, <1>4
<1>7. \A t \in Here : Browser!NewGroup(t) \in Nat
  <2> TAKE t \in Here
  <2>1. t.group \in Nat
    BY <1>1, TabTypes DEF Here, WindowShape, WindowTab
  <2>2. CASE \E k \in GroupKeys : t.id \in Browser!OfKey(k)
    <3> DEFINE k == CHOOSE k \in GroupKeys : t.id \in Browser!OfKey(k)
    <3>1. t.id \in Browser!OfKey(k)
      BY <2>2
    <3>2. Browser!NewGroup(t) = Browser!Min(Browser!OfKey(k))
      BY <2>2 DEF Browser!NewGroup
    <3> HIDE DEF k
    <3> QED BY <1>5, <3>1, <3>2, First
  <2>3. CASE ~\E k \in GroupKeys : t.id \in Browser!OfKey(k)
    BY <2>1, <2>3 DEF Browser!NewGroup
  <2> QED BY <2>2, <2>3
<1>8. \A t \in Here, i \in DOMAIN windowPlan.shows : t.id = windowPlan.shows[i] =>
        Browser!NewGroup(t) = KeyGroup(windowPlan.target[i].group)
  <2> SUFFICES ASSUME NEW t \in Here, NEW i \in DOMAIN windowPlan.shows, t.id = windowPlan.shows[i]
               PROVE  Browser!NewGroup(t) = KeyGroup(windowPlan.target[i].group)
    OBVIOUS
  <2> DEFINE g == windowPlan.target[i].group
  <2>1. t.id \in Browser!OfKey(g) /\ g \in GroupKeys \cup {None}
    BY <1>2, <1>3, <1>4
  <2> HIDE DEF g
  <2>2. CASE g = None
    <3>1. ~\E k \in GroupKeys : t.id \in Browser!OfKey(k)
      BY <1>6, <2>1, <2>2, WindowsKnown
    <3>2. t.group # 0 => t.id \in windowPlan.ungroup
      BY <1>0, <1>1 DEF GroupsFit
    <3>3. Browser!NewGroup(t) = 0
      BY <2>1, <2>2, <3>1, <3>2 DEF Browser!NewGroup
    <3> QED BY <2>2, <3>3 DEF KeyGroup, g
  <2>3. CASE g # None
    <3>1. g \in GroupKeys
      BY <2>1, <2>3
    <3>2. (CHOOSE k \in GroupKeys : t.id \in Browser!OfKey(k)) = g
      BY <1>6, <2>1, <3>1
    <3>3. Browser!NewGroup(t) = Browser!Min(Browser!OfKey(g))
      BY <2>1, <3>1, <3>2 DEF Browser!NewGroup
    <3> QED BY <2>3, <3>3 DEF KeyGroup, g
  <2> QED BY <2>2, <2>3
<1> DEFINE grouped(t) == [t EXCEPT !.group = Browser!NewGroup(t)]
<1>9. \A t \in Here : /\ grouped(t) \in WindowTab /\ grouped(t).id = t.id /\ grouped(t).url = t.url
                      /\ grouped(t).pinned = t.pinned /\ grouped(t).group = Browser!NewGroup(t)
  <2> TAKE t \in Here
  <2>1. t \in WindowTab
    BY <1>1, TabTypes DEF Here, WindowShape
  <2> QED BY <1>7, <2>1 DEF WindowTab
<1>10. windowWindow' = [k \in DOMAIN windowWindow |-> grouped(windowWindow[k])]
  BY <1>0
<1> HIDE DEF grouped
<1>11. \A k \in DOMAIN windowWindow : windowWindow[k] \in Here
  BY DEF Here, TabsOf
<1>12. AWindow(windowWindow) /\ windowWindow \in Seq(WindowTab) /\ DOMAIN windowWindow = 1 .. Len(windowWindow) /\ Len(windowWindow) \in Nat
  BY <1>1 DEF WindowShape, AWindow
<1>13. /\ AWindow(windowWindow') /\ IdsOf(windowWindow') = IdsOf(windowWindow)
       /\ \A a, b : Ahead(windowWindow, a, b) => Ahead(windowWindow', a, b)
  <2>1. windowWindow' \in Seq(WindowTab)
    <3>1. \A k \in 1 .. Len(windowWindow) : grouped(windowWindow[k]) \in WindowTab
      BY <1>9, <1>11, <1>12
    <3> QED BY <1>10, <1>12, <3>1, IsASeq
  <2>2. DOMAIN windowWindow' = DOMAIN windowWindow /\ \A k \in DOMAIN windowWindow : windowWindow'[k].id = windowWindow[k].id
    BY <1>9, <1>10, <1>11
  <2>3. PICK v : v = windowWindow'
    OBVIOUS
  <2>4. /\ AWindow(v) /\ IdsOf(v) = IdsOf(windowWindow)
        /\ \A a, b : Ahead(windowWindow, a, b) => Ahead(v, a, b)
    BY <1>12, <2>1, <2>2, <2>3, Altered
  <2> QED BY <2>3, <2>4
<1>14. Here' = {grouped(t) : t \in Here}
  BY <1>10 DEF Here, TabsOf
<1>15. Clicked' = Clicked /\ Taken' = Taken
  BY <1>0, <1>13 DEF Clicked, Browser!Touched, Taken
<1>16. WindowShape'
  BY <1>0, <1>1, <1>9, <1>13, <1>14, <1>15 DEF WindowShape
<1>17. ~Preparing /\ ~Preparing' /\ Going /\ Going' /\ TheShown' = TheShown /\ ToClose' = ToClose
  BY <1>0 DEF Preparing, Going, TheShown, ToClose
<1>18. PlanShape'
  BY <1>0, <1>1, <1>17 DEF PlanShape
<1>19. SourceThere' /\ CloseFits'
  BY <1>0, <1>1, <1>17 DEF SourceThere, CloseFits, PlanShape
<1>20. ShowsTarget'
  <2>1. TheShown \subseteq IdsOf(windowWindow') \cup Clicked
    BY <1>1, <1>13, <1>17 DEF ShowsTarget
  <2>2. \A i \in DOMAIN windowPlan.shows : windowPlan.shows[i] \in TheShown \ Clicked =>
          \E t \in Here' : t.id = windowPlan.shows[i] /\ ~t.pinned /\ t.url \in {windowPlan.target[i].url, "placeholder"}
    BY <1>1, <1>9, <1>14, <1>17 DEF ShowsTarget
  <2> QED BY <1>0, <1>2, <1>3, <1>15, <1>17, <2>1, <2>2 DEF ShowsTarget
<1>21. GroupsFit'
  <2>1. \A k : KeyGroup(k)' = KeyGroup(k)
    BY <1>0 DEF KeyGroup, Browser!OfKey
  <2>2. \A i \in DOMAIN windowPlan.shows : \A t \in Here' :
          t.id = windowPlan.shows[i] => t.group = KeyGroup(windowPlan.target[i].group)
    BY <1>8, <1>9, <1>14
  <2> QED BY <1>0, <1>17, <2>1, <2>2 DEF GroupsFit
<1>22. HomeStays'
  <2> SUFFICES ASSUME windowTouched = {} PROVE \E u \in Here' : u.url = "home" /\ u.pinned /\ u.id \notin ToClose
    BY <1>0, <1>17 DEF HomeStays
  <2>1. PICK t \in Here : t.url = "home" /\ t.pinned /\ t.id \notin ToClose
    BY <1>0, <1>1 DEF HomeStays
  <2>2. grouped(t) \in Here'
    BY <1>14
  <2> QED BY <1>9, <2>1, <2>2
<1>23. Verified'
  <2>1. \A t \in Here : ListedTab(grouped(t)) => ListedTab(t)
    BY <1>9 DEF ListedTab
  <2>2. ~windowBroken => \A u \in Here' : ListedTab(u) => u.id \in Clicked \cup TheShown
    BY <1>0, <1>1, <1>9, <1>14, <2>1 DEF Verified
  <2> QED BY <1>0, <1>15, <1>17, <2>2 DEF Verified
<1>24. InOrder'
  BY <1>0, <1>1, <1>13, <1>15, <1>17 DEF InOrder
<1>25. PagesStayNow
  BY <1>13, NoneGoes, WindowSets
<1> QED BY <1>0, <1>16, <1>18, <1>19, <1>20, <1>21, <1>22, <1>23, <1>24, <1>25 DEF WindowInv

-----------------------------------------------------------------------------
(* How often a page is shown.                                               *)
Showing(s, url) == {i \in DOMAIN s : s[i].url = url /\ ~s[i].pinned}

LEMMA CountIs == \A s, url : Browser!Count(s, url) = Cardinality(Showing(s, url))
  BY DEF Browser!Count, Showing, Browser!Cardinality, Cardinality

LEMMA Counted ==
    ASSUME NEW T, NEW s \in Seq(T), NEW url
    PROVE  IsFiniteSet(Showing(s, url)) /\ Cardinality(Showing(s, url)) \in Nat /\ Cardinality(Showing(s, url)) <= Len(s)
<1>1. DOMAIN s = 1 .. Len(s) /\ Len(s) \in Nat
  OBVIOUS
<1>2. IsFiniteSet(1 .. Len(s)) /\ Cardinality(1 .. Len(s)) = Len(s)
  BY <1>1, FS_Interval
<1>3. Showing(s, url) \in SUBSET (1 .. Len(s))
  BY <1>1 DEF Showing
<1> QED BY <1>2, <1>3, FS_Subset, FS_CardinalityType

(* A window that has every tab of another has it at least as often.         *)
LEMMA CountsUpTo ==
    ASSUME NEW v, AWindow(v), NEW w \in Seq(WindowTab), NEW url,
           \A t \in TabsOf(v) : t.url = url /\ ~t.pinned =>
              \E u \in TabsOf(w) : u.id = t.id /\ u.url = url /\ ~u.pinned
    PROVE  Cardinality(Showing(v, url)) <= Cardinality(Showing(w, url))
<1> DEFINE S == Showing(v, url)
           T == Showing(w, url)
           f == [n \in S |-> CHOOSE i \in T : w[i].id = v[n].id]
<1>1. \A n \in S : \E i \in T : w[i].id = v[n].id
  BY DEF Showing, TabsOf
<1>2. \A n \in S : f[n] \in T /\ w[f[n]].id = v[n].id
  BY <1>1
<1>3. f \in [S -> T]
  BY <1>2
<1>4. \A n, m \in S : f[n] = f[m] => n = m
  <2> TAKE n \in S, m \in S
  <2> HAVE f[n] = f[m]
  <2>1. v[n].id = v[m].id
    BY <1>2
  <2> QED BY <2>1 DEF AWindow, Apart, Showing
<1> HIDE DEF f
<1>5. f \in Injection(S, T)
  BY <1>3, <1>4 DEF Injection, IsInjective
<1>6. IsFiniteSet(T)
  BY Counted
<1> QED BY <1>5, <1>6, FS_Injection

(* The pages that are missing, each as often as it is missing.              *)
Losses == {c \in Pages \X (1 .. Len(windowPlan.source)) :
             windowPlan.committed /\ c[2] > Browser!Count(windowWindow, c[1]) /\ c[2] <= Browser!Count(windowPlan.source, c[1])}

LEMMA LostIs ==
    ASSUME PlanShape
    PROVE  /\ Browser!Lost \in Seq(Losses) /\ DOMAIN Browser!Lost = 1 .. Len(Browser!Lost) /\ Len(Browser!Lost) \in Nat
           /\ \A n \in DOMAIN Browser!Lost : Browser!Lost[n] \in Losses
           /\ \A c \in Losses : \E n \in DOMAIN Browser!Lost : Browser!Lost[n] = c
<1> DEFINE pages == {windowPlan.source[i].url : i \in DOMAIN windowPlan.source}
           places == 1 .. Len(windowPlan.source)
<1>1. windowPlan.source \in Seq(WindowTab) /\ DOMAIN windowPlan.source = places /\ Len(windowPlan.source) \in Nat
  BY DEF PlanShape
<1>2. IsFiniteSet(places)
  BY <1>1, FS_Interval
<1>3. IsFiniteSet(pages)
  <2> DEFINE f == [i \in places |-> windowPlan.source[i].url]
  <2>1. f \in Surjection(places, pages)
    BY <1>1 DEF Surjection
  <2> HIDE DEF f, pages, places
  <2> QED BY <1>2, <2>1, FS_Surjection
<1>4. Losses \in SUBSET (pages \X places)
  <2> SUFFICES ASSUME NEW c \in Losses PROVE c \in pages \X places
    OBVIOUS
  <2>1. c \in Pages \X places /\ c[2] <= Cardinality(Showing(windowPlan.source, c[1]))
    BY CountIs DEF Losses
  <2>2. Showing(windowPlan.source, c[1]) # {}
    <3>1. Showing(windowPlan.source, c[1]) = {} => Cardinality(Showing(windowPlan.source, c[1])) = 0
      BY FS_EmptySet
    <3>2. c[2] \in places
      BY <2>1
    <3>3. c[2] \in Nat /\ ~(c[2] <= 0)
      BY <1>1, <3>2
    <3> QED BY <2>1, <3>1, <3>3
  <2>3. c[1] \in pages
    BY <2>2 DEF Showing
  <2> HIDE DEF pages, places
  <2> QED BY <2>1, <2>3
<1> HIDE DEF pages, places
<1>5. IsFiniteSet(Losses)
  <2>1. IsFiniteSet(pages \X places)
    BY <1>2, <1>3, FS_Product
  <2> QED BY <1>4, <2>1, FS_Subset
<1> DEFINE size == Cardinality(Losses)
<1>6. size \in Nat /\ ExistsBijection(1 .. size, Losses)
  BY <1>5, FS_CardinalityType
<1>7. Browser!Lost = CHOOSE f \in [1 .. size -> Losses] : \A a, b \in DOMAIN f : f[a] = f[b] => a = b
  BY DEF Browser!Lost, Losses, Browser!SetToSeq, Browser!IsInjective, Browser!Cardinality, Cardinality
<1>8. \E f \in [1 .. size -> Losses] : \A a, b \in DOMAIN f : f[a] = f[b] => a = b
  <2>1. PICK f : f \in Bijection(1 .. size, Losses)
    BY <1>6 DEF ExistsBijection
  <2> QED BY <2>1 DEF Bijection, Injection, IsInjective
<1>9. PICK lost : lost = Browser!Lost
  OBVIOUS
<1>10. lost \in [1 .. size -> Losses] /\ \A a, b \in DOMAIN lost : lost[a] = lost[b] => a = b
  BY <1>7, <1>8, <1>9
<1> HIDE DEF size
<1>11. lost \in Injection(1 .. size, Losses)
  BY <1>10 DEF Injection, IsInjective
<1>12. Cardinality(1 .. size) = size
  BY <1>6, FS_Interval
<1>13. lost \in Surjection(1 .. size, Losses)
  BY <1>5, <1>11, <1>12, FS_Injection DEF size
<1>14. \A c \in Losses : \E n \in 1 .. size : lost[n] = c
  BY <1>13 DEF Surjection
<1>15. lost \in Seq(Losses) /\ Len(lost) = size /\ DOMAIN lost = 1 .. size
  <2>1. lost = [n \in 1 .. size |-> lost[n]] /\ \A n \in 1 .. size : lost[n] \in Losses
    BY <1>10
  <2>2. lost \in Seq(Losses)
    BY <1>6, <2>1, IsASeq
  <2> QED BY <1>6, <1>10, <2>2
<1> QED BY <1>6, <1>9, <1>10, <1>14, <1>15

(* The tabs that are opened for them.                                       *)
Reopened(n) == [m \in 1 .. n |-> Browser!Tab(Browser!Fresh + m, Browser!Lost[m][1], TRUE, FALSE, 0)]

LEMMA ReopenedAre ==
    ASSUME WindowShape, PlanShape, NEW n \in 0 .. Len(Browser!Lost), NEW more, more = Reopened(n)
    PROVE  /\ AWindow(more) /\ DOMAIN more = 1 .. n
           /\ IdsOf(windowWindow) \cap IdsOf(more) = {}
           /\ \A m \in 1 .. n : ~more[m].pinned /\ more[m].url = Browser!Lost[m][1] /\ more[m].url \in Pages
           /\ \A t \in TabsOf(more) : t.id \in Nat /\ t.url \in Pages /\ t.id <= Browser!Fresh + n
<1>1. /\ DOMAIN Browser!Lost = 1 .. Len(Browser!Lost) /\ Len(Browser!Lost) \in Nat
      /\ \A m \in DOMAIN Browser!Lost : Browser!Lost[m] \in Losses
  BY LostIs
<1>2. PICK base : base = Browser!Fresh
  OBVIOUS
<1>3. base \in Nat /\ base > LastTabId /\ \A id \in Taken : id < base
  BY <1>2, FreshIs
<1>4. n \in Nat /\ \A m \in 1 .. n : m \in DOMAIN Browser!Lost
  BY <1>1
<1>5. \A m \in 1 .. n : Browser!Lost[m][1] \in Pages
  BY <1>1, <1>4 DEF Losses
<1>6. more = [m \in 1 .. n |-> Browser!Tab(base + m, Browser!Lost[m][1], TRUE, FALSE, 0)]
  BY <1>2 DEF Reopened
<1>7. \A m \in 1 .. n : /\ more[m] \in WindowTab /\ more[m].id = base + m
                        /\ more[m].url = Browser!Lost[m][1] /\ more[m].pinned = FALSE
  <2> TAKE m \in 1 .. n
  <2>1. more[m] = Browser!Tab(base + m, Browser!Lost[m][1], TRUE, FALSE, 0)
    BY <1>6
  <2>2. base + m \in Nat \ {0}
    BY <1>3, <1>4
  <2> QED BY <1>5, <2>1, <2>2 DEF Browser!Tab, WindowTab, AnyUrl
<1>8. DOMAIN more = 1 .. n
  BY <1>6
<1>9. more \in Seq(WindowTab)
  <2>1. more = [m \in 1 .. n |-> more[m]]
    BY <1>6, <1>8
  <2> QED BY <1>4, <1>7, <2>1, IsASeq
<1>10. AWindow(more)
  BY <1>3, <1>4, <1>7, <1>8, <1>9 DEF AWindow, Apart
<1>11. IdsOf(windowWindow) \cap IdsOf(more) = {}
  <2>1. \A m \in 1 .. n : more[m].id \notin Taken
    <3> TAKE m \in 1 .. n
    <3>1. Taken \subseteq Nat
      BY DEF WindowShape
    <3>2. base + m > base /\ base + m \in Nat
      BY <1>3, <1>4
    <3>3. \A id \in Taken : id # base + m
      BY <1>3, <3>1, <3>2
    <3> QED BY <1>7, <3>3
  <2> QED BY <1>8, <2>1 DEF IdsOf, Taken
<1>12. \A m \in 1 .. n : more[m].id \in Nat /\ more[m].id <= base + n
  BY <1>3, <1>4, <1>7
<1>13. \A t \in TabsOf(more) : t.id \in Nat /\ t.url \in Pages /\ t.id <= base + n
  BY <1>5, <1>7, <1>8, <1>12 DEF TabsOf
<1> QED BY <1>2, <1>5, <1>7, <1>8, <1>10, <1>11, <1>13

LEMMA ReopensKeep ==
    ASSUME WindowInv, windowPc = "restore", windowPc' = "failed", windowPlan' = windowPlan, windowMade' = windowMade,
           windowTouched' = windowTouched,
           windowLeft' = [user |-> windowLeft'.user, faults |-> windowLeft'.faults] /\ windowLeft'.user \in Nat,
           NEW n \in 0 .. Len(Browser!Lost), windowWindow' = windowWindow \o Reopened(n),
           Browser!FailedSwitchKeepsSource'
    PROVE  WindowInv' /\ PagesStayNow
<1>1. PlanShape /\ SourceThere /\ WindowShape
  BY InPlan
<1>2. PICK more : more = Reopened(n)
  OBVIOUS
<1>3. /\ AWindow(more) /\ IdsOf(windowWindow) \cap IdsOf(more) = {}
      /\ \A t \in TabsOf(more) : t.id \in Nat /\ t.url \in Pages /\ t.id <= Browser!Fresh + n
  BY <1>1, <1>2, ReopenedAre
<1>4. AWindow(windowWindow') /\ Here' = Here \cup TabsOf(more)
  <2>1. AWindow(windowWindow)
    BY <1>1 DEF WindowShape
  <2>2. AWindow(windowWindow \o more) /\ TabsOf(windowWindow \o more) = TabsOf(windowWindow) \cup TabsOf(more)
    BY <1>3, <2>1, Joined
  <2> QED BY <1>2, <2>2 DEF Here
<1>5. IdsOf(windowWindow) = {u.id : u \in Here} /\ IdsOf(windowWindow') = {u.id : u \in Here'}
  BY WindowSets DEF Here
<1>6. Clicked' = Clicked
  BY DEF Clicked, Browser!Touched
<1>7. Taken' = Taken \cup {t.id : t \in TabsOf(more)}
  BY <1>4, <1>5, <1>6 DEF Taken
<1>8. WindowShape'
  <2>1. Browser!Fresh \in Nat /\ \A id \in Taken : id < Browser!Fresh
    BY <1>1, FreshIs
  <2>2. n \in Nat
    BY <1>1, LostIs
  <2>3. Taken \subseteq Nat /\ Browser!Fresh + n \in Nat /\ \A id \in Taken : id <= Browser!Fresh + n
    <3>1. Taken \subseteq Nat
      BY <1>1 DEF WindowShape
    <3>2. PICK fresh : fresh = Browser!Fresh
      OBVIOUS
    <3>3. fresh \in Nat /\ \A id \in Taken : id < fresh
      BY <2>1, <3>2
    <3>4. fresh + n \in Nat /\ \A id \in Taken : id <= fresh + n
      BY <2>2, <3>1, <3>3
    <3> QED BY <3>1, <3>2, <3>4
  <2>4. Taken' \subseteq Nat /\ \E b \in Nat : \A id \in Taken' : id <= b
    BY <1>3, <1>7, <2>3
  <2>5. \A u \in Here' : u.id > LastTabId => u.url # "blank"
    BY <1>1, <1>3, <1>4, WindowsKnown DEF WindowShape
  <2> QED BY <1>1, <1>4, <2>4, <2>5 DEF WindowShape
<1>9. TheShown' = TheShown /\ ToClose' = ToClose /\ ~Preparing' /\ ~Going'
  BY DEF TheShown, ToClose, Preparing, Going
<1>10. PlanShape'
  BY <1>1, <1>9 DEF PlanShape
<1>11. SourceThere' /\ CloseFits' /\ ShowsTarget' /\ GroupsFit' /\ HomeStays' /\ Verified' /\ InOrder'
  BY <1>9 DEF SourceThere, CloseFits, ShowsTarget, GroupsFit, HomeStays, Verified, InOrder
<1>12. PagesStayNow
  BY <1>4, <1>5, NoneGoes, WindowSets
<1> QED BY <1>8, <1>10, <1>11, <1>12 DEF WindowInv

LEMMA RestoreFailsKeeps == WindowInv /\ Browser!RestoreFails => WindowInv' /\ PagesStayNow
<1> SUFFICES ASSUME WindowInv, Browser!RestoreFails PROVE WindowInv' /\ PagesStayNow
  OBVIOUS
<1>0. /\ windowPc = "restore" /\ windowPc' = "failed" /\ windowPlan' = windowPlan /\ windowMade' = windowMade
      /\ windowTouched' = windowTouched /\ windowBroken' = TRUE /\ Browser!Fault /\ WindowShape
  BY DEF Browser!RestoreFails, Browser!Go, WindowInv
<1>1. PICK n \in 0 .. Len(Browser!Lost) : windowWindow' = windowWindow \o Reopened(n)
  BY DEF Browser!RestoreFails, Reopened
<1>2. Browser!FailedSwitchKeepsSource'
  BY <1>0 DEF Browser!FailedSwitchKeepsSource
<1> QED BY <1>0, <1>1, <1>2, FaultSpends, ReopensKeep

(* As often as a page is reopened, it was missing: each of the source's     *)
(* copies is in the window or is one of those.                              *)
LEMMA ReopenedMakeUp ==
    ASSUME WindowShape, PlanShape, windowPlan.committed, NEW p \in Pages, NEW v, v = windowWindow \o Reopened(Len(Browser!Lost))
    PROVE  Cardinality(Showing(windowPlan.source, p)) <= Cardinality(Showing(v, p))
<1> DEFINE D == Showing(windowWindow, p)
           K == Cardinality(Showing(windowPlan.source, p))
           lost == Browser!Lost
           X == Showing(v, p)
<1>1. PICK more : more = Reopened(Len(Browser!Lost))
  OBVIOUS
<1>2. DOMAIN lost = 1 .. Len(lost) /\ Len(lost) \in Nat /\ \A c \in Losses : \E n \in DOMAIN lost : lost[n] = c
  BY LostIs
<1>3. /\ AWindow(more) /\ DOMAIN more = 1 .. Len(lost) /\ IdsOf(windowWindow) \cap IdsOf(more) = {}
      /\ \A m \in 1 .. Len(lost) : ~more[m].pinned /\ more[m].url = lost[m][1]
  <2>1. Len(lost) \in 0 .. Len(lost)
    BY <1>2
  <2> QED BY <1>1, <2>1, ReopenedAre
<1>4. /\ windowWindow \in Seq(WindowTab) /\ more \in Seq(WindowTab) /\ Len(windowWindow) \in Nat
      /\ DOMAIN windowWindow = 1 .. Len(windowWindow)
  BY <1>3 DEF WindowShape, AWindow
<1>5. /\ v \in Seq(WindowTab)
      /\ \A i \in DOMAIN windowWindow : i \in DOMAIN v /\ v[i] = windowWindow[i]
      /\ \A m \in DOMAIN more : Len(windowWindow) + m \in DOMAIN v /\ v[Len(windowWindow) + m] = more[m]
  <2>1. v = windowWindow \o more
    BY <1>1
  <2>2. DOMAIN more = 1 .. Len(more) /\ Len(more) \in Nat
    BY <1>4
  <2>3. v \in Seq(WindowTab) /\ DOMAIN v = 1 .. (Len(windowWindow) + Len(more))
    BY <1>4, <2>1
  <2>4. \A i \in DOMAIN windowWindow : v[i] = windowWindow[i]
    BY <1>4, <2>1
  <2>5. \A m \in DOMAIN more : v[Len(windowWindow) + m] = more[m]
    BY <1>4, <2>1, <2>2
  <2>6. \A i \in DOMAIN windowWindow : i \in DOMAIN v
    BY <1>4, <2>2, <2>3
  <2>7. \A m \in DOMAIN more : Len(windowWindow) + m \in DOMAIN v
    BY <1>4, <2>2, <2>3
  <2> QED BY <2>3, <2>4, <2>5, <2>6, <2>7
<1>6. /\ IsFiniteSet(D) /\ Cardinality(D) \in Nat
      /\ K \in Nat /\ K <= Len(windowPlan.source) /\ IsFiniteSet(X)
  <2>1. windowPlan.source \in Seq(WindowTab)
    BY DEF PlanShape
  <2> QED BY <1>4, <1>5, <2>1, Counted
<1>7. PICK g : g \in Bijection(1 .. Cardinality(D), D)
  BY <1>6, FS_CardinalityType DEF ExistsBijection
<1>8. g \in [1 .. Cardinality(D) -> D] /\ \A a, b \in 1 .. Cardinality(D) : g[a] = g[b] => a = b
  BY <1>7 DEF Bijection, Injection, IsInjective
<1>9. \A c \in 1 .. K : ~(c <= Cardinality(D)) => \E n \in DOMAIN lost : lost[n] = <<p, c>>
  <2> TAKE c \in 1 .. K
  <2> HAVE ~(c <= Cardinality(D))
  <2>1. Browser!Count(windowWindow, p) = Cardinality(D) /\ Browser!Count(windowPlan.source, p) = K
    BY CountIs
  <2>2. c \in 1 .. Len(windowPlan.source) /\ c > Cardinality(D) /\ c <= K
    <3>1. Len(windowPlan.source) \in Nat
      BY DEF PlanShape
    <3> HIDE DEF K, D
    <3> QED BY <1>6, <3>1
  <2>3. <<p, c>> \in Losses
    <3> HIDE DEF K, D
    <3>1. <<p, c>> \in Pages \X (1 .. Len(windowPlan.source)) /\ <<p, c>>[1] = p /\ <<p, c>>[2] = c
      BY <2>2
    <3> QED BY <2>1, <2>2, <3>1 DEF Losses
  <2> QED BY <1>2, <2>3
<1> DEFINE at(c) == CHOOSE n \in DOMAIN lost : lost[n] = <<p, c>>
           f == [c \in 1 .. K |-> IF c <= Cardinality(D) THEN g[c] ELSE Len(windowWindow) + at(c)]
<1>10. \A c \in 1 .. K : ~(c <= Cardinality(D)) => at(c) \in DOMAIN lost /\ lost[at(c)] = <<p, c>>
  BY <1>9
<1> HIDE DEF at
<1>11. \A c \in 1 .. K : c <= Cardinality(D) => c \in 1 .. Cardinality(D) /\ g[c] \in D /\ g[c] \in 1 .. Len(windowWindow)
  <2>1. D \subseteq 1 .. Len(windowWindow)
    BY <1>4 DEF Showing
  <2> HIDE DEF K, D
  <2>2. \A c \in 1 .. K : c <= Cardinality(D) => c \in 1 .. Cardinality(D)
    BY <1>6
  <2>3. \A c \in 1 .. Cardinality(D) : g[c] \in D
    BY <1>8
  <2> QED BY <2>1, <2>2, <2>3
<1>12. D \subseteq X
  BY <1>5 DEF Showing
<1>13. \A m \in DOMAIN lost : lost[m][1] = p => Len(windowWindow) + m \in X
  BY <1>2, <1>3, <1>5 DEF Showing
<1> HIDE DEF D, K, X, lost
<1>14. \A c \in 1 .. K : f[c] \in X
  <2> TAKE c \in 1 .. K
  <2>1. CASE c <= Cardinality(D)
    BY <1>11, <1>12, <2>1
  <2>2. CASE ~(c <= Cardinality(D))
    BY <1>10, <1>13, <2>2
  <2> QED BY <2>1, <2>2
<1>15. \A c, e \in 1 .. K : f[c] = f[e] => c = e
  <2> TAKE c \in 1 .. K, e \in 1 .. K
  <2> HAVE f[c] = f[e]
  <2>1. CASE c <= Cardinality(D) /\ e <= Cardinality(D)
    BY <1>8, <1>11, <2>1
  <2>2. CASE ~(c <= Cardinality(D)) /\ ~(e <= Cardinality(D))
    <3>1. at(c) \in Nat /\ at(e) \in Nat /\ Len(windowWindow) + at(c) = Len(windowWindow) + at(e)
      BY <1>2, <1>10, <2>2
    <3>2. at(c) = at(e)
      BY <1>4, <3>1
    <3>3. <<p, c>> = <<p, e>>
      BY <1>10, <2>2, <3>2
    <3> QED BY <3>3
  <2>3. CASE (c <= Cardinality(D) /\ ~(e <= Cardinality(D))) \/ (~(c <= Cardinality(D)) /\ e <= Cardinality(D))
    <3>1. \A k \in 1 .. K : ~(k <= Cardinality(D)) => at(k) \in Nat /\ 1 <= at(k)
      BY <1>2, <1>10
    <3>2. \A k \in 1 .. K : k <= Cardinality(D) => f[k] <= Len(windowWindow) /\ f[k] \in Nat
      BY <1>4, <1>11
    <3>3. \A k \in 1 .. K : ~(k <= Cardinality(D)) => ~(f[k] <= Len(windowWindow))
      BY <1>4, <3>1
    <3> QED BY <2>3, <3>2, <3>3
  <2> QED BY <2>1, <2>2, <2>3
<1>16. f \in [1 .. K -> X]
  BY <1>14
<1> HIDE DEF f
<1>17. f \in Injection(1 .. K, X)
  BY <1>15, <1>16 DEF Injection, IsInjective
<1>18. Cardinality(1 .. K) = K
  BY <1>6, FS_Interval
<1>19. Cardinality(1 .. K) <= Cardinality(X)
  BY <1>6, <1>17, FS_Injection
<1> QED BY <1>18, <1>19 DEF K, X

SourceKept ==
  windowPc = "failed" /\ ~windowBroken =>
    \A p \in Pages : Browser!Count(windowWindow, p) >= Browser!Count(Rest(windowPlan.source, Clicked), p)

LEMMA SourceKeptIs == Browser!FailedSwitchKeepsSource <=> SourceKept
<1>1. Browser!Where(windowPlan.source, LAMBDA t : t.id \notin Clicked) = Rest(windowPlan.source, Clicked)
  BY SameLists DEF Browser!Where, Rest
<1> QED BY <1>1 DEF Browser!FailedSwitchKeepsSource, SourceKept, Clicked

LEMMA RestoreKeeps == WindowInv /\ Browser!Restore => WindowInv' /\ PagesStayNow
<1> SUFFICES ASSUME WindowInv, Browser!Restore PROVE WindowInv' /\ PagesStayNow
  OBVIOUS
<1>0. /\ windowPc = "restore" /\ windowPc' = "failed" /\ windowPlan' = windowPlan /\ windowMade' = windowMade
      /\ windowTouched' = windowTouched /\ windowLeft' = windowLeft
      /\ windowWindow' = windowWindow \o [n \in DOMAIN Browser!Lost |->
                            Browser!Tab(Browser!Fresh + n, Browser!Lost[n][1], TRUE, FALSE, 0)]
  BY DEF Browser!Restore, Browser!Go
<1>1. PlanShape /\ SourceThere /\ WindowShape
  BY <1>0, InPlan
<1>2. DOMAIN Browser!Lost = 1 .. Len(Browser!Lost) /\ Len(Browser!Lost) \in Nat
  BY <1>1, LostIs
<1>3. windowWindow' = windowWindow \o Reopened(Len(Browser!Lost)) /\ Len(Browser!Lost) \in 0 .. Len(Browser!Lost)
  BY <1>0, <1>2 DEF Reopened
<1>4. PICK v : v = windowWindow'
  OBVIOUS
<1>5. PICK kept : kept = Rest(windowPlan.source, Clicked)
  OBVIOUS
<1>6. AWindow(windowPlan.source) /\ windowPlan.source \in Seq(WindowTab)
  BY <1>1 DEF PlanShape, AWindow
<1>7. AWindow(kept) /\ TabsOf(kept) = {t \in TabsOf(windowPlan.source) : t.id \notin Clicked}
  BY <1>5, <1>6, Removed
<1>8. PICK more : more = Reopened(Len(Browser!Lost))
  OBVIOUS
<1>9. AWindow(windowWindow) /\ AWindow(more) /\ IdsOf(windowWindow) \cap IdsOf(more) = {}
  BY <1>1, <1>3, <1>8, ReopenedAre DEF WindowShape
<1>10. AWindow(windowWindow \o more) /\ TabsOf(windowWindow \o more) = TabsOf(windowWindow) \cup TabsOf(more)
  BY <1>9, Joined
<1>11. v \in Seq(WindowTab) /\ Here \subseteq TabsOf(v)
  BY <1>3, <1>4, <1>8, <1>10 DEF AWindow, Here
<1>12. \A p \in Pages : Cardinality(Showing(kept, p)) <= Cardinality(Showing(v, p))
  <2> TAKE p \in Pages
  <2>1. CASE windowPlan.committed
    <3>1. Cardinality(Showing(windowPlan.source, p)) <= Cardinality(Showing(v, p))
      BY <1>1, <1>3, <1>4, <2>1, ReopenedMakeUp
    <3>2. \A t \in TabsOf(kept) : t.url = p /\ ~t.pinned =>
            \E u \in TabsOf(windowPlan.source) : u.id = t.id /\ u.url = p /\ ~u.pinned
      BY <1>7
    <3>3. Cardinality(Showing(kept, p)) <= Cardinality(Showing(windowPlan.source, p))
      BY <1>6, <1>7, <3>2, CountsUpTo
    <3>4. /\ Cardinality(Showing(kept, p)) \in Nat /\ Cardinality(Showing(windowPlan.source, p)) \in Nat
          /\ Cardinality(Showing(v, p)) \in Nat
      <4>1. kept \in Seq(WindowTab)
        BY <1>7 DEF AWindow
      <4> QED BY <1>6, <1>11, <4>1, Counted
    <3> QED BY <3>1, <3>3, <3>4
  <2>2. CASE ~windowPlan.committed
    <3>1. \A t \in TabsOf(kept) : t.url = p /\ ~t.pinned =>
            \E u \in TabsOf(v) : u.id = t.id /\ u.url = p /\ ~u.pinned
      BY <1>0, <1>1, <1>7, <1>11, <2>2 DEF SourceThere
    <3> QED BY <1>7, <1>11, <3>1, CountsUpTo
  <2> QED BY <2>1, <2>2
<1>13. Browser!FailedSwitchKeepsSource'
  <2>1. Browser!Touched' = Clicked
    BY <1>0 DEF Clicked, Browser!Touched
  <2>3. \A p \in Pages : Browser!Count(v, p) >= Browser!Count(kept, p)
    <3> TAKE p \in Pages
    <3>1. Browser!Count(v, p) = Cardinality(Showing(v, p)) /\ Browser!Count(kept, p) = Cardinality(Showing(kept, p))
      BY CountIs
    <3>2. Cardinality(Showing(kept, p)) \in Nat /\ Cardinality(Showing(v, p)) \in Nat
      <4>1. kept \in Seq(WindowTab)
        BY <1>7 DEF AWindow
      <4> QED BY <1>11, <4>1, Counted
    <3> QED BY <1>12, <3>1, <3>2
  <2>4. windowWindow' = v /\ Rest(windowPlan'.source, Clicked') = kept
    BY <1>0, <1>4, <1>5, <2>1 DEF Clicked
  <2>5. SourceKept'
    BY <2>3, <2>4 DEF SourceKept
  <2> QED BY <2>5, SourceKeptIs, PTL
<1> QED BY <1>0, <1>1, <1>3, <1>13, ReopensKeep DEF WindowShape

-----------------------------------------------------------------------------
(* Every step of the switch and of its window keeps the invariant.          *)
LEMMA WindowSteps == WindowInv /\ [Browser!Next]_windowVars => WindowInv' /\ (windowVars' = windowVars \/ PagesStayNow)
<1> SUFFICES ASSUME WindowInv, [Browser!Next]_windowVars
             PROVE  WindowInv' /\ (windowVars' = windowVars \/ PagesStayNow)
  OBVIOUS
<1>1. CASE windowVars' = windowVars
  <2>1. /\ windowWindow' = windowWindow /\ windowPc' = windowPc /\ windowPlan' = windowPlan /\ windowMade' = windowMade
        /\ windowSeen' = windowSeen /\ windowTouched' = windowTouched /\ windowBroken' = windowBroken /\ windowLeft' = windowLeft
    BY <1>1 DEF windowVars
  <2>2. /\ Here' = Here /\ Clicked' = Clicked /\ Taken' = Taken /\ TheShown' = TheShown /\ ToClose' = ToClose
        /\ Preparing' = Preparing /\ Going' = Going
    BY <2>1, NothingMoves DEF TheShown, ToClose, Preparing, Going
  <2>3. WindowShape <=> WindowShape'
    BY <2>1, <2>2 DEF WindowShape
  <2>4. PlanShape <=> PlanShape'
    BY <2>1, <2>2 DEF PlanShape
  <2>5. (SourceThere <=> SourceThere') /\ (CloseFits <=> CloseFits') /\ (ShowsTarget <=> ShowsTarget')
    BY <2>1, <2>2 DEF SourceThere, CloseFits, ShowsTarget
  <2>6. GroupsFit <=> GroupsFit'
    <3>1. \A k : KeyGroup(k)' = KeyGroup(k)
      BY <2>1 DEF KeyGroup, Browser!OfKey
    <3> QED BY <2>1, <2>2, <3>1 DEF GroupsFit
  <2>7. (HomeStays <=> HomeStays') /\ (Verified <=> Verified') /\ (InOrder <=> InOrder')
    BY <2>1, <2>2 DEF HomeStays, Verified, InOrder
  <2>8. SourceKept <=> SourceKept'
    BY <2>1, <2>2 DEF SourceKept
  <2>9. Browser!FailedSwitchKeepsSource <=> Browser!FailedSwitchKeepsSource'
    BY <2>8, SourceKeptIs, PTL
  <2>10. WindowInv'
    BY <2>1, <2>3, <2>4, <2>5, <2>6, <2>7, <2>9 DEF WindowInv
  <2> QED BY <1>1, <2>10
<1>2. CASE Browser!Next
  BY <1>2, QueryKeeps, CreateTabKeeps, CreatedKeeps, EnsureHomeKeeps, HomeIsGoneKeeps, CheckKeeps, ValidateKeeps, ValidateBlindKeeps,
     CloseKeeps, CloseSomeKeeps, GroupKeeps, GroupFailsKeeps, FailKeeps, VerifyMadeKeeps, RollbackKeeps, RestoreKeeps, RestoreFailsKeeps,
     UserNavigatesKeeps, UserClosesKeeps, UserOpensKeeps, LoadsKeeps, WarmUpKeeps DEF Browser!Next
<1> QED BY <1>1, <1>2

(* A step of the whole is one of the window or leaves the window alone.     *)
LEMMA WindowAlone ==
    [AllNext]_allVars => [Browser!Next]_windowVars
<1> SUFFICES ASSUME [AllNext]_allVars PROVE [Browser!Next]_windowVars
  OBVIOUS
<1>1. CASE UNCHANGED allVars
  BY <1>1 DEF allVars
<1>2. CASE AllNext
  BY <1>2 DEF AllNext, Only
<1> QED BY <1>1, <1>2

(* A page that the user has opened or changed during a switch is closed     *)
(* only in the moment between the verification of its tab and the call that *)
(* closes it, whether that is in the commit or in the rollback              *)
(* (TabOrchestrator.ts).                                                    *)
THEOREM UserPagesAreKept == Together => UserPagesStay
<1>1. AllInit => WindowInv
  BY WindowStarts DEF AllInit
<1>2. WindowInv /\ [AllNext]_allVars => WindowInv' /\ (windowVars' = windowVars \/ PagesStayNow)
  BY WindowAlone, WindowSteps
<1>3. WindowInv /\ [AllNext]_allVars => [PagesStayNow]_windowVars
  BY <1>2
<1>4. Together => [][PagesStayNow]_windowVars
  BY <1>1, <1>2, <1>3, PTL DEF Together
<1>5. UserPagesStay <=> [][PagesStayNow]_windowVars
  BY DEF UserPagesStay, Browser!UserPagesStay, PagesStayNow, windowVars, Browser!vars
<1> QED BY <1>4, <1>5, PTL

-----------------------------------------------------------------------------
(* What a capture of the window reads.                                      *)
Listing(w) == At(w, {i \in DOMAIN w : ListedTab(w[i])})
SameUrl(list, url) == {i \in DOMAIN list : list[i].url = url}
KeyThen(v, prev, i) ==
  IF Rank(v, i) <= Len(At(prev, SameUrl(prev, v[i].url)))
  THEN At(prev, SameUrl(prev, v[i].url))[Rank(v, i)].group ELSE None
KeysOf(v, prev, g) == {KeyThen(v, prev, j) : j \in {k \in DOMAIN v : v[k].group = g}} \ {None}

CapturedGroup(v, prev, g) ==
  IF g = 0 THEN None
  ELSE IF Cardinality(KeysOf(v, prev, g)) = 1 THEN CHOOSE k \in KeysOf(v, prev, g) : TRUE
  ELSE g
Those(list, r) == {i \in DOMAIN list : list[i] = r}

LEMMA OneKey ==
    ASSUME NEW v, NEW prev, NEW g, g # 0, NEW key, KeysOf(v, prev, g) = {key}
    PROVE  CapturedGroup(v, prev, g) = key
<1>1. Cardinality(KeysOf(v, prev, g)) = 1
  BY FS_Singleton
<1>2. (CHOOSE k \in KeysOf(v, prev, g) : TRUE) \in {key}
  OBVIOUS
<1> QED BY <1>1, <1>2 DEF CapturedGroup

LEMMA ListingIs ==
    /\ \A w : Browser!Recordable(w) = Listing(w)
    /\ \A v, prev, i : Browser!KeyBefore(v, prev, i) = KeyThen(v, prev, i)
<1>1. \A w : Browser!Recordable(w) = Listing(w)
  BY SameLists DEF Browser!Recordable, Browser!Where, Listing, ListedTab
<1>2. \A v, prev, i : Browser!KeyBefore(v, prev, i) = KeyThen(v, prev, i)
  <2> TAKE v, prev, i
  <2>1. Browser!Where(prev, LAMBDA r : r.url = v[i].url) = At(prev, SameUrl(prev, v[i].url))
    BY SameLists DEF Browser!Where, SameUrl
  <2> QED BY <2>1 DEF Browser!KeyBefore, KeyThen, Rank, Browser!Cardinality, Cardinality
<1> QED BY <1>1, <1>2

LEMMA CapturedIs ==
    ASSUME NEW w, NEW prev, NEW v, v = Listing(w)
    PROVE  Browser!Captured(w, prev) =
             [i \in DOMAIN v |-> [url |-> v[i].url, group |-> CapturedGroup(v, prev, v[i].group)]]
<1>1. Browser!Recordable(w) = v
  BY ListingIs
<1>2. ASSUME NEW g
      PROVE  {Browser!KeyBefore(v, prev, j) : j \in {k \in DOMAIN v : v[k].group = g}} \ {None} = KeysOf(v, prev, g)
  <2>1. PICK J : J = {k \in DOMAIN v : v[k].group = g}
    OBVIOUS
  <2>2. PICK keys : keys = [j \in J |-> KeyThen(v, prev, j)]
    OBVIOUS
  <2>a. \A j \in J : keys[j] = KeyThen(v, prev, j) /\ keys[j] = Browser!KeyBefore(v, prev, j)
    BY <2>2, ListingIs
  <2>b. {Browser!KeyBefore(v, prev, j) : j \in J} = {keys[j] : j \in J}
    BY <2>a
  <2>c. {KeyThen(v, prev, j) : j \in J} = {keys[j] : j \in J}
    BY <2>a
  <2>3. {Browser!KeyBefore(v, prev, j) : j \in J} = {KeyThen(v, prev, j) : j \in J}
    BY <2>b, <2>c
  <2>4. KeysOf(v, prev, g) = {KeyThen(v, prev, j) : j \in J} \ {None}
    BY <2>1 DEF KeysOf
  <2> QED BY <2>1, <2>3, <2>4
<1> DEFINE tabs == Browser!Recordable(w)
           keys(g) == {Browser!KeyBefore(tabs, prev, j) : j \in {k \in DOMAIN tabs : tabs[k].group = g}} \ {None}
<1>3. Browser!Captured(w, prev) =
        [i \in DOMAIN tabs |->
           [url |-> tabs[i].url,
            group |-> IF tabs[i].group = 0 THEN None
                      ELSE IF Cardinality(keys(tabs[i].group)) = 1
                           THEN CHOOSE k \in keys(tabs[i].group) : TRUE
                      ELSE tabs[i].group]]
  BY DEF Browser!Captured, Browser!Cardinality, Cardinality
<1>4. ASSUME NEW g PROVE keys(g) = KeysOf(v, prev, g)
  BY <1>1, <1>2
<1>5. tabs = v
  BY <1>1
<1> HIDE DEF tabs, keys
<1> QED BY <1>3, <1>4, <1>5 DEF CapturedGroup

(* The place of a chosen member is one more than those chosen before it.    *)
LEMMA PlaceOf ==
    ASSUME NEW T, NEW list \in Seq(T), NEW S, NEW i \in S \cap DOMAIN list
    PROVE  LET n == Before(i, S \cap DOMAIN list) + 1
           IN  n \in DOMAIN At(list, S) /\ At(list, S)[n] = list[i]
<1> DEFINE I == S \cap DOMAIN list
           n == Before(i, I) + 1
<1>1. DOMAIN list = 1 .. Len(list) /\ Len(list) \in Nat
  OBVIOUS
<1>2. IsFiniteSet(I) /\ I \subseteq Nat
  <2>1. IsFiniteSet(1 .. Len(list))
    BY <1>1, FS_Interval
  <2>2. I \in SUBSET (1 .. Len(list)) /\ 1 .. Len(list) \subseteq Nat
    BY <1>1
  <2> QED BY <2>1, <2>2, FS_Subset
<1>3. At(list, S) = [m \in 1 .. Cardinality(I) |-> list[CHOOSE k \in I : Before(k, I) = m - 1]]
  BY DEF At
<1>4. i \in I
  OBVIOUS
<1> HIDE DEF I
<1>5. Cardinality(I) \in Nat /\ Before(i, I) \in Nat /\ Before(i, I) < Cardinality(I)
  <2>1. IsFiniteSet(I \ {i}) /\ Cardinality(I \ {i}) = Cardinality(I) - 1
    BY <1>2, <1>4, FS_RemoveElement
  <2>2. {j \in I : j < i} \in SUBSET (I \ {i})
    BY <1>2
  <2>3. IsFiniteSet({j \in I : j < i}) /\ Before(i, I) <= Cardinality(I) - 1
    BY <2>1, <2>2, FS_Subset DEF Before
  <2>4. Before(i, I) \in Nat /\ Cardinality(I) \in Nat
    BY <1>2, <2>3, FS_CardinalityType DEF Before
  <2> QED BY <2>3, <2>4
<1>6. n \in 1 .. Cardinality(I) /\ n - 1 = Before(i, I)
  BY <1>5
<1>7. \A k \in I : Before(k, I) = Before(i, I) => k = i
  <2> TAKE k \in I
  <2> HAVE Before(k, I) = Before(i, I)
  <2>1. k \in Nat /\ i \in Nat
    BY <1>2, <1>4
  <2>2. k < i => Before(k, I) < Before(i, I)
    BY <1>2, <1>4, BeforeGrows
  <2>3. i < k => Before(i, I) < Before(k, I)
    BY <1>2, <1>4, BeforeGrows
  <2>4. ~(Before(i, I) < Before(i, I))
    BY <1>5
  <2> QED BY <2>1, <2>2, <2>3, <2>4
<1>8. (CHOOSE k \in I : Before(k, I) = n - 1) = i
  BY <1>4, <1>6, <1>7
<1>9. n \in DOMAIN At(list, S) /\ At(list, S)[n] = list[i]
  <2> HIDE DEF n
  <2> QED BY <1>3, <1>6, <1>8
<1> QED BY <1>9 DEF I

(* A target is the n-th with its URL, and the n-th of those is the target.  *)
LEMMA RankedAt ==
    ASSUME NEW T, NEW target \in Seq(T), NEW i \in DOMAIN target, NEW same, same = At(target, SameUrl(target, target[i].url))
    PROVE  Rank(target, i) <= Len(same) /\ same[Rank(target, i)] = target[i]
<1> DEFINE S == SameUrl(target, target[i].url)
           lower == {j \in S : j < i}
<1>1. DOMAIN target = 1 .. Len(target) /\ Len(target) \in Nat
  OBVIOUS
<1>2. S \cap DOMAIN target = S /\ i \in S
  BY DEF SameUrl
<1>3. {j \in 1 .. i : target[j].url = target[i].url} = lower \cup {i} /\ i \notin lower /\ lower \in SUBSET (1 .. Len(target))
  BY <1>1 DEF SameUrl
<1> HIDE DEF S, lower
<1>4. IsFiniteSet(lower)
  <2>1. IsFiniteSet(1 .. Len(target))
    BY <1>1, FS_Interval
  <2> QED BY <1>3, <2>1, FS_Subset
<1>5. Rank(target, i) = Before(i, S) + 1
  <2>1. Cardinality(lower \cup {i}) = Cardinality(lower) + 1
    BY <1>3, <1>4, FS_AddElement
  <2> QED BY <1>3, <2>1 DEF Rank, Before, lower
<1>6. same = At(target, S)
  BY DEF S
<1>7. Before(i, S) + 1 \in DOMAIN same /\ same[Before(i, S) + 1] = target[i]
  BY <1>2, <1>6, PlaceOf
<1>8. same \in Seq(T)
  BY <1>6, Chosen
<1>9. DOMAIN same = 1 .. Len(same) /\ Len(same) \in Nat
  BY <1>8
<1> QED BY <1>5, <1>7, <1>9

-----------------------------------------------------------------------------
(* What the invariant says of a switch that is done, or has failed.         *)
LEMMA WindowTyped == WindowInv => Browser!TypeOK
<1> SUFFICES ASSUME WindowInv PROVE Browser!TypeOK
  OBVIOUS
<1>1. AWindow(windowWindow) /\ windowWindow \in Seq(WindowTab) /\ Apart(windowWindow)
      /\ DOMAIN windowWindow = 1 .. Len(windowWindow) /\ Len(windowWindow) \in Nat
  BY DEF WindowInv, WindowShape, AWindow
<1>2. \A t \in Browser!ToSet(windowWindow) : Browser!IsTab(t)
  <2>1. \A t \in TabsOf(windowWindow) : t \in WindowTab
    BY <1>1, TabTypes
  <2>2. \A t \in WindowTab : Browser!IsTab(t)
    BY DEF WindowTab, AnyUrl, Browser!IsTab
  <2> QED BY <2>1, <2>2, WindowSets
<1>3. Len(windowWindow) = Browser!Cardinality(Browser!Ids(windowWindow))
  <2> DEFINE f == [i \in DOMAIN windowWindow |-> windowWindow[i].id]
  <2>1. IsFiniteSet(DOMAIN windowWindow) /\ Cardinality(DOMAIN windowWindow) = Len(windowWindow)
    BY <1>1, FS_Interval
  <2>2. f \in Surjection(DOMAIN windowWindow, IdsOf(windowWindow))
    BY DEF Surjection, IdsOf
  <2>3. f \in [DOMAIN windowWindow -> IdsOf(windowWindow)]
    BY DEF IdsOf
  <2>4. \A i, j \in DOMAIN windowWindow : f[i] = f[j] => i = j
    BY <1>1 DEF Apart
  <2> HIDE DEF f
  <2>5. f \in Injection(DOMAIN windowWindow, IdsOf(windowWindow))
    BY <2>3, <2>4 DEF Injection, IsInjective
  <2>6. Cardinality(IdsOf(windowWindow)) = Len(windowWindow)
    BY <2>1, <2>2, <2>5, FS_Surjection
  <2> QED BY <2>6, WindowSets DEF Browser!Cardinality, Cardinality
<1>4. windowPlan # None => \A i, j \in DOMAIN windowPlan.shows :
        i # j => windowPlan.shows[i] = 0 \/ windowPlan.shows[i] # windowPlan.shows[j]
  BY DEF WindowInv, PlanShape
<1> QED BY <1>2, <1>3, <1>4 DEF WindowInv, Browser!TypeOK

(* The list and the tabs of a switch that is done.                          *)
LEMMA DoneShows ==
    ASSUME WindowInv, windowPc = "done"
    PROVE  /\ windowPlan.target \in Seq(Target) /\ DOMAIN windowPlan.shows = DOMAIN windowPlan.target
           /\ \A i \in DOMAIN windowPlan.target :
                windowPlan.target[i] \in Target /\ windowPlan.shows[i] \in Nat \ {0} /\ windowPlan.shows[i] \in TheShown
           /\ \A i, j \in DOMAIN windowPlan.target : windowPlan.shows[i] = windowPlan.shows[j] => i = j
<1>1. PlanShape /\ ShowsTarget
  BY InPlan
<1>2. /\ windowPlan.target \in Seq(Target) /\ windowPlan.shows \in Seq(Nat)
      /\ DOMAIN windowPlan.shows = DOMAIN windowPlan.target
      /\ \A i, j \in DOMAIN windowPlan.shows :
           i # j => windowPlan.shows[i] = 0 \/ windowPlan.shows[i] # windowPlan.shows[j]
  BY <1>1 DEF PlanShape
<1>3. \A i \in DOMAIN windowPlan.target : windowPlan.target[i] \in Target
  BY <1>2, ElementOfSeq
<1>4. \A i \in DOMAIN windowPlan.shows : windowPlan.shows[i] \in Nat
  BY <1>2, ElementOfSeq
<1>5. \A i \in DOMAIN windowPlan.shows : windowPlan.shows[i] # 0
  BY <1>1 DEF ShowsTarget, Going
<1> QED BY <1>2, <1>3, <1>4, <1>5 DEF TheShown

(* Each key has a group of its own, and none has none.                      *)
LEMMA KeysHaveGroups ==
    ASSUME WindowInv, windowPc = "done"
    PROVE  /\ \A i \in DOMAIN windowPlan.target :
                (KeyGroup(windowPlan.target[i].group) = 0) = (windowPlan.target[i].group = None)
           /\ \A i, j \in DOMAIN windowPlan.target :
                KeyGroup(windowPlan.target[i].group) = KeyGroup(windowPlan.target[j].group)
                  => windowPlan.target[i].group = windowPlan.target[j].group
<1>1. \A k, id : id \in Browser!OfKey(k) <=>
        \E i \in DOMAIN windowPlan.target : windowPlan.target[i].group = k /\ id = windowPlan.shows[i]
  BY DEF Browser!OfKey
<1>2. /\ \A i \in DOMAIN windowPlan.target : windowPlan.shows[i] \in Nat \ {0}
      /\ \A i, j \in DOMAIN windowPlan.target : windowPlan.shows[i] = windowPlan.shows[j] => i = j
  BY DoneShows
<1>3. \A k, l, id : id \in Browser!OfKey(k) /\ id \in Browser!OfKey(l) => k = l
  BY <1>1, <1>2
<1>4. ASSUME NEW i \in DOMAIN windowPlan.target, windowPlan.target[i].group # None
      PROVE  /\ KeyGroup(windowPlan.target[i].group) \in Browser!OfKey(windowPlan.target[i].group)
             /\ KeyGroup(windowPlan.target[i].group) # 0
  <2> DEFINE S == Browser!OfKey(windowPlan.target[i].group)
  <2>0. windowPlan.shows[i] \in S
    BY <1>1
  <2>a. \A id \in S : id \in Nat \ {0}
    BY <1>1, <1>2
  <2> HIDE DEF S
  <2>1. S \subseteq Nat \ {0} /\ S # {}
    BY <2>0, <2>a
  <2>2. S \subseteq Nat
    BY <2>1
  <2>3. Browser!Min(S) \in S
    BY <2>1, <2>2, First
  <2>4. KeyGroup(windowPlan.target[i].group) = Browser!Min(S)
    BY <1>4 DEF KeyGroup, S
  <2> QED BY <2>1, <2>3, <2>4 DEF S
<1>5. KeyGroup(None) = 0
  BY DEF KeyGroup
<1> QED BY <1>3, <1>4, <1>5

LEMMA SwitchShows == WindowInv => Browser!SwitchShowsTarget
<1> SUFFICES ASSUME WindowInv, windowPc = "done" PROVE Browser!SwitchShowsTarget
  BY DEF Browser!SwitchShowsTarget
<1> DEFINE target == windowPlan.target
           shows == windowPlan.shows
<1>1. WindowShape /\ ShowsTarget /\ GroupsFit /\ HomeStays /\ Verified
  BY InPlan
<1>2. /\ DOMAIN shows = DOMAIN target
      /\ \A i \in DOMAIN target : shows[i] \in TheShown
  BY DoneShows
<1>3. ASSUME NEW i \in DOMAIN target, shows[i] \notin Clicked
      PROVE  /\ Browser!Open(shows[i])
             /\ Browser!TabOf(shows[i]).url \in {target[i].url, "placeholder"}
             /\ Browser!TabOf(shows[i]).group = KeyGroup(target[i].group)
  <2>1. PICK t \in Here : t.id = shows[i] /\ t.url \in {target[i].url, "placeholder"}
    BY <1>1, <1>2, <1>3 DEF ShowsTarget, Going
  <2>2. t.group = KeyGroup(target[i].group)
    BY <1>1, <1>2, <2>1 DEF GroupsFit
  <2>3. Browser!TabOf(t.id) = t /\ Browser!Open(t.id)
    BY <1>1, TabOfIs
  <2> QED BY <2>1, <2>2, <2>3
<1>4. \A i \in DOMAIN target : (KeyGroup(target[i].group) = 0) = (target[i].group = None)
  BY KeysHaveGroups
<1>5. \A i, j \in DOMAIN target :
        (target[i].group = target[j].group) = (KeyGroup(target[i].group) = KeyGroup(target[j].group))
  BY KeysHaveGroups
<1>6. ~windowBroken => \A t \in Browser!ToSet(Browser!Recordable(windowWindow)) : t.id \in Clicked \cup TheShown
  <2>1. PICK v : v = Listing(windowWindow)
    OBVIOUS
  <2>2. TabsOf(v) \subseteq {t \in Here : ListedTab(t)}
    <3> DEFINE S == {i \in DOMAIN windowWindow : ListedTab(windowWindow[i])}
    <3>1. v = At(windowWindow, S) /\ AWindow(windowWindow)
      BY <1>1, <2>1 DEF Listing, WindowShape
    <3>2. \A i \in S \cap DOMAIN windowWindow : windowWindow[i] \in Here /\ ListedTab(windowWindow[i])
      BY DEF Here, TabsOf
    <3> HIDE DEF S
    <3>3. TabsOf(v) = {windowWindow[i] : i \in S \cap DOMAIN windowWindow}
      BY <3>1, Picked
    <3> QED BY <3>2, <3>3
  <2>3. Browser!ToSet(Browser!Recordable(windowWindow)) = TabsOf(v)
    BY <2>1, ListingIs, WindowSets
  <2> QED BY <1>1, <2>2, <2>3 DEF Verified
<1>7. TheShown \subseteq Browser!ToSet(windowPlan.shows)
  BY WindowSets DEF TheShown, TabsOf
<1>8. windowTouched = {} => \E t \in Browser!ToSet(windowWindow) : t.url = "home" /\ t.pinned
  BY <1>1, WindowSets DEF HomeStays, Here
<1>9. Clicked = Browser!Touched
  BY DEF Clicked
<1>10. \A i \in DOMAIN target : Browser!Shown(i) = shows[i]
  BY DEF Browser!Shown
<1>11. \A i \in DOMAIN target : Browser!Shown(i) \notin Browser!Touched =>
         /\ Browser!Open(Browser!Shown(i))
         /\ Browser!TabOf(Browser!Shown(i)).url \in {target[i].url, "placeholder"}
         /\ (Browser!TabOf(Browser!Shown(i)).group = 0) = (target[i].group = None)
         /\ \A j \in DOMAIN target : Browser!Shown(j) \notin Browser!Touched =>
              (target[i].group = target[j].group)
                = (Browser!TabOf(Browser!Shown(i)).group = Browser!TabOf(Browser!Shown(j)).group)
  BY <1>3, <1>4, <1>5, <1>9, <1>10
<1>12. ~windowBroken => \A t \in Browser!ToSet(Browser!Recordable(windowWindow)) :
                          t.id \in Browser!Touched \cup Browser!ToSet(windowPlan.shows)
  BY <1>6, <1>7, <1>9
<1> QED BY <1>8, <1>11, <1>12 DEF Browser!SwitchShowsTarget

-----------------------------------------------------------------------------
(* Two lists with the same members in the order of their URLs: `at' tells   *)
(* where a member of the one is in the other.                               *)
Matches(a, b, at) ==
  /\ at \in [DOMAIN a -> DOMAIN b]
  /\ \A i, j \in DOMAIN a : at[i] = at[j] => i = j
  /\ \A n \in DOMAIN b : \E i \in DOMAIN a : at[i] = n
  /\ \A i \in DOMAIN a : b[at[i]].url = a[i].url
  /\ \A i, j \in DOMAIN a : i < j /\ a[i].url = a[j].url => at[i] < at[j]

(* What `at' makes of a set of indexes has as many.                         *)
LEMMA AsMany ==
    ASSUME NEW at, NEW S, IsFiniteSet(S), NEW T,
           \A i \in S : at[i] \in T,
           \A i, j \in S : at[i] = at[j] => i = j,
           \A n \in T : \E i \in S : at[i] = n
    PROVE  Cardinality(T) = Cardinality(S)
<1> DEFINE f == [i \in S |-> at[i]]
<1>1. f \in [S -> T]
  OBVIOUS
<1>2. \A i, j \in S : f[i] = f[j] => i = j
  OBVIOUS
<1>3. \A n \in T : \E i \in S : f[i] = n
  OBVIOUS
<1> HIDE DEF f
<1>4. f \in Bijection(S, T)
  BY <1>1, <1>2, <1>3 DEF Bijection, Injection, Surjection, IsInjective
<1>5. ExistsBijection(S, T)
  BY <1>4 DEF ExistsBijection
<1> QED BY <1>5, FS_Bijection

(* Those that match are as many of their URL as those before them.          *)
LEMMA MatchesRank ==
    ASSUME NEW T, NEW a \in Seq(T), NEW U, NEW b \in Seq(U), NEW at, Matches(a, b, at), NEW i \in DOMAIN a
    PROVE  Rank(b, at[i]) = Rank(a, i)
<1> DEFINE S == {j \in 1 .. i : a[j].url = a[i].url}
           R == {m \in 1 .. at[i] : b[m].url = b[at[i]].url}
<1>1. DOMAIN a = 1 .. Len(a) /\ Len(a) \in Nat /\ DOMAIN b = 1 .. Len(b) /\ Len(b) \in Nat
  OBVIOUS
<1>2. /\ at \in [DOMAIN a -> DOMAIN b]
      /\ \A j, k \in DOMAIN a : at[j] = at[k] => j = k
      /\ \A n \in DOMAIN b : \E j \in DOMAIN a : at[j] = n
      /\ \A j \in DOMAIN a : b[at[j]].url = a[j].url
      /\ \A j, k \in DOMAIN a : j < k /\ a[j].url = a[k].url => at[j] < at[k]
  BY DEF Matches
<1>3. \A j \in 1 .. i : j \in DOMAIN a /\ j \in Nat
  BY <1>1
<1>4. \A m \in 1 .. at[i] : m \in DOMAIN b /\ m \in Nat
  BY <1>1, <1>2
<1>5. at[i] \in Nat /\ i \in Nat /\ \A j \in DOMAIN a : at[j] \in Nat /\ at[j] >= 1 /\ j \in Nat /\ j >= 1
  BY <1>1, <1>2
<1>6. \A j \in S : at[j] \in R
  <2> TAKE j \in S
  <2>1. j \in DOMAIN a /\ j <= i /\ a[j].url = a[i].url
    BY <1>1
  <2>2. at[j] <= at[i]
    <3>1. CASE j = i
      BY <1>5, <3>1
    <3>2. CASE j # i
      <4>1. j < i
        BY <1>5, <2>1, <3>2
      <4>2. at[j] < at[i]
        BY <1>2, <2>1, <4>1
      <4> QED BY <1>5, <2>1, <4>2
    <3> QED BY <3>1, <3>2
  <2>3. b[at[j]].url = b[at[i]].url
    BY <1>2, <2>1
  <2>4. at[j] \in 1 .. at[i]
    BY <1>5, <2>1, <2>2
  <2> QED BY <2>3, <2>4
<1>7. \A m \in R : \E j \in S : at[j] = m
  <2> TAKE m \in R
  <2>1. m \in DOMAIN b /\ m \in Nat /\ m <= at[i] /\ b[m].url = a[i].url
    BY <1>2, <1>4
  <2>2. PICK j \in DOMAIN a : at[j] = m
    BY <1>2, <2>1
  <2>3. a[j].url = a[i].url
    BY <1>2, <2>1, <2>2
  <2>4. ~(i < j)
    <3>1. i < j => at[i] < at[j]
      BY <1>2, <2>3
    <3> QED BY <1>5, <2>1, <2>2, <3>1
  <2>5. j \in 1 .. i
    BY <1>5, <2>4
  <2> QED BY <2>2, <2>3, <2>5
<1>8. \A j, k \in S : at[j] = at[k] => j = k
  BY <1>2, <1>3
<1>9. IsFiniteSet(S)
  <2>1. IsFiniteSet(1 .. i)
    BY <1>5, FS_Interval
  <2>2. S \in SUBSET (1 .. i)
    OBVIOUS
  <2> QED BY <2>1, <2>2, FS_Subset
<1>10. Rank(a, i) = Cardinality(S) /\ Rank(b, at[i]) = Cardinality(R)
  BY DEF Rank
<1> HIDE DEF S, R
<1>11. Cardinality(R) = Cardinality(S)
  BY <1>6, <1>7, <1>8, <1>9, AsMany
<1> QED BY <1>10, <1>11

(* What a capture reads of the window that a switch has left: the targets,  *)
(* each where its tab is, those with one URL in their order.                *)
LEMMA DoneMatches ==
    ASSUME WindowInv, windowPc = "done", windowTouched = {}, ~windowBroken, ~Browser!CaptureRefuses(windowWindow),
           NEW v, v = Listing(windowWindow)
    PROVE  /\ v \in Seq(WindowTab)
           /\ \E at : /\ Matches(windowPlan.target, v, at)
                      /\ \A i \in DOMAIN windowPlan.target : v[at[i]].group = KeyGroup(windowPlan.target[i].group)
<1> DEFINE target == windowPlan.target
           shows == windowPlan.shows
           S == {i \in DOMAIN windowWindow : ListedTab(windowWindow[i])}
<1>1. WindowShape /\ ShowsTarget /\ GroupsFit /\ Verified /\ InOrder
  BY InPlan
<1>2. /\ target \in Seq(Target) /\ DOMAIN shows = DOMAIN target
      /\ \A i \in DOMAIN target : target[i] \in Target /\ shows[i] \in Nat \ {0} /\ shows[i] \in TheShown
      /\ \A i, j \in DOMAIN target : shows[i] = shows[j] => i = j
  BY DoneShows
<1>3. Clicked = {}
  BY DEF Clicked, Browser!Touched
<1>4. AWindow(windowWindow) /\ windowWindow \in Seq(WindowTab) /\ Apart(windowWindow) /\ DOMAIN windowWindow \subseteq Nat
  BY <1>1 DEF WindowShape, AWindow
<1>5. v = At(windowWindow, S)
  BY DEF Listing
<1>6. \A t : t \in {windowWindow[i] : i \in S \cap DOMAIN windowWindow} <=> t \in Here /\ ListedTab(t)
  BY DEF Here, TabsOf
<1> HIDE DEF S
<1>7. /\ AWindow(v) /\ \A t : t \in TabsOf(v) <=> t \in Here /\ ListedTab(t)
      /\ \A n, m \in DOMAIN v : n < m => Ahead(windowWindow, v[n].id, v[m].id)
  BY <1>4, <1>5, <1>6, Picked
<1>8. v \in Seq(WindowTab) /\ Apart(v) /\ DOMAIN v \subseteq Nat
  BY <1>7 DEF AWindow
<1>9. ASSUME NEW i \in DOMAIN target
      PROVE  \E n \in DOMAIN v : v[n].id = shows[i] /\ v[n].url = target[i].url /\ v[n].group = KeyGroup(target[i].group)
  <2>1. PICK t \in Here : t.id = shows[i] /\ ~t.pinned /\ t.url \in {target[i].url, "placeholder"}
    BY <1>1, <1>2, <1>3 DEF ShowsTarget, Going
  <2>2. t.group = KeyGroup(target[i].group)
    BY <1>1, <1>2, <2>1 DEF GroupsFit
  <2>3. t.url # "placeholder"
    BY <2>1, WindowSets DEF Browser!CaptureRefuses, Here
  <2>4. t.url = target[i].url /\ t.url \in Pages
    BY <1>2, <2>1, <2>3 DEF Target
  <2>5. t \in TabsOf(v)
    BY <1>7, <2>1, <2>4 DEF ListedTab
  <2> QED BY <2>1, <2>2, <2>4, <2>5 DEF TabsOf
<1>10. ASSUME NEW n \in DOMAIN v PROVE \E i \in DOMAIN target : shows[i] = v[n].id
  <2>1. v[n] \in Here /\ ListedTab(v[n])
    BY <1>7 DEF TabsOf
  <2>2. v[n].id \in TheShown
    BY <1>1, <1>3, <2>1 DEF Verified
  <2> QED BY <1>2, <2>2 DEF TheShown
<1> DEFINE at == [i \in DOMAIN target |-> CHOOSE n \in DOMAIN v : v[n].id = shows[i]]
<1>11. \A i \in DOMAIN target : at[i] \in DOMAIN v /\ v[at[i]].id = shows[i]
  BY <1>9
<1>12. at \in [DOMAIN target -> DOMAIN v]
  BY <1>11
<1> HIDE DEF at
<1>13. \A i \in DOMAIN target : v[at[i]].url = target[i].url /\ v[at[i]].group = KeyGroup(target[i].group)
  <2> TAKE i \in DOMAIN target
  <2>1. PICK n \in DOMAIN v : v[n].id = shows[i] /\ v[n].url = target[i].url /\ v[n].group = KeyGroup(target[i].group)
    BY <1>9
  <2>2. n = at[i]
    BY <1>8, <1>11, <2>1 DEF Apart
  <2> QED BY <2>1, <2>2
<1>14. \A i, j \in DOMAIN target : at[i] = at[j] => i = j
  BY <1>2, <1>11
<1>15. \A n \in DOMAIN v : \E i \in DOMAIN target : at[i] = n
  <2> TAKE n \in DOMAIN v
  <2>1. PICK i \in DOMAIN target : shows[i] = v[n].id
    BY <1>10
  <2>2. at[i] = n
    BY <1>8, <1>11, <2>1 DEF Apart
  <2> QED BY <2>2
<1>16. ASSUME NEW i \in DOMAIN target, NEW j \in DOMAIN target, i < j, target[i].url = target[j].url
       PROVE  at[i] < at[j]
  <2>1. Ahead(windowWindow, shows[i], shows[j])
    BY <1>1, <1>2, <1>3, <1>16 DEF InOrder, Going
  <2>2. ~Ahead(windowWindow, shows[j], shows[i])
    BY <1>4, <2>1 DEF Ahead, Apart
  <2>3. ~(at[j] < at[i])
    BY <1>7, <1>11, <2>2
  <2>4. i # j
    <3>1. i \in Nat /\ j \in Nat
      BY <1>2
    <3> QED BY <1>16, <3>1
  <2>5. at[i] # at[j] /\ at[i] \in Nat /\ at[j] \in Nat
    BY <1>8, <1>11, <1>14, <2>4
  <2> QED BY <2>3, <2>5
<1>17. Matches(target, v, at)
  BY <1>12, <1>13, <1>14, <1>15, <1>16 DEF Matches
<1> QED BY <1>8, <1>13, <1>17

(* So the capture finds each target there.                                  *)
LEMMA DoneIsCaptured ==
    ASSUME WindowInv, windowPc = "done", windowTouched = {}, ~windowBroken, ~Browser!CaptureRefuses(windowWindow),
           NEW now, now = Browser!Captured(windowWindow, windowPlan.target)
    PROVE  /\ Len(now) = Len(windowPlan.target)
           /\ \A r : Cardinality(Those(now, r)) = Cardinality(Those(windowPlan.target, r))
<1> DEFINE target == windowPlan.target
<1>0. PICK v : v = Listing(windowWindow)
  OBVIOUS
<1>1. PICK at : /\ Matches(target, v, at)
                /\ \A i \in DOMAIN target : v[at[i]].group = KeyGroup(target[i].group)
  BY <1>0, DoneMatches
<1>2. v \in Seq(WindowTab) /\ DOMAIN v = 1 .. Len(v) /\ Len(v) \in Nat
  BY <1>0, DoneMatches
<1>3. target \in Seq(Target) /\ DOMAIN target = 1 .. Len(target) /\ Len(target) \in Nat
      /\ \A i \in DOMAIN target : target[i] \in Target
  BY DoneShows
<1>4. /\ at \in [DOMAIN target -> DOMAIN v]
      /\ \A i, j \in DOMAIN target : at[i] = at[j] => i = j
      /\ \A n \in DOMAIN v : \E i \in DOMAIN target : at[i] = n
      /\ \A i \in DOMAIN target : v[at[i]].url = target[i].url
  BY <1>1 DEF Matches
<1>5. \A i \in DOMAIN target : KeyThen(v, target, at[i]) = target[i].group
  <2> TAKE i \in DOMAIN target
  <2>1. PICK same : same = At(target, SameUrl(target, target[i].url))
    OBVIOUS
  <2>2. Rank(target, i) <= Len(same) /\ same[Rank(target, i)] = target[i]
    BY <1>3, <2>1, RankedAt
  <2>3. Rank(v, at[i]) = Rank(target, i)
    BY <1>1, <1>2, <1>3, MatchesRank
  <2>4. At(target, SameUrl(target, v[at[i]].url)) = same
    BY <1>4, <2>1
  <2> QED BY <2>2, <2>3, <2>4 DEF KeyThen
<1>6. ASSUME NEW i \in DOMAIN target, target[i].group # None
      PROVE  KeysOf(v, target, v[at[i]].group) = {target[i].group}
  <2>1. \A n \in DOMAIN v : v[n].group = v[at[i]].group => KeyThen(v, target, n) = target[i].group
    <3> TAKE n \in DOMAIN v
    <3> HAVE v[n].group = v[at[i]].group
    <3>1. PICK j \in DOMAIN target : at[j] = n
      BY <1>4
    <3>2. KeyGroup(target[j].group) = KeyGroup(target[i].group)
      BY <1>1, <3>1
    <3>3. target[j].group = target[i].group
      BY <3>2, KeysHaveGroups
    <3> QED BY <1>5, <3>1, <3>3
  <2>2. at[i] \in DOMAIN v
    BY <1>4
  <2>3. PICK N : N = {k \in DOMAIN v : v[k].group = v[at[i]].group}
    OBVIOUS
  <2>4. at[i] \in N /\ \A n \in N : KeyThen(v, target, n) = target[i].group
    BY <2>1, <2>2, <2>3
  <2>5. {KeyThen(v, target, n) : n \in N} = {target[i].group}
    BY <2>4
  <2> QED BY <1>6, <2>3, <2>5 DEF KeysOf
<1>7. /\ now = [n \in DOMAIN v |-> [url |-> v[n].url, group |-> CapturedGroup(v, target, v[n].group)]]
      /\ DOMAIN now = DOMAIN v
      /\ \A n \in DOMAIN v : now[n] = [url |-> v[n].url, group |-> CapturedGroup(v, target, v[n].group)]
  BY <1>0, CapturedIs
<1>8. \A i \in DOMAIN target : now[at[i]] = target[i]
  <2> TAKE i \in DOMAIN target
  <2>1. (v[at[i]].group = 0) = (target[i].group = None)
    BY <1>1, KeysHaveGroups
  <2>2. now[at[i]] = [url |-> target[i].url, group |-> target[i].group]
    <3>1. CASE target[i].group = None
      BY <1>4, <1>7, <2>1, <3>1 DEF CapturedGroup
    <3>2. CASE target[i].group # None
      <4>1. KeysOf(v, target, v[at[i]].group) = {target[i].group} /\ v[at[i]].group # 0
        BY <1>6, <2>1, <3>2
      <4>2. CapturedGroup(v, target, v[at[i]].group) = target[i].group
        BY <4>1, OneKey
      <4> QED BY <1>4, <1>7, <4>2
    <3> QED BY <3>1, <3>2
  <2> QED BY <1>3, <2>2 DEF Target
<1>9. Len(now) = Len(target)
  <2>1. Cardinality(DOMAIN v) = Cardinality(DOMAIN target)
    <3>1. IsFiniteSet(DOMAIN target)
      BY <1>3, FS_Interval
    <3> QED BY <1>4, <3>1, AsMany
  <2>2. \A k \in Nat : Cardinality(1 .. k) = k
    BY FS_Interval
  <2>3. Len(v) = Len(target)
    BY <1>2, <1>3, <2>1, <2>2
  <2>4. DOMAIN now = 1 .. Len(target) /\ now = [n \in DOMAIN now |-> now[n]]
    BY <1>2, <1>7, <2>3
  <2>5. \A n \in 1 .. Len(target) : now[n] \in {now[m] : m \in 1 .. Len(target)}
    OBVIOUS
  <2>6. now \in Seq({now[m] : m \in 1 .. Len(target)})
    BY <1>3, <2>4, <2>5, IsASeq
  <2>7. Len(now) \in Nat /\ 1 .. Len(now) = 1 .. Len(target)
    BY <2>4, <2>6
  <2> QED BY <1>3, <2>2, <2>7
<1>10. ASSUME NEW r
       PROVE  Cardinality(Those(now, r)) = Cardinality(Those(target, r))
  <2> DEFINE S == {i \in DOMAIN target : target[i] = r}
             T == {i \in DOMAIN now : now[i] = r}
  <2>1. \A i \in S : at[i] \in T
    BY <1>4, <1>7, <1>8
  <2>2. \A i, j \in S : at[i] = at[j] => i = j
    BY <1>4
  <2>3. \A n \in T : \E i \in S : at[i] = n
    BY <1>4, <1>7, <1>8
  <2>4. IsFiniteSet(S)
    <3>1. IsFiniteSet(DOMAIN target)
      BY <1>3, FS_Interval
    <3>2. S \in SUBSET DOMAIN target
      OBVIOUS
    <3> QED BY <3>1, <3>2, FS_Subset
  <2> HIDE DEF S, T
  <2>5. Cardinality(T) = Cardinality(S)
    BY <2>1, <2>2, <2>3, <2>4, AsMany
  <2> QED BY <2>5 DEF S, T, Those
<1> QED BY <1>9, <1>10

LEMMA CaptureFinds == WindowInv => Browser!CaptureFindsTarget
<1> SUFFICES ASSUME WindowInv, windowPc = "done", windowTouched = {}, ~windowBroken,
                    ~Browser!CaptureRefuses(windowWindow)
             PROVE  Browser!CaptureFindsTarget
  BY DEF Browser!CaptureFindsTarget
<1>1. PICK now : now = Browser!Captured(windowWindow, windowPlan.target)
  OBVIOUS
<1>2. /\ Len(now) = Len(windowPlan.target)
      /\ \A r : Cardinality(Those(now, r)) = Cardinality(Those(windowPlan.target, r))
  BY <1>1, DoneIsCaptured
<1>3. \A s : Browser!Cardinality(s) = Cardinality(s)
  BY DEF Browser!Cardinality, Cardinality
<1>4. \A r : Cardinality({i \in DOMAIN now : now[i] = r})
              = Cardinality({i \in DOMAIN windowPlan.target : windowPlan.target[i] = r})
  BY <1>2 DEF Those
<1>5. \A r \in Browser!ToSet(windowPlan.target) :
        Browser!Cardinality({i \in DOMAIN now : now[i] = r})
          = Browser!Cardinality({i \in DOMAIN windowPlan.target : windowPlan.target[i] = r})
  BY <1>3, <1>4
<1> QED BY <1>1, <1>2, <1>5 DEF Browser!CaptureFindsTarget

(* A switch that succeeds shows its list in tabs of its own and in the      *)
(* groups of its keys, a capture then finds that list, and a switch that    *)
(* fails keeps the window's pages, whatever the windows, the lists and the  *)
(* keys are (TabOrchestrator.ts, windowTabs.ts).                            *)
THEOREM SwitchHasItsOutcome == Together => []SwitchOutcome
<1>1. AllInit => WindowInv
  BY WindowStarts DEF AllInit
<1>2. WindowInv /\ [AllNext]_allVars => WindowInv'
  BY WindowAlone, WindowSteps
<1>3. WindowInv /\ windowPc # "failed" => Browser!FailedSwitchKeepsSource
  BY DEF Browser!FailedSwitchKeepsSource
<1>4. WindowInv /\ windowPc = "failed" => Browser!FailedSwitchKeepsSource
  BY DEF WindowInv
<1>5. WindowInv => SwitchOutcome
  BY <1>3, <1>4, WindowTyped, SwitchShows, CaptureFinds DEF SwitchOutcome
<1> QED BY <1>1, <1>2, <1>5, PTL DEF Together
==============================================================================
