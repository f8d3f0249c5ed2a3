-------------------------------- MODULE Lists --------------------------------
(***************************************************************************)
(* What is left of a list when some of it is chosen, and of a record when  *)
(* fields are set.  SelectSeq, SetToSortSeq and @@ say the same; these     *)
(* say it without recursion, so that they can be reasoned about.           *)
(***************************************************************************)
EXTENDS Naturals, FiniteSets

Before(i, I) == Cardinality({j \in I : j < i})

(* The members at the indexes in S, in their order.                        *)
At(list, S) ==
    LET I == S \cap DOMAIN list
    IN  [n \in 1 .. Cardinality(I) |-> list[CHOOSE i \in I : Before(i, I) = n - 1]]

(* The members that pass a test.                                           *)
Where(list, Test(_)) == At(list, {i \in DOMAIN list : Test(list[i])})

(* A record with the fields of another set in it.                          *)
Over(new, old) == [k \in DOMAIN new \cup DOMAIN old |-> IF k \in DOMAIN new THEN new[k] ELSE old[k]]
==============================================================================
