--------------------------- MODULE ExclusiveAccess ---------------------------
(***************************************************************************)
(* What the workspace operation gate promises its callers: any number of   *)
(* normal operations may be inside together, an exclusive operation is     *)
(* inside alone.  Nothing is said of the order of admission.               *)
(***************************************************************************)
CONSTANTS Normal, Exclusive

VARIABLES normalInside, exclusiveInside

vars == <<normalInside, exclusiveInside>>

Init ==
  /\ normalInside = {}
  /\ exclusiveInside = {}

EnterNormal(n) ==
  /\ exclusiveInside = {}
  /\ normalInside' = normalInside \cup {n}
  /\ UNCHANGED exclusiveInside

LeaveNormal(n) ==
  /\ n \in normalInside
  /\ normalInside' = normalInside \ {n}
  /\ UNCHANGED exclusiveInside

EnterExclusive(e) ==
  /\ normalInside = {}
  /\ exclusiveInside = {}
  /\ exclusiveInside' = {e}
  /\ UNCHANGED normalInside

LeaveExclusive(e) ==
  /\ exclusiveInside = {e}
  /\ exclusiveInside' = {}
  /\ UNCHANGED normalInside

Next ==
  \/ \E n \in Normal : EnterNormal(n) \/ LeaveNormal(n)
  \/ \E e \in Exclusive : EnterExclusive(e) \/ LeaveExclusive(e)

Spec == Init /\ [][Next]_vars
==============================================================================
