--------------------------- MODULE MCWorkspaceSwitch ---------------------------
(* Two requests for one window and two workspaces.                           *)
EXTENDS WorkspaceSwitch, TLC

CONSTANTS r1, r2, k1, w1, w2

(* Nothing is claimed of what follows once the record of a switch is waived, *)
(* and at most three bad things happen in one behaviour.                      *)
Explored ==
  /\ ~spoilt
  /\ spent.abort + spent.discard + spent.unbind + spent.close + spent.removal + spent.fault
       + spent.recovery + spent.crash <= 3

Alike == Permutations({r1, r2}) \cup Permutations({w1, w2})
==============================================================================
