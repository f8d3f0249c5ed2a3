------------------------------ MODULE AtomicSwitch ------------------------------
(***************************************************************************)
(* What a workspace switch promises: the tabs of a window and the          *)
(* workspace it is bound to change together or not at all, whatever fails  *)
(* in between.  The promise is waived when the record of an unfinished     *)
(* switch is discarded, or overtaken by a save of its window.              *)
(***************************************************************************)
CONSTANTS Windows, Workspaces, None

VARIABLES place,   \* what each window durably is: its tabs, its workspace, whether it loads
          waived   \* the promise does not hold any more

Gone == [tabs |-> None, ws |-> None, loads |-> FALSE]

(* The window becomes one of workspace w.                                   *)
Switch(k) ==
  \E w \in Workspaces :
    /\ place'[k].ws = w /\ place'[k].tabs # None /\ place'[k].tabs.owner = w

(* Its tabs load, are edited, or fall back to the saved copy of the same    *)
(* list.                                                                    *)
Edit(k) ==
  /\ place[k].tabs # None /\ place'[k].tabs # None
  /\ place'[k].ws = place[k].ws
  /\ place'[k].tabs.owner = place[k].tabs.owner

(* It is no longer one of any workspace.                                    *)
Unbind(k) ==
  /\ place'[k].ws = None /\ place[k].tabs # None
  /\ place'[k].tabs = place[k].tabs

(* Tabs that still load and are in no workspace have no saved copy.         *)
Forgo(k) ==
  /\ place[k].loads /\ place[k].ws = None
  /\ place'[k].tabs # None /\ place'[k].tabs.owner = None /\ place'[k].ws = None

Close(k) == place'[k] = Gone

Init == (\A k \in Windows : place[k] # Gone) /\ ~waived

(* One window at a time.                                                    *)
Only(k) == \A other \in Windows \ {k} : place'[other] = place[other]
Next ==
  \/ waived'
  \/ \E k \in Windows : Only(k) /\ (Switch(k) \/ Edit(k) \/ Unbind(k) \/ Forgo(k) \/ Close(k))

Spec == Init /\ [][Next]_place
==============================================================================
