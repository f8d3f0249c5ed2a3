---------------------------- MODULE MCGatedStorage ----------------------------
(* One deletion of a workspace (workspaces write with a nested auxiliary     *)
(* write, then the workspace-state write), one switch that saves a           *)
(* workspace, one onboarding write from outside the gate, and two            *)
(* maintenance operations: a restore that flushes a window before it raises  *)
(* the barrier, and an export.  Two more calls, a command and a recovery,    *)
(* write nothing: they are made when the gate is looked at alone.            *)
EXTENDS GatedStorage

CONSTANTS
  deletion, switch, command, restore, export, recovery,
  delete, scheduleRemoval, removeState, saveWorkspace, onboarding, flush,
  b1, b2, b3, cleanup

MCQueues == {"workspaces", "workspaceState", "auxiliary"}
MCWrites == {delete, scheduleRemoval, removeState, saveWorkspace, onboarding, flush}
MCQueueOf ==
  [w \in MCWrites |->
     CASE w \in {delete, saveWorkspace, flush} -> "workspaces"
       [] w \in {scheduleRemoval, onboarding} -> "auxiliary"
       [] OTHER -> "workspaceState"]
MCCaller == [w \in MCWrites |-> IF w = scheduleRemoval THEN delete ELSE None]
MCScript ==
  [op \in {deletion, switch, command, restore, export, recovery} |->
     CASE op = deletion -> <<delete, removeState>>
       [] op = switch -> <<saveWorkspace>>
       [] op = restore -> <<flush>>
       [] OTHER -> <<>>]
MCBarrierOf ==
  [e \in {restore, export, recovery} |->
     CASE e = restore -> b1 [] e = export -> b2 [] OTHER -> b3]

(* With the cleanup alarm: one deletion, one restore. *)
MCCleanupScript ==
  [op \in {deletion, restore} |->
     IF op = deletion THEN <<delete, removeState>> ELSE <<flush>>]
MCCleanupBarrierOf == [e \in {restore} |-> b1]
==============================================================================
