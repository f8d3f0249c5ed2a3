-------------------------- MODULE MCRestoreTransaction --------------------------
(* Workspaces and a legacy layout in local storage, settings and a legacy    *)
(* layout in sync storage.                                                   *)
EXTENDS RestoreTransaction

CONSTANTS workspaces, layouts, settings, legacy, switchState
==============================================================================
