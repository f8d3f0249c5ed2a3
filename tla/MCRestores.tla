----------------------------- MODULE MCRestores -----------------------------
(***************************************************************************)
(* Backup restores on two sets of keys.  In the first every writer waits   *)
(* for the barrier: workspaces and a legacy layout in local storage,       *)
(* settings and a legacy layout in sync storage.  In the second, Elsewhere,*)
(* the settings and the journal of a switch have writers that do not, and  *)
(* what was begun has to come to an end.  So has every switch that is asked *)
(* for, the recovery of which a restore waits for at the start: Switches.   *)
(* A behaviour is about one of the three.                                   *)
(***************************************************************************)
EXTENDS RestoreTransaction

CONSTANTS workspaces, layouts, settings, legacy, switchState, r1, r2, k1, w1

VARIABLE part  \* what the behaviour is about

VARIABLES
  otherData, otherJournal, otherDrafts, otherBound, otherAlarm, otherWorker,
  otherJob, otherRestores, otherWrites, otherElsewhere, otherFaults,
  otherCrashes
otherVars ==
  <<otherData, otherJournal, otherDrafts, otherBound, otherAlarm,
    otherWorker, otherJob, otherRestores, otherWrites, otherElsewhere,
    otherFaults, otherCrashes>>
Elsewhere == INSTANCE RestoreTransaction WITH
  LocalKeys <- {workspaces, switchState}, SyncKeys <- {settings},
  Removed <- {}, Ungated <- {settings, switchState},
  WorkspacesKey <- workspaces, GuardRollback <- TRUE, MaxRestores <- 2,
  MaxWrites <- 1, MaxElsewhere <- 2, MaxFaults <- 2, MaxCrashes <- 1,
  data <- otherData, journal <- otherJournal, drafts <- otherDrafts,
  bound <- otherBound, alarm <- otherAlarm, worker <- otherWorker,
  job <- otherJob, restores <- otherRestores, writes <- otherWrites,
  elsewhere <- otherElsewhere, faults <- otherFaults, crashes <- otherCrashes

VARIABLES
  canon, ledger, switching, binding, alarms, open, shows, loading, req,
  latestId, intent, queue, run, suppressed, started, spent, spoilt
switchCode ==
  <<canon, ledger, switching, binding, alarms, open, shows, loading, req,
    latestId, intent, queue, run, suppressed, started, spent>>
switchVars == <<switchCode, spoilt>>
Switches == INSTANCE WorkspaceSwitch WITH
  Requests <- {r1, r2}, Windows <- {k1}, Workspaces <- {w1}, Blank <- {w1},
  InitLoading <- {}, MaxEdits <- 0, MaxRemovals <- 0, MaxAborts <- 1,
  MaxDiscards <- 1, MaxUnbinds <- 1, MaxInterventions <- 1,
  MaxCloses <- 0, MaxFaults <- 1, MaxRecoveryFaults <- 1, MaxCrashes <- 1,
  journal <- switching

-----------------------------------------------------------------------------
(* Those that do not run rest in one of their initial states.                *)
PartsInit ==
  /\ part \in {"gated", "elsewhere", "switches"}
  /\ Init /\ Elsewhere!Init /\ Switches!Init
  /\ part # "gated" => Missing \notin {data[k] : k \in Keys} /\ bound = None
  /\ part # "elsewhere" =>
       otherBound = None /\ Elsewhere!Missing \notin {otherData[k] : k \in Elsewhere!Keys}
  /\ part # "switches" => binding[k1] = None

PartsNext ==
  \/ part = "gated" /\ Next /\ UNCHANGED <<part, otherVars, switchVars>>
  \/ part = "elsewhere" /\ Elsewhere!Next /\ UNCHANGED <<part, vars, switchVars>>
  \/ part = "switches" /\ Switches!Next /\ UNCHANGED <<part, vars, otherVars>>

(* The fairness of RestoreTransaction for the second.                        *)
ElsewhereFairness ==
  /\ WF_otherVars(part = "elsewhere" /\
       (Elsewhere!CheckJournal \/ Elsewhere!TakeSnapshot \/ Elsewhere!WritePrepared
        \/ Elsewhere!WriteWriting \/ Elsewhere!ApplyMutation \/ Elsewhere!WriteWritten
        \/ Elsewhere!Readback \/ Elsewhere!ClearBindings \/ Elsewhere!Commit
        \/ Elsewhere!Finish \/ Elsewhere!Rollback \/ Elsewhere!Recovery))
  /\ WF_otherVars(part = "elsewhere" /\ Elsewhere!CleanupAlarm)
  /\ SF_otherVars(part = "elsewhere" /\ Elsewhere!Suspend)
  /\ WF_otherVars(part = "elsewhere" /\ Elsewhere!Start)

(* That of WorkspaceSwitch for the third.                                    *)
SwitchFairness ==
  /\ WF_switchCode(part = "switches" /\ Switches!QueueStep)
  /\ \A r \in {r1, r2} : WF_switchCode(part = "switches" /\ Switches!Resolve(r))

PartsSpec ==
  PartsInit /\ [][PartsNext]_<<part, vars, otherVars, switchVars>>
    /\ ElsewhereFairness /\ SwitchFairness
-----------------------------------------------------------------------------
(* Every restore that was begun comes to its end, and a key that is written  *)
(* outside the barrier then has the value of the backup, or of before, or a  *)
(* newer one (backupRestoreService.ts).                                      *)
ElsewhereSettles == Elsewhere!RestoreSettles

(* Every request for a switch is answered, and a journal is cleared or its   *)
(* recovery has failed (workspaceSwitchService.ts, workspaceController.ts).  *)
RequestsAreSettled == Switches!RequestsAreSettled
=============================================================================
