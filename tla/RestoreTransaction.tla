--------------------------- MODULE RestoreTransaction ---------------------------
(***************************************************************************)
(* The backup restore                                                      *)
(* (src/background/services/backupRestoreService.ts): a journal in         *)
(* IndexedDB, the changes of local and sync storage it covers, commit and  *)
(* rollback, and the three places that finish what a stopped worker or a   *)
(* failed call left: the start of the worker, the cleanup alarm and the    *)
(* next restore.  The barrier lets one of them run at a time and keeps the *)
(* other writers out; a few keys have writers it does not stop.            *)
(*                                                                         *)
(* A value is [from, stamp]: the restore it derives from and the write     *)
(* that made it.  The revocation of the agent's connection before the      *)
(* commit is here only as a call that may fail.                            *)
(***************************************************************************)
EXTENDS Integers

CONSTANTS
  LocalKeys, SyncKeys,  \* the keys a restore covers, by storage area
  Removed,              \* those it removes; it sets the others
  Ungated,              \* keys with writers outside the barrier: the settings
                        \* another device syncs, the journal of a switch
  WorkspacesKey,
  GuardRollback,        \* no write while a rollback that failed is unfinished
  MaxRestores, MaxWrites, MaxElsewhere,
  MaxFaults,            \* bound: storage calls that fail
  MaxCrashes,           \* bound: stops of the worker in the middle of a job
  None

Keys == LocalKeys \cup SyncKeys
Gated == Keys \ Ungated

ASSUME RestoreConstants ==
  /\ LocalKeys \cap SyncKeys = {} /\ Removed \subseteq Keys /\ Ungated \subseteq Keys
  /\ WorkspacesKey \in LocalKeys \ (Removed \cup Ungated)
  /\ GuardRollback \in BOOLEAN
  /\ {MaxRestores, MaxWrites, MaxElsewhere, MaxFaults, MaxCrashes} \subseteq Nat

VARIABLES
  data,      \* local and sync storage
  journal,   \* IndexedDB: None or [phase, id, before]
  drafts,    \* the restore whose note drafts are allowed, and taken off the removals
  bound,     \* session storage: the restore the bound workspaces come from, or None
  alarm,     \* chrome.alarms: the cleanup alarm is set
  worker,    \* "down", "starting", "open", "stuck": the startup recovery gate
  job,       \* what holds the barrier
  restores,  \* restores begun so far
  writes,    \* writes made so far under the storage queues
  elsewhere, \* writes made so far outside the barrier
  faults, crashes

durable == <<data, journal, drafts, bound, alarm>>
counters == <<restores, writes, elsewhere, faults, crashes>>
vars == <<durable, worker, job, counters>>

Missing == [from |-> 0, stamp |-> 0]
Initial == [from |-> 0, stamp |-> 1]
Job(kind, step) == [kind |-> kind, step |-> step, id |-> 0, before |-> None]
Idle == Job("none", "idle")

Init ==
  /\ data \in [Keys -> {Missing, Initial}] /\ data[WorkspacesKey] = Initial
  /\ journal = None
  /\ drafts = [allowed |-> 0, unlisted |-> 0]
  /\ bound \in {None, 0}
  /\ alarm = FALSE /\ worker = "open" /\ job = Idle
  /\ restores = 0 /\ writes = 1 /\ elsewhere = 0 /\ faults = 0 /\ crashes = 0

----------------------------------------------------------------------------
Backup(r) == [k \in Keys |-> IF k \in Removed THEN Missing ELSE [from |-> r, stamp |-> 1]]

Overwrite(ks, values) == data' = [k \in Keys |-> IF k \in ks THEN values[k] ELSE data[k]]

Committed == journal # None /\ journal.phase = "committed"
Unfinished == journal # None /\ ~Committed
(* The steps of a job: those before it changes storage, those that lead to  *)
(* a commit, those that lead back, and those after a commit.                *)
Early == {"load", "reconcile", "check", "snapshot", "prepare"}
Forward == {"writing", "local_remove", "local_set", "sync_remove", "sync_set",
            "written", "readback", "unbind", "commit"}
Undoing == {"undo_local_set", "undo_local_remove", "undo_sync_set", "undo_sync_remove",
            "verify", "undone"}
Finishing == {"allow", "unlist", "clear"}

BarrierFree == worker = "open" /\ job = Idle

At(step) == job.step = step
Goto(step) == job' = [job EXCEPT !.step = step]
Phase(phase) == journal' = [journal EXCEPT !.phase = phase]

(* The gate opens once the recovery of the startup has succeeded.           *)
Succeed ==
  /\ job' = Idle
  /\ worker' = "open"
  /\ alarm' = IF job.kind \in {"startup", "cleanup"} THEN FALSE ELSE alarm

(* A committed restore reports that its cleanup is pending, the alarm tries *)
(* again, a failed startup leaves the gate closed.                          *)
Throw ==
  /\ job' = Idle
  /\ worker' = IF job.kind = "startup" THEN "stuck" ELSE worker
  /\ alarm' = IF job.kind = "cleanup" \/ (job.kind = "restore" /\ Committed)
              THEN TRUE ELSE alarm

----------------------------------------------------------------------------
(* runRestoreTransaction                                                    *)
RequestRestore ==
  /\ BarrierFree /\ restores < MaxRestores
  /\ restores' = restores + 1
  /\ job' = [Job("restore", "check") EXCEPT !.id = restores + 1]
  /\ UNCHANGED <<durable, worker, writes, elsewhere, faults, crashes>>

(* Faulty variant: a restore begins over the journal of another.            *)
CheckJournal_Ignored ==
  /\ At("check") /\ Goto("snapshot")
  /\ UNCHANGED <<durable, worker, counters>>

(* ensureNoExistingJournal: a journal is finished first and ends the        *)
(* restore with an error.                                                   *)
CheckJournal ==
  /\ At("check")
  /\ job' = IF journal = None THEN [job EXCEPT !.step = "snapshot"]
            ELSE Job("previous", "reconcile")
  /\ UNCHANGED <<durable, worker, counters>>

TakeSnapshot ==
  /\ At("snapshot")
  /\ job' = [job EXCEPT !.step = "prepare", !.before = data]
  /\ UNCHANGED <<durable, worker, counters>>

WritePrepared ==
  /\ At("prepare")
  /\ journal' = [phase |-> "prepared", id |-> job.id, before |-> job.before]
  /\ Goto("writing")
  /\ UNCHANGED <<data, drafts, bound, alarm, worker, counters>>

WriteWriting ==
  /\ At("writing") /\ Phase("writing") /\ Goto("local_remove")
  /\ UNCHANGED <<data, drafts, bound, alarm, worker, counters>>

(* applyStorageMutation: one call removes keys, the next sets the others.   *)
Mutate(step, keys, next) == At(step) /\ Overwrite(keys, Backup(job.id)) /\ Goto(next)

ApplyMutation ==
  /\ \/ Mutate("local_remove", LocalKeys \cap Removed, "local_set")
     \/ Mutate("local_set", LocalKeys \ Removed, "sync_remove")
     \/ Mutate("sync_remove", SyncKeys \cap Removed, "sync_set")
     \/ Mutate("sync_set", SyncKeys \ Removed, "written")
  /\ UNCHANGED <<journal, drafts, bound, alarm, worker, counters>>

WriteWritten ==
  /\ At("written") /\ Phase("written") /\ Goto("readback")
  /\ UNCHANGED <<data, drafts, bound, alarm, worker, counters>>

(* Another content than the expected one rolls the restore back.            *)
Readback ==
  /\ At("readback") /\ Goto(IF data = Backup(job.id) THEN "unbind" ELSE "mark")
  /\ UNCHANGED <<durable, worker, counters>>

(* Faulty variant: the windows keep their bindings.                         *)
ClearBindings_Kept ==
  /\ At("unbind") /\ Goto("commit")
  /\ UNCHANGED <<durable, worker, counters>>

ClearBindings ==
  /\ At("unbind") /\ bound' = None /\ Goto("commit")
  /\ UNCHANGED <<data, journal, drafts, alarm, worker, counters>>

Commit ==
  /\ At("commit") /\ Phase("committed") /\ Goto("allow")
  /\ UNCHANGED <<data, drafts, bound, alarm, worker, counters>>

----------------------------------------------------------------------------
(* allowRestoredNoteDrafts and the end of a committed journal               *)
AllowDrafts ==
  /\ At("allow") /\ Goto("unlist")
  /\ drafts' = [drafts EXCEPT !.allowed = data[WorkspacesKey].from]
  /\ UNCHANGED <<data, journal, bound, alarm, worker, counters>>

(* The restored workspaces leave the list of pending context removals.      *)
UnlistRemovals ==
  /\ At("unlist") /\ Goto("clear")
  /\ drafts' = [drafts EXCEPT !.unlisted = data[WorkspacesKey].from]
  /\ UNCHANGED <<data, journal, bound, alarm, worker, counters>>

ClearJournal ==
  /\ At("clear") /\ journal' = None /\ Succeed
  /\ UNCHANGED <<data, drafts, bound, counters>>

----------------------------------------------------------------------------
(* rollbackJournal: the error of the first write is ignored; restoreSnapshot *)
(* sets the values before it removes the keys that had none.                *)
MarkRollingBack ==
  /\ At("mark") /\ Phase("rolling_back") /\ Goto("undo_local_set")
  /\ UNCHANGED <<data, drafts, bound, alarm, worker, counters>>

Had == {k \in Keys : journal.before[k] # Missing}
PutBack(step, keys, next) == At(step) /\ Overwrite(keys, journal.before) /\ Goto(next)

RestoreSnapshot ==
  /\ \/ PutBack("undo_local_set", LocalKeys \cap Had, "undo_local_remove")
     \/ PutBack("undo_local_remove", LocalKeys \ Had, "undo_sync_set")
     \/ PutBack("undo_sync_set", SyncKeys \cap Had, "undo_sync_remove")
     \/ PutBack("undo_sync_remove", SyncKeys \ Had, "verify")
  /\ UNCHANGED <<journal, drafts, bound, alarm, worker, counters>>

VerifyRollback ==
  /\ At("verify")
  /\ IF data = journal.before THEN Goto("undone") /\ UNCHANGED <<worker, alarm>> ELSE Throw
  /\ UNCHANGED <<data, journal, drafts, bound, counters>>

DropJournal ==
  /\ At("undone") /\ journal' = None
  /\ IF job.kind = "restore" THEN Throw ELSE Succeed
  /\ UNCHANGED <<data, drafts, bound, counters>>

(* Faulty variant: every journal is rolled back, a committed one too.       *)
Reconcile_AlwaysBack ==
  /\ At("reconcile") /\ Goto("mark")
  /\ UNCHANGED <<durable, worker, counters>>
(* reconcileJournal                                                         *)
Reconcile ==
  /\ At("reconcile") /\ Goto(IF Committed THEN "allow" ELSE "mark")
  /\ UNCHANGED <<durable, worker, counters>>

----------------------------------------------------------------------------
(* A call of storage, of the journal or of another service fails.  Before   *)
(* the journal is durable there is nothing to undo, before the commit the   *)
(* restore rolls back, later the journal stays.                             *)
Fail ==
  /\ job # Idle /\ faults < MaxFaults /\ faults' = faults + 1
  /\ \/ At("mark") /\ Goto("undo_local_set") /\ UNCHANGED <<worker, alarm>>
     \/ job.step \in Forward /\ Goto("mark") /\ UNCHANGED <<worker, alarm>>
     \/ job.step \in Early \cup Undoing \cup Finishing /\ Throw
  /\ UNCHANGED <<data, journal, drafts, bound, restores, writes, elsewhere, crashes>>

(* The worker stops in the middle of a job.                                 *)
Crash ==
  /\ job # Idle /\ crashes < MaxCrashes /\ crashes' = crashes + 1
  /\ worker' = "down" /\ job' = Idle
  /\ UNCHANGED <<durable, restores, writes, elsewhere, faults>>

(* Chrome stops an idle worker, or all of the browser and with it the       *)
(* session storage.                                                         *)
Suspend ==
  /\ worker \in {"open", "stuck"} /\ job = Idle /\ worker' = "down"
  /\ bound' \in {bound, None}
  /\ UNCHANGED <<data, journal, drafts, alarm, job, counters>>

(* Faulty variant: the worker starts without looking for a journal.         *)
Start_NoRecovery ==
  /\ worker = "down" /\ worker' = "open"
  /\ UNCHANGED <<durable, job, counters>>

(* recoverInterruptedBackupRestore at the start of the worker               *)
Start ==
  /\ worker = "down" /\ worker' = "starting"
  /\ job' = Job("startup", "load")
  /\ UNCHANGED <<durable, counters>>

(* A worker whose startup failed lets the alarm pass.                       *)
IgnoreAlarm ==
  /\ alarm /\ worker = "stuck" /\ alarm' = FALSE
  /\ UNCHANGED <<data, journal, drafts, bound, worker, job, counters>>

(* readPendingBackupRestorePhase and runBackupRestoreCleanupAlarm: the      *)
(* phase is read before the barrier is entered, the journal again in it.    *)
CleanupAlarm ==
  /\ alarm /\ BarrierFree
  /\ alarm' = FALSE /\ job' = Job("cleanup", "load")
  /\ UNCHANGED <<data, journal, drafts, bound, worker, counters>>

LoadJournal ==
  /\ At("load")
  /\ IF journal = None THEN Succeed ELSE Goto("reconcile") /\ UNCHANGED <<worker, alarm>>
  /\ UNCHANGED <<data, journal, drafts, bound, counters>>

----------------------------------------------------------------------------
(* The other writers, which wait for the gate and the barrier.              *)
Write ==
  /\ BarrierFree /\ (GuardRollback => ~Unfinished)
  /\ writes <= MaxWrites /\ writes' = writes + 1
  /\ \E k \in Gated : data' = [data EXCEPT ![k] = [from |-> @.from, stamp |-> writes + 1]]
  /\ UNCHANGED <<journal, drafts, bound, alarm, worker, job, restores, elsewhere, faults, crashes>>

(* A switch binds a window to one of the workspaces.                        *)
Bind ==
  /\ BarrierFree /\ (GuardRollback => ~Unfinished)
  /\ bound' = data[WorkspacesKey].from
  /\ UNCHANGED <<data, journal, drafts, alarm, worker, job, counters>>

(* Writers that wait for neither: another device, and while the worker is   *)
(* up the recovery of a switch, whose alarm does not wait for the startup.  *)
WriteElsewhere ==
  /\ elsewhere < MaxElsewhere /\ elsewhere' = elsewhere + 1
  /\ \E k \in Ungated :
       /\ k \in SyncKeys \/ worker # "down"
       /\ data' = [data EXCEPT ![k] = [from |-> -1, stamp |-> elsewhere + 1]]
  /\ UNCHANGED <<journal, drafts, bound, alarm, worker, job, restores, writes, faults, crashes>>

----------------------------------------------------------------------------
Transaction ==
  RequestRestore \/ CheckJournal \/ TakeSnapshot \/ WritePrepared \/ WriteWriting
  \/ ApplyMutation \/ WriteWritten \/ Readback \/ ClearBindings \/ Commit
Finish == AllowDrafts \/ UnlistRemovals \/ ClearJournal
Rollback == MarkRollingBack \/ RestoreSnapshot \/ VerifyRollback \/ DropJournal
Recovery == LoadJournal \/ Reconcile
Next ==
  Transaction \/ Finish \/ Rollback \/ Recovery \/ Fail \/ Crash \/ Suspend \/ Start
  \/ CleanupAlarm \/ IgnoreAlarm \/ Write \/ Bind \/ WriteElsewhere

Spec == Init /\ [][Next]_vars

(* A job runs to its end, an alarm rings, an idle worker is suspended and   *)
(* the next event starts it again.                                          *)
FairSpec ==
  /\ Spec
  /\ WF_vars(CheckJournal \/ TakeSnapshot \/ WritePrepared \/ WriteWriting \/ ApplyMutation
             \/ WriteWritten \/ Readback \/ ClearBindings \/ Commit
             \/ Finish \/ Rollback \/ Recovery)
  /\ WF_vars(CleanupAlarm) /\ SF_vars(Suspend) /\ WF_vars(Start)
----------------------------------------------------------------------------
Origins == -1 .. MaxRestores
Values == [from : Origins, stamp : 0 .. MaxWrites + MaxElsewhere + 1]
Contents == [Keys -> Values]
Phases == {"prepared", "writing", "written", "committed", "rolling_back"}
Journals == [phase : Phases, id : 1 .. MaxRestores, before : Contents]
Kinds == {"none", "restore", "previous", "startup", "cleanup"}
Steps == {"idle", "mark"} \cup Early \cup Forward \cup Undoing \cup Finishing
Jobs == [kind : Kinds, step : Steps, id : 0 .. MaxRestores, before : Contents \cup {None}]

ASSUME NoneIsNoValue == None \notin Journals /\ None \notin Int

(* The state has the shape the code gives it.                               *)
TypeOK ==
  /\ data \in Contents /\ journal \in Journals \cup {None}
  /\ drafts \in [allowed : Origins, unlisted : Origins] /\ bound \in Origins \cup {None}
  /\ alarm \in BOOLEAN /\ worker \in {"down", "starting", "open", "stuck"}
  /\ job \in Jobs
  /\ restores \in 0 .. MaxRestores /\ writes \in 1 .. MaxWrites + 1
  /\ elsewhere \in 0 .. MaxElsewhere /\ faults \in 0 .. MaxFaults
  /\ crashes \in 0 .. MaxCrashes

(* Storage changes under a journal that is not committed, the drafts under  *)
(* one that is, and a restore begins without any.                           *)
JobHasJournal ==
  /\ job.step \in {"snapshot", "prepare"} => journal = None
  /\ job.step = "reconcile" => journal # None
  /\ job.step \in Forward \cup Undoing \cup {"mark"} => Unfinished
  /\ job.step \in Forward => job.id = journal.id
  /\ job.step \in Finishing => Committed

(* The job, the journal and the storage agree on how far a restore has come. *)
JobMatchesStorage == TypeOK /\ JobHasJournal

(* What storage is worth: the content from before a restore that is not     *)
(* committed, since it will be put back.                                    *)
Content == IF Unfinished THEN journal.before ELSE data

Atomic == INSTANCE AtomicRestore
  WITH Keys <- Gated, Removed <- Removed \cap Gated, Restores <- 1 .. MaxRestores,
       content <- [k \in Gated |-> Content[k]], writes <- writes

(* A restore changes all the keys or none, whatever call fails and wherever *)
(* the worker stops, and neither its rollback nor its cleanup undoes a      *)
(* write made before it began or after it committed.                        *)
RestoreIsAtomic == Atomic!Spec

(* The keys with writers outside the barrier: when the journal is dropped   *)
(* each has the value of the backup, or of before, or a newer one.          *)
SettlesWhole ==
  [][ journal # None /\ journal' = None
      => LET end == IF Committed THEN Backup(journal.id) ELSE journal.before
         IN \A k \in Ungated : data'[k] = end[k] \/ data'[k].from = -1 ]_vars

(* No window is bound to a workspace of a list that a restore has replaced: *)
(* its autosave would save tabs into nothing or into a namesake.            *)
NoStaleBinding == bound # None /\ ~Unfinished => bound = data[WorkspacesKey].from

(* Once its journal is gone, the workspaces of a restore may have note      *)
(* drafts, and no pending removal takes their notes.                        *)
DraftsFollowRestore ==
  journal = None => drafts.allowed = data[WorkspacesKey].from
                    /\ drafts.unlisted = data[WorkspacesKey].from

(* What hangs on the workspaces follows the list that a restore puts in      *)
(* place: the bindings of windows and the drafts and removals of notes.      *)
FollowersFollow == NoStaleBinding /\ DraftsFollowRestore

(* What the user or the autosave has written under the storage queues       *)
(* gives way to a newer write or to a backup, never to something older.     *)
NewerWritesStay ==
  [][ \A k \in Gated :
        data[k].stamp > 1 /\ data'[k] # data[k]
        => data'[k].stamp > data[k].stamp
           \/ (journal # None /\ data'[k] = Backup(journal.id)[k]) ]_vars

(* A journal, committed or not, is finished in the end.                     *)
JournalIsSettled == journal # None ~> journal = None

(* Every restore that was begun comes to its end, and to a whole one.        *)
RestoreSettles == SettlesWhole /\ JournalIsSettled
==============================================================================
