------------------------ MODULE RestoreTransaction_proofs ------------------------
(***************************************************************************)
(* The backup restore is atomic for every set of keys and every number of  *)
(* restores, writes, failing calls and stops of the worker, provided that  *)
(* nothing writes while a rollback that failed is unfinished.              *)
(***************************************************************************)
EXTENDS RestoreTransaction, TLAPS

(* The part of storage that the queues protect, before the commit and after *)
(* it: what a job has read of it is still true when the job relies on it.   *)
JobKnowsData ==
  /\ At("prepare") => job.before \in Contents /\ \A k \in Gated : job.before[k] = data[k]
  /\ job.step \in {"unbind", "commit"} => \A k \in Gated : data[k] = Backup(job.id)[k]
  /\ At("undone") => \A k \in Gated : data[k] = journal.before[k]
  /\ job.step \in Forward \cup {"check", "snapshot", "prepare"} => job.id \in 1 .. MaxRestores

(* Bindings and note drafts follow the content that storage is worth.       *)
FollowContent ==
  /\ bound # None => bound = Content[WorkspacesKey].from
  /\ At("commit") => bound = None
  /\ ~Committed => drafts.allowed = Content[WorkspacesKey].from
                   /\ drafts.unlisted = Content[WorkspacesKey].from
  /\ job.step \in {"unlist", "clear"} => drafts.allowed = data[WorkspacesKey].from
  /\ At("clear") => drafts.unlisted = data[WorkspacesKey].from

IInv == TypeOK /\ JobHasJournal /\ JobKnowsData /\ FollowContent

----------------------------------------------------------------------------
(* What a restore leaves is a content, and gives the workspaces its origin. *)
LEMMA BackupType ==
  ASSUME NEW r \in 1 .. MaxRestores
  PROVE  Backup(r) \in Contents /\ Backup(r)[WorkspacesKey].from = r
BY RestoreConstants DEF Backup, Contents, Values, Origins, Missing, Keys

LEMMA GatedWorkspaces == WorkspacesKey \in Gated /\ Gated \subseteq Keys
BY RestoreConstants DEF Gated, Keys

(* A call that overwrites some keys leaves a content.                       *)
LEMMA OverwriteType ==
  ASSUME NEW ks, NEW values \in Contents, data \in Contents, Overwrite(ks, values)
  PROVE  data' \in Contents
BY DEF Overwrite, Contents

(* The next step of a job leaves the rest of it alone.                      *)
LEMMA GotoType ==
  ASSUME job \in Jobs, NEW s \in Steps, Goto(s)
  PROVE  /\ job' \in Jobs /\ job'.step = s /\ job'.kind = job.kind
         /\ job'.id = job.id /\ job'.before = job.before
BY DEF Goto, Jobs

LEMMA NatBounds == /\ MaxRestores \in Nat /\ MaxWrites \in Nat /\ MaxElsewhere \in Nat
                   /\ MaxFaults \in Nat /\ MaxCrashes \in Nat
BY RestoreConstants

(* No job: it has the types of one.                                         *)
LEMMA IdleType == Idle \in Jobs /\ Idle.step = "idle"
BY NatBounds DEF Idle, Job, Jobs, Kinds, Steps

(* A new job holds no restore and no snapshot.                              *)
LEMMA JobType ==
  ASSUME NEW k \in Kinds, NEW s \in Steps
  PROVE  /\ Job(k, s) \in Jobs /\ Job(k, s).step = s /\ Job(k, s).kind = k
         /\ Job(k, s).id = 0 /\ Job(k, s).before = None
BY NatBounds DEF Job, Jobs

(* A job ends idle, whether it succeeds or not.                             *)
LEMMA EndType ==
  ASSUME job \in Jobs, alarm \in BOOLEAN,
         worker \in {"down", "starting", "open", "stuck"}, Succeed \/ Throw
  PROVE  /\ job' = Idle /\ job' \in Jobs /\ job'.step = "idle" /\ alarm' \in BOOLEAN
         /\ worker' \in {"down", "starting", "open", "stuck"}
BY IdleType DEF Succeed, Throw

(* The next phase of a journal leaves the rest of it alone.                 *)
LEMMA PhaseType ==
  ASSUME journal \in Journals, NEW p \in Phases, Phase(p)
  PROVE  /\ journal' \in Journals /\ journal'.phase = p
         /\ journal'.id = journal.id /\ journal'.before = journal.before
BY DEF Phase, Journals

(* The names of the steps.                                                  *)
LEMMA StepNames ==
  /\ Early \cup Forward \cup Undoing \cup Finishing \cup {"idle", "mark"} = Steps
  /\ {"load", "reconcile", "check", "snapshot", "prepare"} \subseteq Steps
  /\ {"writing", "local_remove", "local_set", "sync_remove", "sync_set",
      "written", "readback", "unbind", "commit"} \subseteq Steps
  /\ {"undo_local_set", "undo_local_remove", "undo_sync_set", "undo_sync_remove",
      "verify", "undone"} \subseteq Steps
  /\ {"allow", "unlist", "clear"} \subseteq Steps
BY DEF Steps, Early, Forward, Undoing, Finishing

(* Types, step by step.                                                     *)
LEMMA TypeStep ==
  ASSUME TypeOK, JobHasJournal, JobKnowsData, [Next]_vars
  PROVE  TypeOK'
<1> USE NatBounds, IdleType, NoneIsNoValue, GatedWorkspaces, StepNames
<1>1. CASE RequestRestore
  BY <1>1, JobType DEF RequestRestore, TypeOK, durable, Jobs, Kinds
<1>2. CASE CheckJournal
  BY <1>2, JobType DEF CheckJournal, TypeOK, durable, counters, Jobs, Kinds
<1>3. CASE TakeSnapshot
  BY <1>3 DEF TakeSnapshot, TypeOK, durable, counters, Jobs
<1>4. CASE WritePrepared
  BY <1>4, GotoType DEF WritePrepared, TypeOK, counters, At, Journals, Phases, JobKnowsData
<1>5. CASE WriteWriting
  BY <1>5, GotoType, PhaseType
     DEF WriteWriting, TypeOK, counters, At, JobHasJournal, Unfinished, Forward, Phases
<1>6. CASE ApplyMutation
  BY <1>6, GotoType, OverwriteType, BackupType
     DEF ApplyMutation, TypeOK, counters, At, Mutate, JobKnowsData, Forward
<1>7. CASE WriteWritten
  BY <1>7, GotoType, PhaseType
     DEF WriteWritten, TypeOK, counters, At, JobHasJournal, Unfinished, Forward, Phases
<1>8. CASE Readback
  BY <1>8, GotoType DEF Readback, TypeOK, durable, counters
<1>9. CASE ClearBindings
  BY <1>9, GotoType DEF ClearBindings, TypeOK, counters
<1>10. CASE Commit
  BY <1>10, GotoType, PhaseType
     DEF Commit, TypeOK, counters, At, JobHasJournal, Unfinished, Forward, Phases
<1>11. CASE AllowDrafts
  BY <1>11, GotoType DEF AllowDrafts, TypeOK, counters, Contents, Values
<1>12. CASE UnlistRemovals
  BY <1>12, GotoType DEF UnlistRemovals, TypeOK, counters, Contents, Values
<1>13. CASE ClearJournal
  BY <1>13, EndType DEF ClearJournal, TypeOK, counters
<1>14. CASE MarkRollingBack
  BY <1>14, GotoType, PhaseType
     DEF MarkRollingBack, TypeOK, counters, At, JobHasJournal, Unfinished, Phases
<1>15. CASE RestoreSnapshot
  BY <1>15, GotoType, OverwriteType
     DEF RestoreSnapshot, TypeOK, counters, At, PutBack, JobHasJournal, Unfinished, Undoing,
         Journals
<1>16. CASE VerifyRollback
  BY <1>16, GotoType, EndType DEF VerifyRollback, TypeOK, counters
<1>17. CASE DropJournal
  BY <1>17, EndType DEF DropJournal, TypeOK, counters
<1>18. CASE LoadJournal
  BY <1>18, GotoType, EndType DEF LoadJournal, TypeOK, counters
<1>19. CASE Reconcile
  BY <1>19, GotoType DEF Reconcile, TypeOK, durable, counters
<1>20. CASE Fail
  BY <1>20, GotoType, EndType DEF Fail, TypeOK
<1>21. CASE Crash
  BY <1>21 DEF Crash, TypeOK, durable
<1>22. CASE Suspend
  BY <1>22 DEF Suspend, TypeOK, counters
<1>23. CASE Start
  BY <1>23, JobType DEF Start, TypeOK, durable, counters, Kinds
<1>24. CASE CleanupAlarm
  BY <1>24, JobType DEF CleanupAlarm, TypeOK, counters, Kinds
<1>25. CASE IgnoreAlarm
  BY <1>25 DEF IgnoreAlarm, TypeOK, counters
<1>26. CASE Write
  BY <1>26 DEF Write, TypeOK, Contents, Values
<1>27. CASE Bind
  BY <1>27 DEF Bind, TypeOK, counters, Contents, Values
<1>28. CASE WriteElsewhere
  <2>1. PICK k \in Ungated : data' = [data EXCEPT ![k] = [from |-> -1, stamp |-> elsewhere + 1]]
    BY <1>28 DEF WriteElsewhere
  <2>2. elsewhere' = elsewhere + 1 /\ elsewhere' \in 0 .. MaxElsewhere
    BY <1>28 DEF WriteElsewhere, TypeOK
  <2>3. [from |-> -1, stamp |-> elsewhere + 1] \in Values
    <3>1. -1 \in Origins /\ elsewhere + 1 \in 0 .. MaxWrites + MaxElsewhere + 1
      BY <2>2 DEF Origins, TypeOK
    <3>2. QED
      BY <3>1 DEF Values
  <2>4. data' \in Contents
    BY <2>1, <2>3 DEF Contents, TypeOK
  <2>5. QED
    BY <1>28, <2>2, <2>4 DEF WriteElsewhere, TypeOK
<1>29. CASE UNCHANGED vars
  BY <1>29 DEF vars, TypeOK, durable, counters
<1> QED
  BY <1>1, <1>2, <1>3, <1>4, <1>5, <1>6, <1>7, <1>8, <1>9, <1>10, <1>11, <1>12, <1>13,
     <1>14, <1>15, <1>16, <1>17, <1>18, <1>19, <1>20, <1>21, <1>22, <1>23, <1>24, <1>25,
     <1>26, <1>27, <1>28, <1>29 DEF Next, Transaction, Finish, Rollback, Recovery

(* A job changes storage under a journal that is not committed.             *)
LEMMA JournalStep ==
  ASSUME TypeOK, TypeOK', JobHasJournal, JobKnowsData, [Next]_vars
  PROVE  JobHasJournal'
<1> USE IdleType, NoneIsNoValue, StepNames
<1>1. CASE RequestRestore
  BY <1>1 DEF RequestRestore, JobHasJournal, Forward, Undoing, Finishing, Job
<1>2. CASE CheckJournal
  BY <1>2 DEF CheckJournal, JobHasJournal, durable, Forward, Undoing, Finishing, Job
<1>3. CASE TakeSnapshot
  BY <1>3 DEF TakeSnapshot, JobHasJournal, durable, At, Forward, Undoing, Finishing
<1>4. CASE WritePrepared
  BY <1>4, GotoType
     DEF WritePrepared, TypeOK, JobHasJournal, Unfinished, Committed, At, Finishing,
         Journals, Phases, JobKnowsData
<1>5. CASE WriteWriting
  BY <1>5, GotoType, PhaseType
     DEF WriteWriting, TypeOK, JobHasJournal, Unfinished, Committed, At, Forward, Finishing,
         Phases
<1>6. CASE ApplyMutation
  BY <1>6, GotoType
     DEF ApplyMutation, TypeOK, JobHasJournal, Unfinished, Committed, At, Forward,
         Finishing, Mutate
<1>7. CASE WriteWritten
  BY <1>7, GotoType, PhaseType
     DEF WriteWritten, TypeOK, JobHasJournal, Unfinished, Committed, At, Forward, Finishing,
         Phases
<1>8. CASE Readback
  BY <1>8, GotoType
     DEF Readback, TypeOK, JobHasJournal, Unfinished, Committed, durable, At, Forward,
         Finishing
<1>9. CASE ClearBindings
  BY <1>9, GotoType
     DEF ClearBindings, TypeOK, JobHasJournal, Unfinished, Committed, At, Forward, Finishing
<1>10. CASE Commit
  BY <1>10, GotoType, PhaseType
     DEF Commit, TypeOK, JobHasJournal, Unfinished, Committed, At, Forward, Undoing, Phases
<1>11. CASE AllowDrafts
  BY <1>11, GotoType
     DEF AllowDrafts, TypeOK, JobHasJournal, Committed, At, Forward, Undoing, Finishing
<1>12. CASE UnlistRemovals
  BY <1>12, GotoType
     DEF UnlistRemovals, TypeOK, JobHasJournal, Committed, At, Forward, Undoing, Finishing
<1>13. CASE ClearJournal
  BY <1>13, EndType DEF ClearJournal, TypeOK, JobHasJournal, Forward, Undoing, Finishing
<1>14. CASE MarkRollingBack
  BY <1>14, GotoType, PhaseType
     DEF MarkRollingBack, TypeOK, JobHasJournal, Unfinished, Committed, At, Forward,
         Finishing, Phases
<1>15. CASE RestoreSnapshot
  BY <1>15, GotoType
     DEF RestoreSnapshot, TypeOK, JobHasJournal, Unfinished, Committed, At, Forward,
         Undoing, Finishing, PutBack
<1>16. CASE VerifyRollback
  BY <1>16, GotoType, EndType
     DEF VerifyRollback, TypeOK, JobHasJournal, Unfinished, Committed, At, Forward, Undoing,
         Finishing
<1>17. CASE DropJournal
  BY <1>17, EndType DEF DropJournal, TypeOK, JobHasJournal, Forward, Undoing, Finishing
<1>18. CASE LoadJournal
  BY <1>18, GotoType, EndType
     DEF LoadJournal, TypeOK, JobHasJournal, Forward, Undoing, Finishing
<1>19. CASE Reconcile
  BY <1>19, GotoType
     DEF Reconcile, TypeOK, JobHasJournal, Unfinished, Committed, durable, At, Forward,
         Undoing, Finishing
<1>20. CASE Fail
  BY <1>20, GotoType, EndType
     DEF Fail, TypeOK, JobHasJournal, Unfinished, Committed, At, Forward, Undoing, Finishing
<1>21. CASE Crash
  BY <1>21 DEF Crash, JobHasJournal, Forward, Undoing, Finishing
<1>22. CASE Suspend
  BY <1>22 DEF Suspend, JobHasJournal, Unfinished, Committed
<1>23. CASE Start
  BY <1>23 DEF Start, JobHasJournal, Forward, Undoing, Finishing, Job
<1>24. CASE CleanupAlarm
  BY <1>24 DEF CleanupAlarm, JobHasJournal, Forward, Undoing, Finishing, Job
<1>25. CASE IgnoreAlarm
  BY <1>25 DEF IgnoreAlarm, JobHasJournal, Unfinished, Committed
<1>26. CASE Write
  BY <1>26 DEF Write, JobHasJournal, Unfinished, Committed
<1>27. CASE Bind
  BY <1>27 DEF Bind, JobHasJournal, Unfinished, Committed
<1>28. CASE WriteElsewhere
  BY <1>28 DEF WriteElsewhere, JobHasJournal, Unfinished, Committed
<1>29. CASE UNCHANGED vars
  BY <1>29 DEF vars, JobHasJournal, Unfinished, Committed, durable
<1> QED
  BY <1>1, <1>2, <1>3, <1>4, <1>5, <1>6, <1>7, <1>8, <1>9, <1>10, <1>11, <1>12, <1>13,
     <1>14, <1>15, <1>16, <1>17, <1>18, <1>19, <1>20, <1>21, <1>22, <1>23, <1>24, <1>25,
     <1>26, <1>27, <1>28, <1>29 DEF Next, Transaction, Finish, Rollback, Recovery

(* What a job has read stays true until it relies on it: whoever else writes *)
(* then writes to keys that the queues do not protect.                       *)
LEMMA KnowsStep ==
  ASSUME TypeOK, TypeOK', JobHasJournal, JobKnowsData, [Next]_vars
  PROVE  JobKnowsData'
<1> USE IdleType, NatBounds, StepNames
<1>1. CASE RequestRestore
  BY <1>1 DEF RequestRestore, TypeOK, JobKnowsData, At, Job
<1>2. CASE CheckJournal
  BY <1>2 DEF CheckJournal, JobKnowsData, At, Forward, Job
<1>3. CASE TakeSnapshot
  BY <1>3 DEF TakeSnapshot, TypeOK, JobKnowsData, durable, At
<1>4. CASE WritePrepared
  BY <1>4, GotoType DEF WritePrepared, TypeOK, JobKnowsData, At
<1>5. CASE WriteWriting
  BY <1>5, GotoType DEF WriteWriting, TypeOK, JobKnowsData, At, Forward
<1>6. CASE ApplyMutation
  BY <1>6, GotoType DEF ApplyMutation, TypeOK, JobKnowsData, At, Forward, Mutate
<1>7. CASE WriteWritten
  BY <1>7, GotoType DEF WriteWritten, TypeOK, JobKnowsData, At, Forward
<1>8. CASE Readback
  BY <1>8, GotoType DEF Readback, TypeOK, JobKnowsData, durable, At, Forward
<1>9. CASE ClearBindings
  BY <1>9, GotoType DEF ClearBindings, TypeOK, JobKnowsData, At, Forward
<1>10. CASE Commit
  BY <1>10, GotoType DEF Commit, TypeOK, JobKnowsData, At, Forward
<1>11. CASE AllowDrafts
  BY <1>11, GotoType DEF AllowDrafts, TypeOK, JobKnowsData, At, Forward
<1>12. CASE UnlistRemovals
  BY <1>12, GotoType DEF UnlistRemovals, TypeOK, JobKnowsData, At, Forward
<1>13. CASE ClearJournal
  BY <1>13, EndType DEF ClearJournal, TypeOK, JobKnowsData, At, Forward
<1>14. CASE MarkRollingBack
  BY <1>14, GotoType DEF MarkRollingBack, TypeOK, JobKnowsData, At, Forward
<1>15. CASE RestoreSnapshot
  BY <1>15, GotoType DEF RestoreSnapshot, TypeOK, JobKnowsData, At, Forward, PutBack
<1>16. CASE VerifyRollback
  BY <1>16, GotoType, EndType DEF VerifyRollback, TypeOK, JobKnowsData, At, Forward
<1>17. CASE DropJournal
  BY <1>17, EndType DEF DropJournal, TypeOK, JobKnowsData, At, Forward
<1>18. CASE LoadJournal
  BY <1>18, GotoType, EndType DEF LoadJournal, TypeOK, JobKnowsData, At, Forward
<1>19. CASE Reconcile
  BY <1>19, GotoType DEF Reconcile, TypeOK, JobKnowsData, At, Forward
<1>20. CASE Fail
  BY <1>20, GotoType, EndType DEF Fail, TypeOK, JobKnowsData, At, Forward
<1>21. CASE Crash
  BY <1>21 DEF Crash, JobKnowsData, At, Forward
<1>22. CASE Suspend
  BY <1>22 DEF Suspend, JobKnowsData, At
<1>23. CASE Start
  BY <1>23 DEF Start, JobKnowsData, At, Forward, Job
<1>24. CASE CleanupAlarm
  BY <1>24 DEF CleanupAlarm, JobKnowsData, At, Forward, Job
<1>25. CASE IgnoreAlarm
  BY <1>25 DEF IgnoreAlarm, JobKnowsData, At
<1>26. CASE Write
  BY <1>26 DEF Write, JobKnowsData, At, BarrierFree
<1>27. CASE Bind
  BY <1>27 DEF Bind, JobKnowsData, At
<1>28. CASE WriteElsewhere
  BY <1>28 DEF WriteElsewhere, JobKnowsData, At, Gated
<1>29. CASE UNCHANGED vars
  BY <1>29 DEF vars, JobKnowsData, durable, At
<1> QED
  BY <1>1, <1>2, <1>3, <1>4, <1>5, <1>6, <1>7, <1>8, <1>9, <1>10, <1>11, <1>12, <1>13,
     <1>14, <1>15, <1>16, <1>17, <1>18, <1>19, <1>20, <1>21, <1>22, <1>23, <1>24, <1>25,
     <1>26, <1>27, <1>28, <1>29 DEF Next, Transaction, Finish, Rollback, Recovery

(* Bindings and drafts follow the content, if writers wait for a rollback.   *)
LEMMA FollowStep ==
  ASSUME GuardRollback, TypeOK, TypeOK', JobHasJournal, JobHasJournal',
         JobKnowsData, FollowContent, [Next]_vars
  PROVE  FollowContent'
<1> USE IdleType, NatBounds, StepNames, NoneIsNoValue, GatedWorkspaces, RestoreConstants
<1>1. CASE RequestRestore
  BY <1>1 DEF RequestRestore, FollowContent, Content, Unfinished, Committed, durable, At, Job
<1>2. CASE CheckJournal
  BY <1>2 DEF CheckJournal, FollowContent, Content, Unfinished, Committed, durable, At, Job
<1>3. CASE TakeSnapshot
  BY <1>3 DEF TakeSnapshot, FollowContent, Content, Unfinished, Committed, durable, At
<1>4. CASE WritePrepared
  BY <1>4, GotoType
     DEF WritePrepared, TypeOK, JobHasJournal, JobKnowsData, FollowContent, Content,
         Unfinished, Committed, At
<1>5. CASE WriteWriting
  BY <1>5, GotoType, PhaseType
     DEF WriteWriting, TypeOK, JobHasJournal, FollowContent, Content, Unfinished, At,
         Forward, Phases
<1>6. CASE ApplyMutation
  BY <1>6, GotoType
     DEF ApplyMutation, TypeOK, JobHasJournal, FollowContent, Content, Committed, At,
         Forward, Mutate
<1>7. CASE WriteWritten
  BY <1>7, GotoType, PhaseType
     DEF WriteWritten, TypeOK, JobHasJournal, FollowContent, Content, Unfinished, At,
         Forward, Phases
<1>8. CASE Readback
  BY <1>8, GotoType
     DEF Readback, TypeOK, FollowContent, Content, Unfinished, Committed, durable, At
<1>9. CASE ClearBindings
  BY <1>9
     DEF ClearBindings, JobHasJournal, FollowContent, Content, Unfinished, Committed, At,
         Forward, Finishing
<1>10. CASE Commit
  BY <1>10, GotoType DEF Commit, TypeOK, JobHasJournal, FollowContent, At, Finishing
<1>11. CASE AllowDrafts
  BY <1>11, GotoType
     DEF AllowDrafts, TypeOK, JobHasJournal, FollowContent, Content, Unfinished, At,
         Finishing
<1>12. CASE UnlistRemovals
  BY <1>12
     DEF UnlistRemovals, JobHasJournal, FollowContent, Content, Unfinished, Committed, At,
         Forward, Finishing
<1>13. CASE ClearJournal
  BY <1>13 DEF ClearJournal, JobHasJournal, FollowContent, Content, Unfinished, At, Forward
<1>14. CASE MarkRollingBack
  BY <1>14, GotoType, PhaseType
     DEF MarkRollingBack, TypeOK, JobHasJournal, FollowContent, Content, Unfinished,
         Committed, At, Phases
<1>15. CASE RestoreSnapshot
  BY <1>15, GotoType
     DEF RestoreSnapshot, TypeOK, JobHasJournal, FollowContent, Content, Committed, At,
         Undoing, PutBack
<1>16. CASE VerifyRollback
  BY <1>16, GotoType, EndType
     DEF VerifyRollback, TypeOK, FollowContent, Content, Unfinished, Committed, At
<1>17. CASE DropJournal
  BY <1>17
     DEF DropJournal, JobHasJournal, JobKnowsData, FollowContent, Content, Unfinished, At,
         Forward, Undoing
<1>18. CASE LoadJournal
  BY <1>18, GotoType
     DEF LoadJournal, TypeOK, JobHasJournal, FollowContent, Content, Unfinished, Committed,
         At, Forward
<1>19. CASE Reconcile
  BY <1>19, GotoType
     DEF Reconcile, TypeOK, FollowContent, Content, Unfinished, Committed, durable, At
<1>20. CASE Fail
  BY <1>20, GotoType, EndType
     DEF Fail, TypeOK, FollowContent, Content, Unfinished, Committed, At
<1>21. CASE Crash
  BY <1>21 DEF Crash, FollowContent, Content, Unfinished, Committed, durable, At
<1>22. CASE Suspend
  BY <1>22 DEF Suspend, FollowContent, Content, Unfinished, Committed, At
<1>23. CASE Start
  BY <1>23 DEF Start, FollowContent, Content, Unfinished, Committed, durable, At, Job
<1>24. CASE CleanupAlarm
  BY <1>24 DEF CleanupAlarm, FollowContent, Content, Unfinished, Committed, At, Job
<1>25. CASE IgnoreAlarm
  BY <1>25 DEF IgnoreAlarm, FollowContent, Content, Unfinished, Committed, At
<1>26. CASE Write
  BY <1>26 DEF Write, FollowContent, Content, Unfinished, Committed, At
<1>27. CASE Bind
  BY <1>27 DEF Bind, FollowContent, Content, Unfinished, Committed, At, BarrierFree
<1>28. CASE WriteElsewhere
  BY <1>28 DEF WriteElsewhere, FollowContent, Content, Unfinished, Committed, At
<1>29. CASE UNCHANGED vars
  BY <1>29 DEF vars, FollowContent, Content, Unfinished, Committed, durable, At
<1> QED
  BY <1>1, <1>2, <1>3, <1>4, <1>5, <1>6, <1>7, <1>8, <1>9, <1>10, <1>11, <1>12, <1>13,
     <1>14, <1>15, <1>16, <1>17, <1>18, <1>19, <1>20, <1>21, <1>22, <1>23, <1>24, <1>25,
     <1>26, <1>27, <1>28, <1>29 DEF Next, Transaction, Finish, Rollback, Recovery

----------------------------------------------------------------------------
LEMMA InitHolds == Init => IInv
<1> SUFFICES ASSUME Init PROVE IInv
  OBVIOUS
<1> USE IdleType, NatBounds, GatedWorkspaces
<1>1. Missing \in Values /\ Initial \in Values
  BY DEF Missing, Initial, Values, Origins
<1>2. TypeOK
  <2>1. data \in Contents
    BY <1>1 DEF Init, Contents
  <2>2. 0 \in Origins
    BY DEF Origins
  <2>3. drafts \in [allowed : Origins, unlisted : Origins] /\ bound \in Origins \cup {None}
    BY <2>2 DEF Init
  <2>4. /\ restores \in 0 .. MaxRestores /\ writes \in 1 .. MaxWrites + 1
        /\ elsewhere \in 0 .. MaxElsewhere /\ faults \in 0 .. MaxFaults
        /\ crashes \in 0 .. MaxCrashes
    BY DEF Init
  <2>5. QED
    BY <2>1, <2>3, <2>4 DEF Init, TypeOK
<1>3. JobHasJournal /\ JobKnowsData
  BY DEF Init, JobHasJournal, JobKnowsData, At, Early, Forward, Undoing, Finishing
<1>4. FollowContent
  BY DEF Init, FollowContent, Content, Unfinished, Committed, At, Initial
<1> QED
  BY <1>2, <1>3, <1>4 DEF IInv

(* The types of the restore and the rule that storage changes under an      *)
(* uncommitted journal only hold whatever writes in between.                *)
THEOREM TypeCorrectness == Spec => [](TypeOK /\ JobHasJournal /\ JobKnowsData)
<1>1. Init => TypeOK /\ JobHasJournal /\ JobKnowsData
  BY InitHolds DEF IInv
<1>2. (TypeOK /\ JobHasJournal /\ JobKnowsData) /\ [Next]_vars
      => (TypeOK /\ JobHasJournal /\ JobKnowsData)'
  BY TypeStep, JournalStep, KnowsStep
<1>3. QED
  BY <1>1, <1>2, PTL DEF Spec

(* In particular the job and the journal never disagree.                    *)
THEOREM JobAndStorageMatch == Spec => []JobMatchesStorage
  BY TypeCorrectness, PTL DEF JobMatchesStorage

(* With writers that wait for an unfinished rollback, bindings and note     *)
(* drafts follow the content too.                                           *)
THEOREM Invariance == ASSUME GuardRollback PROVE Spec => []IInv
<1>1. Init => IInv
  BY InitHolds
<1>2. IInv /\ [Next]_vars => IInv'
  <2> SUFFICES ASSUME IInv, [Next]_vars PROVE IInv'
    OBVIOUS
  <2>1. TypeOK'
    BY TypeStep DEF IInv
  <2>2. JobHasJournal'
    BY <2>1, JournalStep DEF IInv
  <2>3. JobKnowsData'
    BY <2>1, KnowsStep DEF IInv
  <2>4. FollowContent'
    BY <2>1, <2>2, FollowStep DEF IInv
  <2> QED
    BY <2>1, <2>2, <2>3, <2>4 DEF IInv
<1>3. QED
  BY <1>1, <1>2, PTL DEF Spec

(* No window is bound to a workspace of a list that a restore has replaced, *)
(* and the restored workspaces keep their note drafts and notes.            *)
THEOREM FollowersAreCurrent == ASSUME GuardRollback PROVE Spec => []FollowersFollow
<1>1. IInv => FollowersFollow
  BY NoneIsNoValue
  DEF IInv, FollowContent, FollowersFollow, NoStaleBinding, DraftsFollowRestore, Content, Unfinished, Committed
<1>2. QED
  BY <1>1, Invariance, PTL

----------------------------------------------------------------------------
Abstract == [k \in Gated |-> Content[k]]

(* Nothing changes for the abstract restore.                                *)
Stutter == Abstract' = Abstract /\ writes' = writes

LEMMA SameContent ==
  ASSUME \A k \in Gated : Content'[k] = Content[k]
  PROVE  Abstract' = Abstract
BY DEF Abstract

(* All but the writes and the commit leave the content as it is.             *)
LEMMA OthersStutter ==
  ASSUME TypeOK, TypeOK', JobHasJournal, JobHasJournal',
         JobKnowsData, JobKnowsData', [Next]_vars, ~Write, ~Commit
  PROVE  (\A k \in Gated : Content'[k] = Content[k]) /\ writes' = writes
<1> USE IdleType, NatBounds, StepNames, NoneIsNoValue, GatedWorkspaces
<1>1. CASE RequestRestore
  BY <1>1 DEF RequestRestore, Content, Unfinished, Committed, durable
<1>2. CASE CheckJournal
  BY <1>2 DEF CheckJournal, Content, Unfinished, Committed, durable, counters
<1>3. CASE TakeSnapshot
  BY <1>3 DEF TakeSnapshot, Content, Unfinished, Committed, durable, counters
<1>4. CASE WritePrepared
  BY <1>4 DEF WritePrepared, JobHasJournal, JobKnowsData, Content, Unfinished, counters, At
<1>5. CASE WriteWriting
  BY <1>5, PhaseType
     DEF WriteWriting, TypeOK, JobHasJournal, Content, Unfinished, Committed, counters, At,
         Forward, Phases
<1>6. CASE ApplyMutation
  BY <1>6
     DEF ApplyMutation, JobHasJournal, Content, Unfinished, Committed, counters, At,
         Forward, Mutate
<1>7. CASE WriteWritten
  BY <1>7, PhaseType
     DEF WriteWritten, TypeOK, JobHasJournal, Content, Unfinished, Committed, counters, At,
         Forward, Phases
<1>8. CASE Readback
  BY <1>8 DEF Readback, Content, Unfinished, Committed, durable, counters
<1>9. CASE ClearBindings
  BY <1>9 DEF ClearBindings, Content, Unfinished, Committed, counters
<1>10. CASE AllowDrafts
  BY <1>10 DEF AllowDrafts, Content, Unfinished, Committed, counters
<1>11. CASE UnlistRemovals
  BY <1>11 DEF UnlistRemovals, Content, Unfinished, Committed, counters
<1>12. CASE ClearJournal
  BY <1>12 DEF ClearJournal, JobHasJournal, Content, Unfinished, counters, At, Finishing
<1>13. CASE MarkRollingBack
  BY <1>13, PhaseType
     DEF MarkRollingBack, TypeOK, JobHasJournal, Content, Unfinished, Committed, counters,
         At, Phases
<1>14. CASE RestoreSnapshot
  BY <1>14
     DEF RestoreSnapshot, JobHasJournal, Content, Unfinished, Committed, counters, At,
         Undoing, PutBack
<1>15. CASE VerifyRollback
  BY <1>15 DEF VerifyRollback, Content, Unfinished, Committed, counters
<1>16. CASE DropJournal
  BY <1>16 DEF DropJournal, JobKnowsData, Content, Unfinished, counters
<1>17. CASE LoadJournal
  BY <1>17 DEF LoadJournal, Content, Unfinished, Committed, counters
<1>18. CASE Reconcile
  BY <1>18 DEF Reconcile, Content, Unfinished, Committed, durable, counters
<1>19. CASE Fail
  BY <1>19 DEF Fail, Content, Unfinished, Committed
<1>20. CASE Crash
  BY <1>20 DEF Crash, Content, Unfinished, Committed, durable
<1>21. CASE Suspend
  BY <1>21 DEF Suspend, Content, Unfinished, Committed, counters
<1>22. CASE Start
  BY <1>22 DEF Start, Content, Unfinished, Committed, durable, counters
<1>23. CASE CleanupAlarm
  BY <1>23 DEF CleanupAlarm, Content, Unfinished, Committed, counters
<1>24. CASE IgnoreAlarm
  BY <1>24 DEF IgnoreAlarm, Content, Unfinished, Committed, counters
<1>25. CASE Bind
  BY <1>25 DEF Bind, Content, Unfinished, Committed, counters
<1>26. CASE WriteElsewhere
  BY <1>26 DEF WriteElsewhere, Content, Unfinished, Committed, Gated
<1>27. CASE UNCHANGED vars
  BY <1>27 DEF vars, Content, Unfinished, Committed, durable, counters
<1> QED
  BY <1>1, <1>2, <1>3, <1>4, <1>5, <1>6, <1>7, <1>8, <1>9, <1>10, <1>11, <1>12, <1>13,
     <1>14, <1>15, <1>16, <1>17, <1>18, <1>19, <1>20, <1>21, <1>22, <1>23, <1>24, <1>25,
     <1>26, <1>27 DEF Next, Transaction, Finish, Rollback, Recovery

(* A write of another part of the program is a write.                       *)
LEMMA WriteIsWrite ==
  ASSUME GuardRollback, TypeOK, TypeOK', Write
  PROVE  Atomic!Write
<1> USE NoneIsNoValue, GatedWorkspaces
<1>1. PICK k \in Gated :
        data' = [data EXCEPT ![k] = [from |-> data[k].from, stamp |-> writes + 1]]
  BY DEF Write
<1>2. Content = data /\ Content' = data' /\ writes' = writes + 1
  BY DEF Write, BarrierFree, Content, Unfinished, Committed
<1>3. Abstract' = [Abstract EXCEPT ![k] = [from |-> Abstract[k].from, stamp |-> writes + 1]]
  BY <1>1, <1>2 DEF Abstract, TypeOK, Contents
<1>4. QED
  BY <1>1, <1>2, <1>3 DEF Atomic!Write, Abstract

(* The commit replaces the content from before by that of the backup.       *)
LEMMA CommitIsRestore ==
  ASSUME TypeOK, JobHasJournal, JobKnowsData, Commit
  PROVE  Atomic!Restore
<1> USE GatedWorkspaces
<1>1. job.id \in 1 .. MaxRestores /\ \A k \in Gated : data[k] = Backup(job.id)[k]
  BY DEF Commit, At, JobKnowsData, Forward
<1>2. journal # None /\ journal'.phase = "committed" /\ journal' \in Journals
  BY PhaseType DEF Commit, At, JobHasJournal, Forward, Unfinished, TypeOK, Phases
<1>3. Content' = data
  BY <1>2, NoneIsNoValue DEF Content, Unfinished, Committed, Commit
<1>4. Abstract' = Atomic!Backup(job.id)
  BY <1>1, <1>3 DEF Abstract, Atomic!Backup, Atomic!Missing, Backup, Missing, Keys
<1>5. QED
  BY <1>1, <1>4 DEF Atomic!Restore, Abstract, Commit, counters

(* A restore changes the protected keys together or not at all, and nothing *)
(* that was written before it began or after it committed is undone.        *)
THEOREM Atomicity == ASSUME GuardRollback PROVE Spec => RestoreIsAtomic
<1>1. Init => Atomic!Init
  <2> SUFFICES ASSUME Init PROVE Atomic!Init
    OBVIOUS
  <2>1. Content = data /\ writes = 1
    BY DEF Init, Content, Unfinished
  <2>2. \A k \in Gated : data[k] \in {Missing, Initial}
    BY GatedWorkspaces DEF Init
  <2>3. QED
    BY <2>1, <2>2 DEF Atomic!Init, Atomic!Missing, Missing, Initial
<1>2. IInv /\ IInv' /\ [Next]_vars => [Atomic!Next]_<<Abstract, writes>>
  <2> SUFFICES ASSUME IInv, IInv', [Next]_vars
               PROVE  Atomic!Next \/ (Abstract' = Abstract /\ writes' = writes)
    OBVIOUS
  <2>1. CASE Write
    BY <2>1, WriteIsWrite DEF IInv, Atomic!Next
  <2>2. CASE Commit
    BY <2>2, CommitIsRestore DEF IInv, Atomic!Next
  <2>3. CASE ~Write /\ ~Commit
    BY <2>3, OthersStutter, SameContent DEF IInv
  <2> QED
    BY <2>1, <2>2, <2>3
<1>3. QED
  BY <1>1, <1>2, Invariance, PTL DEF Spec, RestoreIsAtomic, Atomic!Spec, Abstract
==============================================================================
