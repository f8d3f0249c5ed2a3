---------------------------- MODULE OperationGate ----------------------------
(***************************************************************************)
(* The workspace operation gate (src/background/workspaceOperationGate.ts) *)
(* that every workspace switch, data operation and maintenance task of the *)
(* background service worker goes through.                                 *)
(*                                                                         *)
(* JavaScript is single threaded: everything a call does up to its first   *)
(* await is one action here, and so is every promise callback.  The loop   *)
(* that admits the waiting operations is synchronous, but each task it     *)
(* starts runs its own synchronous prefix inside the loop; "admitting"     *)
(* marks the turns of that loop, during which only the task just started   *)
(* can act.                                                                *)
(*                                                                         *)
(* Every member of Normal and Exclusive is one call of the gate.           *)
(***************************************************************************)
EXTENDS Integers, Sequences, FiniteSets

CONSTANTS
  Normal,      \* calls of runNormal
  Exclusive    \* calls of runExclusive

ASSUME DisjointCalls == Normal \cap Exclusive = {}

VARIABLES
  gateStatus,        \* where each call is
  activeNormal,      \* activeNormalOperations
  pendingExclusive,  \* pendingExclusiveOperations
  exclusiveTail,     \* the chain of exclusive calls, the head is the current one
  pendingNormal,     \* pendingNormalOperations
  admitting          \* inside the loop of admitPendingNormalOperations

gateVars == <<gateStatus, activeNormal, pendingExclusive, exclusiveTail, pendingNormal,
              admitting>>

NormalStatus == {"idle", "waiting", "running", "done"}

(* queued: behind another exclusive call; cleaning: beforeDrain; blocked: a *)
(* drain waiter; drained: the drain promise is resolved, its continuation   *)
(* is not yet run; settled: the task has ended, its finally is not yet run. *)
ExclusiveStatus == {"idle", "queued", "cleaning", "blocked", "drained",
                    "running", "settled", "done"}

Current == {"cleaning", "blocked", "drained", "running"}

GateInit ==
  /\ gateStatus = [op \in Normal \cup Exclusive |-> "idle"]
  /\ activeNormal = 0
  /\ pendingExclusive = 0
  /\ exclusiveTail = <<>>
  /\ pendingNormal = <<>>
  /\ admitting = FALSE

(* Faulty variant: a check of the running task only, not of the queued ones. *)
RunNormal_ChecksTaskOnly(n) ==
  /\ gateStatus[n] = "idle"
  /\ ~admitting
  /\ \A e \in Exclusive : gateStatus[e] # "running"
  /\ activeNormal' = activeNormal + 1
  /\ gateStatus' = [gateStatus EXCEPT ![n] = "running"]
  /\ UNCHANGED <<pendingNormal, pendingExclusive, exclusiveTail, admitting>>

----------------------------------------------------------------------------
(* A normal operation is admitted at once, or waits for all maintenance.   *)
RunNormal(n) ==
  /\ gateStatus[n] = "idle"
  /\ ~admitting
  /\ \/ /\ pendingExclusive = 0
        /\ activeNormal' = activeNormal + 1
        /\ gateStatus' = [gateStatus EXCEPT ![n] = "running"]
        /\ UNCHANGED pendingNormal
     \/ /\ pendingExclusive # 0
        /\ pendingNormal' = Append(pendingNormal, n)
        /\ gateStatus' = [gateStatus EXCEPT ![n] = "waiting"]
        /\ UNCHANGED activeNormal
  /\ UNCHANGED <<pendingExclusive, exclusiveTail, admitting>>

(* Faulty variant: the drain waiters are not woken.                        *)
FinishNormal_NoNotify(n) ==
  /\ gateStatus[n] = "running"
  /\ ~admitting
  /\ activeNormal' = activeNormal - 1
  /\ gateStatus' = [gateStatus EXCEPT ![n] = "done"]
  /\ UNCHANGED <<pendingExclusive, exclusiveTail, pendingNormal, admitting>>

(* The finally of executeNormal, which also wakes the drain waiters when   *)
(* it was the last one.                                                    *)
FinishNormal(n) ==
  /\ gateStatus[n] = "running"
  /\ ~admitting
  /\ activeNormal' = activeNormal - 1
  /\ gateStatus' = [op \in Normal \cup Exclusive |->
                  IF op = n THEN "done"
                  ELSE IF activeNormal' = 0 /\ gateStatus[op] = "blocked" THEN "drained"
                  ELSE gateStatus[op]]
  /\ UNCHANGED <<pendingExclusive, exclusiveTail, pendingNormal, admitting>>

(* Calling runExclusive closes admission in the same turn.  A task that    *)
(* the admission loop has just started may be the caller.                  *)
RunExclusive(e) ==
  /\ gateStatus[e] = "idle"
  /\ pendingExclusive' = pendingExclusive + 1
  /\ exclusiveTail' = Append(exclusiveTail, e)
  /\ gateStatus' = [gateStatus EXCEPT ![e] = "queued"]
  /\ UNCHANGED <<activeNormal, pendingNormal, admitting>>

(* The chain reaches e: its beforeDrain starts.                            *)
BeginExclusive(e) ==
  /\ ~admitting
  /\ exclusiveTail # <<>> /\ Head(exclusiveTail) = e
  /\ gateStatus[e] = "queued"
  /\ gateStatus' = [gateStatus EXCEPT ![e] = "cleaning"]
  /\ UNCHANGED <<activeNormal, pendingExclusive, exclusiveTail, pendingNormal,
                 admitting>>

(* Faulty variant: the task follows beforeDrain at once.                   *)
WaitUntilDrained_NoWait(e) ==
  /\ ~admitting
  /\ gateStatus[e] = "cleaning"
  /\ gateStatus' = [gateStatus EXCEPT ![e] = "drained"]
  /\ UNCHANGED <<activeNormal, pendingExclusive, exclusiveTail, pendingNormal,
                 admitting>>

(* beforeDrain has ended: wait until no normal operation is active.        *)
WaitUntilDrained(e) ==
  /\ ~admitting
  /\ gateStatus[e] = "cleaning"
  /\ gateStatus' = [gateStatus EXCEPT ![e] = IF activeNormal = 0 THEN "drained" ELSE "blocked"]
  /\ UNCHANGED <<activeNormal, pendingExclusive, exclusiveTail, pendingNormal,
                 admitting>>

StartExclusiveTask(e) ==
  /\ ~admitting
  /\ gateStatus[e] = "drained"
  /\ gateStatus' = [gateStatus EXCEPT ![e] = "running"]
  /\ UNCHANGED <<activeNormal, pendingExclusive, exclusiveTail, pendingNormal,
                 admitting>>

(* The run settles, with the task's result or with an error of beforeDrain *)
(* or of the task; the next exclusive call of the chain may begin.         *)
SettleExclusive(e) ==
  /\ ~admitting
  /\ gateStatus[e] \in {"cleaning", "running"}
  /\ gateStatus' = [gateStatus EXCEPT ![e] = "settled"]
  /\ exclusiveTail' = Tail(exclusiveTail)
  /\ UNCHANGED <<activeNormal, pendingExclusive, pendingNormal, admitting>>

(* Faulty variant: nobody is admitted.                                     *)
FinishExclusive_NoAdmission(e) ==
  /\ ~admitting
  /\ gateStatus[e] = "settled"
  /\ pendingExclusive' = pendingExclusive - 1
  /\ gateStatus' = [gateStatus EXCEPT ![e] = "done"]
  /\ UNCHANGED <<activeNormal, exclusiveTail, pendingNormal, admitting>>

(* The finally of runExclusive, which enters the admission loop.           *)
FinishExclusive(e) ==
  /\ ~admitting
  /\ gateStatus[e] = "settled"
  /\ pendingExclusive' = pendingExclusive - 1
  /\ gateStatus' = [gateStatus EXCEPT ![e] = "done"]
  /\ admitting' = TRUE
  /\ UNCHANGED <<activeNormal, exclusiveTail, pendingNormal>>

(* Faulty variant: last come, first served.                                *)
AdmitNext_LastFirst ==
  /\ admitting
  /\ pendingExclusive = 0
  /\ pendingNormal # <<>>
  /\ activeNormal' = activeNormal + 1
  /\ gateStatus' = [gateStatus EXCEPT ![pendingNormal[Len(pendingNormal)]] = "running"]
  /\ pendingNormal' = SubSeq(pendingNormal, 1, Len(pendingNormal) - 1)
  /\ UNCHANGED <<pendingExclusive, exclusiveTail, admitting>>

(* One turn of the loop: the condition is read again on every turn.        *)
AdmitNext ==
  /\ admitting
  /\ pendingExclusive = 0
  /\ pendingNormal # <<>>
  /\ activeNormal' = activeNormal + 1
  /\ gateStatus' = [gateStatus EXCEPT ![Head(pendingNormal)] = "running"]
  /\ pendingNormal' = Tail(pendingNormal)
  /\ UNCHANGED <<pendingExclusive, exclusiveTail, admitting>>

AdmitDone ==
  /\ admitting
  /\ pendingExclusive # 0 \/ pendingNormal = <<>>
  /\ admitting' = FALSE
  /\ UNCHANGED <<gateStatus, activeNormal, pendingExclusive, exclusiveTail, pendingNormal>>

GateNext ==
  \/ \E n \in Normal : RunNormal(n) \/ FinishNormal(n)
  \/ \E e \in Exclusive :
       \/ RunExclusive(e)
       \/ BeginExclusive(e)
       \/ WaitUntilDrained(e)
       \/ StartExclusiveTask(e)
       \/ SettleExclusive(e)
       \/ FinishExclusive(e)
  \/ AdmitNext
  \/ AdmitDone

GateSpec == GateInit /\ [][GateNext]_gateVars

(* The event loop runs every callback it holds, and every task of an       *)
(* operation settles; nobody has to call the gate.                         *)
GateFairness ==
  /\ \A n \in Normal : WF_gateVars(FinishNormal(n))
  /\ \A e \in Exclusive :
       /\ WF_gateVars(BeginExclusive(e))
       /\ WF_gateVars(WaitUntilDrained(e))
       /\ WF_gateVars(StartExclusiveTask(e))
       /\ WF_gateVars(SettleExclusive(e))
       /\ WF_gateVars(FinishExclusive(e))
  /\ WF_gateVars(AdmitNext)
  /\ WF_gateVars(AdmitDone)

GateFairSpec == GateSpec /\ GateFairness

----------------------------------------------------------------------------
RunningNormal == {n \in Normal : gateStatus[n] = "running"}
RunningExclusive == {e \in Exclusive : gateStatus[e] = "running"}
CalledExclusive == {e \in Exclusive : gateStatus[e] \notin {"idle", "done"}}

\* Shape of the state of the gate.
GateTypeOK ==
  /\ gateStatus \in [Normal \cup Exclusive -> ExclusiveStatus \cup NormalStatus]
  /\ \A n \in Normal : gateStatus[n] \in NormalStatus
  /\ \A e \in Exclusive : gateStatus[e] \in ExclusiveStatus
  /\ activeNormal \in Nat
  /\ pendingExclusive \in Nat
  /\ exclusiveTail \in Seq(Exclusive)
  /\ pendingNormal \in Seq(Normal)
  /\ admitting \in BOOLEAN

\* Maintenance is exclusive: while the task of one runs, no normal operation
\* and no other maintenance task is under way (the gate's own comment).
MaintenanceAlone ==
  \A e \in RunningExclusive :
    /\ RunningNormal = {}
    /\ RunningExclusive = {e}

\* No operation is left behind: once the gate is open again (no maintenance
\* called, the admission loop over) nobody waits for admission, so no waiting
\* operation depends on a later call to be woken.
NoneStranded ==
  pendingExclusive = 0 /\ ~admitting =>
    \A n \in Normal : gateStatus[n] # "waiting"

\* A maintenance call that waits for the drain is not forgotten: if it is still
\* a drain waiter there is an active operation that will wake it.
NoLostDrain ==
  (\E e \in Exclusive : gateStatus[e] = "blocked") => RunningNormal # {}

\* The two counters agree with the calls they count, so that none of the
\* Math.max(0, ...) in the code ever hides an unbalanced decrement.
CountersExact ==
  /\ activeNormal = Cardinality(RunningNormal)
  /\ pendingExclusive = Cardinality(CalledExclusive)

\* What the gate's state says is exactly what the calls do, so that maintenance is
\* alone, nobody is left waiting behind an open gate and no drain is lost.
GateIsExact ==
  GateTypeOK /\ MaintenanceAlone /\ NoneStranded /\ NoLostDrain /\ CountersExact

\* The synchronous closing of admission: no normal operation starts between the
\* call of a maintenance task and its end, whatever the calls in between.
ClosedDuringMaintenance ==
  [][\A n \in Normal : gateStatus[n] # "running" /\ gateStatus'[n] = "running" =>
       CalledExclusive = {}]_gateVars

\* Operations that wait are admitted in the order of their calls: an operation
\* that starts has no older one still waiting.
NoOvertaking ==
  [][\A n, m \in Normal :
       gateStatus[n] # "running" /\ gateStatus'[n] = "running" /\ gateStatus[m] = "waiting" =>
         \E i, j \in 1 .. Len(pendingNormal) :
           i <= j /\ pendingNormal[i] = n /\ pendingNormal[j] = m]_gateVars

\* Who gets in: nobody past a maintenance call, nobody past an older waiter.
Admission == ClosedDuringMaintenance /\ NoOvertaking

\* Whoever was called comes to an end: every maintenance call, although others may
\* be called meanwhile, and every normal operation that had to wait.  A call is
\* made once, so that one which never ends would keep the gate from being quiet.
CallsHaveEnded == \A op \in Normal \cup Exclusive : gateStatus[op] \in {"idle", "done"}
EveryCallEnds == []<>CallsHaveEnded

\* The gate implements the access discipline it documents.
Access == INSTANCE ExclusiveAccess
            WITH normalInside <- RunningNormal, exclusiveInside <- RunningExclusive
GateIsExclusiveAccess == Access!Spec
==============================================================================
