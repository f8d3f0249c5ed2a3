------------------------ MODULE Storage_proofs ------------------------
(***************************************************************************)
(* Proofs about the operation gate, about the storage write queues, about  *)
(* the gate and the queues together, and about the copy of the storage a   *)
(* page works with: for any number of calls, chains, writes, barriers and  *)
(* operations, and any nesting of the writes.                              *)
(*                                                                         *)
(* The argument for the gate: the two counters count exactly the calls     *)
(* they stand for (Counted), so "counter is zero" is "no such call"; only  *)
(* the head of the exclusive chain is ever past "queued"                   *)
(* (OnlyHeadIsCurrent); once a drain has been observed no normal operation *)
(* can start (DrainHolds), because the observing call is itself counted.   *)
(*                                                                         *)
(* The argument for the queues: a task awaits only the last write of a     *)
(* chain and the last barrier, not everything that was handed over before  *)
(* it.  That suffices because whatever conflicts with it and came earlier  *)
(* is either awaited directly or came before a conflicting task that is    *)
(* (Covered), and a task that is done has all of its own earlier conflicts *)
(* done.                                                                   *)
(*                                                                         *)
(* The argument for both: neither layer sees more than its own steps, so   *)
(* the invariants of both hold; and an operation runs in the gate for as   *)
(* long as anything it has handed to the queues is unfinished              *)
(* (WorkIsGated), so that the gate's exclusion extends to the queues.      *)
(*                                                                         *)
(* The argument for a page's copy of the storage: what the page shows, or  *)
(* has read, is what is stored unless an event about it is still to come   *)
(* (Known), and the last event about a key brings what is stored.          *)
(*                                                                         *)
(* The argument for the updates of workspaces: what an asker, or a write   *)
(* that will be undone, has of a workspace is an earlier revision, or the  *)
(* list the workspace has (WasSeen); so a request that still fits the      *)
(* revision it names meets the list its asker saw.                         *)
(***************************************************************************)
EXTENDS GatedStorage, MCStorage, Lists, SequenceTheorems, FiniteSetTheorems, TLAPS

(* The workspace operation gate.                                            *)
Counted ==
  /\ IsFiniteSet(RunningNormal)
  /\ IsFiniteSet(CalledExclusive)
  /\ CountersExact

OnlyHeadIsCurrent ==
  \A e \in Exclusive : gateStatus[e] \in Current =>
    exclusiveTail # <<>> /\ Head(exclusiveTail) = e

DrainHolds ==
  /\ \A e \in Exclusive : gateStatus[e] \in {"drained", "running"} => RunningNormal = {}
  /\ NoLostDrain

\* pendingNormal lists the waiting calls, each once.
WaitingListed ==
  /\ \A i \in 1 .. Len(pendingNormal) : gateStatus[pendingNormal[i]] = "waiting"
  /\ \A i, j \in 1 .. Len(pendingNormal) : pendingNormal[i] = pendingNormal[j] => i = j
  /\ \A n \in Normal : gateStatus[n] = "waiting" =>
       \E i \in 1 .. Len(pendingNormal) : pendingNormal[i] = n
  /\ pendingNormal # <<>> => pendingExclusive # 0 \/ admitting

GateInv ==
  /\ GateTypeOK
  /\ Counted
  /\ OnlyHeadIsCurrent
  /\ DrainHolds
  /\ WaitingListed

----------------------------------------------------------------------------
(* With no maintenance call pending, no exclusive call is under way.       *)
LEMMA OpenGateHasNoCall ==
  ASSUME GateTypeOK, Counted, pendingExclusive = 0
  PROVE  CalledExclusive = {}
  BY FS_EmptySet DEF Counted, CountersExact

(* With no active operation, no normal call is running.                    *)
LEMMA IdleCounterHasNoRunner ==
  ASSUME GateTypeOK, Counted
  PROVE  activeNormal = 0 <=> RunningNormal = {}
  BY FS_EmptySet DEF Counted, CountersExact

LEMMA GateStarts == GateInit => GateInv
<1> SUFFICES ASSUME GateInit PROVE GateInv
  OBVIOUS
<1>1. RunningNormal = {} /\ CalledExclusive = {}
  BY DEF GateInit, RunningNormal, CalledExclusive
<1>2. GateTypeOK
  <2>1. gateStatus \in [Operations -> {"idle"}]
    BY DEF GateInit, Operations
  <2>2. /\ exclusiveTail \in Seq(Exclusive) /\ pendingNormal \in Seq(Normal)
        /\ activeNormal \in Nat /\ pendingExclusive \in Nat /\ admitting \in BOOLEAN
    BY EmptySeq DEF GateInit
  <2> QED
    BY <2>1, <2>2 DEF GateTypeOK, NormalStatus, ExclusiveStatus, Operations
<1>3. Counted
  BY <1>1, FS_EmptySet DEF GateInit, Counted, CountersExact
<1>4. OnlyHeadIsCurrent /\ DrainHolds /\ WaitingListed
  BY DEF GateInit, OnlyHeadIsCurrent, DrainHolds, NoLostDrain, WaitingListed, Current
<1> QED
  BY <1>2, <1>3, <1>4 DEF GateInv

----------------------------------------------------------------------------
LEMMA RunNormalKeepsGate ==
  ASSUME GateInv, NEW n \in Normal, RunNormal(n)
  PROVE  GateInv'
<1> USE DisjointCalls
<1> USE DEF GateInv
<1>1. GateTypeOK'
  <2>1. /\ gateStatus' \in [Operations -> ExclusiveStatus \cup NormalStatus]
        /\ \A m \in Normal : gateStatus'[m] \in NormalStatus
        /\ \A e \in Exclusive : gateStatus'[e] = gateStatus[e]
    BY DEF RunNormal, GateTypeOK, NormalStatus, Operations
  <2>2. /\ exclusiveTail' \in Seq(Exclusive) /\ pendingNormal' \in Seq(Normal)
        /\ activeNormal' \in Nat /\ pendingExclusive' \in Nat /\ admitting' \in BOOLEAN
    <3>1. Append(pendingNormal, n) \in Seq(Normal)
      BY AppendProperties DEF GateTypeOK
    <3>2. exclusiveTail \in Seq(Exclusive) /\ pendingNormal \in Seq(Normal) /\ activeNormal \in Nat
          /\ pendingExclusive \in Nat /\ admitting \in BOOLEAN
      BY DEF GateTypeOK
    <3>3. pendingNormal' \in {pendingNormal, Append(pendingNormal, n)}
      BY DEF RunNormal
    <3>4. activeNormal' \in {activeNormal, activeNormal + 1}
          /\ UNCHANGED <<exclusiveTail, pendingExclusive, admitting>>
      BY DEF RunNormal
    <3>5. pendingNormal' \in Seq(Normal)
      BY <3>1, <3>2, <3>3, Zenon
    <3>6. exclusiveTail' \in Seq(Exclusive) /\ admitting' \in BOOLEAN
      BY <3>2, <3>4, Zenon
    <3>7. activeNormal' \in Nat /\ pendingExclusive' \in Nat
      BY <3>2, <3>4
    <3> QED
      BY <3>5, <3>6, <3>7, Zenon
  <2> QED
    BY <2>1, <2>2 DEF GateTypeOK, Operations
<1>2. CASE pendingExclusive = 0
  <2>1. CalledExclusive = {}
    BY <1>2, OpenGateHasNoCall
  <2>2. /\ gateStatus' = [gateStatus EXCEPT ![n] = "running"]
        /\ activeNormal' = activeNormal + 1
        /\ UNCHANGED <<pendingNormal, pendingExclusive, exclusiveTail, admitting>>
    BY <1>2 DEF RunNormal
  <2>3. RunningNormal' = RunningNormal \cup {n} /\ n \notin RunningNormal
    BY <2>2 DEF RunNormal, RunningNormal, GateTypeOK
  <2>4. CalledExclusive' = CalledExclusive
    BY <2>2 DEF CalledExclusive, GateTypeOK
  <2>5. Counted'
    BY <2>2, <2>3, <2>4, FS_AddElement DEF Counted, CountersExact, GateTypeOK
  <2>6. \A e \in Exclusive : gateStatus'[e] \in {"idle", "done"}
    BY <2>1, <2>2 DEF CalledExclusive, GateTypeOK
  <2>7. OnlyHeadIsCurrent' /\ DrainHolds'
    BY <2>6 DEF OnlyHeadIsCurrent, DrainHolds, NoLostDrain, Current
  <2>8. WaitingListed'
    BY <2>2 DEF WaitingListed, RunNormal, GateTypeOK
  <2> QED
    BY <1>1, <2>5, <2>7, <2>8
<1>3. CASE pendingExclusive # 0
  <2>1. /\ gateStatus' = [gateStatus EXCEPT ![n] = "waiting"]
        /\ pendingNormal' = Append(pendingNormal, n)
        /\ UNCHANGED <<activeNormal, pendingExclusive, exclusiveTail, admitting>>
        /\ gateStatus[n] = "idle"
    BY <1>3 DEF RunNormal
  <2>2. RunningNormal' = RunningNormal /\ CalledExclusive' = CalledExclusive
    BY <2>1 DEF RunningNormal, CalledExclusive, GateTypeOK
  <2>3. \A e \in Exclusive : gateStatus'[e] = gateStatus[e]
    BY <2>1 DEF GateTypeOK
  <2>4. Counted' /\ OnlyHeadIsCurrent' /\ DrainHolds'
    BY <2>1, <2>2, <2>3
    DEF Counted, CountersExact, OnlyHeadIsCurrent, DrainHolds, NoLostDrain
  <2>5. /\ Len(pendingNormal') = Len(pendingNormal) + 1
        /\ \A i \in 1 .. Len(pendingNormal) : pendingNormal'[i] = pendingNormal[i]
        /\ pendingNormal'[Len(pendingNormal) + 1] = n
        /\ Len(pendingNormal) \in Nat
        /\ \A i \in 1 .. Len(pendingNormal) : pendingNormal[i] \in Normal
    BY <2>1, AppendProperties DEF GateTypeOK
  <2>6. \A i \in 1 .. Len(pendingNormal) : pendingNormal[i] # n
    BY <2>1 DEF WaitingListed
  <2>7. \A i \in 1 .. Len(pendingNormal') :
          i \in 1 .. Len(pendingNormal) \/ i = Len(pendingNormal) + 1
    BY <2>5
  <2>8. \A i \in 1 .. Len(pendingNormal') : gateStatus'[pendingNormal'[i]] = "waiting"
    BY <2>1, <2>5, <2>6, <2>7 DEF WaitingListed, GateTypeOK
  <2>9. \A i, j \in 1 .. Len(pendingNormal') : pendingNormal'[i] = pendingNormal'[j] => i = j
    BY <2>5, <2>6, <2>7 DEF WaitingListed
  <2>10. \A m \in Normal : gateStatus'[m] = "waiting" =>
           \E i \in 1 .. Len(pendingNormal') : pendingNormal'[i] = m
    <3> SUFFICES ASSUME NEW m \in Normal, gateStatus'[m] = "waiting"
                 PROVE  \E i \in 1 .. Len(pendingNormal') : pendingNormal'[i] = m
      OBVIOUS
    <3>1. CASE m = n
      BY <2>5, <3>1
    <3>2. CASE m # n
      <4>1. PICK i \in 1 .. Len(pendingNormal) : pendingNormal[i] = m
        BY <2>1, <3>2 DEF WaitingListed, GateTypeOK
      <4> QED
        BY <4>1, <2>5
    <3> QED
      BY <3>1, <3>2
  <2>11. WaitingListed'
    BY <1>3, <2>1, <2>8, <2>9, <2>10 DEF WaitingListed
  <2> QED
    BY <1>1, <2>4, <2>11
<1> QED
  BY <1>2, <1>3

LEMMA FinishNormalKeepsGate ==
  ASSUME GateInv, NEW n \in Normal, FinishNormal(n)
  PROVE  GateInv'
<1> USE DisjointCalls
<1> USE DEF GateInv
<1>0. n \in RunningNormal
  BY DEF FinishNormal, RunningNormal
<1>1. activeNormal \in Nat \ {0}
  BY <1>0, IdleCounterHasNoRunner DEF GateTypeOK
<1>2. \A m \in Normal : gateStatus'[m] = IF m = n THEN "done" ELSE gateStatus[m]
  BY DEF FinishNormal, GateTypeOK, NormalStatus
<1>3. \A e \in Exclusive :
        gateStatus'[e] = IF activeNormal' = 0 /\ gateStatus[e] = "blocked" THEN "drained" ELSE gateStatus[e]
  BY DEF FinishNormal, GateTypeOK
<1>4. GateTypeOK'
  BY <1>1, <1>2, <1>3 DEF FinishNormal, GateTypeOK, NormalStatus, ExclusiveStatus
<1>5. RunningNormal' = RunningNormal \ {n} /\ CalledExclusive' = CalledExclusive
  BY <1>2, <1>3 DEF RunningNormal, CalledExclusive
<1>6. Counted'
  BY <1>0, <1>1, <1>5, FS_RemoveElement DEF FinishNormal, Counted, CountersExact
<1>7. OnlyHeadIsCurrent'
  BY <1>3 DEF FinishNormal, OnlyHeadIsCurrent, Current
<1>8. activeNormal' = 0 <=> RunningNormal' = {}
  BY <1>4, <1>6, FS_EmptySet DEF Counted, CountersExact
<1>9. DrainHolds'
  BY <1>0, <1>3, <1>5, <1>8 DEF DrainHolds, NoLostDrain
<1>10. WaitingListed'
  BY <1>2 DEF FinishNormal, WaitingListed, GateTypeOK
<1> QED
  BY <1>4, <1>6, <1>7, <1>9, <1>10

----------------------------------------------------------------------------
(* The steps of a maintenance call change the status of that call only, so *)
(* the normal side of the invariant carries over.                          *)
LEMMA ExclusiveStepFrame ==
  ASSUME GateInv, NEW e \in Exclusive, NEW s \in ExclusiveStatus,
         gateStatus' = [gateStatus EXCEPT ![e] = s]
  PROVE  /\ gateStatus' \in [Operations -> ExclusiveStatus \cup NormalStatus]
         /\ \A n \in Normal : gateStatus'[n] = gateStatus[n]
         /\ \A f \in Exclusive : gateStatus'[f] = IF f = e THEN s ELSE gateStatus[f]
         /\ RunningNormal' = RunningNormal
  BY DisjointCalls DEF GateInv, GateTypeOK, RunningNormal, Operations

LEMMA RunExclusiveKeepsGate ==
  ASSUME GateInv, NEW e \in Exclusive, RunExclusive(e)
  PROVE  GateInv'
<1> USE DEF GateInv
<1>1. /\ \A n \in Normal : gateStatus'[n] = gateStatus[n]
      /\ \A f \in Exclusive : gateStatus'[f] = IF f = e THEN "queued" ELSE gateStatus[f]
      /\ RunningNormal' = RunningNormal
      /\ gateStatus' \in [Operations -> ExclusiveStatus \cup NormalStatus]
  BY ExclusiveStepFrame DEF RunExclusive, ExclusiveStatus
<1>2. exclusiveTail' \in Seq(Exclusive)
  BY AppendProperties DEF RunExclusive, GateTypeOK
<1>3. GateTypeOK'
  BY <1>1, <1>2 DEF RunExclusive, GateTypeOK, ExclusiveStatus, Operations
<1>4. CalledExclusive' = CalledExclusive \cup {e} /\ e \notin CalledExclusive
  BY <1>1 DEF RunExclusive, CalledExclusive
<1>5. Counted'
  BY <1>1, <1>4, FS_AddElement DEF RunExclusive, Counted, CountersExact
<1>6. OnlyHeadIsCurrent'
  BY <1>1, HeadTailAppend, AppendProperties
  DEF RunExclusive, OnlyHeadIsCurrent, Current, GateTypeOK
<1>7. DrainHolds'
  BY <1>1 DEF DrainHolds, NoLostDrain
<1>8. WaitingListed'
  BY <1>1 DEF RunExclusive, WaitingListed, GateTypeOK
<1> QED
  BY <1>3, <1>5, <1>6, <1>7, <1>8

LEMMA BeginExclusiveKeepsGate ==
  ASSUME GateInv, NEW e \in Exclusive, BeginExclusive(e)
  PROVE  GateInv'
<1> USE DEF GateInv
<1>1. /\ \A n \in Normal : gateStatus'[n] = gateStatus[n]
      /\ \A f \in Exclusive : gateStatus'[f] = IF f = e THEN "cleaning" ELSE gateStatus[f]
      /\ RunningNormal' = RunningNormal
      /\ gateStatus' \in [Operations -> ExclusiveStatus \cup NormalStatus]
  BY ExclusiveStepFrame DEF BeginExclusive, ExclusiveStatus
<1>2. GateTypeOK'
  BY <1>1 DEF BeginExclusive, GateTypeOK, ExclusiveStatus, Operations
<1>3. CalledExclusive' = CalledExclusive
  BY <1>1 DEF BeginExclusive, CalledExclusive
<1>4. Counted'
  BY <1>1, <1>3 DEF BeginExclusive, Counted, CountersExact
<1>5. OnlyHeadIsCurrent'
  BY <1>1 DEF BeginExclusive, OnlyHeadIsCurrent, Current
<1>6. DrainHolds'
  BY <1>1 DEF DrainHolds, NoLostDrain
<1>7. WaitingListed'
  BY <1>1 DEF BeginExclusive, WaitingListed, GateTypeOK
<1> QED
  BY <1>2, <1>4, <1>5, <1>6, <1>7

LEMMA WaitUntilDrainedKeepsGate ==
  ASSUME GateInv, NEW e \in Exclusive, WaitUntilDrained(e)
  PROVE  GateInv'
<1> USE DEF GateInv
<1> DEFINE next == IF activeNormal = 0 THEN "drained" ELSE "blocked"
<1>0. next \in ExclusiveStatus /\ gateStatus' = [gateStatus EXCEPT ![e] = next]
  BY DEF WaitUntilDrained, ExclusiveStatus
<1>1. /\ \A n \in Normal : gateStatus'[n] = gateStatus[n]
      /\ \A f \in Exclusive : gateStatus'[f] = IF f = e THEN next ELSE gateStatus[f]
      /\ RunningNormal' = RunningNormal
      /\ gateStatus' \in [Operations -> ExclusiveStatus \cup NormalStatus]
  <2> HIDE DEF next
  <2> QED
    BY <1>0, ExclusiveStepFrame
<1>2. GateTypeOK'
  BY <1>1 DEF WaitUntilDrained, GateTypeOK, ExclusiveStatus, Operations
<1>3. CalledExclusive' = CalledExclusive
  BY <1>1 DEF WaitUntilDrained, CalledExclusive
<1>4. Counted'
  BY <1>1, <1>3 DEF WaitUntilDrained, Counted, CountersExact
<1>5. OnlyHeadIsCurrent'
  BY <1>1 DEF WaitUntilDrained, OnlyHeadIsCurrent, Current
<1>6. DrainHolds'
  BY <1>1, IdleCounterHasNoRunner DEF DrainHolds, NoLostDrain
<1>7. WaitingListed'
  BY <1>1 DEF WaitUntilDrained, WaitingListed, GateTypeOK
<1> QED
  BY <1>2, <1>4, <1>5, <1>6, <1>7

LEMMA StartExclusiveTaskKeepsGate ==
  ASSUME GateInv, NEW e \in Exclusive, StartExclusiveTask(e)
  PROVE  GateInv'
<1> USE DEF GateInv
<1>1. /\ \A n \in Normal : gateStatus'[n] = gateStatus[n]
      /\ \A f \in Exclusive : gateStatus'[f] = IF f = e THEN "running" ELSE gateStatus[f]
      /\ RunningNormal' = RunningNormal
      /\ gateStatus' \in [Operations -> ExclusiveStatus \cup NormalStatus]
  BY ExclusiveStepFrame DEF StartExclusiveTask, ExclusiveStatus
<1>2. GateTypeOK'
  BY <1>1 DEF StartExclusiveTask, GateTypeOK, ExclusiveStatus, Operations
<1>3. CalledExclusive' = CalledExclusive
  BY <1>1 DEF StartExclusiveTask, CalledExclusive
<1>4. Counted'
  BY <1>1, <1>3 DEF StartExclusiveTask, Counted, CountersExact
<1>5. OnlyHeadIsCurrent' /\ DrainHolds'
  BY <1>1 DEF StartExclusiveTask, OnlyHeadIsCurrent, Current, DrainHolds, NoLostDrain
<1>6. WaitingListed'
  BY <1>1 DEF StartExclusiveTask, WaitingListed, GateTypeOK
<1> QED
  BY <1>2, <1>4, <1>5, <1>6

LEMMA SettleExclusiveKeepsGate ==
  ASSUME GateInv, NEW e \in Exclusive, SettleExclusive(e)
  PROVE  GateInv'
<1> USE DEF GateInv
<1>1. /\ \A n \in Normal : gateStatus'[n] = gateStatus[n]
      /\ \A f \in Exclusive : gateStatus'[f] = IF f = e THEN "settled" ELSE gateStatus[f]
      /\ RunningNormal' = RunningNormal
      /\ gateStatus' \in [Operations -> ExclusiveStatus \cup NormalStatus]
  BY ExclusiveStepFrame DEF SettleExclusive, ExclusiveStatus
<1>2. exclusiveTail # <<>> /\ Head(exclusiveTail) = e
  BY DEF SettleExclusive, OnlyHeadIsCurrent, Current
<1>3. GateTypeOK'
  BY <1>1, <1>2, HeadTailProperties DEF SettleExclusive, GateTypeOK, ExclusiveStatus, Operations
<1>4. CalledExclusive' = CalledExclusive
  BY <1>1 DEF SettleExclusive, CalledExclusive
<1>5. Counted'
  BY <1>1, <1>4 DEF SettleExclusive, Counted, CountersExact
<1>6. \A f \in Exclusive : gateStatus'[f] \notin Current
  BY <1>1, <1>2 DEF OnlyHeadIsCurrent, Current
<1>7. OnlyHeadIsCurrent' /\ DrainHolds'
  BY <1>1, <1>6 DEF OnlyHeadIsCurrent, Current, DrainHolds, NoLostDrain
<1>8. WaitingListed'
  BY <1>1 DEF SettleExclusive, WaitingListed, GateTypeOK
<1> QED
  BY <1>3, <1>5, <1>7, <1>8

LEMMA FinishExclusiveKeepsGate ==
  ASSUME GateInv, NEW e \in Exclusive, FinishExclusive(e)
  PROVE  GateInv'
<1> USE DEF GateInv
<1>1. /\ \A n \in Normal : gateStatus'[n] = gateStatus[n]
      /\ \A f \in Exclusive : gateStatus'[f] = IF f = e THEN "done" ELSE gateStatus[f]
      /\ RunningNormal' = RunningNormal
      /\ gateStatus' \in [Operations -> ExclusiveStatus \cup NormalStatus]
  BY ExclusiveStepFrame DEF FinishExclusive, ExclusiveStatus
<1>2. e \in CalledExclusive /\ CalledExclusive' = CalledExclusive \ {e}
  BY <1>1 DEF FinishExclusive, CalledExclusive
<1>3. pendingExclusive # 0
  BY <1>2, OpenGateHasNoCall
<1>4. GateTypeOK'
  BY <1>1, <1>3 DEF FinishExclusive, GateTypeOK, ExclusiveStatus, Operations
<1>5. Counted'
  BY <1>1, <1>2, FS_RemoveElement DEF FinishExclusive, Counted, CountersExact
<1>6. OnlyHeadIsCurrent' /\ DrainHolds'
  BY <1>1 DEF FinishExclusive, OnlyHeadIsCurrent, Current, DrainHolds, NoLostDrain
<1>7. WaitingListed'
  BY <1>1 DEF FinishExclusive, WaitingListed, GateTypeOK
<1> QED
  BY <1>4, <1>5, <1>6, <1>7

----------------------------------------------------------------------------
LEMMA AdmitNextKeepsGate ==
  ASSUME GateInv, AdmitNext
  PROVE  GateInv'
<1> USE DisjointCalls
<1> USE DEF GateInv
<1> DEFINE n == Head(pendingNormal)
<1>1. /\ n \in Normal
      /\ n = pendingNormal[1]
      /\ Len(pendingNormal) \in Nat \ {0}
      /\ pendingNormal' \in Seq(Normal)
      /\ Len(pendingNormal') = Len(pendingNormal) - 1
      /\ \A i \in 1 .. Len(pendingNormal') : pendingNormal'[i] = pendingNormal[i + 1]
  BY HeadTailProperties, EmptySeq DEF AdmitNext, GateTypeOK
<1>2. gateStatus[n] = "waiting"
  BY <1>1 DEF WaitingListed
<1>3. /\ gateStatus' = [gateStatus EXCEPT ![n] = "running"]
      /\ activeNormal' = activeNormal + 1
      /\ UNCHANGED <<pendingExclusive, exclusiveTail, admitting>>
      /\ pendingExclusive = 0
      /\ admitting
  BY DEF AdmitNext
<1> HIDE DEF n
<1>4. GateTypeOK'
  BY <1>1, <1>3 DEF GateTypeOK, NormalStatus
<1>5. RunningNormal' = RunningNormal \cup {n} /\ n \notin RunningNormal
  BY <1>1, <1>2, <1>3 DEF RunningNormal, GateTypeOK
<1>6. CalledExclusive' = CalledExclusive /\ CalledExclusive = {}
  BY <1>1, <1>3, OpenGateHasNoCall DEF CalledExclusive, GateTypeOK
<1>7. Counted'
  BY <1>3, <1>5, <1>6, FS_AddElement DEF Counted, CountersExact, GateTypeOK
<1>8. \A e \in Exclusive : gateStatus'[e] \in {"idle", "done"}
  BY <1>6 DEF CalledExclusive
<1>9. OnlyHeadIsCurrent' /\ DrainHolds'
  BY <1>8 DEF OnlyHeadIsCurrent, DrainHolds, NoLostDrain, Current
<1>10. \A i \in 1 .. Len(pendingNormal') :
         i + 1 \in 1 .. Len(pendingNormal) /\ i + 1 # 1
  BY <1>1
<1>11. \A i \in 1 .. Len(pendingNormal') : gateStatus'[pendingNormal'[i]] = "waiting"
  <2> TAKE i \in 1 .. Len(pendingNormal')
  <2>1. pendingNormal'[i] # n /\ gateStatus[pendingNormal'[i]] = "waiting"
    BY <1>1, <1>10 DEF WaitingListed
  <2> QED
    BY <2>1, <1>1, <1>3, <1>4, ElementOfSeq DEF GateTypeOK
<1>12. \A i, j \in 1 .. Len(pendingNormal') : pendingNormal'[i] = pendingNormal'[j] => i = j
  BY <1>1, <1>10 DEF WaitingListed
<1>13. \A m \in Normal : gateStatus'[m] = "waiting" =>
         \E i \in 1 .. Len(pendingNormal') : pendingNormal'[i] = m
  <2> SUFFICES ASSUME NEW m \in Normal, gateStatus'[m] = "waiting"
               PROVE  \E i \in 1 .. Len(pendingNormal') : pendingNormal'[i] = m
    OBVIOUS
  <2>1. m # n /\ gateStatus[m] = "waiting"
    BY <1>1, <1>3 DEF GateTypeOK
  <2>2. PICK j \in 1 .. Len(pendingNormal) : pendingNormal[j] = m
    BY <2>1 DEF WaitingListed
  <2>3. j # 1 /\ j - 1 \in 1 .. Len(pendingNormal') /\ (j - 1) + 1 = j
    BY <1>1, <2>1, <2>2
  <2> QED
    BY <1>1, <2>2, <2>3
<1>14. WaitingListed'
  BY <1>3, <1>11, <1>12, <1>13 DEF WaitingListed
<1> QED
  BY <1>4, <1>7, <1>9, <1>14

LEMMA AdmitDoneKeepsGate ==
  ASSUME GateInv, AdmitDone
  PROVE  GateInv'
<1>1. GateTypeOK' /\ Counted'
  BY DEF GateInv, AdmitDone, GateTypeOK, Counted, CountersExact, RunningNormal, CalledExclusive
<1>2. OnlyHeadIsCurrent' /\ DrainHolds'
  BY DEF GateInv, AdmitDone, OnlyHeadIsCurrent, DrainHolds, NoLostDrain, RunningNormal
<1>3. WaitingListed'
  BY DEF GateInv, AdmitDone, WaitingListed
<1> QED
  BY <1>1, <1>2, <1>3 DEF GateInv

LEMMA NextKeepsGate == GateInv /\ [GateNext]_gateVars => GateInv'
<1> SUFFICES ASSUME GateInv, [GateNext]_gateVars PROVE GateInv'
  OBVIOUS
<1>1. ASSUME NEW n \in Normal, RunNormal(n) PROVE GateInv'
  BY <1>1, RunNormalKeepsGate
<1>2. ASSUME NEW n \in Normal, FinishNormal(n) PROVE GateInv'
  BY <1>2, FinishNormalKeepsGate
<1>3. ASSUME NEW e \in Exclusive, RunExclusive(e) PROVE GateInv'
  BY <1>3, RunExclusiveKeepsGate
<1>4. ASSUME NEW e \in Exclusive, BeginExclusive(e) PROVE GateInv'
  BY <1>4, BeginExclusiveKeepsGate
<1>5. ASSUME NEW e \in Exclusive, WaitUntilDrained(e) PROVE GateInv'
  BY <1>5, WaitUntilDrainedKeepsGate
<1>6. ASSUME NEW e \in Exclusive, StartExclusiveTask(e) PROVE GateInv'
  BY <1>6, StartExclusiveTaskKeepsGate
<1>7. ASSUME NEW e \in Exclusive, SettleExclusive(e) PROVE GateInv'
  BY <1>7, SettleExclusiveKeepsGate
<1>8. ASSUME NEW e \in Exclusive, FinishExclusive(e) PROVE GateInv'
  BY <1>8, FinishExclusiveKeepsGate
<1>9. CASE AdmitNext
  BY <1>9, AdmitNextKeepsGate
<1>10. CASE AdmitDone
  BY <1>10, AdmitDoneKeepsGate
<1>11. CASE UNCHANGED gateVars
  BY <1>11 DEF gateVars, GateInv, GateTypeOK, Counted, CountersExact, RunningNormal, CalledExclusive,
               OnlyHeadIsCurrent, DrainHolds, NoLostDrain, WaitingListed
<1> QED
  BY <1>1, <1>2, <1>3, <1>4, <1>5, <1>6, <1>7, <1>8, <1>9, <1>10, <1>11 DEF GateNext

(* The inductive invariant holds in every reachable state of the gate.     *)
THEOREM GateInvariant == GateSpec => []GateInv
<1> QED
  BY GateStarts, NextKeepsGate, PTL DEF GateSpec

----------------------------------------------------------------------------
LEMMA GateInvMaintenanceAlone == GateInv => MaintenanceAlone
  BY DEF GateInv, MaintenanceAlone, OnlyHeadIsCurrent, DrainHolds, RunningExclusive, Current

LEMMA GateInvNoneStranded == GateInv => NoneStranded
<1> SUFFICES ASSUME GateInv, pendingExclusive = 0, ~admitting, NEW n \in Normal,
                    gateStatus[n] = "waiting"
             PROVE  FALSE
  BY DEF NoneStranded
<1>1. pendingNormal = <<>>
  BY DEF GateInv, WaitingListed
<1>2. PICK i \in 1 .. Len(pendingNormal) : pendingNormal[i] = n
  BY DEF GateInv, WaitingListed
<1> QED
  BY <1>1, <1>2

(* Maintenance is exclusive, however many calls are made and in whatever   *)
(* order.                                                                  *)
THEOREM MaintenanceIsExclusive == GateSpec => []MaintenanceAlone
  BY GateInvariant, GateInvMaintenanceAlone, PTL

(* No waiting operation is left behind an open gate.                       *)
THEOREM NobodyStranded == GateSpec => []NoneStranded
  BY GateInvariant, GateInvNoneStranded, PTL

(* Both counters are exact and every drain waiter has someone to wake it.  *)
THEOREM CountersAndDrain == GateSpec => [](GateTypeOK /\ CountersExact /\ NoLostDrain)
<1>1. GateInv => GateTypeOK /\ CountersExact /\ NoLostDrain
  BY DEF GateInv, Counted, DrainHolds
<1> QED
  BY <1>1, GateInvariant, PTL

(* The gate's counters and waiters are exact in every reachable state.      *)
THEOREM GateExactness == GateSpec => []GateIsExact
  BY MaintenanceIsExclusive, NobodyStranded, CountersAndDrain, PTL DEF GateIsExact

----------------------------------------------------------------------------
(* A normal operation starts in two places only, and both find the counter *)
(* of maintenance calls at zero.                                           *)
LEMMA StartsOfNormal ==
  ASSUME GateInv, GateNext, NEW n \in Normal, gateStatus[n] # "running", gateStatus'[n] = "running"
  PROVE  /\ pendingExclusive = 0
         /\ RunNormal(n) \/ (AdmitNext /\ Head(pendingNormal) = n)
<1> USE DisjointCalls DEF GateInv
<1>1. CASE \E m \in Normal : RunNormal(m)
  BY <1>1 DEF RunNormal, GateTypeOK
<1>2. CASE \E m \in Normal : FinishNormal(m)
  BY <1>2 DEF FinishNormal, GateTypeOK
<1>3. CASE \E e \in Exclusive : \/ RunExclusive(e) \/ BeginExclusive(e)
                                \/ WaitUntilDrained(e) \/ StartExclusiveTask(e)
                                \/ SettleExclusive(e) \/ FinishExclusive(e)
  BY <1>3 DEF RunExclusive, BeginExclusive, WaitUntilDrained, StartExclusiveTask,
              SettleExclusive, FinishExclusive, GateTypeOK
<1>4. CASE AdmitNext
  BY <1>4 DEF AdmitNext, GateTypeOK
<1>5. CASE AdmitDone
  BY <1>5 DEF AdmitDone
<1> QED
  BY <1>1, <1>2, <1>3, <1>4, <1>5 DEF GateNext

(* From the call of a maintenance task to its end no normal operation      *)
(* starts.                                                                 *)
THEOREM AdmissionClosed == GateSpec => ClosedDuringMaintenance
<1>1. GateInv /\ [GateNext]_gateVars =>
        [\A n \in Normal : gateStatus[n] # "running" /\ gateStatus'[n] = "running" =>
           CalledExclusive = {}]_gateVars
  BY StartsOfNormal, OpenGateHasNoCall DEF GateInv
<1> QED
  BY <1>1, GateInvariant, PTL DEF GateSpec, ClosedDuringMaintenance

(* Waiting operations are admitted first come, first served.               *)
THEOREM AdmissionInOrder == GateSpec => NoOvertaking
<1> DEFINE InOrder ==
      \A n, m \in Normal :
        gateStatus[n] # "running" /\ gateStatus'[n] = "running" /\ gateStatus[m] = "waiting" =>
          \E i, j \in 1 .. Len(pendingNormal) :
            i <= j /\ pendingNormal[i] = n /\ pendingNormal[j] = m
<1>1. ASSUME GateInv, GateNext PROVE InOrder
  <2> SUFFICES ASSUME NEW n \in Normal, NEW m \in Normal,
                      gateStatus[n] # "running", gateStatus'[n] = "running", gateStatus[m] = "waiting"
               PROVE  \E i, j \in 1 .. Len(pendingNormal) :
                        i <= j /\ pendingNormal[i] = n /\ pendingNormal[j] = m
    OBVIOUS
  <2>1. pendingExclusive = 0 /\ (RunNormal(n) \/ (AdmitNext /\ Head(pendingNormal) = n))
    BY <1>1, StartsOfNormal
  <2>2. PICK j \in 1 .. Len(pendingNormal) : pendingNormal[j] = m
    BY <1>1 DEF GateInv, WaitingListed
  <2>3. ~RunNormal(n)
    BY <1>1, <2>1, GateInvNoneStranded DEF NoneStranded, RunNormal
  <2>4. Len(pendingNormal) \in Nat /\ pendingNormal[1] = n
    BY <1>1, <2>1, <2>3, LenProperties DEF GateInv, GateTypeOK
  <2> QED
    BY <2>2, <2>4
<1>2. GateInv /\ [GateNext]_gateVars => [InOrder]_gateVars
  BY <1>1
<1> QED
  BY <1>2, GateInvariant, PTL DEF GateSpec, NoOvertaking

(* Nobody passes a maintenance call or an older waiter, for any number of   *)
(* calls.                                                                  *)
THEOREM AdmissionIsFair == GateSpec => Admission
  BY AdmissionClosed, AdmissionInOrder DEF Admission

----------------------------------------------------------------------------
(* The gate implements ExclusiveAccess: entering and leaving the running   *)
(* status are its entering and leaving, everything else stutters.          *)
LEMMA GateStepRefines ==
  ASSUME GateInv, GateInv', [GateNext]_gateVars
  PROVE  [Access!Next]_(Access!vars)
<1> USE DisjointCalls
<1> USE DEF GateInv
<1>1. ASSUME NEW n \in Normal, RunNormal(n) PROVE [Access!Next]_(Access!vars)
  <2>1. RunningExclusive' = RunningExclusive
    BY <1>1 DEF RunNormal, RunningExclusive, GateTypeOK
  <2>2. CASE pendingExclusive = 0
    <3>1. RunningExclusive = {}
      BY <2>2, OpenGateHasNoCall DEF RunningExclusive, CalledExclusive
    <3>2. RunningNormal' = RunningNormal \cup {n}
      BY <1>1, <2>2 DEF RunNormal, RunningNormal, GateTypeOK
    <3> QED
      BY <2>1, <3>1, <3>2 DEF Access!Next, Access!EnterNormal
  <2>3. CASE pendingExclusive # 0
    <3>1. RunningNormal' = RunningNormal
      BY <1>1, <2>3 DEF RunNormal, RunningNormal, GateTypeOK
    <3> QED
      BY <2>1, <3>1 DEF Access!vars
  <2> QED
    BY <2>2, <2>3
<1>2. ASSUME NEW n \in Normal, FinishNormal(n) PROVE [Access!Next]_(Access!vars)
  <2>1. RunningNormal' = RunningNormal \ {n} /\ n \in RunningNormal
    BY <1>2 DEF FinishNormal, RunningNormal, GateTypeOK
  <2>2. RunningExclusive' = RunningExclusive
    BY <1>2 DEF FinishNormal, RunningExclusive, GateTypeOK
  <2> QED
    BY <2>1, <2>2 DEF Access!Next, Access!LeaveNormal
<1>3. ASSUME NEW e \in Exclusive, StartExclusiveTask(e) PROVE [Access!Next]_(Access!vars)
  <2>1. RunningNormal' = RunningNormal /\ RunningNormal = {}
    BY <1>3 DEF StartExclusiveTask, RunningNormal, GateTypeOK, DrainHolds
  <2>2. RunningExclusive' = {e} /\ RunningExclusive = {}
    <3>1. gateStatus'[e] = "running" /\ \A f \in Exclusive : f # e => gateStatus'[f] = gateStatus[f]
      BY <1>3 DEF StartExclusiveTask, GateTypeOK
    <3>2. \A f \in Exclusive : f # e => gateStatus[f] # "running"
      BY <1>3 DEF StartExclusiveTask, OnlyHeadIsCurrent, Current
    <3> QED
      BY <1>3, <3>1, <3>2 DEF StartExclusiveTask, RunningExclusive
  <2> QED
    BY <2>1, <2>2 DEF Access!Next, Access!EnterExclusive
<1>4. ASSUME NEW e \in Exclusive, SettleExclusive(e) PROVE [Access!Next]_(Access!vars)
  <2>1. RunningNormal' = RunningNormal
    BY <1>4 DEF SettleExclusive, RunningNormal, GateTypeOK
  <2>2. CASE gateStatus[e] = "running"
    <3>1. RunningExclusive = {e}
      BY <2>2, GateInvMaintenanceAlone DEF MaintenanceAlone, RunningExclusive
    <3>2. RunningExclusive' = {}
      BY <1>4, <3>1 DEF SettleExclusive, RunningExclusive, GateTypeOK
    <3> QED
      BY <2>1, <3>1, <3>2 DEF Access!Next, Access!LeaveExclusive
  <2>3. CASE gateStatus[e] = "cleaning"
    <3>1. RunningExclusive' = RunningExclusive
      BY <1>4, <2>3 DEF SettleExclusive, RunningExclusive, GateTypeOK
    <3> QED
      BY <2>1, <3>1 DEF Access!vars
  <2> QED
    BY <1>4, <2>2, <2>3 DEF SettleExclusive
<1>5. ASSUME NEW e \in Exclusive,
             RunExclusive(e) \/ BeginExclusive(e) \/ WaitUntilDrained(e) \/ FinishExclusive(e)
      PROVE  [Access!Next]_(Access!vars)
  <2>1. RunningNormal' = RunningNormal /\ RunningExclusive' = RunningExclusive
    BY <1>5 DEF RunExclusive, BeginExclusive, WaitUntilDrained, FinishExclusive,
                RunningNormal, RunningExclusive, GateTypeOK
  <2> QED
    BY <2>1 DEF Access!vars
<1>6. CASE AdmitNext
  <2>1. Head(pendingNormal) \in Normal
    BY <1>6, HeadTailProperties DEF AdmitNext, GateTypeOK
  <2>2. RunningNormal' = RunningNormal \cup {Head(pendingNormal)}
    BY <1>6, <2>1 DEF AdmitNext, RunningNormal, GateTypeOK
  <2>3. RunningExclusive = {} /\ RunningExclusive' = {}
    BY <1>6, <2>1, OpenGateHasNoCall
    DEF AdmitNext, RunningExclusive, CalledExclusive, GateTypeOK
  <2> QED
    BY <2>1, <2>2, <2>3 DEF Access!Next, Access!EnterNormal
<1>7. CASE AdmitDone
  BY <1>7 DEF AdmitDone, RunningNormal, RunningExclusive, Access!vars
<1>8. CASE UNCHANGED gateVars
  BY <1>8 DEF gateVars, RunningNormal, RunningExclusive, Access!vars
<1> QED
  BY <1>1, <1>2, <1>3, <1>4, <1>5, <1>6, <1>7, <1>8 DEF GateNext

THEOREM GateRefinesExclusiveAccess == GateSpec => GateIsExclusiveAccess
<1>1. GateInit => Access!Init
  BY DEF GateInit, Access!Init, RunningNormal, RunningExclusive
<1>2. GateInv /\ GateInv' /\ [GateNext]_gateVars => [Access!Next]_(Access!vars)
  BY GateStepRefines
<1> QED
  BY <1>1, <1>2, GateInvariant, PTL DEF GateSpec, GateIsExclusiveAccess, Access!Spec


-----------------------------------------------------------------------------
(* The storage write queues.                                                *)
Arrived(t) == status[t] # "idle"

History ==
  /\ \A t \in Tasks : ~Arrived(t) => before[t] = {}
  /\ \A t \in Tasks : \A u \in before[t] : Arrived(u)
  /\ \A t, u \in Tasks : Arrived(t) /\ Arrived(u) /\ t # u => t \in before[u] \/ u \in before[t]

\* tail and globalBarrier are the latest arrivals of their kind.
TailIsLatest ==
  \A w \in Writes : Arrived(w) =>
    /\ tail[QueueOf[w]] \in Writes
    /\ QueueOf[tail[QueueOf[w]]] = QueueOf[w]
    /\ w = tail[QueueOf[w]] \/ w \in before[tail[QueueOf[w]]]

BarrierIsLatest ==
  \A b \in Barriers : Arrived(b) =>
    /\ globalBarrier \in Barriers
    /\ b = globalBarrier \/ b \in before[globalBarrier]

PointersArrived ==
  /\ \A q \in Queues : tail[q] # None => Arrived(tail[q])
  /\ globalBarrier # None => Arrived(globalBarrier)

Covered ==
  \A t \in Tasks : \A u \in before[t] : Conflict(u, t) =>
    \E p \in awaits[t] : p = u \/ (u \in before[p] /\ Conflict(u, p))

IInv ==
  /\ TypeOK
  /\ History
  /\ TailIsLatest
  /\ BarrierIsLatest
  /\ PointersArrived
  /\ Covered
  /\ InOrderOfArrival

----------------------------------------------------------------------------
LEMMA ConflictSymmetric ==
  ASSUME NEW t \in Tasks, NEW u \in Tasks
  PROVE  Conflict(t, u) <=> Conflict(u, t)
  BY DEF Conflict

LEMMA InitIInv == Init => IInv
<1> USE StorageConstants
<1>1. Init => TypeOK
  BY DEF Init, TypeOK
<1>2. Init => History /\ TailIsLatest /\ BarrierIsLatest /\ PointersArrived
  BY DEF Init, History, TailIsLatest, BarrierIsLatest, PointersArrived, Arrived, Tasks
<1>3. Init => Covered /\ InOrderOfArrival
  BY DEF Init, Covered, InOrderOfArrival
<1> QED
  BY <1>1, <1>2, <1>3 DEF IInv

(* What handing over a task changes, whatever the promises it awaits.      *)
LEMMA HandOverEffect ==
  ASSUME TypeOK, History, NEW t \in Tasks, NEW promises, HandOver(t, promises),
         promises \ {None} \subseteq Tasks
  PROVE  /\ status' \in [Tasks -> {"idle", "waiting", "running", "done"}]
         /\ before' \in [Tasks -> SUBSET Tasks]
         /\ awaits' \in [Tasks -> SUBSET Tasks]
         /\ status[t] = "idle" /\ status'[t] = "waiting"
         /\ awaits'[t] = promises \ {None}
         /\ before'[t] = {u \in Tasks : Arrived(u)}
         /\ \A u \in Tasks : u # t => /\ status'[u] = status[u]
                                      /\ before'[u] = before[u]
                                      /\ awaits'[u] = awaits[u]
         /\ \A u \in Tasks : t \notin before[u]
         /\ t \notin before'[t]
  BY DEF TypeOK, History, HandOver, Arrived

LEMMA HandOverHistory ==
  ASSUME TypeOK, History, NEW t \in Tasks, NEW promises, HandOver(t, promises),
         promises \ {None} \subseteq Tasks
  PROVE  History'
<1>1. \A u \in Tasks : Arrived(u)' <=> u = t \/ Arrived(u)
  BY HandOverEffect DEF Arrived
<1>2. \A u \in Tasks : ~Arrived(u)' => before'[u] = {}
  BY <1>1, HandOverEffect DEF History
<1>3. \A v \in Tasks : \A u \in before'[v] : Arrived(u)'
  <2> TAKE v \in Tasks
  <2>1. CASE v = t
    BY <1>1, <2>1, HandOverEffect
  <2>2. CASE v # t
    BY <1>1, <2>2, HandOverEffect DEF History, TypeOK
  <2> QED
    BY <2>1, <2>2
<1>4. \A v, u \in Tasks : Arrived(v)' /\ Arrived(u)' /\ v # u =>
                            v \in before'[u] \/ u \in before'[v]
  <2> SUFFICES ASSUME NEW v \in Tasks, NEW u \in Tasks, Arrived(v)', Arrived(u)', v # u
               PROVE  v \in before'[u] \/ u \in before'[v]
    OBVIOUS
  <2>1. CASE v = t \/ u = t
    BY <1>1, <2>1, HandOverEffect
  <2>2. CASE v # t /\ u # t
    BY <1>1, <2>2, HandOverEffect DEF History
  <2> QED
    BY <2>1, <2>2
<1> QED
  BY <1>2, <1>3, <1>4 DEF History

(* A task that is waiting has started nothing, so the order of the others  *)
(* is undisturbed.                                                         *)
LEMMA HandOverInOrder ==
  ASSUME TypeOK, History, InOrderOfArrival, NEW t \in Tasks, NEW promises,
         HandOver(t, promises), promises \ {None} \subseteq Tasks
  PROVE  InOrderOfArrival'
<1> SUFFICES ASSUME NEW v \in Tasks, status'[v] \in {"running", "done"},
                    NEW u \in before'[v], Conflict(u, v)
             PROVE  status'[u] = "done"
  BY DEF InOrderOfArrival, Conflict
<1>1. v # t
  BY HandOverEffect
<1>2. u \in before[v] /\ u \in Tasks /\ u # t
  BY <1>1, HandOverEffect DEF TypeOK
<1> QED
  BY <1>1, <1>2, HandOverEffect DEF InOrderOfArrival

(* The promises captured by the new task cover its earlier conflicts, and  *)
(* those of the others are as they were.                                   *)
LEMMA HandOverCovered ==
  ASSUME TypeOK, History, Covered, NEW t \in Tasks, NEW promises,
         HandOver(t, promises), promises \ {None} \subseteq Tasks,
         \A p \in promises \ {None} : Arrived(p),
         \A u \in Tasks : Arrived(u) /\ Conflict(u, t) =>
           \E p \in promises \ {None} : p = u \/ (u \in before[p] /\ Conflict(u, p))
  PROVE  Covered'
<1> SUFFICES ASSUME NEW v \in Tasks, NEW u \in before'[v], Conflict(u, v)
             PROVE  \E p \in awaits'[v] : p = u \/ (u \in before'[p] /\ Conflict(u, p))
  BY DEF Covered, Conflict
<1>1. CASE v = t
  <2>1. u \in Tasks /\ Arrived(u) /\ Conflict(u, t)
    BY <1>1, HandOverEffect
  <2>2. PICK p \in promises \ {None} : p = u \/ (u \in before[p] /\ Conflict(u, p))
    BY <2>1
  <2>3. p # t /\ p \in Tasks
    BY HandOverEffect DEF Arrived
  <2> QED
    BY <1>1, <2>2, <2>3, HandOverEffect
<1>2. CASE v # t
  <2>1. u \in before[v] /\ awaits'[v] = awaits[v]
    BY <1>2, HandOverEffect
  <2>2. PICK p \in awaits[v] : p = u \/ (u \in before[p] /\ Conflict(u, p))
    BY <2>1 DEF Covered
  <2>3. p \in Tasks
    BY DEF TypeOK
  <2>4. CASE p = t
    <3>1. before[p] = {} /\ u # t
      BY <2>1, <2>4, HandOverEffect DEF History, Arrived
    <3> QED
      BY <2>2, <2>4, <3>1
  <2>5. CASE p # t
    BY <2>1, <2>2, <2>3, <2>5, HandOverEffect
  <2> QED
    BY <2>4, <2>5
<1> QED
  BY <1>1, <1>2

----------------------------------------------------------------------------
LEMMA EnqueueIInv ==
  ASSUME IInv, NEW w \in Writes, Enqueue(w)
  PROVE  IInv'
<1> USE StorageConstants
<1> DEFINE q == QueueOf[w]
<1> DEFINE promises == {tail[q], globalBarrier}
<1>0. /\ TypeOK /\ History /\ TailIsLatest /\ BarrierIsLatest /\ PointersArrived
      /\ Covered /\ InOrderOfArrival
  BY DEF IInv
<1>1. w \in Tasks /\ q \in Queues /\ HandOver(w, promises)
  BY DEF Enqueue, Tasks
<1>2. promises \ {None} \subseteq Tasks
  BY <1>0, <1>1 DEF TypeOK, Tasks
<1>3. tail' = [tail EXCEPT ![q] = w] /\ globalBarrier' = globalBarrier
  BY DEF Enqueue
<1>4. \A p \in promises \ {None} : Arrived(p)
  BY <1>0, <1>1 DEF PointersArrived
<1>5. \A u \in Tasks : Arrived(u) /\ Conflict(u, w) =>
        \E p \in promises \ {None} : p = u \/ (u \in before[p] /\ Conflict(u, p))
  <2> SUFFICES ASSUME NEW u \in Tasks, Arrived(u), Conflict(u, w)
               PROVE  \E p \in promises \ {None} : p = u \/ (u \in before[p] /\ Conflict(u, p))
    OBVIOUS
  <2>1. CASE u \in Barriers
    <3>1. globalBarrier \in Barriers /\ (u = globalBarrier \/ u \in before[globalBarrier])
      BY <1>0, <2>1 DEF BarrierIsLatest
    <3> QED
      BY <2>1, <3>1 DEF Conflict, Tasks
  <2>2. CASE u \in Writes
    <3>1. QueueOf[u] = q
      BY <2>2 DEF Conflict
    <3>2. tail[q] \in Writes /\ QueueOf[tail[q]] = q /\ (u = tail[q] \/ u \in before[tail[q]])
      BY <1>0, <2>2, <3>1 DEF TailIsLatest
    <3> QED
      BY <2>2, <3>1, <3>2 DEF Conflict, Tasks
  <2> QED
    BY <2>1, <2>2 DEF Tasks
<1> HIDE DEF promises
<1>6. History' /\ InOrderOfArrival' /\ Covered'
  BY <1>0, <1>1, <1>2, <1>4, <1>5, HandOverHistory, HandOverInOrder, HandOverCovered
<1>7. TypeOK'
  BY <1>0, <1>1, <1>2, <1>3, HandOverEffect DEF TypeOK
<1>8. \A u \in Tasks : (Arrived(u)' <=> u = w \/ Arrived(u))
  BY <1>0, <1>1, <1>2, HandOverEffect DEF Arrived
<1>9. TailIsLatest'
  <2> SUFFICES ASSUME NEW v \in Writes, Arrived(v)'
               PROVE  /\ tail'[QueueOf[v]] \in Writes
                      /\ QueueOf[tail'[QueueOf[v]]] = QueueOf[v]
                      /\ v = tail'[QueueOf[v]] \/ v \in before'[tail'[QueueOf[v]]]
    BY DEF TailIsLatest
  <2>1. CASE QueueOf[v] = q
    <3>1. tail'[q] = w
      BY <1>0, <1>1, <1>3 DEF TypeOK
    <3>2. v = w \/ v \in before'[w]
      BY <1>0, <1>1, <1>2, <1>8, HandOverEffect DEF Tasks
    <3> QED
      BY <2>1, <3>1, <3>2
  <2>2. CASE QueueOf[v] # q
    <3>1. v # w /\ Arrived(v) /\ tail'[QueueOf[v]] = tail[QueueOf[v]]
      BY <1>0, <1>1, <1>3, <1>8, <2>2 DEF TypeOK, Tasks
    <3>2. tail[QueueOf[v]] \in Writes /\ QueueOf[tail[QueueOf[v]]] = QueueOf[v]
      BY <1>0, <3>1 DEF TailIsLatest
    <3>3. before'[tail[QueueOf[v]]] = before[tail[QueueOf[v]]]
      BY <1>0, <1>1, <1>2, <2>2, <3>2, HandOverEffect DEF Tasks
    <3> QED
      BY <1>0, <3>1, <3>2, <3>3 DEF TailIsLatest
  <2> QED
    BY <2>1, <2>2
<1>10. BarrierIsLatest'
  BY <1>0, <1>1, <1>2, <1>3, <1>8, HandOverEffect DEF BarrierIsLatest, Tasks
<1>11. PointersArrived'
  BY <1>0, <1>1, <1>3, <1>8 DEF PointersArrived, TypeOK, Tasks
<1> QED
  BY <1>6, <1>7, <1>9, <1>10, <1>11 DEF IInv

LEMMA RaiseBarrierIInv ==
  ASSUME IInv, NEW b \in Barriers, RaiseBarrier(b)
  PROVE  IInv'
<1> USE StorageConstants
<1> DEFINE promises == {globalBarrier} \cup {tail[q] : q \in Queues}
<1>0. /\ TypeOK /\ History /\ TailIsLatest /\ BarrierIsLatest /\ PointersArrived
      /\ Covered /\ InOrderOfArrival
  BY DEF IInv
<1>1. b \in Tasks /\ HandOver(b, promises)
  BY DEF RaiseBarrier, Tasks
<1>2. promises \ {None} \subseteq Tasks
  BY <1>0 DEF TypeOK, Tasks
<1>3. tail' = tail /\ globalBarrier' = b
  BY DEF RaiseBarrier
<1>4. \A p \in promises \ {None} : Arrived(p)
  BY <1>0 DEF PointersArrived
<1>5. \A u \in Tasks : Arrived(u) /\ Conflict(u, b) =>
        \E p \in promises \ {None} : p = u \/ (u \in before[p] /\ Conflict(u, p))
  <2> SUFFICES ASSUME NEW u \in Tasks, Arrived(u)
               PROVE  \E p \in promises \ {None} : p = u \/ (u \in before[p] /\ Conflict(u, p))
    OBVIOUS
  <2>1. CASE u \in Barriers
    <3>1. globalBarrier \in Barriers /\ (u = globalBarrier \/ u \in before[globalBarrier])
      BY <1>0, <2>1 DEF BarrierIsLatest
    <3> QED
      BY <2>1, <3>1 DEF Conflict, Tasks
  <2>2. CASE u \in Writes
    <3> DEFINE last == tail[QueueOf[u]]
    <3>1. last \in Writes /\ QueueOf[last] = QueueOf[u] /\ (u = last \/ u \in before[last])
      BY <1>0, <2>2 DEF TailIsLatest
    <3>2. last \in promises \ {None}
      BY <2>2, <3>1 DEF Tasks
    <3> QED
      BY <2>2, <3>1, <3>2 DEF Conflict
  <2> QED
    BY <2>1, <2>2 DEF Tasks
<1> HIDE DEF promises
<1>6. History' /\ InOrderOfArrival' /\ Covered'
  BY <1>0, <1>1, <1>2, <1>4, <1>5, HandOverHistory, HandOverInOrder, HandOverCovered
<1>7. TypeOK'
  BY <1>0, <1>1, <1>2, <1>3, HandOverEffect DEF TypeOK
<1>8. \A u \in Tasks : (Arrived(u)' <=> u = b \/ Arrived(u))
  BY <1>0, <1>1, <1>2, HandOverEffect DEF Arrived
<1>9. TailIsLatest'
  <2> SUFFICES ASSUME NEW v \in Writes, Arrived(v)'
               PROVE  /\ tail'[QueueOf[v]] \in Writes
                      /\ QueueOf[tail'[QueueOf[v]]] = QueueOf[v]
                      /\ v = tail'[QueueOf[v]] \/ v \in before'[tail'[QueueOf[v]]]
    BY DEF TailIsLatest
  <2>1. v # b /\ Arrived(v)
    BY <1>8 DEF Tasks
  <2>2. tail[QueueOf[v]] \in Writes /\ tail[QueueOf[v]] # b
    BY <1>0, <2>1 DEF TailIsLatest
  <2>3. before'[tail[QueueOf[v]]] = before[tail[QueueOf[v]]]
    BY <1>0, <1>1, <1>2, <2>2, HandOverEffect DEF Tasks
  <2> QED
    BY <1>0, <1>3, <2>1, <2>3 DEF TailIsLatest
<1>10. BarrierIsLatest'
  BY <1>0, <1>1, <1>2, <1>3, <1>8, HandOverEffect DEF BarrierIsLatest, Tasks
<1>11. PointersArrived'
  BY <1>0, <1>1, <1>3, <1>8 DEF PointersArrived, TypeOK, Tasks
<1> QED
  BY <1>6, <1>7, <1>9, <1>10, <1>11 DEF IInv

(* When all that a task awaits is done, all its earlier conflicts are.     *)
LEMMA AwaitedMeansAllEarlierDone ==
  ASSUME IInv, NEW t \in Tasks, \A p \in awaits[t] : status[p] = "done",
         NEW u \in before[t], Conflict(u, t)
  PROVE  status[u] = "done"
<1>1. PICK p \in awaits[t] : p = u \/ (u \in before[p] /\ Conflict(u, p))
  BY DEF IInv, Covered
<1>2. p \in Tasks /\ status[p] = "done"
  BY DEF IInv, TypeOK
<1> QED
  BY <1>1, <1>2 DEF IInv, InOrderOfArrival

(* Starting and ending leave the arrival order and the promises alone.     *)
LEMMA StartEndFrame ==
  ASSUME IInv, NEW t \in Tasks, Start(t) \/ End(t)
  PROVE  /\ TypeOK' /\ History' /\ TailIsLatest' /\ BarrierIsLatest' /\ PointersArrived'
         /\ Covered'
<1> USE DEF IInv
<1>1. UNCHANGED <<tail, globalBarrier, awaits, before>>
  BY DEF Start, End
<1>2. TypeOK'
  BY DEF Start, End, TypeOK
<1>3. \A u \in Tasks : Arrived(u)' <=> Arrived(u)
  BY DEF Start, End, TypeOK, Arrived
<1>4. History'
  BY <1>1, <1>3 DEF History, TypeOK
<1>5. TailIsLatest' /\ BarrierIsLatest'
  BY <1>1, <1>3 DEF TailIsLatest, BarrierIsLatest, Tasks
<1>6. PointersArrived'
  BY <1>1, <1>3, StorageConstants DEF PointersArrived, TypeOK, Tasks
<1>7. Covered'
  BY <1>1 DEF Covered, Conflict
<1> QED
  BY <1>2, <1>4, <1>5, <1>6, <1>7

LEMMA StartIInv ==
  ASSUME IInv, NEW t \in Tasks, Start(t)
  PROVE  IInv'
<1>1. InOrderOfArrival'
  <2> SUFFICES ASSUME NEW v \in Tasks, status'[v] \in {"running", "done"},
                      NEW u \in before[v], Conflict(u, v)
               PROVE  status'[u] = "done"
    BY DEF Start, InOrderOfArrival, Conflict
  <2>1. status[u] = "done"
    <3>1. CASE v = t
      BY <3>1, AwaitedMeansAllEarlierDone DEF Start
    <3>2. CASE v # t
      BY <3>2 DEF Start, IInv, TypeOK, InOrderOfArrival
    <3> QED
      BY <3>1, <3>2
  <2> QED
    BY <2>1 DEF Start, IInv, TypeOK
<1> QED
  BY <1>1, StartEndFrame DEF IInv

LEMMA EndIInv ==
  ASSUME IInv, NEW t \in Tasks, End(t)
  PROVE  IInv'
<1>1. InOrderOfArrival'
  <2> SUFFICES ASSUME NEW v \in Tasks, status'[v] \in {"running", "done"},
                      NEW u \in before[v], Conflict(u, v)
               PROVE  status'[u] = "done"
    BY DEF End, InOrderOfArrival, Conflict
  <2>1. status[v] \in {"running", "done"} /\ u \in Tasks
    BY DEF End, IInv, TypeOK
  <2> QED
    BY <2>1 DEF End, IInv, TypeOK, InOrderOfArrival
<1> QED
  BY <1>1, StartEndFrame DEF IInv

LEMMA NextIInv == IInv /\ [Next]_vars => IInv'
<1> SUFFICES ASSUME IInv, [Next]_vars PROVE IInv'
  OBVIOUS
<1>1. ASSUME NEW w \in Writes, Enqueue(w) PROVE IInv'
  BY <1>1, EnqueueIInv
<1>2. ASSUME NEW b \in Barriers, RaiseBarrier(b) PROVE IInv'
  BY <1>2, RaiseBarrierIInv
<1>3. ASSUME NEW t \in Tasks, Start(t) PROVE IInv'
  BY <1>3, StartIInv
<1>4. ASSUME NEW t \in Tasks, End(t) PROVE IInv'
  BY <1>4, EndIInv
<1>5. CASE UNCHANGED vars
  BY <1>5 DEF vars, IInv, TypeOK, History, Arrived, TailIsLatest, BarrierIsLatest,
              PointersArrived, Covered, Conflict, InOrderOfArrival
<1> QED
  BY <1>1, <1>2, <1>3, <1>4, <1>5 DEF Next

(* The inductive invariant of the queues.                                  *)
THEOREM QueueInvariant == Spec => []IInv
  BY InitIInv, NextIInv, PTL DEF Spec

----------------------------------------------------------------------------
(* Conflicting tasks take effect in the order of their arrival.            *)
THEOREM WritesInOrderOfArrival == Spec => []InOrderOfArrival
<1>1. IInv => InOrderOfArrival
  BY DEF IInv
<1> QED
  BY <1>1, QueueInvariant, PTL

LEMMA IInvNoConflictingOverlap == IInv => NoConflictingOverlap
<1> SUFFICES ASSUME IInv, NEW t \in Tasks, NEW u \in Tasks, t # u,
                    status[t] = "running", status[u] = "running", Conflict(t, u)
             PROVE  FALSE
  BY DEF NoConflictingOverlap
<1>1. t \in before[u] \/ u \in before[t]
  BY DEF IInv, History, Arrived
<1> QED
  BY <1>1, ConflictSymmetric DEF IInv, InOrderOfArrival

(* Two tasks that conflict never run together.                             *)
THEOREM WritesNeverOverlap == Spec => []NoConflictingOverlap
  BY IInvNoConflictingOverlap, QueueInvariant, PTL

(* However the writes, their nested writes and the barriers interleave.     *)
THEOREM WritesAreOrdered == Spec => []OrderedWrites
<1>1. IInv => TypeOK
  BY DEF IInv
<1> QED
  BY <1>1, QueueInvariant, WritesInOrderOfArrival, WritesNeverOverlap, PTL
  DEF OrderedWrites

(* The queues implement ArrivalOrder.                                      *)
THEOREM QueuesRefineArrivalOrder == Spec => QueuesKeepArrivalOrder
<1>1. Init => Order!Init
  BY DEF Init, Order!Init
<1>2. IInv /\ [Next]_vars => [Order!Next]_(Order!vars)
  <2> SUFFICES ASSUME IInv, [Next]_vars PROVE [Order!Next]_(Order!vars)
    OBVIOUS
  <2>1. ASSUME NEW w \in Writes, Enqueue(w) PROVE Order!Next
    BY <2>1 DEF Enqueue, HandOver, Order!Next, Order!HandOver, Tasks
  <2>2. ASSUME NEW b \in Barriers, RaiseBarrier(b) PROVE Order!Next
    BY <2>2 DEF RaiseBarrier, HandOver, Order!Next, Order!HandOver, Tasks
  <2>3. ASSUME NEW t \in Tasks, Start(t) PROVE Order!Next
    <3>1. \A u \in before[t] :
            <<u, t>> \in {p \in Tasks \X Tasks : Conflict(p[1], p[2])} => status[u] = "done"
      BY <2>3, AwaitedMeansAllEarlierDone DEF Start
    <3> QED
      BY <2>3, <3>1 DEF Start, Order!Next, Order!Start
  <2>4. ASSUME NEW t \in Tasks, End(t) PROVE Order!Next
    BY <2>4 DEF End, Order!Next, Order!End
  <2>5. CASE UNCHANGED vars
    BY <2>5 DEF vars, Order!vars
  <2> QED
    BY <2>1, <2>2, <2>3, <2>4, <2>5 DEF Next
<1> QED
  BY <1>1, <1>2, QueueInvariant, PTL DEF Spec, QueuesKeepArrivalOrder, Order!Spec
----------------------------------------------------------------------------
(* The gate over the queues.                                               *)
WorkIsGated ==
  /\ \A op \in Operations : \A i \in 1 .. Len(Script[op]) :
       Unfinished(Script[op][i]) => gateStatus[op] = "running"
  /\ \A e \in Exclusive : Unfinished(BarrierOf[e]) => gateStatus[e] = "running"

(* A step of the gate alone keeps every running operation running.         *)
LEMMA GateStepKeepsRunning ==
  ASSUME GateTypeOK, GateStep
  PROVE  /\ GateNext
         /\ \A op \in Operations : gateStatus[op] = "running" => gateStatus'[op] = "running"
<1> USE DEF GateTypeOK, ExclusiveStatus, NormalStatus, Operations
<1>1. ASSUME NEW n \in Normal, RunNormal(n)
      PROVE  /\ GateNext
             /\ \A op \in Operations : gateStatus[op] = "running" => gateStatus'[op] = "running"
  BY <1>1 DEF RunNormal, GateNext
<1>2. ASSUME NEW e \in Exclusive, RunExclusive(e)
      PROVE  /\ GateNext
             /\ \A op \in Operations : gateStatus[op] = "running" => gateStatus'[op] = "running"
  BY <1>2 DEF RunExclusive, GateNext
<1>3. ASSUME NEW e \in Exclusive, BeginExclusive(e)
      PROVE  /\ GateNext
             /\ \A op \in Operations : gateStatus[op] = "running" => gateStatus'[op] = "running"
  BY <1>3 DEF BeginExclusive, GateNext
<1>4. ASSUME NEW e \in Exclusive, WaitUntilDrained(e)
      PROVE  /\ GateNext
             /\ \A op \in Operations : gateStatus[op] = "running" => gateStatus'[op] = "running"
  BY <1>4 DEF WaitUntilDrained, GateNext
<1>5. ASSUME NEW e \in Exclusive, StartExclusiveTask(e)
      PROVE  /\ GateNext
             /\ \A op \in Operations : gateStatus[op] = "running" => gateStatus'[op] = "running"
  BY <1>5 DEF StartExclusiveTask, GateNext
<1>6. ASSUME NEW e \in Exclusive, FinishExclusive(e)
      PROVE  /\ GateNext
             /\ \A op \in Operations : gateStatus[op] = "running" => gateStatus'[op] = "running"
  BY <1>6 DEF FinishExclusive, GateNext
<1>7. ASSUME AdmitNext
      PROVE  /\ GateNext
             /\ \A op \in Operations : gateStatus[op] = "running" => gateStatus'[op] = "running"
  BY <1>7 DEF AdmitNext, GateNext
<1>8. ASSUME AdmitDone
      PROVE  /\ GateNext
             /\ \A op \in Operations : gateStatus[op] = "running" => gateStatus'[op] = "running"
  BY <1>8 DEF AdmitDone, GateNext
<1> QED
  BY <1>1, <1>2, <1>3, <1>4, <1>5, <1>6, <1>7, <1>8 DEF GateStep

(* Every step of the whole is a step of each layer, or leaves it alone.    *)
LEMMA StepOfLayers ==
  ASSUME GateTypeOK, [GatedNext]_gatedVars
  PROVE  /\ [Next]_vars
         /\ [GateNext]_gateVars
<1> USE GatedConstants
<1>1. ASSUME NEW op \in Operations, NEW i \in 1 .. Len(Script[op]), CallWrite(op, i)
      PROVE  Next /\ UNCHANGED gateVars
  <2>1. Script[op][i] \in Writes
    BY DEF Operations
  <2> QED
    BY <1>1, <2>1 DEF CallWrite, Next
<1>2. ASSUME NEW e \in Exclusive, CallBarrier(e)
      PROVE  Next /\ UNCHANGED gateVars
  BY <1>2 DEF CallBarrier, Next
<1>3. ASSUME NEW b \in Cleanups, CallCleanup(b)
      PROVE  Next /\ UNCHANGED gateVars
  BY <1>3 DEF CallCleanup, Next
<1>4. ASSUME NEW w \in UngatedWrites, CallUngated(w)
      PROVE  Next /\ UNCHANGED gateVars
  BY <1>4 DEF CallUngated, UngatedWrites, Next
<1>5. ASSUME NEW w \in Writes, CallNested(w)
      PROVE  Next /\ UNCHANGED gateVars
  BY <1>5 DEF CallNested, Next
<1>6. ASSUME StoreStep
      PROVE  Next /\ UNCHANGED gateVars
  BY <1>6 DEF StoreStep, Next
<1>7. ASSUME NEW n \in Normal, ReturnNormal(n)
      PROVE  GateNext /\ UNCHANGED vars
  BY <1>7 DEF ReturnNormal, GateNext
<1>8. ASSUME NEW e \in Exclusive, ReturnExclusive(e)
      PROVE  GateNext /\ UNCHANGED vars
  BY <1>8 DEF ReturnExclusive, GateNext
<1>9. ASSUME GateStep
      PROVE  GateNext /\ UNCHANGED vars
  BY <1>9, GateStepKeepsRunning DEF GateStep
<1>10. CASE UNCHANGED gatedVars
  BY <1>10 DEF gatedVars
<1> QED
  BY <1>1, <1>2, <1>3, <1>4, <1>5, <1>6, <1>7, <1>8, <1>9, <1>10 DEF GatedNext

GatedInv ==
  /\ IInv
  /\ GateInv
  /\ WorkIsGated

(* What is handed to the queues when: only the running operation adds      *)
(* something that it awaits.                                               *)
LEMMA HandOverIsGated ==
  ASSUME WorkIsGated, TypeOK, gateStatus' = gateStatus, NEW t \in Tasks,
         \A u \in Tasks \ {t} : status'[u] = status[u],
         \A op \in Operations : \A i \in 1 .. Len(Script[op]) :
           Script[op][i] = t => gateStatus[op] = "running",
         \A e \in Exclusive : BarrierOf[e] = t => gateStatus[e] = "running"
  PROVE  WorkIsGated'
<1> USE GatedConstants
<1>1. ASSUME NEW op \in Operations, NEW i \in 1 .. Len(Script[op]), Unfinished(Script[op][i])'
      PROVE  gateStatus'[op] = "running"
  <2>1. Script[op][i] \in Tasks
    BY DEF Operations, Tasks
  <2> QED
    BY <1>1, <2>1 DEF WorkIsGated, Unfinished
<1>2. ASSUME NEW e \in Exclusive, Unfinished(BarrierOf[e])'
      PROVE  gateStatus'[e] = "running"
  <2>1. BarrierOf[e] \in Tasks
    BY DEF Tasks
  <2> QED
    BY <1>2, <2>1 DEF WorkIsGated, Unfinished
<1> QED
  BY <1>1, <1>2 DEF WorkIsGated

LEMMA EnqueueFrame ==
  ASSUME TypeOK, NEW w \in Writes, Enqueue(w)
  PROVE  w \in Tasks /\ \A u \in Tasks \ {w} : status'[u] = status[u]
  BY DEF Enqueue, HandOver, TypeOK, Tasks

LEMMA RaiseBarrierFrame ==
  ASSUME TypeOK, NEW b \in Barriers, RaiseBarrier(b)
  PROVE  b \in Tasks /\ \A u \in Tasks \ {b} : status'[u] = status[u]
  BY DEF RaiseBarrier, HandOver, TypeOK, Tasks

LEMMA NextWorkIsGated ==
  ASSUME GatedInv, [GatedNext]_gatedVars
  PROVE  WorkIsGated'
<1> USE GatedConstants, StorageConstants
<1>0. TypeOK /\ GateTypeOK /\ WorkIsGated
  BY DEF GatedInv, IInv, GateInv
<1>1. ASSUME NEW op \in Operations, NEW i \in 1 .. Len(Script[op]), CallWrite(op, i)
      PROVE  WorkIsGated'
  <2>1. Script[op][i] \in Writes /\ Enqueue(Script[op][i]) /\ gateStatus' = gateStatus
    BY <1>1 DEF CallWrite, gateVars, Operations
  <2>2. \A e \in Exclusive : BarrierOf[e] # Script[op][i]
    BY <2>1
  <2>3. \A other \in Operations : \A j \in 1 .. Len(Script[other]) :
          Script[other][j] = Script[op][i] => gateStatus[other] = "running"
    BY <1>1 DEF CallWrite
  <2> QED
    BY <1>0, <2>1, <2>2, <2>3, EnqueueFrame, HandOverIsGated
<1>2. ASSUME NEW e \in Exclusive, CallBarrier(e)
      PROVE  WorkIsGated'
  <2>1. BarrierOf[e] \in Barriers /\ RaiseBarrier(BarrierOf[e]) /\ gateStatus' = gateStatus
    BY <1>2 DEF CallBarrier, gateVars
  <2>2. \A op \in Operations : \A i \in 1 .. Len(Script[op]) : Script[op][i] # BarrierOf[e]
    BY <2>1 DEF Operations
  <2>3. \A f \in Exclusive : BarrierOf[f] = BarrierOf[e] => gateStatus[f] = "running"
    BY <1>2 DEF CallBarrier
  <2> QED
    BY <1>0, <2>1, <2>2, <2>3, RaiseBarrierFrame, HandOverIsGated
<1>3. ASSUME NEW b \in Cleanups, CallCleanup(b)
      PROVE  WorkIsGated'
  <2>1. b \in Barriers /\ RaiseBarrier(b) /\ gateStatus' = gateStatus
    BY <1>3 DEF CallCleanup, gateVars
  <2>2. \A op \in Operations : \A i \in 1 .. Len(Script[op]) : Script[op][i] # b
    BY <2>1 DEF Operations
  <2>3. \A f \in Exclusive : BarrierOf[f] # b
    OBVIOUS
  <2> QED
    BY <1>0, <2>1, <2>2, <2>3, RaiseBarrierFrame, HandOverIsGated
<1>4. ASSUME NEW w \in UngatedWrites, CallUngated(w)
      PROVE  WorkIsGated'
  <2>1. w \in Writes /\ Enqueue(w) /\ gateStatus' = gateStatus
    BY <1>4 DEF CallUngated, UngatedWrites, gateVars
  <2>2. \A op \in Operations : \A i \in 1 .. Len(Script[op]) : Script[op][i] # w
    BY DEF UngatedWrites, ScriptedWrites
  <2>3. \A e \in Exclusive : BarrierOf[e] # w
    BY <2>1
  <2> QED
    BY <1>0, <2>1, <2>2, <2>3, EnqueueFrame, HandOverIsGated
<1>5. ASSUME NEW w \in Writes, CallNested(w)
      PROVE  WorkIsGated'
  <2>1. Enqueue(w) /\ Caller[w] # None /\ gateStatus' = gateStatus
    BY <1>5 DEF CallNested, gateVars
  <2>2. \A op \in Operations : \A i \in 1 .. Len(Script[op]) : Script[op][i] # w
    BY <2>1
  <2>3. \A e \in Exclusive : BarrierOf[e] # w
    OBVIOUS
  <2> QED
    BY <1>0, <2>1, <2>2, <2>3, EnqueueFrame, HandOverIsGated
<1>6. CASE StoreStep
  <2>1. PICK t \in Tasks : Start(t) \/ End(t)
    BY <1>6 DEF StoreStep
  <2>2. \A u \in Tasks : Unfinished(u)' => Unfinished(u)
    BY <1>0, <2>1 DEF Start, End, Unfinished, TypeOK
  <2>3. gateStatus' = gateStatus
    BY <1>6 DEF StoreStep, gateVars
  <2>4. \A op \in Operations : \A i \in 1 .. Len(Script[op]) : Script[op][i] \in Tasks
    BY DEF Operations, Tasks
  <2>5. \A e \in Exclusive : BarrierOf[e] \in Tasks
    BY DEF Tasks
  <2> QED
    BY <1>0, <2>2, <2>3, <2>4, <2>5 DEF WorkIsGated
<1>7. ASSUME NEW n \in Normal, ReturnNormal(n)
      PROVE  WorkIsGated'
  <2>1. FinishNormal(n) /\ UNCHANGED status /\ ScriptIdle(n)
    BY <1>7 DEF ReturnNormal, vars
  <2>2. \A op \in Operations \ {n} : gateStatus[op] = "running" => gateStatus'[op] = "running"
    BY <1>0, <2>1 DEF FinishNormal, GateTypeOK, Operations
  <2> QED
    <3>1. \A op \in Operations : \A i \in 1 .. Len(Script[op]) :
             Unfinished(Script[op][i])' => gateStatus'[op] = "running"
      BY <1>0, <2>1, <2>2 DEF WorkIsGated, Unfinished, ScriptIdle
    <3>2. \A e \in Exclusive : Unfinished(BarrierOf[e])' => gateStatus'[e] = "running"
      BY <1>0, <2>1, <2>2, DisjointCalls DEF WorkIsGated, Unfinished, Operations
    <3> QED
      BY <3>1, <3>2 DEF WorkIsGated
<1>8. ASSUME NEW e \in Exclusive, ReturnExclusive(e)
      PROVE  WorkIsGated'
  <2>1. SettleExclusive(e) /\ UNCHANGED status /\ ScriptIdle(e) /\ ~Unfinished(BarrierOf[e])
    BY <1>8 DEF ReturnExclusive, vars
  <2>2. \A op \in Operations \ {e} : gateStatus[op] = "running" => gateStatus'[op] = "running"
    BY <1>0, <2>1 DEF SettleExclusive, GateTypeOK, Operations
  <2> QED
    BY <1>0, <2>1, <2>2 DEF WorkIsGated, Unfinished, ScriptIdle, Operations
<1>9. CASE GateStep
  <2>1. UNCHANGED status
    BY <1>9 DEF GateStep, vars
  <2> QED
    BY <1>0, <1>9, <2>1, GateStepKeepsRunning DEF WorkIsGated, Unfinished, Operations
<1>10. CASE UNCHANGED gatedVars
  BY <1>0, <1>10 DEF gatedVars, gateVars, vars, WorkIsGated, Unfinished
<1> QED
  BY <1>1, <1>2, <1>3, <1>4, <1>5, <1>6, <1>7, <1>8, <1>9, <1>10 DEF GatedNext

(* The inductive invariant of both layers.                                 *)
THEOREM GatedInvariant == GatedSpec => []GatedInv
<1>1. GatedInit => GatedInv
  <2> SUFFICES ASSUME GatedInit PROVE GatedInv
    OBVIOUS
  <2>1. IInv
    BY InitIInv DEF GatedInit
  <2>2. GateInv
    BY GatedConstants, GateStarts DEF GatedInit
  <2>3. \A t \in Tasks : ~Unfinished(t)
    BY DEF GatedInit, Init, Unfinished
  <2>4. WorkIsGated
    BY <2>3, GatedConstants DEF WorkIsGated, Operations, Tasks
  <2> QED
    BY <2>1, <2>2, <2>4 DEF GatedInv
<1>2. GatedInv /\ [GatedNext]_gatedVars => GatedInv'
  <2> SUFFICES ASSUME GatedInv, [GatedNext]_gatedVars PROVE GatedInv'
    OBVIOUS
  <2>1. [Next]_vars /\ [GateNext]_gateVars
    BY StepOfLayers DEF GatedInv, GateInv
  <2>2. IInv'
    BY <2>1, NextIInv DEF GatedInv
  <2>3. GateInv'
    BY <2>1, GatedConstants, NextKeepsGate DEF GatedInv
  <2> QED
    BY <2>2, <2>3, NextWorkIsGated DEF GatedInv
<1> QED
  BY <1>1, <1>2, PTL DEF GatedSpec

(* While a maintenance barrier runs, nothing else does: the maintenance    *)
(* operation is running, so no other operation is, and by the invariant of *)
(* the queues no write overlaps the barrier.                               *)
LEMMA BarrierRunsAlone ==
  ASSUME GatedInv, NEW e \in Exclusive, status[BarrierOf[e]] = "running"
  PROVE  /\ gateStatus[e] = "running"
         /\ \A n \in Normal : gateStatus[n] # "running"
         /\ \A w \in Writes : status[w] # "running"
         /\ \A f \in Exclusive : gateStatus[f] = "running" => f = e
<1> USE GatedConstants, StorageConstants
<1>1. gateStatus[e] = "running"
  BY DEF GatedInv, WorkIsGated, Unfinished
<1>2. MaintenanceAlone
  BY GateInvMaintenanceAlone DEF GatedInv
<1>3. /\ \A n \in Normal : gateStatus[n] # "running"
      /\ \A f \in Exclusive : gateStatus[f] = "running" => f = e
  BY <1>1, <1>2 DEF MaintenanceAlone, RunningExclusive, RunningNormal
<1>4. ASSUME NEW w \in Writes, status[w] = "running"
      PROVE  FALSE
  <2>1. NoConflictingOverlap
    BY IInvNoConflictingOverlap DEF GatedInv
  <2>2. BarrierOf[e] \in Barriers /\ BarrierOf[e] # w
    OBVIOUS
  <2> QED
    BY <1>4, <2>1, <2>2 DEF NoConflictingOverlap, Conflict, Tasks
<1> QED
  BY <1>1, <1>3, <1>4

(* A backup or a restore sees the storage whole, whatever operations,      *)
(* nested writes, writes from outside and cleanups interleave with it.     *)
THEOREM MaintenanceSeesStorageWhole == GatedSpec => []MaintenanceSeesWhole
<1>1. GatedInv => MaintenanceSeesWhole
  <2> SUFFICES ASSUME GatedInv PROVE MaintenanceSeesWhole
    OBVIOUS
  <2>1. QuietUnderMaintenance
    BY BarrierRunsAlone DEF QuietUnderMaintenance
  <2>2. NoHalfWrittenOperation
    <3> SUFFICES ASSUME NEW e \in Exclusive, NEW n \in Normal, status[BarrierOf[e]] = "running",
                        NEW i \in 1 .. Len(Script[n]), Unfinished(Script[n][i])
                 PROVE  FALSE
      BY DEF NoHalfWrittenOperation
    <3>1. gateStatus[n] = "running"
      BY DEF GatedInv, WorkIsGated, Operations
    <3> QED
      BY <3>1, BarrierRunsAlone
  <2> QED
    BY <2>1, <2>2 DEF MaintenanceSeesWhole
<1> QED
  BY <1>1, GatedInvariant, PTL

(* The whole keeps to the specification of each of its layers, so what is  *)
(* proved of the gate and of the queues alone holds of both together.      *)
THEOREM GatedStorageImplementsQueues == GatedSpec => Spec
<1>1. GatedInit => Init
  BY DEF GatedInit
<1>2. GatedInv /\ [GatedNext]_gatedVars => [Next]_vars
  BY StepOfLayers DEF GatedInv, GateInv
<1> QED
  BY <1>1, <1>2, GatedInvariant, PTL DEF GatedSpec, Spec

(* The gate, too, makes the steps it makes alone: no write, barrier or    *)
(* cleanup opens it or holds it beyond what its own specification allows. *)
THEOREM GatedStorageImplementsGate == GatedSpec => GateSpec
<1>1. GatedInit => GateInit
  BY DEF GatedInit
<1>2. GatedInv /\ [GatedNext]_gatedVars => [GateNext]_gateVars
  BY StepOfLayers DEF GatedInv, GateInv
<1> QED
  BY <1>1, <1>2, GatedInvariant, PTL DEF GatedSpec, GateSpec

-----------------------------------------------------------------------------
(* The copy of the storage a page works with.                               *)
StoredKeys == {"workspaces", "tags", "main", "switch", "local", "sync", "bindings", "jobs"}
BindingMaps == [Page!Windows -> BOOLEAN]
StoredValues == Nat \cup {None, Own, Other} \cup BindingMaps \cup BOOLEAN

LEMMA NothingElse ==
    /\ None \notin Nat \cup BindingMaps \cup BOOLEAN
    /\ Failed \notin Nat \cup {None} \cup (Nat \X {None, Own, Other})
  BY ValuesApart DEF BindingMaps, Page!Windows

StorageEvent ==
  {e \in UNION {[D -> StoredValues] : D \in SUBSET StoredKeys} :
     /\ "workspaces" \in DOMAIN e => e["workspaces"] \in Nat
     /\ "bindings" \in DOMAIN e => e["bindings"] \in BindingMaps
     /\ "jobs" \in DOMAIN e => e["jobs"] \in BOOLEAN}

StoreShape ==
  /\ DOMAIN pageStore = StoredKeys
  /\ pageStore["workspaces"] \in Nat \cup {None} /\ pageStore["tags"] \in Nat \cup {None}
  /\ pageStore["workspaces"] # None \/ pageStore["tags"] # None
  /\ pageStore["local"] \in Nat /\ pageStore["sync"] \in Nat /\ pageStore["main"] \in Nat
  /\ pageStore["switch"] \in {None, Own, Other} /\ pageStore["bindings"] \in BindingMaps
  /\ pageStore["jobs"] \in BOOLEAN
  /\ pageSaving \in Nat /\ pageMade \in Nat
  /\ pageEvents \in Seq(StorageEvent)

Coming(k) == \E i \in DOMAIN pageEvents : k \in DOMAIN pageEvents[i]

(* The last event that brings a key brings what is stored.                  *)
EventsEndStored ==
  \A k \in StoredKeys, i \in DOMAIN pageEvents :
    k \in DOMAIN pageEvents[i] /\ (\A j \in DOMAIN pageEvents : k \in DOMAIN pageEvents[j] => j <= i)
      => pageEvents[i][k] = pageStore[k]

LEMMA EventFacts ==
    ASSUME NEW e \in StorageEvent
    PROVE  /\ DOMAIN e \subseteq StoredKeys
           /\ \A k \in DOMAIN e : e[k] \in StoredValues
           /\ "workspaces" \in DOMAIN e => e["workspaces"] \in Nat
           /\ "bindings" \in DOMAIN e => e["bindings"] \in BindingMaps
           /\ "jobs" \in DOMAIN e => e["jobs"] \in BOOLEAN
  BY DEF StorageEvent

LEMMA SomeOfAnEvent ==
    ASSUME NEW change \in StorageEvent, NEW D \in SUBSET DOMAIN change
    PROVE  [k \in D |-> change[k]] \in StorageEvent
<1> DEFINE e == [k \in D |-> change[k]]
<1>1. DOMAIN e = D /\ \A k \in D : e[k] = change[k]
  OBVIOUS
<1>2. D \in SUBSET StoredKeys /\ \A k \in D : change[k] \in StoredValues
  BY EventFacts
<1>3. e \in [D -> StoredValues]
  BY <1>2
<1> HIDE DEF e
<1>4. e \in UNION {[K -> StoredValues] : K \in SUBSET StoredKeys}
  BY <1>2, <1>3
<1> QED BY <1>1, <1>4, EventFacts DEF StorageEvent, e

Steady(k) == pageStore'[k] = pageStore[k] /\ (Coming(k)' <=> Coming(k))

(* What is stored is either as before or on its way to the page.            *)
LEMMA StoredIsComing ==
    ASSUME StoreShape, EventsEndStored, NEW change \in StorageEvent, Page!Stored(change)
    PROVE  /\ DOMAIN pageStore' = StoredKeys /\ pageEvents' \in Seq(StorageEvent) /\ EventsEndStored'
           /\ \A k \in DOMAIN change : pageStore'[k] = change[k]
           /\ \A k \in StoredKeys \ DOMAIN change : pageStore'[k] = pageStore[k] /\ Steady(k)
           /\ \A k \in StoredKeys : Steady(k) \/ Coming(k)'
<1> DEFINE changed == {k \in DOMAIN change : change[k] # pageStore[k]}
           e == [k \in changed |-> change[k]]
<1>1. DOMAIN change \subseteq StoredKeys /\ e \in StorageEvent /\ DOMAIN e = changed /\ \A k \in changed : e[k] = change[k]
  BY EventFacts, SomeOfAnEvent
<1>2. pageStore' = Page!Over(change, pageStore) /\ pageEvents' = IF changed = {} THEN pageEvents ELSE Append(pageEvents, e)
  BY DEF Page!Stored
<1> HIDE DEF e
<1>3. /\ DOMAIN pageStore' = StoredKeys
      /\ \A k \in DOMAIN change : pageStore'[k] = change[k]
      /\ \A k \in StoredKeys \ DOMAIN change : pageStore'[k] = pageStore[k]
  BY <1>1, <1>2 DEF Page!Over, StoreShape
<1>4. \A k \in StoredKeys \ changed : pageStore'[k] = pageStore[k]
  BY <1>3
<1>5. CASE changed = {}
  <2>1. pageEvents' = pageEvents /\ \A k \in StoredKeys : pageStore'[k] = pageStore[k]
    BY <1>2, <1>4, <1>5
  <2>2. EventsEndStored'
    BY <2>1 DEF EventsEndStored
  <2> QED BY <1>3, <2>1, <2>2 DEF Steady, Coming, StoreShape
<1>6. CASE changed # {}
  <2>1. /\ pageEvents' \in Seq(StorageEvent) /\ Len(pageEvents') = Len(pageEvents) + 1 /\ Len(pageEvents) \in Nat
        /\ pageEvents'[Len(pageEvents) + 1] = e /\ \A i \in 1..Len(pageEvents) : pageEvents'[i] = pageEvents[i]
        /\ DOMAIN pageEvents' = 1..(Len(pageEvents) + 1) /\ DOMAIN pageEvents = 1..Len(pageEvents)
    BY <1>1, <1>2, <1>6, AppendProperties DEF StoreShape
  <2>2. \A k \in changed : Coming(k)'
    BY <1>1, <2>1 DEF Coming
  <2>3. \A k \in StoredKeys \ changed : Coming(k)' <=> Coming(k)
    BY <1>1, <2>1 DEF Coming
  <2>4. EventsEndStored'
    <3> SUFFICES ASSUME NEW k \in StoredKeys, NEW i \in 1..(Len(pageEvents) + 1), k \in DOMAIN pageEvents'[i],
                        \A j \in 1..(Len(pageEvents) + 1) : k \in DOMAIN pageEvents'[j] => j <= i
                 PROVE  pageEvents'[i][k] = pageStore'[k]
      BY <2>1 DEF EventsEndStored
    <3>1. CASE i = Len(pageEvents) + 1
      BY <1>1, <1>3, <2>1, <3>1
    <3>2. CASE i \in 1..Len(pageEvents)
      <4>1. k \notin changed
        BY <1>1, <2>1, <3>2
      <4>2. pageEvents'[i] = pageEvents[i] /\ \A j \in 1..Len(pageEvents) : k \in DOMAIN pageEvents[j] => j <= i
        BY <2>1, <3>2
      <4> QED BY <1>4, <2>1, <3>2, <4>1, <4>2 DEF EventsEndStored
    <3> QED BY <2>1, <3>1, <3>2
  <2> QED BY <1>3, <1>4, <2>1, <2>2, <2>3, <2>4 DEF Steady
<1> QED BY <1>5, <1>6

(* An event that is delivered brings what is stored, or another will.       *)
LEMMA DeliveredIsStored ==
    ASSUME StoreShape, EventsEndStored, pageEvents # <<>>, pageEvents' = Tail(pageEvents), UNCHANGED pageStore
    PROVE  /\ pageEvents' \in Seq(StorageEvent) /\ EventsEndStored' /\ Head(pageEvents) \in StorageEvent
           /\ \A k \in StoredKeys \ DOMAIN Head(pageEvents) : Coming(k)' <=> Coming(k)
           /\ \A k \in DOMAIN Head(pageEvents) : Coming(k)' \/ Head(pageEvents)[k] = pageStore[k]
<1>1. /\ pageEvents' \in Seq(StorageEvent) /\ Len(pageEvents) \in Nat \ {0} /\ Len(pageEvents') = Len(pageEvents) - 1
      /\ DOMAIN pageEvents = 1..Len(pageEvents) /\ DOMAIN pageEvents' = 1..(Len(pageEvents) - 1)
      /\ Head(pageEvents) = pageEvents[1] /\ Head(pageEvents) \in StorageEvent
      /\ \A i \in 1..(Len(pageEvents) - 1) : pageEvents'[i] = pageEvents[i + 1]
  BY HeadTailProperties, EmptySeq DEF StoreShape
<1>2. \A k, i : i \in DOMAIN pageEvents /\ k \in DOMAIN pageEvents[i] => i = 1 \/ Coming(k)'
  <2> SUFFICES ASSUME NEW k, NEW i \in DOMAIN pageEvents, k \in DOMAIN pageEvents[i], i # 1 PROVE Coming(k)'
    OBVIOUS
  <2>1. i - 1 \in DOMAIN pageEvents' /\ pageEvents'[i - 1] = pageEvents[i]
    BY <1>1
  <2> QED BY <2>1 DEF Coming
<1>3. \A k : Coming(k)' => \E i \in DOMAIN pageEvents : i # 1 /\ k \in DOMAIN pageEvents[i]
  BY <1>1 DEF Coming
<1>4. \A k \in StoredKeys \ DOMAIN Head(pageEvents) : Coming(k)' <=> Coming(k)
  BY <1>1, <1>2, <1>3 DEF Coming
<1>5. ASSUME NEW k \in DOMAIN Head(pageEvents), ~Coming(k)' PROVE Head(pageEvents)[k] = pageStore[k]
  <2>1. k \in StoredKeys /\ 1 \in DOMAIN pageEvents /\ \A j \in DOMAIN pageEvents : k \in DOMAIN pageEvents[j] => j = 1
    BY <1>1, <1>2, <1>5, EventFacts
  <2> QED BY <1>1, <2>1 DEF EventsEndStored
<1>6. EventsEndStored'
  <2> SUFFICES ASSUME NEW k \in StoredKeys, NEW i \in DOMAIN pageEvents', k \in DOMAIN pageEvents'[i],
                      \A j \in DOMAIN pageEvents' : k \in DOMAIN pageEvents'[j] => j <= i
               PROVE  pageEvents'[i][k] = pageStore[k]
    BY DEF EventsEndStored
  <2>1. i + 1 \in DOMAIN pageEvents /\ pageEvents'[i] = pageEvents[i + 1]
    BY <1>1
  <2>2. \A j \in DOMAIN pageEvents : k \in DOMAIN pageEvents[j] => j <= i + 1
    <3> SUFFICES ASSUME NEW j \in DOMAIN pageEvents, k \in DOMAIN pageEvents[j], j # 1 PROVE j <= i + 1
      BY <1>1
    <3>1. j - 1 \in DOMAIN pageEvents' /\ pageEvents'[j - 1] = pageEvents[j]
      BY <1>1
    <3> QED BY <1>1, <3>1
  <2> QED BY <2>1, <2>2 DEF EventsEndStored
<1> QED BY <1>1, <1>4, <1>5, <1>6

-----------------------------------------------------------------------------
PageFields ==
  {"window", "bound", "newBindings", "newJobs", "loaded", "hydrated", "workspaces", "settings", "refresh",
   "main", "switch", "active", "loading"}

PageShape ==
  /\ DOMAIN pagePage = PageFields
  /\ pagePage.newBindings \in BindingMaps \cup {None} /\ pagePage.newJobs \in BOOLEAN \cup {None}
  /\ pagePage.refresh \in Nat
  /\ pageWaiting \subseteq Page!FirstReads \cup Page!Session
  /\ \A r \in pageRefreshes :
       /\ DOMAIN r = {"generation", "got"} /\ r.generation \in Nat /\ r.generation <= pagePage.refresh
       /\ DOMAIN r.got \subseteq {"local", "sync"}
  /\ pagePage.window = "pending" /\ "jobs" \in pageWaiting \cup DOMAIN pageGot => "bindings" \in pageWaiting \cup DOMAIN pageGot

(* What the page shows, or has read and not yet looked at, is what is       *)
(* stored, unless an event that changes it is still to come.                *)
ListKnown ==
  ~Coming("workspaces") =>
    /\ "workspaces" \in pagePage.loaded => pagePage.workspaces = Page!Workspaces(pageStore)
    /\ "workspaces" \in DOMAIN pageGot \ pagePage.loaded => pageGot["workspaces"] = Page!Workspaces(pageStore)

SettingsKnown ==
  ~Coming("local") /\ ~Coming("sync") =>
    /\ "settings" \in pagePage.loaded =>
         \/ pagePage.settings = <<pageStore.local, pageStore.sync>>
         \/ \E r \in pageRefreshes : r.generation = pagePage.refresh
    /\ "settings" \notin pagePage.loaded =>
         /\ "local" \in DOMAIN pageGot => pageGot["local"] = pageStore.local
         /\ "sync" \in DOMAIN pageGot => pageGot["sync"] = pageStore.sync
    /\ \A r \in pageRefreshes : r.generation = pagePage.refresh =>
         /\ "local" \in DOMAIN r.got => r.got["local"] = pageStore.local
         /\ "sync" \in DOMAIN r.got => r.got["sync"] = pageStore.sync

BindingKnown ==
  ~Coming("bindings") =>
    /\ pagePage.window = "ready" => pagePage.bound = pageStore.bindings[Own]
    /\ pagePage.window = "pending" /\ pagePage.newBindings # None => pagePage.newBindings = pageStore.bindings
    /\ pagePage.window = "pending" /\ pagePage.newBindings = None /\ "bindings" \in DOMAIN pageGot
         => pageGot["bindings"] = pageStore.bindings

JobsKnown ==
  ~Coming("jobs") =>
    /\ pagePage.window = "ready" => pagePage.loading = pageStore.jobs
    /\ pagePage.window = "pending" /\ pagePage.newJobs # None => pagePage.newJobs = pageStore.jobs
    /\ pagePage.window = "pending" /\ pagePage.newJobs = None /\ "jobs" \in DOMAIN pageGot => pageGot["jobs"] = pageStore.jobs

(* A window that is known shows the workspace it is bound to; a page that   *)
(* has read all has loaded all; and no read has failed.                     *)
PageKnows ==
  /\ pagePage.window = "ready" /\ "state" \in pagePage.loaded => pagePage.active = pagePage.bound
  /\ pagePage.hydrated => {"workspaces", "settings", "state"} \subseteq pagePage.loaded
  /\ \A k \in DOMAIN pageGot \cap {"workspaces", "local", "sync", "state"} : pageGot[k] # Failed

Known == ListKnown /\ SettingsKnown /\ BindingKnown /\ JobsKnown /\ PageKnows

PageInv == StoreShape /\ EventsEndStored /\ PageShape /\ (pageFaults = 0 => Known)

-----------------------------------------------------------------------------
(* The writers.                                                             *)
LEMMA AChange ==
    ASSUME NEW c, DOMAIN c \subseteq StoredKeys, c = [k \in DOMAIN c |-> c[k]],
           \A k \in DOMAIN c : c[k] \in StoredValues,
           "workspaces" \in DOMAIN c => c["workspaces"] \in Nat,
           "bindings" \in DOMAIN c => c["bindings"] \in BindingMaps,
           "jobs" \in DOMAIN c => c["jobs"] \in BOOLEAN
    PROVE  c \in StorageEvent
<1>1. c \in [DOMAIN c -> StoredValues]
  OBVIOUS
<1> QED BY <1>1 DEF StorageEvent

LEMMA WriterKnown ==
    ASSUME PageInv, NEW change \in StorageEvent, Page!Stored(change), UNCHANGED <<pageWaiting, pageGot,
           pageRefreshes, pagePage, pageFaults>>,
           "tags" \in DOMAIN change => "workspaces" \notin DOMAIN change /\ pageStore.workspaces # None
    PROVE  PageShape' /\ EventsEndStored' /\ (pageFaults = 0 => Known)'
<1>1. \A k \in StoredKeys : Steady(k) \/ Coming(k)'
  BY StoredIsComing DEF PageInv
<1>2. EventsEndStored' /\ \A k \in StoredKeys \ DOMAIN change : pageStore'[k] = pageStore[k] /\ Steady(k)
  BY StoredIsComing DEF PageInv
<1>3. PageShape'
  BY DEF PageInv, PageShape
<1> SUFFICES ASSUME pageFaults = 0, Known PROVE Known'
  BY <1>2, <1>3 DEF PageInv
<1>4. ListKnown'
  <2>1. Coming("workspaces")' \/ (Page!Workspaces(pageStore') = Page!Workspaces(pageStore) /\ ~Coming("workspaces"))
     \/ (Coming("workspaces") /\ Coming("workspaces")')
    <3>1. CASE "tags" \in DOMAIN change
      BY <1>1, <1>2, <3>1 DEF Steady, Page!Workspaces, StoredKeys
    <3>2. CASE "tags" \notin DOMAIN change
      <4>1. pageStore'["tags"] = pageStore["tags"]
        BY <1>2, <3>2 DEF StoredKeys
      <4> QED BY <1>1, <4>1 DEF Steady, Page!Workspaces, StoredKeys
    <3> QED BY <3>1, <3>2
  <2> QED BY <2>1 DEF Known, ListKnown
<1>5. SettingsKnown'
  BY <1>1 DEF Known, SettingsKnown, Steady, StoredKeys
<1>6. BindingKnown' /\ JobsKnown'
  BY <1>1 DEF Known, BindingKnown, JobsKnown, Steady, StoredKeys
<1>7. PageKnows'
  BY DEF Known, PageKnows
<1> QED BY <1>4, <1>5, <1>6, <1>7 DEF Known

(* What is stored keeps its shape.                                          *)
LEMMA ChangeShape ==
    ASSUME StoreShape, EventsEndStored, NEW change \in StorageEvent, Page!Stored(change), pageSaving' \in Nat,
           pageMade' \in Nat,
           "tags" \in DOMAIN change => change["tags"] \in Nat \cup {None}
             /\ "workspaces" \notin DOMAIN change /\ pageStore.workspaces # None,
           "local" \in DOMAIN change => change["local"] \in Nat, "sync" \in DOMAIN change => change["sync"] \in Nat,
           "main" \in DOMAIN change => change["main"] \in Nat,
           "switch" \in DOMAIN change => change["switch"] \in {None, Own, Other}
    PROVE  StoreShape'
<1>1. /\ DOMAIN pageStore' = StoredKeys /\ pageEvents' \in Seq(StorageEvent)
      /\ \A k \in DOMAIN change : pageStore'[k] = change[k]
      /\ \A k \in StoredKeys \ DOMAIN change : pageStore'[k] = pageStore[k]
  BY StoredIsComing
<1>2. /\ "workspaces" \in DOMAIN change => change["workspaces"] \in Nat
      /\ "bindings" \in DOMAIN change => change["bindings"] \in BindingMaps
      /\ "jobs" \in DOMAIN change => change["jobs"] \in BOOLEAN
  BY EventFacts
<1>3. pageStore'["tags"] \in Nat \cup {None}
  BY <1>1 DEF StoreShape, StoredKeys
<1>4. pageStore'["workspaces"] \in Nat \cup {None}
  BY <1>1, <1>2 DEF StoreShape, StoredKeys
<1>5. pageStore'["workspaces"] # None \/ pageStore'["tags"] # None
  <2>1. CASE "workspaces" \in DOMAIN change \/ "tags" \in DOMAIN change
    <3>1. CASE "workspaces" \in DOMAIN change
      <4>1. "tags" \notin DOMAIN change
        BY <3>1
      <4> QED BY <1>1, <1>2, <3>1, <4>1, NothingElse DEF StoreShape, StoredKeys
    <3> QED BY <1>1, <2>1, <3>1 DEF StoredKeys
  <2>2. CASE "workspaces" \notin DOMAIN change /\ "tags" \notin DOMAIN change
    BY <1>1, <2>2 DEF StoreShape, StoredKeys
  <2> QED BY <2>1, <2>2
<1>6. pageStore'["local"] \in Nat /\ pageStore'["sync"] \in Nat /\ pageStore'["main"] \in Nat
  BY <1>1 DEF StoreShape, StoredKeys
<1>7. pageStore'["switch"] \in {None, Own, Other} /\ pageStore'["bindings"] \in BindingMaps /\ pageStore'["jobs"] \in BOOLEAN
  BY <1>1, <1>2 DEF StoreShape, StoredKeys
<1> QED BY <1>1, <1>3, <1>4, <1>5, <1>6, <1>7 DEF StoreShape

LEMMA WriterStep ==
    ASSUME PageInv, NEW change \in StorageEvent, Page!Stored(change), pageSaving' \in Nat, pageMade' \in Nat,
           "tags" \in DOMAIN change => change["tags"] \in Nat \cup {None}
             /\ "workspaces" \notin DOMAIN change /\ pageStore.workspaces # None,
           "local" \in DOMAIN change => change["local"] \in Nat, "sync" \in DOMAIN change => change["sync"] \in Nat,
           "main" \in DOMAIN change => change["main"] \in Nat,
           "switch" \in DOMAIN change => change["switch"] \in {None, Own, Other},
           UNCHANGED <<pageWaiting, pageGot, pageRefreshes, pagePage, pageFaults>>
    PROVE  PageInv' /\ ("bindings" \notin DOMAIN change => pageStore'.bindings = pageStore.bindings)
<1>1. StoreShape'
  BY ChangeShape DEF PageInv
<1>2. PageShape' /\ EventsEndStored' /\ (pageFaults = 0 => Known)'
  BY WriterKnown
<1>3. "bindings" \notin DOMAIN change => pageStore'["bindings"] = pageStore["bindings"]
  BY StoredIsComing DEF PageInv, StoredKeys
<1> QED BY <1>1, <1>2, <1>3 DEF PageInv

(* The queue of the bindings: what a window is to be bound to is what the   *)
(* last update says that is about it, or what is stored.                    *)
BindingUpdates == [windows : {{Own}, {Other}, Page!Windows}, bound : BOOLEAN]
LastAbout(w, i) ==
  w \in pageBindQueue[i].windows /\ \A j \in DOMAIN pageBindQueue : w \in pageBindQueue[j].windows => j <= i

BindInv ==
  /\ pageBindQueue \in Seq(BindingUpdates) /\ pageMeant \in BindingMaps
  /\ pageBindRead # None => pageBindRead = pageStore.bindings /\ pageBindQueue # <<>>
  /\ \A w \in Page!Windows :
       \/ pageMeant[w] = pageStore.bindings[w] /\ \A i \in DOMAIN pageBindQueue : w \notin pageBindQueue[i].windows
       \/ \E i \in DOMAIN pageBindQueue : LastAbout(w, i) /\ pageMeant[w] = pageBindQueue[i].bound

LEMMA BindSteady ==
    ASSUME BindInv, UNCHANGED <<pageBindQueue, pageBindRead, pageMeant>>, pageStore'.bindings = pageStore.bindings
    PROVE  BindInv'
  BY DEF BindInv, LastAbout

LEMMA BoundIsMap ==
    ASSUME NEW b \in BindingMaps, NEW u \in BindingUpdates
    PROVE  /\ Page!Bound(b, u) \in BindingMaps
           /\ \A w \in Page!Windows : Page!Bound(b, u)[w] = IF w \in u.windows THEN u.bound ELSE b[w]
<1>1. u.bound \in BOOLEAN
  BY DEF BindingUpdates
<1> QED BY <1>1 DEF Page!Bound, BindingMaps

LEMMA WriteStep ==
    ASSUME PageInv, BindInv, NEW change, Page!Write(change), DOMAIN change \subseteq StoredKeys \ {"bindings"},
           change = [k \in DOMAIN change |-> change[k]],
           "workspaces" \in DOMAIN change => change["workspaces"] \in Nat,
           "tags" \notin DOMAIN change,
           "local" \in DOMAIN change => change["local"] \in Nat, "sync" \in DOMAIN change => change["sync"] \in Nat,
           "main" \in DOMAIN change => change["main"] \in Nat,
           "switch" \in DOMAIN change => change["switch"] \in {None, Own, Other},
           "jobs" \in DOMAIN change => change["jobs"] \in BOOLEAN
    PROVE  PageInv' /\ BindInv'
<1>1. change \in StorageEvent
  <2>1. \A k \in DOMAIN change : change[k] \in StoredValues
    <3> SUFFICES ASSUME NEW k \in DOMAIN change PROVE change[k] \in StoredValues
      OBVIOUS
    <3>1. k \in {"workspaces", "main", "switch", "local", "sync", "jobs"}
      BY DEF StoredKeys
    <3> QED BY <3>1 DEF StoredValues
  <2> QED BY <2>1, AChange
<1>2. Page!Stored(change) /\ pageMade' = pageMade + 1 /\ pageMade \in Nat /\ pageSaving' \in Nat
  BY DEF Page!Write, Page!writers, PageInv, StoreShape
<1>3. UNCHANGED <<pageWaiting, pageGot, pageRefreshes, pagePage, pageFaults, pageBindQueue, pageBindRead, pageMeant>>
  BY DEF Page!Write, Page!writers, Page!reads
<1>4. PageInv' /\ pageStore'.bindings = pageStore.bindings
  BY <1>1, <1>2, <1>3, WriterStep
<1> QED BY <1>3, <1>4, BindSteady

LEMMA WritersKeep ==
    ASSUME PageInv, BindInv,
           \/ Page!SaveWorkspaces \/ Page!Migrate \/ Page!SaveMain \/ Page!SaveSwitch
           \/ Page!SaveState \/ Page!SaveJobs \/ Page!SyncSettings
    PROVE  PageInv' /\ BindInv'
<1>0. pageMade + 1 \in Nat /\ pageStore.jobs \in BOOLEAN /\ (pageStore.workspaces = None => pageStore.tags \in Nat)
  BY DEF PageInv, StoreShape
<1>1. CASE Page!SaveWorkspaces
  <2> DEFINE c == [workspaces |-> pageMade + 1]
  <2>1. DOMAIN c = {"workspaces"} /\ c = [k \in DOMAIN c |-> c[k]] /\ c["workspaces"] = pageMade + 1 /\ Page!Write(c)
    BY <1>1 DEF Page!SaveWorkspaces
  <2> HIDE DEF c
  <2> QED BY <1>0, <2>1, WriteStep DEF StoredKeys
<1>2. CASE Page!Migrate
  <2> DEFINE c == [workspaces |-> pageStore.tags]
  <2>1. DOMAIN c = {"workspaces"} /\ c = [k \in DOMAIN c |-> c[k]] /\ c["workspaces"] = pageStore.tags /\ Page!Write(c)
        /\ pageStore.workspaces = None
    BY <1>2 DEF Page!Migrate
  <2> HIDE DEF c
  <2> QED BY <1>0, <2>1, WriteStep DEF StoredKeys
<1>3. CASE Page!SaveMain
  <2> DEFINE c == [main |-> pageMade + 1]
  <2>1. DOMAIN c = {"main"} /\ c = [k \in DOMAIN c |-> c[k]] /\ c["main"] = pageMade + 1 /\ Page!Write(c)
    BY <1>3 DEF Page!SaveMain
  <2> HIDE DEF c
  <2> QED BY <1>0, <2>1, WriteStep DEF StoredKeys
<1>4. CASE Page!SaveSwitch
  <2> PICK w \in {None, Own, Other} : Page!Write([switch |-> w])
    BY <1>4 DEF Page!SaveSwitch
  <2> DEFINE c == [switch |-> w]
  <2>1. DOMAIN c = {"switch"} /\ c = [k \in DOMAIN c |-> c[k]] /\ c["switch"] = w /\ Page!Write(c)
    OBVIOUS
  <2> HIDE DEF c
  <2> QED BY <2>1, WriteStep DEF StoredKeys
<1>5. CASE Page!SaveState
  <2> PICK w \in {None, Own} : Page!Write([main |-> pageMade + 1, switch |-> w])
    BY <1>5 DEF Page!SaveState
  <2> DEFINE c == [main |-> pageMade + 1, switch |-> w]
  <2>1. /\ DOMAIN c = {"main", "switch"} /\ c = [k \in DOMAIN c |-> c[k]]
        /\ c["main"] = pageMade + 1 /\ c["switch"] = w /\ Page!Write(c)
    OBVIOUS
  <2> HIDE DEF c
  <2> QED BY <1>0, <2>1, WriteStep DEF StoredKeys
<1>6. CASE Page!SaveJobs
  <2> DEFINE c == [jobs |-> ~pageStore.jobs]
  <2>1. DOMAIN c = {"jobs"} /\ c = [k \in DOMAIN c |-> c[k]] /\ c["jobs"] \in BOOLEAN /\ Page!Write(c)
    BY <1>6 DEF Page!SaveJobs
  <2> HIDE DEF c
  <2> QED BY <2>1, WriteStep DEF StoredKeys
<1>7. CASE Page!SyncSettings
  <2> DEFINE c == [sync |-> pageMade + 1]
  <2>1. DOMAIN c = {"sync"} /\ c = [k \in DOMAIN c |-> c[k]] /\ c["sync"] = pageMade + 1 /\ Page!Write(c)
    BY <1>7 DEF Page!SyncSettings
  <2> HIDE DEF c
  <2> QED BY <1>0, <2>1, WriteStep DEF StoredKeys
<1> QED BY <1>1, <1>2, <1>3, <1>4, <1>5, <1>6, <1>7

LEMMA SettingsKeep ==
    ASSUME PageInv, BindInv, Page!RemoveTags \/ Page!SaveSettings \/ Page!SavePortable
    PROVE  PageInv' /\ BindInv'
<1>0. pageMade \in Nat /\ pageSaving \in Nat
  BY DEF PageInv, StoreShape
<1>1. CASE Page!RemoveTags
  <2> DEFINE c == [tags |-> None]
  <2>1. DOMAIN c = {"tags"} /\ c = [k \in DOMAIN c |-> c[k]] /\ c["tags"] = None
    OBVIOUS
  <2>2. /\ Page!Stored(c) /\ pageStore.workspaces # None
        /\ UNCHANGED <<pageSaving, pageMade, pageWaiting, pageGot, pageRefreshes, pagePage, pageFaults,
                       pageBindQueue, pageBindRead, pageMeant>>
    BY <1>1 DEF Page!RemoveTags, Page!writers, Page!reads
  <2> HIDE DEF c
  <2>3. c \in StorageEvent
    BY <2>1, AChange DEF StoredKeys, StoredValues
  <2> QED BY <1>0, <2>1, <2>2, <2>3, WriterStep, BindSteady
<1>2. CASE Page!SaveSettings
  <2> DEFINE c == [local |-> pageMade + 1]
  <2>1. DOMAIN c = {"local"} /\ c = [k \in DOMAIN c |-> c[k]] /\ c["local"] = pageMade + 1
    OBVIOUS
  <2>2. /\ Page!Stored(c) /\ pageSaving' = pageMade + 1 /\ pageMade' = pageMade + 2
        /\ UNCHANGED <<pageWaiting, pageGot, pageRefreshes, pagePage, pageFaults, pageBindQueue, pageBindRead,
                       pageMeant>>
    BY <1>2 DEF Page!SaveSettings, Page!reads
  <2> HIDE DEF c
  <2>3. c \in StorageEvent
    BY <1>0, <2>1, AChange DEF StoredKeys, StoredValues
  <2> QED BY <1>0, <2>1, <2>2, <2>3, WriterStep, BindSteady
<1>3. CASE Page!SavePortable
  <2> DEFINE c == [sync |-> pageSaving]
  <2>1. DOMAIN c = {"sync"} /\ c = [k \in DOMAIN c |-> c[k]] /\ c["sync"] = pageSaving
    OBVIOUS
  <2>2. /\ Page!Stored(c) /\ pageSaving' = 0 /\ UNCHANGED pageMade
        /\ UNCHANGED <<pageWaiting, pageGot, pageRefreshes, pagePage, pageFaults, pageBindQueue, pageBindRead,
                       pageMeant>>
    BY <1>3 DEF Page!SavePortable, Page!reads
  <2> HIDE DEF c
  <2>3. c \in StorageEvent
    BY <1>0, <2>1, AChange DEF StoredKeys, StoredValues
  <2> QED BY <1>0, <2>1, <2>2, <2>3, WriterStep, BindSteady
<1> QED BY <1>1, <1>2, <1>3

(* The updates of the bindings, one after another.                          *)
LEMMA BindingsKeep ==
    ASSUME PageInv, BindInv, Page!UpdateBindings \/ Page!ReadBindings \/ Page!WriteBindings
    PROVE  PageInv' /\ BindInv'
<1>0. pageStore.bindings \in BindingMaps /\ pageMade \in Nat /\ pageSaving \in Nat
  BY DEF PageInv, StoreShape
<1>1. CASE Page!UpdateBindings
  <2> PICK u \in BindingUpdates :
             /\ pageMade' = pageMade + 1 /\ pageBindQueue' = Append(pageBindQueue, u)
             /\ pageMeant' = Page!Bound(pageMeant, u)
             /\ UNCHANGED <<pageStore, pageSaving, pageBindRead, pageEvents, Page!reads, pagePage, pageTouched,
                            pageFaults>>
    BY <1>1 DEF Page!UpdateBindings, BindingUpdates
  <2>1. PageInv'
    BY DEF PageInv, StoreShape, EventsEndStored, PageShape, Known, ListKnown, SettingsKnown, BindingKnown,
           JobsKnown, PageKnows,
       Coming, Page!reads
  <2>2. /\ pageBindQueue' \in Seq(BindingUpdates) /\ DOMAIN pageBindQueue = 1..Len(pageBindQueue)
        /\ Len(pageBindQueue) \in Nat
        /\ DOMAIN pageBindQueue' = 1..(Len(pageBindQueue) + 1) /\ pageBindQueue'[Len(pageBindQueue) + 1] = u
        /\ \A i \in 1..Len(pageBindQueue) : pageBindQueue'[i] = pageBindQueue[i]
    BY AppendProperties DEF BindInv
  <2>3. pageMeant' \in BindingMaps /\ \A w \in Page!Windows : pageMeant'[w] = IF w \in u.windows THEN u.bound ELSE pageMeant[w]
    BY BoundIsMap DEF BindInv
  <2>4. ASSUME NEW w \in Page!Windows
        PROVE  \/ pageMeant'[w] = pageStore.bindings[w] /\ \A i \in DOMAIN pageBindQueue' : w \notin pageBindQueue'[i].windows
               \/ \E i \in DOMAIN pageBindQueue' : LastAbout(w, i)' /\ pageMeant'[w] = pageBindQueue'[i].bound
    <3>1. CASE w \in u.windows
      <4> PICK n : n = Len(pageBindQueue) + 1
        OBVIOUS
      <4>1. n \in DOMAIN pageBindQueue' /\ pageBindQueue'[n] = u /\ \A j \in DOMAIN pageBindQueue' : j <= n
        BY <2>2
      <4>2. LastAbout(w, n)'
        BY <3>1, <4>1 DEF LastAbout
      <4> QED BY <2>3, <3>1, <4>1, <4>2
    <3>2. CASE w \notin u.windows /\ \A i \in DOMAIN pageBindQueue : w \notin pageBindQueue[i].windows
      <4>1. pageMeant[w] = pageStore.bindings[w]
        BY <3>2 DEF BindInv, LastAbout
      <4> QED BY <2>2, <2>3, <3>2, <4>1
    <3>3. ASSUME w \notin u.windows, NEW i \in DOMAIN pageBindQueue, LastAbout(w, i), pageMeant[w] = pageBindQueue[i].bound
          PROVE  LastAbout(w, i)' /\ pageMeant'[w] = pageBindQueue'[i].bound /\ i \in DOMAIN pageBindQueue'
      BY <2>2, <2>3, <3>3 DEF LastAbout
    <3> QED BY <3>1, <3>2, <3>3 DEF BindInv
  <2>5. pageBindQueue' # <<>>
    BY <2>2
  <2> QED BY <2>1, <2>2, <2>3, <2>4, <2>5 DEF BindInv
<1>2. CASE Page!ReadBindings
  <2>1. PageInv'
    BY <1>2 DEF Page!ReadBindings, PageInv, StoreShape, EventsEndStored, PageShape, Known, ListKnown,
                SettingsKnown, BindingKnown,
       JobsKnown, PageKnows, Coming, Page!reads
  <2> QED BY <1>2, <2>1 DEF Page!ReadBindings, BindInv, LastAbout
<1>3. CASE Page!WriteBindings
  <2> DEFINE u == Head(pageBindQueue)  c == [bindings |-> Page!Bound(pageStore.bindings, u)]
  <2>1. /\ pageBindRead = pageStore.bindings /\ pageBindQueue \in Seq(BindingUpdates) /\ pageBindQueue # <<>>
        /\ pageBindQueue' = Tail(pageBindQueue) /\ pageBindRead' = None /\ Page!Stored(c)
        /\ UNCHANGED <<pageSaving, pageMeant, pageWaiting, pageGot, pageRefreshes, pagePage, pageMade, pageFaults>>
    BY <1>3 DEF Page!WriteBindings, BindInv, Page!reads
  <2>2. /\ u = pageBindQueue[1] /\ u \in BindingUpdates /\ DOMAIN pageBindQueue = 1..Len(pageBindQueue)
        /\ Len(pageBindQueue) \in Nat \ {0}
        /\ DOMAIN pageBindQueue' = 1..(Len(pageBindQueue) - 1) /\ pageBindQueue' \in Seq(BindingUpdates)
        /\ \A i \in 1..(Len(pageBindQueue) - 1) : pageBindQueue'[i] = pageBindQueue[i + 1]
    BY <2>1, HeadTailProperties, EmptySeq
  <2>3. DOMAIN c = {"bindings"} /\ c = [k \in DOMAIN c |-> c[k]] /\ c["bindings"] = Page!Bound(pageStore.bindings, u)
    OBVIOUS
  <2>4. /\ c["bindings"] \in BindingMaps
        /\ \A w \in Page!Windows : c["bindings"][w] = IF w \in u.windows THEN u.bound ELSE pageStore.bindings[w]
    BY <1>0, <2>2, <2>3, BoundIsMap
  <2> HIDE DEF c, u
  <2>5. c \in StorageEvent
    BY <2>3, <2>4, AChange DEF StoredKeys, StoredValues
  <2>6. PageInv'
    BY <1>0, <2>1, <2>3, <2>5, WriterStep
  <2>7. pageStore'["bindings"] = c["bindings"]
    BY <2>1, <2>3, <2>5, StoredIsComing DEF PageInv
  <2>8. ASSUME NEW w \in Page!Windows
        PROVE  \/ pageMeant'[w] = pageStore'.bindings[w] /\ \A i \in DOMAIN pageBindQueue' : w \notin pageBindQueue'[i].windows
               \/ \E i \in DOMAIN pageBindQueue' : LastAbout(w, i)' /\ pageMeant'[w] = pageBindQueue'[i].bound
    <3>1. CASE pageMeant[w] = pageStore.bindings[w] /\ \A i \in DOMAIN pageBindQueue : w \notin pageBindQueue[i].windows
      BY <2>1, <2>2, <2>4, <2>7, <3>1
    <3>2. ASSUME NEW i \in DOMAIN pageBindQueue, LastAbout(w, i), pageMeant[w] = pageBindQueue[i].bound
          PROVE  \/ pageMeant'[w] = pageStore'.bindings[w] /\ \A j \in DOMAIN pageBindQueue' : w \notin pageBindQueue'[j].windows
                 \/ \E j \in DOMAIN pageBindQueue' : LastAbout(w, j)' /\ pageMeant'[w] = pageBindQueue'[j].bound
      <4>1. CASE i = 1
        <5>1. pageMeant[w] = c["bindings"][w]
          BY <2>2, <2>4, <3>2, <4>1 DEF LastAbout
        <5>2. ASSUME NEW j \in DOMAIN pageBindQueue' PROVE w \notin pageBindQueue'[j].windows
          <6>1. j + 1 \in DOMAIN pageBindQueue /\ pageBindQueue'[j] = pageBindQueue[j + 1] /\ ~(j + 1 <= 1)
            BY <2>2
          <6> QED BY <3>2, <4>1, <6>1 DEF LastAbout
        <5> QED BY <2>1, <2>7, <5>1, <5>2
      <4>2. CASE i # 1
        <5>1. i - 1 \in DOMAIN pageBindQueue' /\ pageBindQueue'[i - 1] = pageBindQueue[i]
          BY <2>2, <4>2
        <5>2. LastAbout(w, i - 1)'
          <6>1. ASSUME NEW j \in DOMAIN pageBindQueue', w \in pageBindQueue'[j].windows PROVE j <= i - 1
            <7>1. j + 1 \in DOMAIN pageBindQueue /\ pageBindQueue'[j] = pageBindQueue[j + 1]
              BY <2>2
            <7>2. j + 1 <= i
              BY <3>2, <6>1, <7>1 DEF LastAbout
            <7> QED BY <2>2, <7>2
          <6> QED BY <3>2, <5>1, <6>1 DEF LastAbout
        <5> QED BY <2>1, <3>2, <5>1, <5>2
      <4> QED BY <4>1, <4>2
    <3> QED BY <3>1, <3>2 DEF BindInv
  <2> QED BY <2>1, <2>2, <2>6, <2>8 DEF BindInv
<1> QED BY <1>1, <1>2, <1>3

-----------------------------------------------------------------------------
(* The reads of a page that opens.                                          *)
LEMMA AnswersAreStored ==
    ASSUME StoreShape
    PROVE  /\ Page!Answer(pageStore, "workspaces") = Page!Workspaces(pageStore)
           /\ Page!Answer(pageStore, "bindings") = pageStore.bindings
           /\ Page!Answer(pageStore, "local") = pageStore.local
           /\ Page!Answer(pageStore, "sync") = pageStore.sync /\ Page!Answer(pageStore, "jobs") = pageStore.jobs
           /\ \A k \in {"workspaces", "local", "sync", "state"} : Page!Answer(pageStore, k) # Failed
<1>1. Page!Workspaces(pageStore) \in Nat \cup {None}
  BY DEF StoreShape, Page!Workspaces
<1>2. Page!Answer(pageStore, "state") = <<pageStore.main, pageStore.switch>>
  BY DEF Page!Answer
<1>3. <<pageStore.main, pageStore.switch>> \in Nat \X {None, Own, Other}
  BY DEF StoreShape
<1>4. /\ Page!Answer(pageStore, "workspaces") = Page!Workspaces(pageStore)
      /\ Page!Answer(pageStore, "bindings") = pageStore.bindings
      /\ Page!Answer(pageStore, "local") = pageStore.local /\ Page!Answer(pageStore, "sync") = pageStore.sync
      /\ Page!Answer(pageStore, "jobs") = pageStore.jobs
  BY DEF Page!Answer
<1>5. /\ pageStore.local # Failed /\ pageStore.sync # Failed
      /\ Page!Workspaces(pageStore) # Failed /\ Page!Answer(pageStore, "state") # Failed
  BY <1>1, <1>2, <1>3, NothingElse DEF StoreShape
<1> QED BY <1>4, <1>5

LEMMA AnswersAreKnown ==
    ASSUME PageInv, UNCHANGED <<pageStore, pageSaving, pageMade, pageEvents, pageRefreshes>>,
           pageFaults' = 0 => pageFaults = 0,
           pageWaiting' \subseteq Page!FirstReads \cup Page!Session,
           pagePage.window = "pending" /\ "jobs" \in pageWaiting' \cup DOMAIN pageGot'
             => "bindings" \in pageWaiting' \cup DOMAIN pageGot',
           pageFaults' = 0 => \A k \in DOMAIN pageGot' : (k \in DOMAIN pageGot /\ pageGot'[k] = pageGot[k])
                                                        \/ pageGot'[k] = Page!Answer(pageStore, k),
           \/ pagePage' = pagePage
           \/ /\ pagePage' = [pagePage EXCEPT !.newBindings = None, !.newJobs = None]
              /\ "bindings" \notin DOMAIN pageGot /\ "jobs" \notin DOMAIN pageGot
    PROVE  PageInv'
<1>1. StoreShape' /\ EventsEndStored' /\ \A k : Coming(k)' <=> Coming(k)
  BY DEF PageInv, StoreShape, EventsEndStored, Coming
<1>2. /\ DOMAIN pagePage' = PageFields /\ pagePage'.window = pagePage.window
      /\ \A k \in PageFields \ {"newBindings", "newJobs"} : pagePage'[k] = pagePage[k]
      /\ \/ pagePage'.newBindings = pagePage.newBindings /\ pagePage'.newJobs = pagePage.newJobs
         \/ /\ pagePage'.newBindings = None /\ pagePage'.newJobs = None
            /\ "bindings" \notin DOMAIN pageGot /\ "jobs" \notin DOMAIN pageGot
  BY DEF PageInv, PageShape, PageFields
<1>3. PageShape'
  BY <1>2 DEF PageInv, PageShape, PageFields
<1> SUFFICES ASSUME pageFaults' = 0 PROVE Known'
  BY <1>1, <1>3 DEF PageInv
<1>4. /\ Known
      /\ \A k \in DOMAIN pageGot' :
             (k \in DOMAIN pageGot /\ pageGot'[k] = pageGot[k]) \/ pageGot'[k] = Page!Answer(pageStore, k)
  BY DEF PageInv
<1>5. /\ pagePage'.loaded = pagePage.loaded /\ pagePage'.workspaces = pagePage.workspaces
      /\ pagePage'.settings = pagePage.settings
      /\ pagePage'.refresh = pagePage.refresh /\ pagePage'.bound = pagePage.bound
      /\ pagePage'.loading = pagePage.loading
      /\ pagePage'.hydrated = pagePage.hydrated /\ pagePage'.active = pagePage.active
  BY <1>2 DEF PageFields
<1>6. StoreShape
  BY DEF PageInv
<1>7. ListKnown'
  BY <1>1, <1>4, <1>5, <1>6, AnswersAreStored DEF Known, ListKnown
<1>8. SettingsKnown'
  BY <1>1, <1>4, <1>5, <1>6, AnswersAreStored DEF Known, SettingsKnown
<1>9. BindingKnown'
  BY <1>1, <1>2, <1>4, <1>5, <1>6, AnswersAreStored DEF Known, BindingKnown
<1>10. JobsKnown'
  BY <1>1, <1>2, <1>4, <1>5, <1>6, AnswersAreStored DEF Known, JobsKnown
<1>11. PageKnows'
  BY <1>2, <1>4, <1>5, <1>6, AnswersAreStored DEF Known, PageKnows
<1> QED BY <1>7, <1>8, <1>9, <1>10, <1>11 DEF Known

LEMMA AnsweredKeeps ==
    ASSUME PageInv, BindInv, pageFaults \in Nat, Page!Answered
    PROVE  PageInv' /\ BindInv' /\ pageFaults' \in Nat
<1> PICK k \in pageWaiting :
      /\ \/ pageGot' = Page!Over([x \in {k} |-> Page!Answer(pageStore, x)], pageGot) /\ UNCHANGED pageFaults
         \/ pageGot' = Page!Over([x \in {k} |-> Failed], pageGot) /\ pageFaults < MaxPageFaults /\ pageFaults' = pageFaults + 1
      /\ pageWaiting' = pageWaiting \ {k}
      /\ UNCHANGED <<pageStore, Page!writers, pageEvents, pageRefreshes, pagePage, pageTouched, pageMade>>
  BY DEF Page!Answered
<1>1. DOMAIN pageGot' = DOMAIN pageGot \cup {k} /\ \A x \in DOMAIN pageGot \ {k} : pageGot'[x] = pageGot[x]
  BY DEF Page!Over
<1>2. pageFaults' \in Nat /\ (pageFaults' = 0 => pageFaults = 0 /\ pageGot'[k] = Page!Answer(pageStore, k))
  BY DEF Page!Over
<1>3. PageInv'
  <2>1. pageWaiting' \subseteq Page!FirstReads \cup Page!Session
    BY DEF PageInv, PageShape
  <2>2. pagePage.window = "pending" /\ "jobs" \in pageWaiting' \cup DOMAIN pageGot'
          => "bindings" \in pageWaiting' \cup DOMAIN pageGot'
    BY <1>1 DEF PageInv, PageShape
  <2>3. UNCHANGED <<pageStore, pageSaving, pageMade, pageEvents, pageRefreshes>> /\ pagePage' = pagePage
    BY DEF Page!writers
  <2>4. pageFaults' = 0 => \A x \in DOMAIN pageGot' : (x \in DOMAIN pageGot /\ pageGot'[x] = pageGot[x])
                                                      \/ pageGot'[x] = Page!Answer(pageStore, x)
    BY <1>1, <1>2
  <2>5. pageFaults' = 0 => pageFaults = 0
    BY <1>2
  <2> QED BY <2>1, <2>2, <2>3, <2>4, <2>5, AnswersAreKnown
<1> QED BY <1>2, <1>3, BindSteady DEF Page!writers

LEMMA ResolveWindowKeeps ==
    ASSUME PageInv, BindInv, Page!ResolveWindow
    PROVE  PageInv' /\ BindInv'
<1>0. BindInv' /\ UNCHANGED <<pageStore, pageSaving, pageMade, pageEvents, pageRefreshes, pageFaults>>
  BY BindSteady DEF Page!ResolveWindow, Page!writers
<1>1. /\ pagePage.window = "pending"
      /\ "bindings" \notin DOMAIN pageGot \cup pageWaiting /\ "jobs" \notin DOMAIN pageGot \cup pageWaiting
  BY DEF Page!ResolveWindow, PageInv, PageShape
<1>2. CASE /\ pageWaiting' = pageWaiting \cup Page!AskedOf(Page!Session)
           /\ pageGot' = Page!Over(Page!KnownOf(pageStore, Page!Session), pageGot)
           /\ pagePage' = [pagePage EXCEPT !.newBindings = None, !.newJobs = None]
  <2>1. /\ Page!AskedOf(Page!Session) \subseteq Page!Session
        /\ DOMAIN Page!KnownOf(pageStore, Page!Session) = Page!Session \ Page!AskedOf(Page!Session)
        /\ \A k \in DOMAIN Page!KnownOf(pageStore, Page!Session) :
             Page!KnownOf(pageStore, Page!Session)[k] = Page!Answer(pageStore, k)
    BY DEF Page!AskedOf, Page!KnownOf
  <2>2. /\ DOMAIN pageGot' = DOMAIN pageGot \cup (Page!Session \ Page!AskedOf(Page!Session))
        /\ \A k \in DOMAIN pageGot' :
             (k \in DOMAIN pageGot /\ pageGot'[k] = pageGot[k]) \/ pageGot'[k] = Page!Answer(pageStore, k)
    BY <1>2, <2>1 DEF Page!Over
  <2>3. "bindings" \in pageWaiting' \cup DOMAIN pageGot'
    BY <1>2, <2>2 DEF Page!Session
  <2>4. pageWaiting' \subseteq Page!FirstReads \cup Page!Session
    BY <1>2, <2>1 DEF PageInv, PageShape
  <2> QED BY <1>0, <1>1, <1>2, <2>2, <2>3, <2>4, AnswersAreKnown
<1>3. CASE pagePage' = [pagePage EXCEPT !.window = "unavailable", !.loading = FALSE] /\ UNCHANGED <<pageWaiting,
                                                                                                    pageGot>>
  <2>1. /\ DOMAIN pagePage' = PageFields /\ pagePage'.window = "unavailable"
        /\ \A k \in PageFields \ {"window", "loading"} : pagePage'[k] = pagePage[k]
    BY <1>3 DEF PageInv, PageShape, PageFields
  <2>2. StoreShape' /\ EventsEndStored' /\ \A k : Coming(k)' <=> Coming(k)
    BY <1>0 DEF PageInv, StoreShape, EventsEndStored, Coming
  <2>3. PageShape'
    BY <1>0, <1>3, <2>1 DEF PageInv, PageShape, PageFields
  <2>4. Known => Known'
    BY <1>0, <1>3, <2>1, <2>2 DEF Known, ListKnown, SettingsKnown, BindingKnown, JobsKnown, PageKnows, PageFields
  <2> QED BY <1>0, <2>2, <2>3, <2>4 DEF PageInv
<1> QED BY <1>0, <1>2, <1>3 DEF Page!ResolveWindow

LEMMA ProjectedFields ==
    ASSUME NEW p, DOMAIN p = PageFields
    PROVE  /\ DOMAIN Page!Projected(p) = PageFields
           /\ \A k \in PageFields \ {"active", "switch"} : Page!Projected(p)[k] = p[k]
           /\ Page!Projected(p).active = IF p.window = "ready" THEN p.bound ELSE p.active
<1>1. CASE p.window # "ready"
  BY <1>1 DEF Page!Projected
<1>2. CASE p.window = "ready"
  BY <1>2 DEF Page!Projected, PageFields
<1> QED BY <1>1, <1>2

LEMMA WindowReadyKeeps ==
    ASSUME PageInv, BindInv, Page!WindowReady
    PROVE  PageInv' /\ BindInv'
<1>0. BindInv' /\ UNCHANGED <<pageStore, pageSaving, pageMade, pageEvents, pageWaiting, pageRefreshes, pageFaults>>
  BY BindSteady DEF Page!WindowReady, Page!writers
<1>1. /\ pagePage.window = "pending" /\ DOMAIN pagePage = PageFields /\ Page!Session \subseteq DOMAIN pageGot
      /\ DOMAIN pageGot' = DOMAIN pageGot \ Page!Session /\ \A k \in DOMAIN pageGot' : pageGot'[k] = pageGot[k]
  BY DEF Page!WindowReady, PageInv, PageShape
<1>2. StoreShape' /\ EventsEndStored' /\ \A k : Coming(k)' <=> Coming(k)
  BY <1>0 DEF PageInv, StoreShape, EventsEndStored, Coming
<1>3. CASE pagePage' = [pagePage EXCEPT !.window = "unavailable", !.loading = FALSE]
  <2>1. /\ DOMAIN pagePage' = PageFields /\ pagePage'.window = "unavailable"
        /\ \A k \in PageFields \ {"window", "loading"} : pagePage'[k] = pagePage[k]
    BY <1>1, <1>3 DEF PageFields
  <2>2. PageShape'
    BY <1>0, <1>1, <2>1 DEF PageInv, PageShape, PageFields
  <2>3. Known => Known'
    BY <1>0, <1>1, <1>2, <2>1 DEF Known, ListKnown, SettingsKnown, BindingKnown, JobsKnown, PageKnows, PageFields
  <2> QED BY <1>0, <1>2, <2>2, <2>3 DEF PageInv
<1>4. CASE pagePage' # [pagePage EXCEPT !.window = "unavailable", !.loading = FALSE]
  <2> DEFINE bindings == Page!Newest(pagePage.newBindings, pageGot["bindings"])
             jobs == Page!Newest(pagePage.newJobs, pageGot["jobs"])
             ready == [pagePage EXCEPT !.window = "ready", !.newBindings = None, !.newJobs = None, !.bound = bindings[Own],
                                   !.loading = jobs = TRUE]
  <2>1. pagePage' = (IF "state" \in pagePage.loaded THEN Page!Projected(ready) ELSE ready)
    BY <1>4 DEF Page!WindowReady
  <2>2. /\ DOMAIN ready = PageFields /\ ready.window = "ready" /\ ready.newBindings = None /\ ready.newJobs = None
        /\ ready.bound = bindings[Own] /\ ready.loading = (jobs = TRUE)
        /\ \A k \in PageFields \ {"window", "newBindings", "newJobs", "bound", "loading"} : ready[k] = pagePage[k]
    BY <1>1 DEF PageFields
  <2> HIDE DEF ready, bindings, jobs
  <2>3. /\ DOMAIN pagePage' = PageFields /\ \A k \in PageFields \ {"active", "switch"} : pagePage'[k] = ready[k]
        /\ "state" \in pagePage.loaded => pagePage'.active = ready.bound
    BY <2>1, <2>2, ProjectedFields
  <2>4. /\ pagePage'.window = "ready" /\ pagePage'.newBindings = None /\ pagePage'.newJobs = None
        /\ pagePage'.bound = bindings[Own]
        /\ pagePage'.loading = (jobs = TRUE) /\ pagePage'.loaded = pagePage.loaded
        /\ pagePage'.hydrated = pagePage.hydrated
        /\ pagePage'.workspaces = pagePage.workspaces /\ pagePage'.settings = pagePage.settings
        /\ pagePage'.refresh = pagePage.refresh
    BY <2>2, <2>3 DEF PageFields
  <2>5. "state" \in pagePage'.loaded => pagePage'.active = pagePage'.bound
    BY <2>2, <2>3, <2>4
  <2>6. PageShape'
    BY <1>0, <1>1, <2>3, <2>4 DEF PageInv, PageShape
  <2>7. ASSUME Known PROVE Known'
    <3>1. ListKnown' /\ SettingsKnown'
      BY <1>0, <1>1, <1>2, <2>4, <2>7 DEF Known, ListKnown, SettingsKnown
    <3>2. BindingKnown'
      <4>1. ~Coming("bindings") => bindings = pageStore.bindings
        BY <1>1, <2>7 DEF Known, BindingKnown, bindings, Page!Newest, Page!Session
      <4> QED BY <1>0, <1>2, <2>4, <4>1 DEF BindingKnown
    <3>3. JobsKnown'
      <4>1. ~Coming("jobs") => jobs = pageStore.jobs /\ pageStore.jobs \in BOOLEAN
        BY <1>1, <2>7 DEF Known, JobsKnown, jobs, Page!Newest, Page!Session, PageInv, StoreShape
      <4> QED BY <1>0, <1>2, <2>4, <4>1 DEF JobsKnown
    <3>4. PageKnows'
      BY <1>1, <2>4, <2>5, <2>7 DEF Known, PageKnows
    <3> QED BY <3>1, <3>2, <3>3, <3>4 DEF Known
  <2> QED BY <1>0, <1>2, <2>6, <2>7 DEF PageInv
<1> QED BY <1>3, <1>4

LEMMA InitLoadedKeeps ==
    ASSUME PageInv, BindInv, Page!InitLoaded
    PROVE  PageInv' /\ BindInv'
<1>0. BindInv' /\ UNCHANGED <<pageStore, pageSaving, pageMade, pageEvents, pageWaiting, pageRefreshes, pageFaults>>
  BY BindSteady DEF Page!InitLoaded, Page!writers
<1>1. /\ ~pagePage.hydrated /\ pagePage.window # "pending" /\ DOMAIN pagePage = PageFields
      /\ {"workspaces", "local", "sync", "state"} \subseteq DOMAIN pageGot /\ pageGot' = <<>>
  BY DEF Page!InitLoaded, PageInv, PageShape
<1>2. StoreShape' /\ EventsEndStored' /\ \A k : Coming(k)' <=> Coming(k)
  BY <1>0 DEF PageInv, StoreShape, EventsEndStored, Coming
<1> DEFINE w == Page!Loads(pagePage, "workspaces", {pageGot["workspaces"]})
           s == Page!Loads(pagePage, "settings", {pageGot["local"], pageGot["sync"]})
           m == Page!Loads(pagePage, "state", {pageGot["state"]})
           p == [pagePage EXCEPT !.hydrated = TRUE,
                   !.loaded = @ \cup {k \in {"workspaces"} : w} \cup {k \in {"settings"} : s} \cup {k \in {"state"} : m},
                   !.workspaces = IF w THEN pageGot["workspaces"] ELSE @,
                   !.settings = IF s THEN <<pageGot["local"], pageGot["sync"]>> ELSE @]
           o == [p EXCEPT !.main = pageGot["state"][1], !.switch = pageGot["state"][2], !.active = Raw]
<1>3. pagePage' = IF m THEN Page!Projected(o) ELSE p
  BY DEF Page!InitLoaded
<1>4. /\ DOMAIN p = PageFields /\ p.hydrated = TRUE
      /\ p.loaded = pagePage.loaded \cup {k \in {"workspaces"} : w} \cup {k \in {"settings"} : s} \cup {k \in {"state"} : m}
      /\ p.workspaces = IF w THEN pageGot["workspaces"] ELSE pagePage.workspaces
      /\ p.settings = IF s THEN <<pageGot["local"], pageGot["sync"]>> ELSE pagePage.settings
      /\ \A k \in PageFields \ {"hydrated", "loaded", "workspaces", "settings"} : p[k] = pagePage[k]
  BY <1>1 DEF PageFields
<1>5. DOMAIN o = PageFields /\ \A k \in PageFields \ {"main", "switch", "active"} : o[k] = p[k]
  BY <1>4 DEF PageFields
<1>6. (pageFaults = 0 => Known) => (pageFaults = 0 => /\ w <=> "workspaces" \notin pagePage.loaded
                                                      /\ s <=> "settings" \notin pagePage.loaded
                                                      /\ m <=> "state" \notin pagePage.loaded)
  <2> SUFFICES ASSUME Known PROVE /\ w <=> "workspaces" \notin pagePage.loaded
                                  /\ s <=> "settings" \notin pagePage.loaded
                                  /\ m <=> "state" \notin pagePage.loaded
    OBVIOUS
  <2>1. pageGot["workspaces"] # Failed /\ pageGot["local"] # Failed /\ pageGot["sync"] # Failed /\ pageGot["state"] # Failed
    BY <1>1 DEF Known, PageKnows
  <2> QED BY <2>1 DEF Page!Loads
<1> HIDE DEF w, s, m, p, o
<1>7. /\ DOMAIN pagePage' = PageFields /\ \A k \in PageFields \ {"main", "switch", "active"} : pagePage'[k] = p[k]
      /\ pagePage'.active = IF m /\ p.window = "ready" THEN p.bound ELSE pagePage'.active
      /\ ~m => pagePage'.active = p.active
  BY <1>3, <1>4, <1>5, ProjectedFields DEF PageFields
<1>8. /\ pagePage'.window = pagePage.window /\ pagePage'.hydrated = TRUE /\ pagePage'.newBindings = pagePage.newBindings
      /\ pagePage'.newJobs = pagePage.newJobs /\ pagePage'.refresh = pagePage.refresh
      /\ pagePage'.bound = pagePage.bound
      /\ pagePage'.loading = pagePage.loading /\ pagePage'.workspaces = p.workspaces /\ pagePage'.settings = p.settings
      /\ pagePage'.loaded = p.loaded
      /\ m /\ pagePage.window = "ready" => pagePage'.active = pagePage.bound
      /\ ~m => pagePage'.active = pagePage.active
  BY <1>4, <1>7 DEF PageFields
<1>9. DOMAIN pageGot' = {}
  BY <1>1
<1>10. PageShape'
  BY <1>0, <1>7, <1>8, <1>9, <1>1 DEF PageInv, PageShape
<1>11. ASSUME Known, pageFaults = 0 PROVE Known'
  <2>1. /\ "workspaces" \in pagePage'.loaded /\ "settings" \in pagePage'.loaded /\ "state" \in pagePage'.loaded
        /\ pagePage'.workspaces = IF "workspaces" \notin pagePage.loaded THEN pageGot["workspaces"] ELSE pagePage.workspaces
        /\ pagePage'.settings = IF "settings" \notin pagePage.loaded THEN <<pageGot["local"], pageGot["sync"]>>
                                ELSE pagePage.settings
    BY <1>4, <1>6, <1>8, <1>11
  <2>2. ListKnown'
    BY <1>0, <1>1, <1>2, <1>9, <1>11, <2>1 DEF Known, ListKnown
  <2>3. SettingsKnown'
    BY <1>0, <1>1, <1>2, <1>8, <1>9, <1>11, <2>1 DEF Known, SettingsKnown
  <2>4. BindingKnown' /\ JobsKnown'
    BY <1>0, <1>1, <1>2, <1>8, <1>9, <1>11 DEF Known, BindingKnown, JobsKnown
  <2>5. pagePage'.window = "ready" => pagePage'.active = pagePage'.bound
    BY <1>6, <1>8, <1>11 DEF Known, PageKnows
  <2>6. PageKnows'
    BY <1>9, <2>1, <2>5 DEF PageKnows
  <2> QED BY <2>2, <2>3, <2>4, <2>6 DEF Known
<1> QED BY <1>0, <1>2, <1>10, <1>11 DEF PageInv

-----------------------------------------------------------------------------
(* An event, field by field of the page.                                    *)
ShownAs(p, e, q) ==
  /\ DOMAIN q = PageFields /\ q.window = p.window /\ q.hydrated = p.hydrated /\ q.settings = p.settings
  /\ p.loaded \subseteq q.loaded
  /\ "workspaces" \in q.loaded <=> "workspaces" \in DOMAIN e \/ "workspaces" \in p.loaded
  /\ "settings" \in q.loaded <=> "local" \in DOMAIN e \/ "sync" \in DOMAIN e \/ "settings" \in p.loaded
  /\ "state" \in q.loaded <=> "main" \in DOMAIN e \/ "switch" \in DOMAIN e \/ "state" \in p.loaded
  /\ q.workspaces = (IF "workspaces" \in DOMAIN e THEN e["workspaces"] ELSE p.workspaces)
  /\ q.refresh = (IF "local" \in DOMAIN e \/ "sync" \in DOMAIN e THEN p.refresh + 1 ELSE p.refresh)
  /\ q.bound = (IF "bindings" \in DOMAIN e /\ p.window = "ready" THEN e["bindings"][Own] ELSE p.bound)
  /\ q.newBindings = (IF "bindings" \in DOMAIN e /\ p.window # "ready" THEN e["bindings"] ELSE p.newBindings)
  /\ q.newJobs = (IF "jobs" \in DOMAIN e /\ p.window # "ready" THEN e["jobs"] ELSE p.newJobs)
  /\ q.loading = (IF "jobs" \in DOMAIN e /\ p.window = "ready" THEN e["jobs"] ELSE p.loading)
  /\ p.window = "ready" /\ {"bindings", "main", "switch"} \cap DOMAIN e # {} => q.active = q.bound
  /\ {"bindings", "main", "switch"} \cap DOMAIN e = {} => q.active = p.active

LEMMA ShownFields ==
    ASSUME NEW p, DOMAIN p = PageFields, NEW e, NEW q, q = Page!Shown(p, e)
    PROVE  ShownAs(p, e, q)
<1> DEFINE D == DOMAIN e
           b == IF "bindings" \notin D THEN p
                ELSE IF p.window # "ready" THEN [p EXCEPT !.newBindings = e.bindings]
                ELSE Page!Projected([p EXCEPT !.bound = e.bindings[Own]])
           j == IF "jobs" \notin D THEN b
                ELSE IF p.window # "ready" THEN [b EXCEPT !.newJobs = e.jobs]
                ELSE [b EXCEPT !.loading = e.jobs]
           w == IF "workspaces" \notin D THEN j
                ELSE [j EXCEPT !.workspaces = e.workspaces, !.loaded = @ \cup {"workspaces"}]
           s == IF D \cap {"local", "sync"} = {} THEN w
                ELSE [w EXCEPT !.refresh = @ + 1, !.loaded = @ \cup {"settings"}]
           m == [s EXCEPT !.loaded = @ \cup {"state"},
                          !.main = IF "main" \in D THEN e.main ELSE @,
                          !.active = IF "main" \in D THEN Raw ELSE @,
                          !.switch = IF "switch" \in D THEN e.switch ELSE @]
<1>1. q = IF D \cap {"main", "switch"} = {} THEN s ELSE Page!Projected(m)
  BY DEF Page!Shown
<1>2. /\ DOMAIN b = PageFields
      /\ \A k \in PageFields \ {"active", "switch", "bound", "newBindings"} : b[k] = p[k]
      /\ b.bound = (IF "bindings" \in D /\ p.window = "ready" THEN e["bindings"][Own] ELSE p.bound)
      /\ b.newBindings = (IF "bindings" \in D /\ p.window # "ready" THEN e["bindings"] ELSE p.newBindings)
      /\ p.window = "ready" /\ "bindings" \in D => b.active = b.bound
      /\ "bindings" \notin D => b.active = p.active
  <2>1. CASE "bindings" \notin D
    BY <2>1
  <2>2. CASE "bindings" \in D /\ p.window # "ready"
    BY <2>2 DEF PageFields
  <2>3. CASE "bindings" \in D /\ p.window = "ready"
    <3> DEFINE r == [p EXCEPT !.bound = e.bindings[Own]]
    <3>1. /\ DOMAIN r = PageFields /\ r.bound = e["bindings"][Own] /\ r.window = "ready"
          /\ \A k \in PageFields \ {"bound"} : r[k] = p[k]
      BY <2>3 DEF PageFields
    <3>2. b = Page!Projected(r)
      BY <2>3
    <3> HIDE DEF r
    <3> QED BY <2>3, <3>1, <3>2, ProjectedFields DEF PageFields
  <2> QED BY <2>1, <2>2, <2>3
<1> HIDE DEF b
<1>3. /\ DOMAIN j = PageFields
      /\ \A k \in PageFields \ {"newJobs", "loading"} : j[k] = b[k]
      /\ j.newJobs = (IF "jobs" \in D /\ p.window # "ready" THEN e["jobs"] ELSE p.newJobs)
      /\ j.loading = (IF "jobs" \in D /\ p.window = "ready" THEN e["jobs"] ELSE p.loading)
  BY <1>2 DEF PageFields
<1> HIDE DEF j
<1>4. /\ DOMAIN w = PageFields
      /\ \A k \in PageFields \ {"workspaces", "loaded"} : w[k] = j[k]
      /\ w.workspaces = (IF "workspaces" \in D THEN e["workspaces"] ELSE p.workspaces)
      /\ w.loaded = (IF "workspaces" \in D THEN p.loaded \cup {"workspaces"} ELSE p.loaded)
  BY <1>2, <1>3 DEF PageFields
<1> HIDE DEF w
<1>5. /\ DOMAIN s = PageFields
      /\ \A k \in PageFields \ {"refresh", "loaded"} : s[k] = w[k]
      /\ s.refresh = (IF "local" \in D \/ "sync" \in D THEN p.refresh + 1 ELSE p.refresh)
      /\ s.loaded = (IF "local" \in D \/ "sync" \in D THEN w.loaded \cup {"settings"} ELSE w.loaded)
  BY <1>2, <1>3, <1>4 DEF PageFields
<1> HIDE DEF s
<1>6. /\ DOMAIN m = PageFields
      /\ \A k \in PageFields \ {"loaded", "main", "active", "switch"} : m[k] = s[k]
      /\ m.loaded = s.loaded \cup {"state"}
  BY <1>5 DEF PageFields
<1> HIDE DEF m
<1>7. /\ DOMAIN q = PageFields
      /\ \A k \in PageFields \ {"loaded", "main", "active", "switch"} : q[k] = s[k]
      /\ q.loaded = (IF "main" \in D \/ "switch" \in D THEN s.loaded \cup {"state"} ELSE s.loaded)
      /\ p.window = "ready" /\ ("main" \in D \/ "switch" \in D) => q.active = q.bound
      /\ "main" \notin D /\ "switch" \notin D => q.active = s.active
  <2>1. m.window = p.window
    BY <1>2, <1>3, <1>4, <1>5, <1>6 DEF PageFields
  <2>2. CASE "main" \in D \/ "switch" \in D
    <3>1. q = Page!Projected(m)
      BY <1>1, <2>2
    <3>2. p.window = "ready" => q.active = m.bound /\ q.bound = m.bound
      BY <1>6, <2>1, <3>1, ProjectedFields DEF PageFields
    <3>3. DOMAIN q = PageFields /\ \A k \in PageFields \ {"active", "switch"} : q[k] = m[k]
      BY <1>6, <3>1, ProjectedFields
    <3>4. \A k \in PageFields \ {"loaded", "main", "active", "switch"} : q[k] = s[k]
      BY <1>6, <3>3
    <3>5. q.loaded = s.loaded \cup {"state"}
      BY <1>6, <3>3 DEF PageFields
    <3> QED BY <2>2, <3>2, <3>3, <3>4, <3>5
  <2>3. CASE "main" \notin D /\ "switch" \notin D
    <3>1. q = s
      BY <1>1, <2>3
    <3> QED BY <1>5, <2>3, <3>1
  <2> QED BY <2>2, <2>3
<1>8. /\ q.window = p.window /\ q.hydrated = p.hydrated /\ q.settings = p.settings
      /\ q.workspaces = w.workspaces /\ q.refresh = s.refresh /\ q.bound = b.bound
      /\ q.newBindings = b.newBindings /\ q.newJobs = j.newJobs /\ q.loading = j.loading /\ s.active = b.active
  BY <1>2, <1>3, <1>4, <1>5, <1>7 DEF PageFields
<1>9. /\ p.loaded \subseteq q.loaded
      /\ "workspaces" \in q.loaded <=> "workspaces" \in D \/ "workspaces" \in p.loaded
      /\ "settings" \in q.loaded <=> "local" \in D \/ "sync" \in D \/ "settings" \in p.loaded
      /\ "state" \in q.loaded <=> "main" \in D \/ "switch" \in D \/ "state" \in p.loaded
  BY <1>4, <1>5, <1>7
<1>10. p.window = "ready" /\ {"bindings", "main", "switch"} \cap D # {} => q.active = q.bound
  BY <1>2, <1>7, <1>8
<1>11. {"bindings", "main", "switch"} \cap D = {} => q.active = p.active
  BY <1>2, <1>7, <1>8
<1> QED BY <1>2, <1>3, <1>4, <1>5, <1>7, <1>8, <1>9, <1>10, <1>11 DEF ShownAs

LEMMA DeliverKeeps ==
    ASSUME PageInv, BindInv, Page!Deliver
    PROVE  PageInv' /\ BindInv'
<1> DEFINE e == Head(pageEvents)
<1>0. /\ BindInv' /\ UNCHANGED <<pageStore, pageSaving, pageMade, pageWaiting, pageGot, pageFaults>>
      /\ pageEvents # <<>> /\ pageEvents' = Tail(pageEvents) /\ pagePage' = Page!Shown(pagePage, e)
  BY BindSteady DEF Page!Deliver, Page!writers
<1>1. /\ pageEvents' \in Seq(StorageEvent) /\ EventsEndStored' /\ e \in StorageEvent
      /\ \A k \in StoredKeys \ DOMAIN e : Coming(k)' <=> Coming(k)
      /\ \A k \in DOMAIN e : Coming(k)' \/ e[k] = pageStore[k]
  BY <1>0, DeliveredIsStored DEF PageInv
<1>2. StoreShape'
  BY <1>0, <1>1 DEF PageInv, StoreShape
<1>3. /\ "workspaces" \in DOMAIN e => e["workspaces"] \in Nat
      /\ "bindings" \in DOMAIN e => e["bindings"] \in BindingMaps
      /\ "jobs" \in DOMAIN e => e["jobs"] \in BOOLEAN
  BY <1>1, EventFacts
<1>4. DOMAIN pagePage = PageFields
  BY DEF PageInv, PageShape
<1> HIDE DEF e
<1>5. /\ DOMAIN pagePage' = PageFields /\ pagePage'.window = pagePage.window /\ pagePage'.hydrated = pagePage.hydrated
      /\ pagePage'.settings = pagePage.settings /\ pagePage.loaded \subseteq pagePage'.loaded
      /\ "workspaces" \in pagePage'.loaded <=> "workspaces" \in DOMAIN e \/ "workspaces" \in pagePage.loaded
      /\ "settings" \in pagePage'.loaded <=> "local" \in DOMAIN e \/ "sync" \in DOMAIN e \/ "settings" \in pagePage.loaded
      /\ "state" \in pagePage'.loaded <=> "main" \in DOMAIN e \/ "switch" \in DOMAIN e \/ "state" \in pagePage.loaded
      /\ pagePage'.workspaces = (IF "workspaces" \in DOMAIN e THEN e["workspaces"] ELSE pagePage.workspaces)
      /\ pagePage'.refresh = (IF "local" \in DOMAIN e \/ "sync" \in DOMAIN e THEN pagePage.refresh + 1 ELSE pagePage.refresh)
      /\ pagePage'.bound = (IF "bindings" \in DOMAIN e /\ pagePage.window = "ready" THEN e["bindings"][Own] ELSE pagePage.bound)
      /\ pagePage'.newBindings = (IF "bindings" \in DOMAIN e /\ pagePage.window # "ready" THEN e["bindings"]
                                  ELSE pagePage.newBindings)
      /\ pagePage'.newJobs = (IF "jobs" \in DOMAIN e /\ pagePage.window # "ready" THEN e["jobs"] ELSE pagePage.newJobs)
      /\ pagePage'.loading = (IF "jobs" \in DOMAIN e /\ pagePage.window = "ready" THEN e["jobs"] ELSE pagePage.loading)
      /\ pagePage.window = "ready" /\ {"bindings", "main", "switch"} \cap DOMAIN e # {} => pagePage'.active = pagePage'.bound
      /\ {"bindings", "main", "switch"} \cap DOMAIN e = {} => pagePage'.active = pagePage.active
  <2>1. ShownAs(pagePage, e, pagePage')
    BY <1>0, <1>4, ShownFields
  <2> QED BY <2>1 DEF ShownAs
<1>6. pageRefreshes' = IF pagePage'.refresh = pagePage.refresh THEN pageRefreshes
                   ELSE pageRefreshes \cup {[generation |-> pagePage'.refresh, got |-> <<>>]}
  BY DEF Page!Deliver
<1>7. pagePage.refresh \in Nat /\ \A r \in pageRefreshes : r.generation \in Nat /\ r.generation <= pagePage.refresh
  BY DEF PageInv, PageShape
<1> DEFINE new == [generation |-> pagePage'.refresh, got |-> <<>>]
<1>8. /\ DOMAIN new = {"generation", "got"} /\ new.generation = pagePage'.refresh /\ new.got = <<>>
      /\ DOMAIN new.got = {}
      /\ pagePage'.refresh # pagePage.refresh => pageRefreshes' = pageRefreshes \cup {new}
  BY <1>6
<1> HIDE DEF new
<1>9. /\ pagePage'.refresh \in Nat /\ pagePage'.refresh >= pagePage.refresh
      /\ pagePage'.refresh = pagePage.refresh =>
           pageRefreshes' = pageRefreshes /\ "local" \notin DOMAIN e /\ "sync" \notin DOMAIN e
      /\ pagePage'.refresh # pagePage.refresh => pagePage'.refresh = pagePage.refresh + 1
  BY <1>5, <1>6, <1>7
<1>10. PageShape'
  <2>1. pagePage'.newBindings \in BindingMaps \cup {None} /\ pagePage'.newJobs \in BOOLEAN \cup {None}
    BY <1>3, <1>5 DEF PageInv, PageShape
  <2>2. ASSUME NEW r \in pageRefreshes'
        PROVE  /\ DOMAIN r = {"generation", "got"} /\ r.generation \in Nat /\ r.generation <= pagePage'.refresh
               /\ DOMAIN r.got \subseteq {"local", "sync"}
    <3>1. CASE r \in pageRefreshes
      BY <1>7, <1>9, <3>1 DEF PageInv, PageShape
    <3>2. CASE r = new
      BY <1>8, <1>9, <3>2
    <3> QED BY <1>8, <1>9, <3>1, <3>2
  <2>3. pageWaiting' \subseteq Page!FirstReads \cup Page!Session
    BY <1>0 DEF PageInv, PageShape
  <2>4. pagePage'.window = "pending" /\ "jobs" \in pageWaiting' \cup DOMAIN pageGot'
          => "bindings" \in pageWaiting' \cup DOMAIN pageGot'
    BY <1>0, <1>5 DEF PageInv, PageShape
  <2> QED BY <1>5, <1>9, <2>1, <2>2, <2>3, <2>4 DEF PageShape
<1>11. ASSUME Known PROVE Known'
  <2>1. ListKnown'
    <3>1. CASE "workspaces" \in DOMAIN e
      <4>1. ~Coming("workspaces")' => e["workspaces"] = pageStore["workspaces"]
        BY <1>1, <3>1
      <4>2. pageStore["workspaces"] = e["workspaces"] => e["workspaces"] = Page!Workspaces(pageStore)
        BY <1>3, <3>1, NothingElse DEF Page!Workspaces
      <4> QED BY <1>0, <1>5, <3>1, <4>1, <4>2 DEF ListKnown
    <3>2. CASE "workspaces" \notin DOMAIN e
      <4>1. ~Coming("workspaces")' => ~Coming("workspaces")
        BY <1>1, <3>2 DEF StoredKeys
      <4> QED BY <1>0, <1>5, <1>11, <3>2, <4>1 DEF Known, ListKnown
    <3> QED BY <3>1, <3>2
  <2>2. SettingsKnown'
    <3>1. CASE pagePage'.refresh = pagePage.refresh
      <4>1. "local" \notin DOMAIN e /\ "sync" \notin DOMAIN e /\ pageRefreshes' = pageRefreshes
        BY <1>9, <3>1
      <4>2. ~Coming("local")' /\ ~Coming("sync")' => ~Coming("local") /\ ~Coming("sync")
        BY <1>1, <4>1 DEF StoredKeys
      <4> QED BY <1>0, <1>5, <1>11, <3>1, <4>1, <4>2 DEF Known, SettingsKnown
    <3>2. CASE pagePage'.refresh # pagePage.refresh
      <4>1. "settings" \in pagePage'.loaded
        BY <1>5, <3>2
      <4>2. new \in pageRefreshes' /\ \A r \in pageRefreshes' : r.generation = pagePage'.refresh => r = new
        BY <1>7, <1>8, <1>9, <3>2
      <4> QED BY <1>8, <4>1, <4>2 DEF SettingsKnown
    <3> QED BY <3>1, <3>2
  <2>3. BindingKnown'
    <3>1. CASE "bindings" \in DOMAIN e
      <4>1. ~Coming("bindings")' => e["bindings"] = pageStore["bindings"]
        BY <1>1, <3>1
      <4>2. e["bindings"] # None
        BY <1>3, <3>1, NothingElse
      <4> QED BY <1>0, <1>5, <3>1, <4>1, <4>2 DEF BindingKnown
    <3>2. CASE "bindings" \notin DOMAIN e
      <4>1. ~Coming("bindings")' => ~Coming("bindings")
        BY <1>1, <3>2 DEF StoredKeys
      <4> QED BY <1>0, <1>5, <1>11, <3>2, <4>1 DEF Known, BindingKnown
    <3> QED BY <3>1, <3>2
  <2>4. JobsKnown'
    <3>1. CASE "jobs" \in DOMAIN e
      <4>1. ~Coming("jobs")' => e["jobs"] = pageStore["jobs"]
        BY <1>1, <3>1
      <4>2. e["jobs"] # None
        BY <1>3, <3>1, NothingElse
      <4> QED BY <1>0, <1>5, <3>1, <4>1, <4>2 DEF JobsKnown
    <3>2. CASE "jobs" \notin DOMAIN e
      <4>1. ~Coming("jobs")' => ~Coming("jobs")
        BY <1>1, <3>2 DEF StoredKeys
      <4> QED BY <1>0, <1>5, <1>11, <3>2, <4>1 DEF Known, JobsKnown
    <3> QED BY <3>1, <3>2
  <2>5. PageKnows'
    <3>1. ASSUME pagePage'.window = "ready", "state" \in pagePage'.loaded PROVE pagePage'.active = pagePage'.bound
      <4>1. CASE {"bindings", "main", "switch"} \cap DOMAIN e # {}
        BY <1>5, <3>1, <4>1
      <4>2. CASE {"bindings", "main", "switch"} \cap DOMAIN e = {}
        BY <1>5, <1>11, <3>1, <4>2 DEF Known, PageKnows
      <4> QED BY <4>1, <4>2
    <3>2. pagePage'.hydrated => {"workspaces", "settings", "state"} \subseteq pagePage'.loaded
      BY <1>5, <1>11 DEF Known, PageKnows
    <3>3. \A k \in DOMAIN pageGot' \cap {"workspaces", "local", "sync", "state"} : pageGot'[k] # Failed
      BY <1>0, <1>11 DEF Known, PageKnows
    <3> QED BY <3>1, <3>2, <3>3 DEF PageKnows
  <2> QED BY <2>1, <2>2, <2>3, <2>4, <2>5 DEF Known
<1> QED BY <1>0, <1>1, <1>2, <1>10, <1>11 DEF PageInv

(* The settings that events have made the page read again.                  *)
LEMMA AnsweredRefreshKeeps ==
    ASSUME PageInv, BindInv, Page!AnsweredRefresh
    PROVE  PageInv' /\ BindInv'
<1>0. BindInv' /\ UNCHANGED <<pageStore, pageSaving, pageMade, pageEvents, pageWaiting, pageGot, pagePage, pageFaults>>
  BY BindSteady DEF Page!AnsweredRefresh, Page!writers
<1> PICK r \in pageRefreshes, k \in {"local", "sync"} :
      /\ k \notin DOMAIN r.got
      /\ pageRefreshes' = (pageRefreshes \ {r}) \cup {[r EXCEPT !.got = Page!Over([x \in {k} |-> pageStore[x]], r.got)]}
  BY DEF Page!AnsweredRefresh
<1> DEFINE g == Page!Over([x \in {k} |-> pageStore[x]], r.got)  new == [r EXCEPT !.got = g]
<1>1. /\ DOMAIN r = {"generation", "got"} /\ r.generation \in Nat /\ r.generation <= pagePage.refresh
      /\ DOMAIN r.got \subseteq {"local", "sync"}
  BY DEF PageInv, PageShape
<1>2. DOMAIN g = DOMAIN r.got \cup {k} /\ g[k] = pageStore[k] /\ \A x \in DOMAIN r.got \ {k} : g[x] = r.got[x]
  BY DEF Page!Over
<1> HIDE DEF g
<1>3. /\ DOMAIN new = {"generation", "got"} /\ new.generation = r.generation /\ new.got = g
      /\ pageRefreshes' = (pageRefreshes \ {r}) \cup {new}
  BY <1>1 DEF g
<1> HIDE DEF new
<1>4. StoreShape' /\ EventsEndStored' /\ \A x : Coming(x)' <=> Coming(x)
  BY <1>0 DEF PageInv, StoreShape, EventsEndStored, Coming
<1>5. PageShape'
  BY <1>0, <1>1, <1>2, <1>3 DEF PageInv, PageShape
<1>6. ASSUME Known PROVE Known'
  <2>1. ListKnown' /\ BindingKnown' /\ JobsKnown' /\ PageKnows'
    BY <1>0, <1>4, <1>6 DEF Known, ListKnown, BindingKnown, JobsKnown, PageKnows
  <2>2. (\E x \in pageRefreshes : x.generation = pagePage.refresh) => \E x \in pageRefreshes' : x.generation = pagePage.refresh
    BY <1>3
  <2>3. ASSUME ~Coming("local"), ~Coming("sync"), NEW x \in pageRefreshes', x.generation = pagePage.refresh
        PROVE  /\ "local" \in DOMAIN x.got => x.got["local"] = pageStore.local
               /\ "sync" \in DOMAIN x.got => x.got["sync"] = pageStore.sync
    BY <1>2, <1>3, <1>6, <2>3 DEF Known, SettingsKnown
  <2>4. SettingsKnown'
    BY <1>0, <1>4, <1>6, <2>2, <2>3 DEF Known, SettingsKnown
  <2> QED BY <2>1, <2>4 DEF Known
<1> QED BY <1>0, <1>4, <1>5, <1>6 DEF PageInv

LEMMA RefreshedKeeps ==
    ASSUME PageInv, BindInv, Page!Refreshed
    PROVE  PageInv' /\ BindInv'
<1>0. BindInv' /\ UNCHANGED <<pageStore, pageSaving, pageMade, pageEvents, pageWaiting, pageGot, pageFaults>>
  BY BindSteady DEF Page!Refreshed, Page!writers
<1> PICK r \in pageRefreshes :
      /\ DOMAIN r.got = {"local", "sync"}
      /\ pageRefreshes' = pageRefreshes \ {r}
      /\ pagePage' = IF r.generation # pagePage.refresh THEN pagePage
                 ELSE [pagePage EXCEPT !.settings = <<r.got["local"], r.got["sync"]>>]
  BY DEF Page!Refreshed
<1>1. StoreShape' /\ EventsEndStored' /\ \A x : Coming(x)' <=> Coming(x)
  BY <1>0 DEF PageInv, StoreShape, EventsEndStored, Coming
<1>2. /\ DOMAIN pagePage' = PageFields /\ \A k \in PageFields \ {"settings"} : pagePage'[k] = pagePage[k]
      /\ pagePage'.settings = IF r.generation # pagePage.refresh THEN pagePage.settings ELSE <<r.got["local"], r.got["sync"]>>
  BY DEF PageInv, PageShape, PageFields
<1>3. /\ pagePage'.window = pagePage.window /\ pagePage'.hydrated = pagePage.hydrated
      /\ pagePage'.loaded = pagePage.loaded
      /\ pagePage'.workspaces = pagePage.workspaces /\ pagePage'.refresh = pagePage.refresh
      /\ pagePage'.bound = pagePage.bound
      /\ pagePage'.newBindings = pagePage.newBindings /\ pagePage'.newJobs = pagePage.newJobs
      /\ pagePage'.loading = pagePage.loading /\ pagePage'.active = pagePage.active
  BY <1>2 DEF PageFields
<1>4. PageShape'
  BY <1>0, <1>2, <1>3 DEF PageInv, PageShape
<1>5. ASSUME Known PROVE Known'
  <2>1. ListKnown' /\ BindingKnown' /\ JobsKnown' /\ PageKnows'
    BY <1>0, <1>1, <1>3, <1>5 DEF Known, ListKnown, BindingKnown, JobsKnown, PageKnows
  <2>2. SettingsKnown'
    BY <1>0, <1>1, <1>2, <1>3, <1>5 DEF Known, SettingsKnown
  <2> QED BY <2>1, <2>2 DEF Known
<1> QED BY <1>0, <1>1, <1>4, <1>5 DEF PageInv

-----------------------------------------------------------------------------
LEMMA PageStarts ==
    ASSUME Page!Init
    PROVE  PageInv /\ BindInv /\ pageFaults \in Nat
<1> PICK legacy \in {"tags" \in pageTouched}, current \in (IF "switch" \in pageTouched THEN {None, Own, Other} ELSE {None}) :
      pageStore = [workspaces |-> IF legacy THEN None ELSE 0, tags |-> IF legacy THEN 0 ELSE None,
               main |-> 0, switch |-> current, local |-> 0, sync |-> 0, bindings |-> Page!Unbound, jobs |-> FALSE]
  BY DEF Page!Init
<1>1. /\ pageSaving = 0 /\ pageBindQueue = <<>> /\ pageBindRead = None /\ pageMeant = Page!Unbound
      /\ pageEvents = <<>> /\ pageMade = 0 /\ pageFaults = 0
      /\ pageWaiting = Page!AskedOf(Page!FirstReads) /\ pageGot = Page!KnownOf(pageStore, Page!FirstReads)
      /\ pageRefreshes = {}
      /\ pagePage = [window |-> "pending", bound |-> FALSE, newBindings |-> None, newJobs |-> None,
               loaded |-> {}, hydrated |-> FALSE, workspaces |-> None, settings |-> <<None, None>>,
               refresh |-> 0, main |-> None, switch |-> None, active |-> Raw, loading |-> FALSE]
  BY DEF Page!Init
<1>2. Page!Unbound \in BindingMaps
  BY DEF Page!Unbound, BindingMaps
<1>3. StoreShape
  <2>1. DOMAIN pageStore = StoredKeys
    BY DEF StoredKeys
  <2>2. /\ pageStore["workspaces"] = (IF legacy THEN None ELSE 0) /\ pageStore["tags"] = (IF legacy THEN 0 ELSE None)
        /\ pageStore["local"] = 0 /\ pageStore["sync"] = 0 /\ pageStore["main"] = 0
        /\ pageStore["switch"] \in {None, Own, Other}
        /\ pageStore["bindings"] = Page!Unbound /\ pageStore["jobs"] = FALSE
    OBVIOUS
  <2>3. pageStore["workspaces"] # None \/ pageStore["tags"] # None
    BY <2>2, NothingElse
  <2> QED BY <1>1, <1>2, <2>1, <2>2, <2>3 DEF StoreShape
<1>4. EventsEndStored
  BY <1>1 DEF EventsEndStored
<1>5. /\ pageWaiting \subseteq Page!FirstReads /\ DOMAIN pageGot \subseteq Page!FirstReads
      /\ \A k \in DOMAIN pageGot : pageGot[k] = Page!Answer(pageStore, k)
  BY <1>1 DEF Page!AskedOf, Page!KnownOf
<1>6. /\ pagePage.window = "pending" /\ pagePage.newBindings = None /\ pagePage.newJobs = None /\ pagePage.loaded = {}
      /\ pagePage.hydrated = FALSE /\ pagePage.refresh = 0 /\ DOMAIN pagePage = PageFields
  BY <1>1 DEF PageFields
<1>7. PageShape
  BY <1>1, <1>5, <1>6 DEF PageShape, Page!FirstReads
<1>8. "bindings" \notin DOMAIN pageGot /\ "jobs" \notin DOMAIN pageGot
  BY <1>5 DEF Page!FirstReads
<1>9. Known
  BY <1>1, <1>3, <1>5, <1>6, <1>8, AnswersAreStored
     DEF Known, ListKnown, SettingsKnown, BindingKnown, JobsKnown, PageKnows
<1>10. BindInv
  BY <1>1, <1>2 DEF BindInv, BindingUpdates
<1> QED BY <1>1, <1>3, <1>4, <1>7, <1>9, <1>10 DEF PageInv

LEMMA PageSteps ==
    ASSUME PageInv, BindInv, pageFaults \in Nat, Page!Next \/ UNCHANGED pageVars
    PROVE  PageInv' /\ BindInv' /\ pageFaults' \in Nat
<1>1. CASE \/ Page!SaveWorkspaces \/ Page!Migrate \/ Page!SaveMain \/ Page!SaveSwitch
           \/ Page!SaveState \/ Page!SaveJobs \/ Page!SyncSettings
  <2>1. UNCHANGED pageFaults
    BY <1>1 DEF Page!SaveWorkspaces, Page!Migrate, Page!SaveMain, Page!SaveSwitch, Page!SaveState, Page!SaveJobs,
                Page!SyncSettings, Page!Write
  <2> QED BY <1>1, <2>1, WritersKeep
<1>2. CASE Page!RemoveTags \/ Page!SaveSettings \/ Page!SavePortable
  <2>1. UNCHANGED pageFaults
    BY <1>2 DEF Page!RemoveTags, Page!SaveSettings, Page!SavePortable
  <2> QED BY <1>2, <2>1, SettingsKeep
<1>3. CASE Page!UpdateBindings \/ Page!ReadBindings \/ Page!WriteBindings
  <2>1. UNCHANGED pageFaults
    BY <1>3 DEF Page!UpdateBindings, Page!ReadBindings, Page!WriteBindings
  <2> QED BY <1>3, <2>1, BindingsKeep
<1>4. CASE Page!Answered
  BY <1>4, AnsweredKeeps
<1>5. CASE Page!AnsweredRefresh
  BY <1>5, AnsweredRefreshKeeps DEF Page!AnsweredRefresh
<1>6. CASE Page!ResolveWindow
  BY <1>6, ResolveWindowKeeps DEF Page!ResolveWindow
<1>7. CASE Page!WindowReady
  BY <1>7, WindowReadyKeeps DEF Page!WindowReady
<1>8. CASE Page!InitLoaded
  BY <1>8, InitLoadedKeeps DEF Page!InitLoaded
<1>9. CASE Page!Deliver
  BY <1>9, DeliverKeeps DEF Page!Deliver
<1>10. CASE Page!Refreshed
  BY <1>10, RefreshedKeeps DEF Page!Refreshed
<1>11. CASE UNCHANGED pageVars
  <2>1. UNCHANGED <<pageStore, pageSaving, pageBindQueue, pageBindRead, pageMeant, pageEvents, pageWaiting,
                    pageGot, pageRefreshes, pagePage, pageMade, pageFaults>>
    BY <1>11 DEF pageVars
  <2>2. StoreShape' /\ EventsEndStored' /\ PageShape' /\ (pageFaults = 0 => Known)'
    BY <2>1 DEF PageInv, StoreShape, EventsEndStored, PageShape, Known, ListKnown, SettingsKnown, BindingKnown,
                JobsKnown, PageKnows, Coming
  <2> QED BY <2>1, <2>2, BindSteady DEF PageInv
<1> QED BY <1>1, <1>2, <1>3, <1>4, <1>5, <1>6, <1>7, <1>8, <1>9, <1>10, <1>11 DEF Page!Next

LEMMA PageMeans ==
    ASSUME PageInv, BindInv
    PROVE  Page!PageShowsStorage /\ Page!BindingsAreMeant
<1>1. ASSUME pageBindQueue = <<>> PROVE pageStore.bindings = pageMeant
  <2>1. pageStore.bindings \in BindingMaps /\ pageMeant \in BindingMaps
    BY DEF PageInv, StoreShape, BindInv
  <2>2. \A w \in Page!Windows : pageMeant[w] = pageStore.bindings[w]
    BY <1>1 DEF BindInv, LastAbout
  <2> QED BY <2>1, <2>2 DEF BindingMaps
<1>2. ASSUME Page!Quiet
      PROVE  /\ pagePage.workspaces = Page!Workspaces(pageStore)
             /\ pagePage.settings = <<pageStore.local, pageStore.sync>>
             /\ pagePage.window = "ready" => pagePage.active = pageStore.bindings[Own] /\ pagePage.loading = pageStore.jobs
  <2>1. Known /\ pageRefreshes = {} /\ pagePage.hydrated /\ \A k : ~Coming(k)
    BY <1>2 DEF Page!Quiet, PageInv, Coming
  <2>2. {"workspaces", "settings", "state"} \subseteq pagePage.loaded
    BY <2>1 DEF Known, PageKnows
  <2>3. pagePage.workspaces = Page!Workspaces(pageStore) /\ pagePage.settings = <<pageStore.local, pageStore.sync>>
    BY <2>1, <2>2 DEF Known, ListKnown, SettingsKnown
  <2>4. pagePage.window = "ready" => pagePage.active = pageStore.bindings[Own] /\ pagePage.loading = pageStore.jobs
    BY <2>1, <2>2 DEF Known, BindingKnown, JobsKnown, PageKnows
  <2> QED BY <2>3, <2>4
<1> QED BY <1>1, <1>2 DEF Page!PageShowsStorage, Page!BindingsAreMeant

-----------------------------------------------------------------------------
(* A page is one of the parts of MCStorage, which do not interact.          *)
LEMMA PageAlone ==
    ASSUME [AllNext]_allVars
    PROVE  Page!Next \/ UNCHANGED pageVars
<1>1. CASE AllNext
  BY <1>1 DEF AllNext, Only
<1>2. CASE UNCHANGED allVars
  BY <1>2 DEF allVars
<1> QED BY <1>1, <1>2

(* However the first reads of a page, its later ones and the events meet,  *)
(* a page that has settled shows the stored list, the stored settings and  *)
(* the workspace and the jobs of its window; and no update of the window   *)
(* bindings is lost to another one (useWorkspaceData.ts, core/storage).    *)
(* For any number of writes, any set of keys that change, and reads that   *)
(* fail: the bounds of the run are not used.                               *)
THEOREM PagesShowWhatIsStored == Together => []PageShowsStorage
<1>1. AllInit => PageInv /\ BindInv /\ pageFaults \in Nat
  BY PageStarts DEF AllInit
<1>2. PageInv /\ BindInv /\ pageFaults \in Nat /\ [AllNext]_allVars => (PageInv /\ BindInv /\ pageFaults \in Nat)'
  BY PageAlone, PageSteps
<1>3. PageInv /\ BindInv => PageShowsStorage
  BY PageMeans DEF PageShowsStorage
<1> QED BY <1>1, <1>2, <1>3, PTL DEF Together

-----------------------------------------------------------------------------
(* What is chosen of a list.  Each of the chosen indexes has a rank, and no *)
(* two the same; so every place of the result comes from one of them.  The  *)
(* same holds of any finite set and any strict total order of it.           *)
Less == {p \in Nat \X Nat : p[1] < p[2]}

LEMMA LessIsWellFounded == IsWellFoundedOn(Less, Nat)
<1>1. OpToRel(<, Nat) = Less
  BY DEF OpToRel, Less
<1> QED BY <1>1, NatLessThanWellFounded, Zenon

LEMMA Least ==
    ASSUME NEW S, S \subseteq Nat, S # {}
    PROVE  \E m \in S : \A k \in S : m <= k
<1>1. PICK m \in S : \A k \in S : ~(<<k, m>> \in Less)
  BY LessIsWellFounded, WFMin
<1>2. \A k \in S : k \in Nat /\ m \in Nat
  OBVIOUS
<1>3. \A k \in S : ~(k < m)
  BY <1>1, <1>2 DEF Less
<1> QED BY <1>2, <1>3

LEMMA RankedBy ==
    ASSUME NEW I, IsFiniteSet(I), NEW R,
           \A x \in I : <<x, x>> \notin R,
           \A x, y, z \in I : <<x, y>> \in R /\ <<y, z>> \in R => <<x, z>> \in R,
           \A x, y \in I : x # y => <<x, y>> \in R \/ <<y, x>> \in R
    PROVE  \A n \in 1 .. Cardinality(I) : \E i \in I : Cardinality({j \in I : <<j, i>> \in R}) = n - 1
<1> DEFINE below(i) == {j \in I : <<j, i>> \in R}
           rank == [i \in I |-> Cardinality(below(i)) + 1]
<1>1. \A i \in I : /\ IsFiniteSet(below(i)) /\ Cardinality(below(i)) \in Nat
                   /\ Cardinality(below(i)) + 1 <= Cardinality(I)
  <2> TAKE i \in I
  <2>1. IsFiniteSet(I \ {i}) /\ Cardinality(I \ {i}) = Cardinality(I) - 1
    BY FS_RemoveElement
  <2>2. below(i) \in SUBSET (I \ {i})
    OBVIOUS
  <2>3. IsFiniteSet(below(i)) /\ Cardinality(below(i)) <= Cardinality(I \ {i})
    BY <2>1, <2>2, FS_Subset
  <2> HIDE DEF below
  <2>4. Cardinality(I) \in Nat /\ Cardinality(below(i)) \in Nat
    BY <2>3, FS_CardinalityType
  <2> QED BY <2>1, <2>3, <2>4
<1>2. ASSUME NEW i \in I, NEW k \in I, <<i, k>> \in R
      PROVE  Cardinality(below(i)) # Cardinality(below(k))
  <2>1. below(i) \in SUBSET below(k) /\ i \in below(k) /\ i \notin below(i)
    BY <1>2
  <2> HIDE DEF below
  <2>2. IsFiniteSet(below(k))
    BY <1>1
  <2>3. Cardinality(below(k)) = Cardinality(below(i)) => below(k) = below(i)
    BY <2>1, <2>2, FS_Subset
  <2> QED BY <2>1, <2>3
<1>3. Cardinality(I) \in Nat
  BY FS_CardinalityType
<1>4. IsFiniteSet(1 .. Cardinality(I)) /\ Cardinality(1 .. Cardinality(I)) = Cardinality(I)
  BY <1>3, FS_Interval
<1> HIDE DEF below
<1>5. rank \in [I -> 1 .. Cardinality(I)]
  BY <1>1, <1>3
<1>6. \A i, k \in I : i # k => rank[i] # rank[k]
  <2> TAKE i \in I, k \in I
  <2> HAVE i # k
  <2>1. <<i, k>> \in R \/ <<k, i>> \in R
    OBVIOUS
  <2>2. Cardinality(below(i)) # Cardinality(below(k))
    BY <1>2, <2>1
  <2>3. Cardinality(below(i)) \in Nat /\ Cardinality(below(k)) \in Nat
    BY <1>1
  <2> QED BY <2>2, <2>3
<1>7. rank \in Injection(I, 1 .. Cardinality(I))
  <2> HIDE DEF rank
  <2> QED BY <1>5, <1>6 DEF Injection, IsInjective
<1>8. rank \in Surjection(I, 1 .. Cardinality(I))
  BY <1>4, <1>7, FS_Injection
<1> TAKE n \in 1 .. Cardinality(I)
<1>9. PICK i \in I : rank[i] = n
  BY <1>8 DEF Surjection
<1>10. Cardinality(below(i)) = n - 1
  BY <1>1, <1>3, <1>9
<1> QED BY <1>10 DEF below

(* Of numbers by the usual order.                                           *)
LEMMA Ranked ==
    ASSUME NEW I, IsFiniteSet(I), I \subseteq Nat, NEW n \in 1 .. Cardinality(I)
    PROVE  \E i \in I : Before(i, I) = n - 1
<1>1. \A x \in I : x \in Nat
  OBVIOUS
<1>0. PICK R : R = Less
  OBVIOUS
<1>2. \A x \in I : <<x, x>> \notin R
  BY <1>0, <1>1 DEF Less
<1>3. \A x, y, z \in I : <<x, y>> \in R /\ <<y, z>> \in R => <<x, z>> \in R
  BY <1>0, <1>1 DEF Less
<1>4. \A x, y \in I : x # y => <<x, y>> \in R \/ <<y, x>> \in R
  BY <1>0, <1>1 DEF Less
<1>5. \A i \in I : {j \in I : <<j, i>> \in R} = {j \in I : j < i}
  BY <1>0, <1>1 DEF Less
<1>6. \A m \in 1 .. Cardinality(I) : \E i \in I : Cardinality({j \in I : <<j, i>> \in R}) = m - 1
  BY <1>2, <1>3, <1>4, RankedBy
<1> QED BY <1>5, <1>6 DEF Before

LEMMA Chosen ==
    ASSUME NEW T, NEW list \in Seq(T), NEW S
    PROVE  /\ At(list, S) \in Seq(T)
           /\ S \cap DOMAIN list = {} => At(list, S) = <<>>
           /\ \A n \in DOMAIN At(list, S) : \E i \in S \cap DOMAIN list : At(list, S)[n] = list[i]
<1> DEFINE I == S \cap DOMAIN list
           rank(n) == CHOOSE i \in I : Before(i, I) = n - 1
<1>1. DOMAIN list = 1 .. Len(list) /\ Len(list) \in Nat
  OBVIOUS
<1>2. IsFiniteSet(I) /\ I \subseteq Nat
  <2>1. IsFiniteSet(1 .. Len(list))
    BY <1>1, FS_Interval
  <2>2. I \in SUBSET (1 .. Len(list)) /\ 1 .. Len(list) \subseteq Nat
    BY <1>1
  <2> QED BY <2>1, <2>2, FS_Subset
<1>3. Cardinality(I) \in Nat
  BY <1>2, FS_CardinalityType
<1>4. At(list, S) = [n \in 1 .. Cardinality(I) |-> list[rank(n)]]
  BY DEF At
<1>5. \A n \in 1 .. Cardinality(I) : rank(n) \in I
  BY <1>2, Ranked
<1> HIDE DEF I, rank
<1>6. \A n \in 1 .. Cardinality(I) : list[rank(n)] \in T
  BY <1>1, <1>5 DEF I
<1>7. At(list, S) \in Seq(T)
  BY <1>3, <1>4, <1>6, IsASeq
<1>8. S \cap DOMAIN list = {} => At(list, S) = <<>>
  <2> HAVE S \cap DOMAIN list = {}
  <2>1. Cardinality(I) = 0
    BY FS_EmptySet DEF I
  <2>2. Len(At(list, S)) = 0
    BY <1>3, <1>4, <1>7, <2>1
  <2> QED BY <1>7, <2>2, EmptySeq
<1> QED BY <1>3, <1>4, <1>5, <1>7, <1>8 DEF I

LEMMA Retyped ==
    ASSUME NEW S, NEW T, NEW list \in Seq(S), \A n \in DOMAIN list : list[n] \in T
    PROVE  list \in Seq(T)
<1>1. list = [n \in 1 .. Len(list) |-> list[n]] /\ Len(list) \in Nat /\ DOMAIN list = 1 .. Len(list)
  OBVIOUS
<1>2. [n \in 1 .. Len(list) |-> list[n]] \in Seq(T)
  BY <1>1, IsASeq
<1> QED BY <1>1, <1>2

-----------------------------------------------------------------------------
(* The operations on workspaces.                                            *)

UpdateTab == [url : SafeUrls, excluded : BOOLEAN]
SnapTab == [url : SafeUrls, excluded : {FALSE}]
AnyTab == [url : SafeUrls \cup {"unsafe"}, excluded : BOOLEAN]
Snapshot == [id : Nat, tabs : Seq(SnapTab)]

(* A workspace keeps few snapshots, each numbered when it was taken.        *)
Kept(r) ==
  /\ r \in Updates!Workspace
  /\ Len(r.history) <= HistorySize
  /\ \A i, j \in DOMAIN r.history :
       r.history[i].id < r.snaps /\ (r.history[i].id = r.history[j].id => i = j)

LEMMA SameChoice == \A list, S : Updates!At(list, S) = At(list, S)
  BY DEF Updates!At, At, Updates!Before, Before, Updates!Cardinality, Cardinality

LEMMA SanitizedTabs ==
    ASSUME NEW tabs \in Seq(AnyTab)
    PROVE  Updates!Sanitized(tabs) \in Seq(UpdateTab)
<1> DEFINE S == {i \in DOMAIN tabs : tabs[i].url \in SafeUrls}
<1>1. Updates!Sanitized(tabs) = At(tabs, S)
  BY SameChoice DEF Updates!Sanitized, Updates!Where
<1>0. S \subseteq DOMAIN tabs
  OBVIOUS
<1>3. \A i \in S : tabs[i] \in UpdateTab
  <2>1. \A i \in DOMAIN tabs : tabs[i] \in AnyTab
    BY ElementOfSeq
  <2> QED BY <2>1 DEF AnyTab, UpdateTab
<1> HIDE DEF S
<1>2. \A n \in DOMAIN At(tabs, S) : \E i \in S : At(tabs, S)[n] = tabs[i]
  BY <1>0, Chosen
<1>4. At(tabs, S) \in Seq(AnyTab)
  BY Chosen
<1> QED BY <1>1, <1>2, <1>3, <1>4, Retyped

LEMMA RecordableTabs ==
    ASSUME NEW tabs \in Seq(UpdateTab)
    PROVE  Updates!Recordable(tabs) \in Seq(SnapTab)
<1> DEFINE S == {i \in DOMAIN tabs : ~tabs[i].excluded}
<1>1. Updates!Recordable(tabs) = At(tabs, S)
  BY SameChoice DEF Updates!Recordable, Updates!Where
<1>0. S \subseteq DOMAIN tabs
  OBVIOUS
<1>3. \A i \in S : tabs[i] \in SnapTab
  <2>1. \A i \in DOMAIN tabs : tabs[i] \in UpdateTab
    BY ElementOfSeq
  <2> QED BY <2>1 DEF SnapTab, UpdateTab
<1> HIDE DEF S
<1>2. \A n \in DOMAIN At(tabs, S) : \E i \in S : At(tabs, S)[n] = tabs[i]
  BY <1>0, Chosen
<1>4. At(tabs, S) \in Seq(UpdateTab)
  BY Chosen
<1> QED BY <1>1, <1>2, <1>3, <1>4, Retyped

LEMMA ChosenTabs ==
    ASSUME NEW T, NEW tabs \in Seq(T), NEW S
    PROVE  /\ Updates!At(tabs, S) \in Seq(T) /\ Updates!Rest(tabs, S) \in Seq(T)
           /\ S \cap DOMAIN tabs = {} => Updates!At(tabs, S) = <<>>
<1>1. Updates!At(tabs, S) = At(tabs, S) /\ Updates!Rest(tabs, S) = At(tabs, DOMAIN tabs \ S)
  BY SameChoice DEF Updates!Rest
<1> QED BY <1>1, Chosen

LEMMA SnapTabsAreTabs == Seq(SnapTab) \subseteq Seq(UpdateTab)
<1>1. SnapTab \subseteq UpdateTab
  BY DEF SnapTab, UpdateTab
<1> QED BY <1>1, SeqMonotonic

LEMMA KeptFields ==
    ASSUME NEW r, Kept(r)
    PROVE  /\ r \notin {None, Gone}
           /\ r.tabs \in Seq(UpdateTab) /\ r.rev \in Nat /\ r.snaps \in Nat /\ r.history \in Seq(Snapshot)
           /\ r = [name |-> r.name, tabs |-> r.tabs, rev |-> r.rev, history |-> r.history, snaps |-> r.snaps,
                   trashed |-> r.trashed]
           /\ r.name \in {"old", "new"} /\ r.trashed \in BOOLEAN
  BY UpdatesApart DEF Kept, Updates!Workspace, UpdateTab, SnapTab, Snapshot

LEMMA NewIsKept ==
    ASSUME NEW name \in {"old", "new"}, NEW tabs \in Seq(UpdateTab)
    PROVE  Kept(Updates!New(name, tabs))
<1>1. <<>> \in Seq(Snapshot) /\ Len(<<>>) = 0 /\ DOMAIN <<>> = {}
  OBVIOUS
<1> QED BY <1>1, UpdatesApart DEF Kept, Updates!Workspace, Updates!New, UpdateTab, SnapTab, Snapshot

LEMMA ReplacedTabs ==
    ASSUME NEW r, Kept(r), NEW tabs \in Seq(UpdateTab)
    PROVE  /\ Kept(Updates!Replaced(r, tabs))
           /\ Updates!Replaced(r, tabs).tabs = tabs
           /\ Updates!Replaced(r, tabs).history = r.history
           /\ Updates!Replaced(r, tabs).snaps = r.snaps
           /\ Updates!Replaced(r, tabs).rev = IF tabs = r.tabs THEN r.rev ELSE r.rev + 1
<1>1. CASE tabs = r.tabs
  BY <1>1 DEF Updates!Replaced
<1>2. CASE tabs # r.tabs
  <2>1. Updates!Replaced(r, tabs) = [r EXCEPT !.tabs = tabs, !.rev = @ + 1]
    BY <1>2 DEF Updates!Replaced
  <2>2. Updates!Replaced(r, tabs) =
          [name |-> r.name, tabs |-> tabs, rev |-> r.rev + 1, history |-> r.history, snaps |-> r.snaps,
           trashed |-> r.trashed]
    BY <2>1, KeptFields
  <2> QED BY <1>2, <2>2, KeptFields DEF Kept, Updates!Workspace, UpdateTab, SnapTab, Snapshot
<1> QED BY <1>1, <1>2

LEMMA Shorter ==
    ASSUME NEW a \in Nat, NEW b \in Nat
    PROVE  Updates!Min({a, b}) \in {a, b} /\ Updates!Min({a, b}) <= a /\ Updates!Min({a, b}) <= b
<1>1. \E x \in {a, b} : \A y \in {a, b} : x <= y
  OBVIOUS
<1> QED BY <1>1 DEF Updates!Min

LEMMA RecordedTabs ==
    ASSUME NEW r, Kept(r), NEW tabs \in Seq(UpdateTab)
    PROVE  LET n == Updates!Recorded(r, tabs) IN
           /\ Kept(n)
           /\ n.tabs = r.tabs /\ n.rev = r.rev /\ n.snaps = r.snaps + 1
           /\ n.history # <<>> /\ n.history[1].tabs = Updates!Recordable(tabs)
<1> DEFINE first == [id |-> r.snaps, tabs |-> Updates!Recordable(tabs)]
           history == <<first>> \o r.history
           size == Updates!Min({HistorySize, Len(history)})
           kept == SubSeq(history, 1, size)
           n == [name |-> r.name, tabs |-> r.tabs, rev |-> r.rev, history |-> kept, snaps |-> r.snaps + 1,
                 trashed |-> r.trashed]
<1>1. Updates!Recorded(r, tabs) = n
  <2>1. r = [name |-> r.name, tabs |-> r.tabs, rev |-> r.rev, history |-> r.history, snaps |-> r.snaps,
             trashed |-> r.trashed]
    BY KeptFields
  <2>2. Updates!Recorded(r, tabs) = [r EXCEPT !.history = kept, !.snaps = @ + 1]
    BY DEF Updates!Recorded
  <2> HIDE DEF kept
  <2> QED BY <2>1, <2>2
<1>2. first \in Snapshot /\ r.history \in Seq(Snapshot) /\ r.snaps \in Nat
  BY RecordableTabs, KeptFields DEF Snapshot
<1>3. /\ history \in Seq(Snapshot) /\ Len(history) = 1 + Len(r.history)
      /\ history[1] = first /\ \A i \in 2 .. Len(history) : history[i] = r.history[i - 1]
  <2> HIDE DEF first
  <2> QED BY <1>2
<1> HIDE DEF history
<1>4. size \in 1 .. Len(history) /\ size <= HistorySize
  <2>1. HistorySize \in Nat \ {0} /\ Len(history) \in Nat \ {0}
    BY <1>2, <1>3, UpdatesApart
  <2> QED BY <2>1, Shorter
<1> HIDE DEF size
<1>5. kept \in Seq(Snapshot) /\ Len(kept) = size /\ \A i \in 1 .. size : kept[i] = history[i]
  BY <1>3, <1>4
<1> HIDE DEF kept
<1>6. \A i \in 1 .. size : kept[i].id < r.snaps + 1 /\ (i > 1 => kept[i] = r.history[i - 1] /\ kept[i].id < r.snaps)
  <2> TAKE i \in 1 .. size
  <2>1. i = 1 => kept[i].id = r.snaps
    BY <1>3, <1>5
  <2>2. i > 1 => kept[i] = r.history[i - 1] /\ i - 1 \in DOMAIN r.history
    <3> HIDE DEF first
    <3>1. DOMAIN r.history = 1 .. Len(r.history) /\ Len(r.history) \in Nat
      BY <1>2
    <3>2. i > 1 => i \in 2 .. Len(history) /\ i - 1 \in 1 .. Len(r.history)
      BY <1>3, <1>4, <3>1
    <3>3. kept[i] = history[i]
      BY <1>5
    <3> QED BY <1>3, <3>1, <3>2, <3>3
  <2>3. i > 1 => kept[i].id < r.snaps
    BY <2>2 DEF Kept
  <2>4. kept[i].id \in Nat
    <3>1. kept[i] \in Snapshot
      BY <1>5, ElementOfSeq
    <3> QED BY <3>1 DEF Snapshot
  <2> QED BY <1>2, <2>1, <2>2, <2>3, <2>4
<1>7. \A i, j \in 1 .. size : kept[i].id = kept[j].id => i = j
  <2> SUFFICES ASSUME NEW i \in 1 .. size, NEW j \in 1 .. size, kept[i].id = kept[j].id PROVE i = j
    OBVIOUS
  <2>1. kept[1].id = r.snaps
    BY <1>3, <1>4, <1>5
  <2>2. CASE i = 1 \/ j = 1
    BY <1>2, <1>4, <1>6, <2>1, <2>2
  <2>3. CASE i > 1 /\ j > 1
    <3>1. i - 1 \in DOMAIN r.history /\ j - 1 \in DOMAIN r.history
      BY <1>2, <1>3, <1>4, <2>3
    <3>2. i - 1 = j - 1
      BY <1>6, <2>3, <3>1 DEF Kept
    <3> QED BY <1>4, <3>2
  <2> QED BY <1>4, <2>2, <2>3
<1>8. Kept(n)
  <2>1. n \in Updates!Workspace
    <3>1. /\ r.tabs \in Seq(UpdateTab) /\ r.rev \in Nat /\ r.snaps + 1 \in Nat /\ kept \in Seq(Snapshot)
          /\ r.name \in {"old", "new"} /\ r.trashed \in BOOLEAN
      BY <1>2, <1>5, KeptFields
    <3> QED BY <3>1 DEF Updates!Workspace, UpdateTab, SnapTab, Snapshot
  <2> QED BY <1>4, <1>5, <1>6, <1>7, <2>1 DEF Kept
<1>9. kept # <<>> /\ kept[1].tabs = Updates!Recordable(tabs)
  BY <1>3, <1>4, <1>5
<1> QED BY <1>1, <1>8, <1>9

-----------------------------------------------------------------------------
(* The least of a set of indexes is one of them.                            *)
LEMMA FirstFound ==
    ASSUME NEW I, I \subseteq Nat, I # {}
    PROVE  Updates!Min(I) \in I
  BY Least DEF Updates!Min

(* What an operation does to a workspace that stays: it keeps its shape, a  *)
(* list that changes has a later revision, and the pages that leave it are  *)
(* remembered.                                                              *)
Remembers(r, n) ==
  \/ \A u \in SafeUrls :
       Updates!OfOrigin(r.tabs, OriginOf[u]) <=
         Updates!Cardinality({i \in DOMAIN n.tabs : OriginOf[n.tabs[i].url] = OriginOf[u]})
  \/ n.history # <<>> /\ n.history[1].tabs = Updates!Recordable(r.tabs)

Changed(r, n, skip) ==
  /\ Kept(n)
  /\ n.snaps >= r.snaps /\ n.rev >= r.rev
  /\ n.tabs # r.tabs => n.rev > r.rev
  /\ skip \/ Remembers(r, n)

LEMMA SubsetIsSmaller ==
    ASSUME NEW T, IsFiniteSet(T), NEW S, S \subseteq T
    PROVE  Updates!Cardinality(S) <= Updates!Cardinality(T)
<1>1. \A X : Updates!Cardinality(X) = Cardinality(X)
  BY DEF Updates!Cardinality, Cardinality
<1>2. Cardinality(S) <= Cardinality(T)
  BY FS_Subset
<1> QED BY <1>1, <1>2

LEMMA PagesStay ==
    ASSUME NEW old \in Seq(UpdateTab), NEW new \in Seq(UpdateTab), DOMAIN new = DOMAIN old,
           \A i \in DOMAIN old : new[i].url = old[i].url, NEW o
    PROVE  Updates!OfOrigin(old, o) <= Updates!Cardinality({i \in DOMAIN new : OriginOf[new[i].url] = o})
<1> DEFINE T == {i \in DOMAIN new : OriginOf[new[i].url] = o}
           S == {i \in DOMAIN old : ~old[i].excluded /\ OriginOf[old[i].url] = o}
<1>1. IsFiniteSet(DOMAIN new)
  BY FS_Interval
<1>2. S \subseteq T /\ T \subseteq DOMAIN new
  OBVIOUS
<1> HIDE DEF S, T
<1>3. IsFiniteSet(T)
  BY <1>1, <1>2, FS_Subset
<1>4. Updates!Cardinality(S) <= Updates!Cardinality(T)
  BY <1>2, <1>3, SubsetIsSmaller
<1> QED BY <1>4 DEF S, T, Updates!OfOrigin

LEMMA SameTabs ==
    ASSUME NEW r, Kept(r), NEW n, Kept(n), n.snaps >= r.snaps, n.rev = r.rev, n.tabs = r.tabs, NEW skip
    PROVE  Changed(r, n, skip)
<1>1. r.tabs \in Seq(UpdateTab) /\ r.rev \in Nat
  BY KeptFields
<1>2. \A o : Updates!OfOrigin(r.tabs, o) <= Updates!Cardinality({i \in DOMAIN n.tabs : OriginOf[n.tabs[i].url] = o})
  BY <1>1, PagesStay
<1> QED BY <1>1, <1>2 DEF Changed, Remembers

(* Another list that is recorded.                                           *)
LEMMA RecordedChange ==
    ASSUME NEW r, Kept(r), NEW tabs \in Seq(UpdateTab), NEW skip
    PROVE  LET n == Updates!Recorded(Updates!Replaced(r, tabs), r.tabs)
           IN  Changed(r, n, skip) /\ n.tabs = tabs
<1> DEFINE m == Updates!Replaced(r, tabs)
           n == Updates!Recorded(m, r.tabs)
<1>1. r.tabs \in Seq(UpdateTab) /\ r.rev \in Nat /\ r.snaps \in Nat
  BY KeptFields
<1>2. Kept(m) /\ m.tabs = tabs /\ m.snaps = r.snaps /\ m.rev = IF tabs = r.tabs THEN r.rev ELSE r.rev + 1
  BY ReplacedTabs
<1> HIDE DEF m
<1>3. /\ Kept(n) /\ n.tabs = m.tabs /\ n.rev = m.rev /\ n.snaps = m.snaps + 1
      /\ n.history # <<>> /\ n.history[1].tabs = Updates!Recordable(r.tabs)
  BY <1>1, <1>2, RecordedTabs
<1> HIDE DEF n
<1>4. Changed(r, n, skip) /\ n.tabs = tabs
  BY <1>1, <1>2, <1>3 DEF Changed, Remembers
<1> QED BY <1>4 DEF m, n

(* The requests there are.  One that names tabs by their indexes brings the *)
(* revision it read them at.                                                *)
AboutOne == {"rename", "trash", "restore", "delete"}
ByIndexes == {"move-tabs", "remove-tab", "remove-tab-indexes", "exclude-tab"}

Request(o) ==
  /\ \/ o.kind = "create" /\ o.id \in Both /\ o.tabs \in CapturedLists
     \/ o.kind \in AboutOne /\ o.id \in Both
     \/ o.kind = "empty-trash"
     \/ o.kind \in {"restore-snapshot", "snapshot", "remove-tab", "remove-tab-indexes"} /\ o.workspaceId \in Both
     \/ o.kind = "move-tabs" /\ o.sourceId \in Both /\ o.targetId \in Both /\ o.sourceId # o.targetId
     \/ o.kind = "exclude-tab" /\ o.workspaceId \in Both /\ o.excluded \in BOOLEAN
     \/ o.kind = "set-tabs" /\ o.workspaceId \in Both /\ o.tabs \in CapturedLists /\ o.skip \in BOOLEAN
  /\ "expectedTabsRevision" \in DOMAIN o =>
       /\ o.kind \in ByIndexes /\ o.expectedTabsRevision \in Nat
       /\ o.kind \in {"remove-tab", "exclude-tab"} => "index" \in DOMAIN o.tabIndexOrUrl

Follows(w, old, new, o) ==
  \/ new = old
  \/ o.kind \in {"delete", "empty-trash"} /\ old \notin {None, Gone} /\ new = Gone
  \/ o.kind = "create" /\ w = o.id /\ Kept(new)
  \/ old \notin {None, Gone} /\ Changed(old, new, o.kind = "set-tabs" /\ o.skip)

WsInv ==
  /\ updateWs = [w \in Both |-> updateWs[w]]
  /\ \A w \in Both : updateWs[w] \in {None, Gone} \/ Kept(updateWs[w])

LEMMA HasIsKept ==
    ASSUME WsInv, NEW w \in Both, Updates!Has(w)
    PROVE  Kept(updateWs[w])
  BY DEF WsInv, Updates!Has

LEMMA SetOne ==
    ASSUME WsInv, NEW v \in Both, NEW r
    PROVE  /\ Updates!With(v, r) = [w \in Both |-> Updates!With(v, r)[w]]
           /\ \A w \in Both : Updates!With(v, r)[w] = IF w = v THEN r ELSE updateWs[w]
  BY DEF WsInv, Updates!With

(* What an operation leaves: the function of the workspaces.                *)
FollowsAll(next, o) ==
  /\ next = [w \in Both |-> next[w]]
  /\ \A w \in Both : Follows(w, updateWs[w], next[w], o)

LEMMA SetFollows ==
    ASSUME WsInv, NEW o, NEW v \in Both, NEW r, Follows(v, updateWs[v], r, o)
    PROVE  FollowsAll(Updates!With(v, r), o)
  BY SetOne DEF FollowsAll, Follows

LEMMA UnchangedFollows == ASSUME WsInv, NEW o PROVE FollowsAll(updateWs, o)
  BY DEF WsInv, FollowsAll, Follows

LEMMA CreateFollows ==
    ASSUME WsInv, NEW o, o.kind = "create", o.id \in Both, o.tabs \in CapturedLists
    PROVE  FollowsAll(Updates!With(o.id, Updates!New("new", Updates!Sanitized(o.tabs))), o)
<1>1. o.tabs \in Seq(AnyTab)
  BY UpdatesApart DEF AnyTab
<1>2. Kept(Updates!New("new", Updates!Sanitized(o.tabs)))
  BY <1>1, SanitizedTabs, NewIsKept
<1> QED BY <1>2, SetFollows DEF Follows

LEMMA KeptByName ==
    ASSUME NEW r, Kept(r), NEW b \in BOOLEAN
    PROVE  /\ Kept([r EXCEPT !.name = "new"]) /\ [r EXCEPT !.name = "new"].tabs = r.tabs
           /\ [r EXCEPT !.name = "new"].rev = r.rev /\ [r EXCEPT !.name = "new"].snaps = r.snaps
           /\ Kept([r EXCEPT !.trashed = b]) /\ [r EXCEPT !.trashed = b].tabs = r.tabs
           /\ [r EXCEPT !.trashed = b].rev = r.rev /\ [r EXCEPT !.trashed = b].snaps = r.snaps
<1>1. r = [name |-> r.name, tabs |-> r.tabs, rev |-> r.rev, history |-> r.history, snaps |-> r.snaps,
           trashed |-> r.trashed]
  BY KeptFields
<1>2. [r EXCEPT !.name = "new"] = [name |-> "new", tabs |-> r.tabs, rev |-> r.rev, history |-> r.history,
                                   snaps |-> r.snaps, trashed |-> r.trashed]
  BY <1>1
<1>3. [r EXCEPT !.trashed = b] = [name |-> r.name, tabs |-> r.tabs, rev |-> r.rev, history |-> r.history,
                                  snaps |-> r.snaps, trashed |-> b]
  BY <1>1
<1> QED BY <1>2, <1>3 DEF Kept, Updates!Workspace

LEMMA AboutFollows ==
    ASSUME WsInv, NEW o, o.id \in Both
    PROVE  /\ FollowsAll(Updates!Named(o), o)
           /\ \A b \in BOOLEAN : FollowsAll(Updates!Trashed(o, b), o)
<1>1. FollowsAll(updateWs, o)
  BY UnchangedFollows
<1>2. ASSUME Updates!Has(o.id)
      PROVE  /\ Follows(o.id, updateWs[o.id], [updateWs[o.id] EXCEPT !.name = "new"], o)
             /\ \A b \in BOOLEAN : Follows(o.id, updateWs[o.id], [updateWs[o.id] EXCEPT !.trashed = b], o)
  <2>1. Kept(updateWs[o.id]) /\ updateWs[o.id] \notin {None, Gone}
    BY <1>2, HasIsKept DEF Updates!Has
  <2> DEFINE r == updateWs[o.id]
             skip == o.kind = "set-tabs" /\ o.skip
             named == [r EXCEPT !.name = "new"]
             trashed(b) == [r EXCEPT !.trashed = b]
  <2>2. r.snaps \in Nat /\ r.snaps >= r.snaps
    BY <2>1, KeptFields
  <2>3. Changed(r, named, skip)
    <3>1. Kept(named) /\ named.tabs = r.tabs /\ named.rev = r.rev /\ named.snaps = r.snaps
      BY <2>1, KeptByName
    <3> HIDE DEF named, r, skip
    <3> QED BY <2>1, <2>2, <3>1, SameTabs DEF r
  <2>4. \A b \in BOOLEAN : Changed(r, trashed(b), skip)
    <3> TAKE b \in BOOLEAN
    <3>1. Kept(trashed(b)) /\ trashed(b).tabs = r.tabs /\ trashed(b).rev = r.rev /\ trashed(b).snaps = r.snaps
      BY <2>1, KeptByName
    <3> HIDE DEF trashed, r, skip
    <3> QED BY <2>1, <2>2, <3>1, SameTabs DEF r
  <2> QED BY <2>1, <2>3, <2>4 DEF Follows
<1> QED BY <1>1, <1>2, SetFollows DEF Updates!Named, Updates!Trashed

LEMMA DeletedFollows ==
    ASSUME WsInv, NEW o, o.kind \in {"delete", "empty-trash"}, NEW S
    PROVE  FollowsAll(Updates!Deleted(S), o)
  BY DEF Updates!Deleted, Updates!Has, FollowsAll, Follows

LEMMA RemovedFollows ==
    ASSUME WsInv, NEW o, NEW v \in Both, Updates!Has(v), NEW S
    PROVE  /\ FollowsAll(Updates!RemovedAt(v, S), o)
           /\ \/ Updates!RemovedAt(v, S) = updateWs
              \/ /\ Updates!RemovedAt(v, S)[v].tabs = Updates!Rest(updateWs[v].tabs, S)
                 /\ S \cap DOMAIN updateWs[v].tabs # {}
<1>1. Kept(updateWs[v]) /\ updateWs[v] \notin {None, Gone} /\ updateWs[v].tabs \in Seq(UpdateTab)
  BY HasIsKept, KeptFields DEF Updates!Has
<1> DEFINE r == updateWs[v]
           n == Updates!Recorded(Updates!Replaced(r, Updates!Rest(r.tabs, S)), r.tabs)
<1>2. Updates!Rest(r.tabs, S) \in Seq(UpdateTab)
  BY <1>1, ChosenTabs
<1>3. Changed(r, n, o.kind = "set-tabs" /\ o.skip)
  BY <1>1, <1>2, RecordedChange
<1>4. FollowsAll(Updates!With(v, n), o)
  BY <1>1, <1>3, SetFollows DEF Follows
<1>5. n.tabs = Updates!Rest(r.tabs, S)
  BY <1>1, <1>2, RecordedChange
<1>6. Updates!With(v, n)[v] = n
  BY SetOne
<1>7. Updates!At(r.tabs, S) # <<>> => S \cap DOMAIN r.tabs # {}
  BY <1>1, ChosenTabs
<1>8. Updates!RemovedAt(v, S) = IF Updates!At(r.tabs, S) = <<>> THEN updateWs ELSE Updates!With(v, n)
  BY DEF Updates!RemovedAt
<1> HIDE DEF n, r
<1> QED BY <1>4, <1>5, <1>6, <1>7, <1>8, UnchangedFollows DEF r

LEMMA MovedFollows ==
    ASSUME WsInv, NEW o, o.sourceId \in Both, o.targetId \in Both, o.sourceId # o.targetId,
           Updates!Has(o.sourceId), Updates!Has(o.targetId)
    PROVE  /\ FollowsAll(Updates!Moved(o), o)
           /\ \/ Updates!Moved(o) = updateWs
              \/ /\ Updates!Moved(o)[o.sourceId].tabs = Updates!Rest(updateWs[o.sourceId].tabs, o.tabIndexes)
                 /\ Updates!Moved(o)[o.targetId].tabs =
                      updateWs[o.targetId].tabs \o Updates!At(updateWs[o.sourceId].tabs, o.tabIndexes)
<1> DEFINE source == updateWs[o.sourceId]
           target == updateWs[o.targetId]
           moving == Updates!At(source.tabs, o.tabIndexes)
           s == Updates!Recorded(Updates!Replaced(source, Updates!Rest(source.tabs, o.tabIndexes)), source.tabs)
           t == Updates!Recorded(Updates!Replaced(target, target.tabs \o moving), target.tabs)
           next == [updateWs EXCEPT ![o.sourceId] = s, ![o.targetId] = t]
<1>1. /\ Kept(source) /\ Kept(target) /\ source.tabs \in Seq(UpdateTab) /\ target.tabs \in Seq(UpdateTab)
      /\ source \notin {None, Gone} /\ target \notin {None, Gone}
  BY HasIsKept, KeptFields DEF Updates!Has
<1>2. Updates!Rest(source.tabs, o.tabIndexes) \in Seq(UpdateTab) /\ moving \in Seq(UpdateTab)
  BY <1>1, ChosenTabs
<1>3. target.tabs \o moving \in Seq(UpdateTab)
  BY <1>1, <1>2, ConcatProperties
<1>4. Changed(source, s, o.kind = "set-tabs" /\ o.skip) /\ s.tabs = Updates!Rest(source.tabs, o.tabIndexes)
  BY <1>1, <1>2, RecordedChange
<1>5. Changed(target, t, o.kind = "set-tabs" /\ o.skip) /\ t.tabs = target.tabs \o moving
  BY <1>1, <1>3, RecordedChange
<1>6. Updates!Moved(o) = IF moving = <<>> THEN updateWs ELSE next
  BY DEF Updates!Moved
<1> HIDE DEF s, t, moving
<1>7. FollowsAll(next, o) /\ next[o.sourceId] = s /\ next[o.targetId] = t
  <2>1. next = [w \in Both |-> next[w]]
    BY DEF WsInv
  <2>2. next[o.sourceId] = s /\ next[o.targetId] = t
    BY DEF WsInv
  <2>3. \A w \in Both : w # o.sourceId /\ w # o.targetId => next[w] = updateWs[w]
    BY DEF WsInv
  <2> HIDE DEF next
  <2> QED BY <1>1, <1>4, <1>5, <2>1, <2>2, <2>3 DEF FollowsAll, Follows
<1> HIDE DEF next
<1> QED BY <1>4, <1>5, <1>6, <1>7, UnchangedFollows DEF moving

LEMMA IndexFound ==
    ASSUME NEW tabs \in Seq(UpdateTab), NEW locator
    PROVE  Updates!Found(tabs, locator) = 0 \/ Updates!Found(tabs, locator) \in DOMAIN tabs
<1> DEFINE I == {i \in 1 .. Len(tabs) : tabs[i].url = locator.url}
<1>1. I \subseteq Nat /\ I \subseteq DOMAIN tabs
  OBVIOUS
<1>2. Updates!SelectInSeq(tabs, LAMBDA t : t.url = locator.url) = IF I # {} THEN Updates!Min(I) ELSE 0
  BY DEF Updates!SelectInSeq
<1> HIDE DEF I
<1>3. I # {} => Updates!Min(I) \in I
  BY <1>1, FirstFound
<1>4. Updates!SelectInSeq(tabs, LAMBDA t : t.url = locator.url) \in {0} \cup DOMAIN tabs
  BY <1>1, <1>2, <1>3
<1> QED BY <1>4 DEF Updates!Found

LEMMA IndexOrNone ==
    ASSUME NEW tabs, NEW locator, "index" \in DOMAIN locator
    PROVE  Updates!Found(tabs, locator) \in {0, locator.index}
  BY DEF Updates!Found, Updates!IsIndex

LEMMA SnapshotFound ==
    ASSUME NEW history \in Seq(Snapshot), NEW id
    PROVE  LET n == Updates!SelectInSeq(history, LAMBDA h : h.id = id) IN n = 0 \/ n \in DOMAIN history
<1> DEFINE I == {i \in 1 .. Len(history) : history[i].id = id}
<1>1. I \subseteq Nat /\ I \subseteq DOMAIN history
  OBVIOUS
<1>2. Updates!SelectInSeq(history, LAMBDA h : h.id = id) = IF I # {} THEN Updates!Min(I) ELSE 0
  BY DEF Updates!SelectInSeq
<1> HIDE DEF I
<1>3. I # {} => Updates!Min(I) \in I
  BY <1>1, FirstFound
<1> QED BY <1>1, <1>2, <1>3

Stripped(history, url) ==
  [n \in DOMAIN history |-> [history[n] EXCEPT !.tabs = Updates!Where(@, LAMBDA t : t.url # url)]]

LEMMA StrippedHistory ==
    ASSUME NEW history \in Seq(Snapshot), NEW url
    PROVE  /\ Stripped(history, url) \in Seq(Snapshot) /\ Len(Stripped(history, url)) = Len(history)
           /\ \A n \in DOMAIN history : Stripped(history, url)[n].id = history[n].id
<1> DEFINE left(tabs) == Updates!At(tabs, {i \in DOMAIN tabs : tabs[i].url # url})
           short(h) == [h EXCEPT !.tabs = left(@)]
           stripped == [n \in 1 .. Len(history) |-> short(history[n])]
<1>1. \A tabs : Updates!Where(tabs, LAMBDA t : t.url # url) = left(tabs)
  BY DEF Updates!Where
<1>2. \A tabs \in Seq(SnapTab) : left(tabs) \in Seq(SnapTab)
  BY ChosenTabs
<1>3. DOMAIN history = 1 .. Len(history) /\ Len(history) \in Nat
  OBVIOUS
<1> HIDE DEF left
<1>4. \A h \in Snapshot : short(h) \in Snapshot /\ short(h).id = h.id
  BY <1>2 DEF Snapshot
<1>5. \A n \in 1 .. Len(history) : history[n] \in Snapshot
  BY ElementOfSeq
<1>6. Stripped(history, url) = stripped
  BY <1>1, <1>3 DEF Stripped
<1> HIDE DEF short
<1>7. \A n \in 1 .. Len(history) : short(history[n]) \in Snapshot
  BY <1>4, <1>5
<1>8. stripped \in Seq(Snapshot)
  BY <1>3, <1>7, IsASeq
<1>9. Len(stripped) = Len(history) /\ \A n \in DOMAIN history : stripped[n].id = history[n].id
  BY <1>3, <1>4, <1>5, <1>8
<1> HIDE DEF stripped
<1> QED BY <1>6, <1>8, <1>9

LEMMA ExcludedFollows ==
    ASSUME WsInv, NEW o, o.workspaceId \in Both, o.excluded \in BOOLEAN, Updates!Has(o.workspaceId)
    PROVE  LET r == updateWs[o.workspaceId]
               i == Updates!Found(r.tabs, o.tabIndexOrUrl)
           IN  /\ FollowsAll(Updates!Excluded(o), o)
               /\ \/ Updates!Excluded(o) = updateWs
                  \/ /\ i \in DOMAIN r.tabs
                     /\ Updates!Excluded(o)[o.workspaceId].tabs = [r.tabs EXCEPT ![i].excluded = o.excluded]
<1> DEFINE r == updateWs[o.workspaceId]
           i == Updates!Found(r.tabs, o.tabIndexOrUrl)
           tabs == [r.tabs EXCEPT ![i].excluded = o.excluded]
           stripped == Stripped(r.history, r.tabs[i].url)
           m == Updates!Replaced(r, tabs)
           next == [m EXCEPT !.history = IF o.excluded THEN stripped ELSE @]
           skip == o.kind = "set-tabs" /\ o.skip
<1>1. /\ Kept(r) /\ r \notin {None, Gone} /\ r.tabs \in Seq(UpdateTab) /\ r.rev \in Nat /\ r.snaps \in Nat
      /\ r.history \in Seq(Snapshot)
  BY HasIsKept, KeptFields DEF Updates!Has
<1>2. i = 0 \/ i \in DOMAIN r.tabs
  BY <1>1, IndexFound
<1> HIDE DEF r, i
<1>0. Updates!Excluded(o) =
        IF i = 0 \/ r.tabs[i].excluded = o.excluded THEN updateWs ELSE Updates!With(o.workspaceId, next)
  BY DEF Updates!Excluded, Stripped, r, i
<1>3. CASE i = 0 \/ r.tabs[i].excluded = o.excluded
  BY <1>0, <1>3, UnchangedFollows
<1>a. SUFFICES ASSUME i # 0, r.tabs[i].excluded # o.excluded
               PROVE  /\ FollowsAll(Updates!With(o.workspaceId, next), o) /\ i \in DOMAIN r.tabs
                      /\ Updates!With(o.workspaceId, next)[o.workspaceId].tabs = tabs
  <2> HIDE DEF next
  <2> QED BY <1>0, <1>3 DEF r, i
<1>4. tabs \in Seq(UpdateTab) /\ DOMAIN tabs = DOMAIN r.tabs /\ \A k \in DOMAIN r.tabs : tabs[k].url = r.tabs[k].url
  <2>1. i \in DOMAIN r.tabs
    BY <1>2, <1>a
  <2>2. \A k \in DOMAIN r.tabs : r.tabs[k] \in UpdateTab
    BY <1>1, ElementOfSeq
  <2>3. [r.tabs[i] EXCEPT !.excluded = o.excluded] \in UpdateTab
    BY <2>1, <2>2 DEF UpdateTab
  <2>4. tabs = [r.tabs EXCEPT ![i] = [r.tabs[i] EXCEPT !.excluded = o.excluded]]
    OBVIOUS
  <2>5. tabs \in Seq(UpdateTab)
    BY <1>1, <2>1, <2>3, <2>4
  <2>6. [r.tabs[i] EXCEPT !.excluded = o.excluded].url = r.tabs[i].url
    BY <2>1, <2>2 DEF UpdateTab
  <2> QED BY <2>4, <2>5, <2>6
<1> HIDE DEF tabs
<1>5. /\ Kept(m) /\ m.tabs = tabs /\ m.history = r.history /\ m.snaps = r.snaps
      /\ m.rev = IF tabs = r.tabs THEN r.rev ELSE r.rev + 1
  BY <1>1, <1>4, ReplacedTabs
<1> HIDE DEF m
<1>6. stripped \in Seq(Snapshot) /\ Len(stripped) = Len(r.history) /\ \A n \in DOMAIN r.history : stripped[n].id = r.history[n].id
  BY <1>1, StrippedHistory
<1> HIDE DEF stripped
<1>7. Kept(next) /\ next.tabs = tabs /\ next.snaps = r.snaps /\ next.rev = m.rev
  <2>1. m = [name |-> m.name, tabs |-> m.tabs, rev |-> m.rev, history |-> m.history, snaps |-> m.snaps,
             trashed |-> m.trashed]
    BY <1>5, KeptFields
  <2>2. next = [name |-> m.name, tabs |-> tabs, rev |-> m.rev,
                history |-> IF o.excluded THEN stripped ELSE r.history, snaps |-> r.snaps, trashed |-> m.trashed]
    BY <1>5, <2>1
  <2>3. Kept(next)
    <3>1. next \in Updates!Workspace
      BY <1>1, <1>4, <1>5, <1>6, <2>2, KeptFields DEF Updates!Workspace, UpdateTab, SnapTab, Snapshot
    <3>2. Len(next.history) <= HistorySize
      BY <1>1, <1>6, <2>2 DEF Kept
    <3>3. \A a, b \in DOMAIN next.history :
            next.history[a].id < next.snaps /\ (next.history[a].id = next.history[b].id => a = b)
      <4>1. DOMAIN stripped = DOMAIN r.history
        BY <1>1, <1>6
      <4>2. \A a, b \in DOMAIN r.history :
              r.history[a].id < r.snaps /\ (r.history[a].id = r.history[b].id => a = b)
        BY <1>1 DEF Kept
      <4>3. \A a, b \in DOMAIN stripped : stripped[a].id < r.snaps /\ (stripped[a].id = stripped[b].id => a = b)
        BY <1>6, <4>1, <4>2
      <4>4. next.snaps = r.snaps /\ next.history = IF o.excluded THEN stripped ELSE r.history
        BY <2>2
      <4> HIDE DEF next
      <4> QED BY <4>2, <4>3, <4>4
    <3> QED BY <3>1, <3>2, <3>3 DEF Kept
  <2> QED BY <2>2, <2>3
<1> HIDE DEF next
<1>8. Changed(r, next, skip)
  <2>1. Remembers(r, next)
    <3>1. r.tabs \in Seq(UpdateTab)
      BY <1>1, KeptFields
    <3>2. DOMAIN tabs = DOMAIN r.tabs /\ \A k \in DOMAIN r.tabs : tabs[k].url = r.tabs[k].url
      BY <1>4
    <3>3. \A u \in SafeUrls :
            Updates!OfOrigin(r.tabs, OriginOf[u]) <=
              Updates!Cardinality({k \in DOMAIN tabs : OriginOf[tabs[k].url] = OriginOf[u]})
      BY <1>4, <3>1, <3>2, PagesStay
    <3> QED BY <1>7, <3>3 DEF Remembers
  <2>2. r.snaps \in Nat /\ r.rev \in Nat
    BY <1>1 DEF Kept, Updates!Workspace
  <2>3. next.rev >= r.rev /\ (tabs # r.tabs => next.rev > r.rev)
    BY <1>5, <1>7, <2>2
  <2>4. next.snaps >= r.snaps
    BY <1>7, <2>2
  <2> QED BY <1>7, <2>1, <2>3, <2>4 DEF Changed
<1>9. FollowsAll(Updates!With(o.workspaceId, next), o)
  BY <1>1, <1>8, SetFollows DEF Follows, r
<1>10. Updates!With(o.workspaceId, next)[o.workspaceId] = next
  BY SetOne
<1> QED BY <1>2, <1>a, <1>7, <1>9, <1>10

LEMMA RestoredFollows ==
    ASSUME WsInv, NEW o, o.workspaceId \in Both, Updates!Has(o.workspaceId)
    PROVE  FollowsAll(Updates!Restored(o), o)
<1> DEFINE r == updateWs[o.workspaceId]
           n == Updates!SelectInSeq(r.history, LAMBDA h : h.id = o.snapshotId)
           m == Updates!Recorded(r, r.tabs)
           next == Updates!Replaced(m, r.history[n].tabs)
           skip == o.kind = "set-tabs" /\ o.skip
<1>1. /\ Kept(r) /\ r \notin {None, Gone} /\ r.tabs \in Seq(UpdateTab) /\ r.rev \in Nat /\ r.snaps \in Nat
      /\ r.history \in Seq(Snapshot)
  BY HasIsKept, KeptFields DEF Updates!Has
<1>2. n = 0 \/ n \in DOMAIN r.history
  BY <1>1, SnapshotFound DEF Updates!SelectInSeq
<1> HIDE DEF r, n
<1>3. SUFFICES ASSUME n # 0 PROVE FollowsAll(Updates!With(o.workspaceId, next), o)
  BY UnchangedFollows DEF Updates!Restored, r, n
<1>4. r.history[n].tabs \in Seq(UpdateTab)
  <2>1. r.history[n] \in Snapshot
    BY <1>1, <1>2, <1>3, ElementOfSeq
  <2> QED BY <2>1, SnapTabsAreTabs DEF Snapshot
<1>5. /\ Kept(m) /\ m.tabs = r.tabs /\ m.rev = r.rev /\ m.snaps = r.snaps + 1
      /\ m.history # <<>> /\ m.history[1].tabs = Updates!Recordable(r.tabs)
  BY <1>1, RecordedTabs
<1> HIDE DEF m
<1>6. /\ Kept(next) /\ next.tabs = r.history[n].tabs /\ next.history = m.history /\ next.snaps = m.snaps
      /\ next.rev = IF r.history[n].tabs = m.tabs THEN m.rev ELSE m.rev + 1
  BY <1>4, <1>5, ReplacedTabs
<1> HIDE DEF next
<1>7. Changed(r, next, skip)
  BY <1>1, <1>5, <1>6 DEF Changed, Remembers
<1> QED BY <1>1, <1>7, SetFollows DEF Follows, r

(* A list that is set, by a request or by the autosave.                     *)
LEMMA PutFollows ==
    ASSUME WsInv, NEW o, NEW v \in Both, Updates!Has(v), NEW tabs \in CapturedLists, NEW skip,
           skip => o.kind = "set-tabs" /\ o.skip
    PROVE  FollowsAll(Updates!Put(v, tabs, skip), o)
<1> DEFINE r == updateWs[v]
           list == Updates!Sanitized(tabs)
           next == Updates!Replaced(r, list)
           both == Updates!Recorded(next, r.tabs)
           leave == o.kind = "set-tabs" /\ o.skip
<1>1. Kept(r) /\ r \notin {None, Gone} /\ r.tabs \in Seq(UpdateTab) /\ r.rev \in Nat /\ r.snaps \in Nat
  BY HasIsKept, KeptFields DEF Updates!Has
<1>2. list \in Seq(UpdateTab)
  BY SanitizedTabs, UpdatesApart DEF AnyTab
<1>3. Changed(r, both, leave)
  BY <1>1, <1>2, RecordedChange
<1>4. /\ Kept(next) /\ next.tabs = list /\ next.history = r.history /\ next.snaps = r.snaps
      /\ next.rev = IF list = r.tabs THEN r.rev ELSE r.rev + 1
  BY <1>1, <1>2, ReplacedTabs
<1>5. \/ Updates!Put(v, tabs, skip) = updateWs
      \/ Updates!Put(v, tabs, skip) = Updates!With(v, both)
      \/ Updates!Put(v, tabs, skip) = Updates!With(v, next) /\ (skip \/ ~Updates!Structural(r.tabs, next.tabs))
  BY DEF Updates!Put
<1> HIDE DEF r, list, next, both
<1>6. ~Updates!Structural(r.tabs, next.tabs) => Remembers(r, next)
  <2> HAVE ~Updates!Structural(r.tabs, next.tabs)
  <2>1. \A u \in SafeUrls : Updates!OfOrigin(r.tabs, OriginOf[u]) = Updates!OfOrigin(list, OriginOf[u])
    BY <1>4 DEF Updates!Structural
  <2>2. \A u : Updates!OfOrigin(list, OriginOf[u]) <= Updates!Cardinality({i \in DOMAIN list : OriginOf[list[i].url] = OriginOf[u]})
    BY <1>2, PagesStay
  <2> QED BY <1>4, <2>1, <2>2 DEF Remembers
<1>7. skip \/ ~Updates!Structural(r.tabs, next.tabs) => Changed(r, next, leave)
  BY <1>1, <1>4, <1>6 DEF Changed
<1>8. FollowsAll(Updates!With(v, both), o)
  BY <1>1, <1>3, SetFollows DEF Follows, r
<1>9. skip \/ ~Updates!Structural(r.tabs, next.tabs) => FollowsAll(Updates!With(v, next), o)
  BY <1>1, <1>7, SetFollows DEF Follows, r
<1> QED BY <1>5, <1>8, <1>9, UnchangedFollows

LEMMA RecordedFollows ==
    ASSUME WsInv, NEW o, NEW v \in Both, Updates!Has(v)
    PROVE  FollowsAll(Updates!With(v, Updates!Recorded(updateWs[v], updateWs[v].tabs)), o)
<1> DEFINE r == updateWs[v]
           m == Updates!Recorded(r, r.tabs)
<1>1. Kept(r) /\ r \notin {None, Gone} /\ r.tabs \in Seq(UpdateTab) /\ r.rev \in Nat /\ r.snaps \in Nat
  BY HasIsKept, KeptFields DEF Updates!Has
<1> HIDE DEF r
<1>2. /\ Kept(m) /\ m.tabs = r.tabs /\ m.rev = r.rev /\ m.snaps = r.snaps + 1
      /\ m.history # <<>> /\ m.history[1].tabs = Updates!Recordable(r.tabs)
  BY <1>1, RecordedTabs
<1> HIDE DEF m
<1>3. Changed(r, m, o.kind = "set-tabs" /\ o.skip)
  BY <1>1, <1>2 DEF Changed, Remembers
<1>4. FollowsAll(Updates!With(v, m), o)
  BY <1>1, <1>3, SetFollows DEF Follows, r
<1> QED BY <1>4 DEF m, r

(* Every request leaves the workspaces as it may.                           *)
LEMMA AppliedFollows ==
    ASSUME WsInv, NEW o, Request(o)
    PROVE  FollowsAll(Updates!Applied(o), o)
<1>1. CASE o.kind = "create"
  BY <1>1, CreateFollows DEF Request, AboutOne, Updates!Applied
<1>2. CASE o.kind = "rename" /\ o.id \in Both
  BY <1>2, AboutFollows DEF Updates!Applied
<1>3. CASE o.kind \in {"trash", "restore"} /\ o.id \in Both
  BY <1>3, AboutFollows DEF Updates!Applied
<1>4. CASE o.kind \in {"delete", "empty-trash"}
  <2>1. Updates!Applied(o) = Updates!Deleted({o.id}) \/ Updates!Applied(o) = Updates!Deleted(Updates!InTrash)
    BY <1>4 DEF Updates!Applied
  <2>2. FollowsAll(Updates!Deleted({o.id}), o) /\ FollowsAll(Updates!Deleted(Updates!InTrash), o)
    BY <1>4, DeletedFollows
  <2> QED BY <2>1, <2>2
<1>5. CASE o.kind = "move-tabs"
  <2>1. o.sourceId \in Both /\ o.targetId \in Both /\ o.sourceId # o.targetId
    BY <1>5 DEF Request, AboutOne
  <2>2. Updates!Applied(o) = IF Updates!Has(o.sourceId) /\ Updates!Has(o.targetId) THEN Updates!Moved(o) ELSE updateWs
    BY <1>5 DEF Updates!Applied
  <2> QED BY <2>1, <2>2, MovedFollows, UnchangedFollows
<1>6. CASE /\ o.kind \in {"restore-snapshot", "snapshot", "remove-tab", "remove-tab-indexes", "exclude-tab", "set-tabs"}
           /\ o.workspaceId \in Both
  <2>1. Updates!Applied(o) = IF Updates!Has(o.workspaceId) THEN Updates!Edited(o) ELSE updateWs
    BY <1>6 DEF Updates!Applied
  <2>2. SUFFICES ASSUME Updates!Has(o.workspaceId) PROVE FollowsAll(Updates!Edited(o), o)
    BY <2>1, UnchangedFollows
  <2>3. CASE o.kind = "exclude-tab"
    <3>1. o.excluded \in BOOLEAN
      BY <2>3 DEF Request, AboutOne
    <3>2. Updates!Edited(o) = Updates!Excluded(o)
      BY <2>3 DEF Updates!Edited
    <3> QED BY <1>6, <2>2, <3>1, <3>2, ExcludedFollows
  <2>4. CASE o.kind = "remove-tab"
    BY <1>6, <2>2, <2>4, RemovedFollows DEF Updates!Edited
  <2>5. CASE o.kind = "remove-tab-indexes"
    BY <1>6, <2>2, <2>5, RemovedFollows DEF Updates!Edited
  <2>6. CASE o.kind = "restore-snapshot"
    BY <1>6, <2>2, <2>6, RestoredFollows DEF Updates!Edited
  <2>7. CASE o.kind = "snapshot"
    BY <1>6, <2>2, <2>7, RecordedFollows DEF Updates!Edited
  <2>8. CASE o.kind = "set-tabs"
    <3>1. o.tabs \in CapturedLists
      BY <2>8 DEF Request, AboutOne
    <3>2. Updates!Edited(o) = Updates!Put(o.workspaceId, o.tabs, o.skip)
      BY <2>8 DEF Updates!Edited
    <3> QED BY <1>6, <2>2, <2>8, <3>1, <3>2, PutFollows
  <2> QED BY <1>6, <2>3, <2>4, <2>5, <2>6, <2>7, <2>8
<1> QED BY <1>1, <1>2, <1>3, <1>4, <1>5, <1>6 DEF Request, AboutOne

-----------------------------------------------------------------------------
(* What holds of the workspaces, of a write that will be undone, of the     *)
(* requests on their way and of the page.  What was seen of a workspace is  *)
(* an earlier revision of it, or the list it has.                           *)
WasSeen(w, rev, tabs) ==
  /\ updateWs[w] # None
  /\ Updates!Has(w) => /\ rev <= updateWs[w].rev
                       /\ rev = updateWs[w].rev => tabs = updateWs[w].tabs

UndoInv ==
  \A u \in updateUndo :
    /\ DOMAIN u \subseteq Both
    /\ \A w \in DOMAIN u :
         /\ updateWs[w] # None /\ Kept(u[w].before)
         /\ Updates!Has(w) => u[w].before.snaps <= updateWs[w].snaps

InboxInv ==
  /\ \A m \in updateInbox :
       /\ Request(m.op)
       /\ m.op.kind = "create" => updateWs[m.op.id] = None
       /\ Updates!ByIndex(m) => WasSeen(Updates!Subject(m.op), m.op.expectedTabsRevision, m.saw)
  /\ \A m, n \in updateInbox : m.op.kind = "create" /\ n.op.kind = "create" => m = n

View(p) ==
  /\ p = [ws |-> p.ws, tabs |-> p.tabs, rev |-> p.rev, picked |-> p.picked, dragged |-> p.dragged,
          anchor |-> p.anchor, saw |-> p.saw]
  /\ p.ws \in Both /\ p.rev \in Nat /\ p.tabs \in Seq(UpdateTab)
  /\ p.picked \subseteq DOMAIN p.tabs /\ p.dragged \subseteq DOMAIN p.tabs
  /\ p.anchor \in 0 .. Len(p.tabs)
  /\ p.picked \cup p.dragged # {} => p.saw = p.tabs

ViewInv ==
  updatePage # None => View(updatePage) /\ WasSeen(updatePage.ws, updatePage.rev, updatePage.tabs)

UpdatesInv == WsInv /\ UndoInv /\ InboxInv /\ ViewInv /\ updateBusy \subseteq Both

(* The three properties, of a step.                                         *)
RevisionStep ==
  \A w \in Both : Updates!Stays(w) =>
    /\ updateWs'[w].rev >= updateWs[w].rev
    /\ updateWs'[w].tabs # updateWs[w].tabs => updateWs'[w].rev > updateWs[w].rev

AsChosen(m) ==
    LET w == Updates!Subject(m.op) IN
    \/ /\ m.op.kind = "exclude-tab"
       /\ updateWs'[w].tabs = [m.saw EXCEPT ![m.op.tabIndexOrUrl.index].excluded = m.op.excluded]
    \/ /\ m.op.kind # "exclude-tab"
       /\ updateWs'[w].tabs = Updates!Rest(m.saw, Updates!Chose(m))
       /\ m.op.kind = "move-tabs" =>
            updateWs'[m.op.targetId].tabs = updateWs[m.op.targetId].tabs \o Updates!At(m.saw, Updates!Chose(m))

ChosenStep ==
  \A m \in updateInbox \ updateInbox' : Updates!ByIndex(m) =>
    \/ \A v \in Both : Updates!Has(v) => updateWs'[v].tabs = updateWs[v].tabs
    \/ AsChosen(m)

DroppedStep ==
  \A w \in Both : Updates!Stays(w) =>
    \/ \A u \in SafeUrls : Updates!OfOrigin(updateWs[w].tabs, OriginOf[u]) <=
         Updates!Cardinality({i \in DOMAIN updateWs'[w].tabs : OriginOf[updateWs'[w].tabs[i].url] = OriginOf[u]})
    \/ \E u \in updateUndo \ updateUndo' : w \in DOMAIN u /\ Updates!Owns(w, u[w].after)
    \/ \E m \in updateInbox \ updateInbox' : m.op.kind = "set-tabs" /\ m.op.skip
    \/ updateWs'[w].history # <<>> /\ updateWs'[w].history[1].tabs = Updates!Recordable(updateWs[w].tabs)

UndoStep ==
  \A u \in updateUndo \ updateUndo' :
    \/ \A w \in DOMAIN u : Updates!Has(w) => updateWs'[w] = updateWs[w]
    \/ \A w \in DOMAIN u : Updates!Has(w) /\ updateWs'[w].tabs = u[w].before.tabs
                           /\ updateWs'[w].history = u[w].before.history

(* A workspace goes on: its list changes under a later revision, its        *)
(* snapshots are counted on, or it is deleted for good.                     *)
Later(old, new) ==
  \/ new = old
  \/ old \notin {None, Gone} /\ new = Gone
  \/ /\ old \notin {None, Gone} /\ Kept(new) /\ new.rev >= old.rev /\ new.snaps >= old.snaps
     /\ new.tabs # old.tabs => new.rev > old.rev

GoesOn == \A w \in Both : updateWs[w] # None => Later(updateWs[w], updateWs'[w])

LEMMA SeenStays ==
    ASSUME WsInv, GoesOn, NEW w \in Both, NEW rev \in Nat, NEW tabs, WasSeen(w, rev, tabs)
    PROVE  WasSeen(w, rev, tabs)'
<1>1. Later(updateWs[w], updateWs'[w])
  BY DEF GoesOn, WasSeen
<1>2. CASE updateWs'[w] = updateWs[w]
  BY <1>2 DEF WasSeen, Updates!Has
<1>3. CASE updateWs[w] \notin {None, Gone} /\ updateWs'[w] = Gone
  BY <1>3, UpdatesApart DEF WasSeen, Updates!Has
<1>4. CASE /\ updateWs[w] \notin {None, Gone} /\ Kept(updateWs'[w]) /\ updateWs'[w].rev >= updateWs[w].rev
           /\ updateWs'[w].snaps >= updateWs[w].snaps
           /\ updateWs'[w].tabs # updateWs[w].tabs => updateWs'[w].rev > updateWs[w].rev
  <2>1. Kept(updateWs[w])
    BY <1>4 DEF WsInv
  <2>2. updateWs[w].rev \in Nat /\ updateWs'[w].rev \in Nat /\ updateWs'[w] \notin {None, Gone}
    BY <1>4, <2>1, KeptFields
  <2> QED BY <1>4, <2>2 DEF WasSeen, Updates!Has
<1> QED BY <1>1, <1>2, <1>3, <1>4 DEF Later

LEMMA ViewStays ==
    ASSUME UpdatesInv, GoesOn, UNCHANGED updatePage
    PROVE  ViewInv'
<1>1. updatePage # None => /\ View(updatePage) /\ updatePage.ws \in Both /\ updatePage.rev \in Nat
                           /\ WasSeen(updatePage.ws, updatePage.rev, updatePage.tabs)
  BY DEF UpdatesInv, ViewInv, View
<1>2. ASSUME updatePage # None PROVE WasSeen(updatePage.ws, updatePage.rev, updatePage.tabs)'
  <2> PICK p : p = updatePage
    OBVIOUS
  <2>1. WsInv /\ p.ws \in Both /\ p.rev \in Nat /\ WasSeen(p.ws, p.rev, p.tabs)
    BY <1>1, <1>2 DEF UpdatesInv
  <2>2. WasSeen(p.ws, p.rev, p.tabs)'
    BY <2>1, SeenStays
  <2> QED BY <2>2 DEF WasSeen
<1> QED BY <1>1, <1>2 DEF ViewInv, View

(* What an undo would put back stays older than the workspace.              *)
LEMMA UndoStays ==
    ASSUME UpdatesInv, WsInv', GoesOn, NEW u \in updateUndo, NEW w \in DOMAIN u
    PROVE  /\ w \in Both /\ updateWs'[w] # None /\ Kept(u[w].before)
           /\ Updates!Has(w)' => u[w].before.snaps <= updateWs'[w].snaps
<1> PICK r : r = u[w].before
  OBVIOUS
<1>1. /\ w \in Both /\ updateWs[w] # None /\ Kept(r) /\ WsInv
      /\ Updates!Has(w) => r.snaps <= updateWs[w].snaps
  BY DEF UpdatesInv, UndoInv
<1>2. Later(updateWs[w], updateWs'[w]) /\ r.snaps \in Nat
  BY <1>1, KeptFields DEF GoesOn
<1>3. CASE updateWs'[w] = updateWs[w]
  BY <1>1, <1>3 DEF Updates!Has
<1>4. CASE updateWs'[w] = Gone
  BY <1>1, <1>4, UpdatesApart DEF Updates!Has
<1>5. CASE /\ updateWs[w] \notin {None, Gone} /\ Kept(updateWs'[w]) /\ updateWs'[w].snaps >= updateWs[w].snaps
  <2>1. Kept(updateWs[w])
    BY <1>1, <1>5 DEF WsInv
  <2>2. updateWs[w].snaps \in Nat /\ updateWs'[w].snaps \in Nat /\ updateWs'[w] \notin {None, Gone}
    BY <1>5, <2>1, KeptFields
  <2> QED BY <1>1, <1>2, <1>5, <2>2 DEF Updates!Has
<1> QED BY <1>2, <1>3, <1>4, <1>5 DEF Later

LEMMA SubjectThere ==
    ASSUME NEW m, Request(m.op), Updates!ByIndex(m)
    PROVE  Updates!Subject(m.op) \in Both /\ m.op.expectedTabsRevision \in Nat
  BY DEF Request, AboutOne, ByIndexes, Updates!ByIndex, Updates!Subject

LEMMA InboxStays ==
    ASSUME UpdatesInv, GoesOn, updateInbox' \subseteq updateInbox,
           \A m \in updateInbox' : m.op.kind = "create" => updateWs'[m.op.id] = None
    PROVE  InboxInv'
<1>1. ASSUME NEW m \in updateInbox'
      PROVE  /\ Request(m.op)
             /\ Updates!ByIndex(m) => WasSeen(Updates!Subject(m.op), m.op.expectedTabsRevision, m.saw)'
  <2>1. /\ Request(m.op) /\ WsInv
        /\ Updates!ByIndex(m) => WasSeen(Updates!Subject(m.op), m.op.expectedTabsRevision, m.saw)
    BY DEF UpdatesInv, InboxInv
  <2>2. ASSUME Updates!ByIndex(m) PROVE WasSeen(Updates!Subject(m.op), m.op.expectedTabsRevision, m.saw)'
    <3>1. PICK w, rev, tabs : w = Updates!Subject(m.op) /\ rev = m.op.expectedTabsRevision /\ tabs = m.saw
      OBVIOUS
    <3>2. w \in Both /\ rev \in Nat /\ WasSeen(w, rev, tabs)
      BY <2>1, <2>2, <3>1, SubjectThere
    <3>3. WasSeen(w, rev, tabs)'
      BY <2>1, <3>2, SeenStays
    <3> QED BY <3>1, <3>3
  <2> QED BY <2>1, <2>2
<1>2. \A m, n \in updateInbox' : m.op.kind = "create" /\ n.op.kind = "create" => m = n
  BY DEF UpdatesInv, InboxInv
<1> QED BY <1>1, <1>2 DEF InboxInv

LEMMA FollowsStep ==
    ASSUME UpdatesInv, NEW o, FollowsAll(updateWs', o), o.kind = "create" => updateWs[o.id] = None,
           \/ ~(o.kind = "set-tabs" /\ o.skip)
           \/ \E m \in updateInbox \ updateInbox' : m.op.kind = "set-tabs" /\ m.op.skip
    PROVE  WsInv' /\ GoesOn /\ RevisionStep /\ DroppedStep
<1>1. WsInv
  BY DEF UpdatesInv
<1>2. \A w \in Both : Follows(w, updateWs[w], updateWs'[w], o)
  BY DEF FollowsAll
<1>3. ASSUME NEW w \in Both
      PROVE  /\ updateWs'[w] \in {None, Gone} \/ Kept(updateWs'[w])
             /\ updateWs[w] # None => Later(updateWs[w], updateWs'[w])
             /\ Updates!Has(w) /\ updateWs'[w] # Gone =>
                  \/ updateWs'[w] = updateWs[w]
                  \/ Changed(updateWs[w], updateWs'[w], o.kind = "set-tabs" /\ o.skip)
  <2>1. updateWs[w] \in {None, Gone} \/ Kept(updateWs[w])
    BY <1>1 DEF WsInv
  <2>2. Follows(w, updateWs[w], updateWs'[w], o)
    BY <1>2
  <2> QED BY <2>1, <2>2 DEF Follows, Changed, Later, Updates!Has
<1>4. WsInv'
  BY <1>3 DEF FollowsAll, WsInv
<1>5. GoesOn
  BY <1>3 DEF GoesOn
<1>6. ASSUME NEW w \in Both, Updates!Stays(w)
      PROVE  /\ updateWs'[w].rev >= updateWs[w].rev
             /\ updateWs'[w].tabs # updateWs[w].tabs => updateWs'[w].rev > updateWs[w].rev
             /\ \/ \E m \in updateInbox \ updateInbox' : m.op.kind = "set-tabs" /\ m.op.skip
                \/ Remembers(updateWs[w], updateWs'[w])
  <2>1. Kept(updateWs[w]) /\ Updates!Has(w) /\ updateWs'[w] # Gone
    BY <1>1, <1>6, HasIsKept DEF Updates!Stays
  <2>2. updateWs[w].rev \in Nat /\ updateWs[w].snaps \in Nat
    BY <2>1, KeptFields
  <2>3. Changed(updateWs[w], updateWs[w], o.kind = "set-tabs" /\ o.skip)
    <3> PICK r : r = updateWs[w]
      OBVIOUS
    <3>1. r.snaps >= r.snaps /\ Kept(r)
      BY <2>1, <2>2
    <3>2. Changed(r, r, o.kind = "set-tabs" /\ o.skip)
      BY <3>1, SameTabs
    <3> QED BY <3>2
  <2>4. Changed(updateWs[w], updateWs'[w], o.kind = "set-tabs" /\ o.skip)
    BY <1>3, <2>1, <2>3
  <2> QED BY <2>4 DEF Changed
<1>7. RevisionStep
  BY <1>6 DEF RevisionStep
<1>8. DroppedStep
  BY <1>6 DEF DroppedStep, Remembers
<1> QED BY <1>4, <1>5, <1>7, <1>8

LEMMA ServedFollows ==
    ASSUME UpdatesInv, NEW m \in updateInbox, updateInbox' = updateInbox \ {m},
           updateWs' = updateWs \/ updateWs' = Updates!Applied(m.op), UNCHANGED updatePage
    PROVE  WsInv' /\ GoesOn /\ InboxInv' /\ ViewInv' /\ RevisionStep /\ DroppedStep
<1> PICK o : o = m.op
  OBVIOUS
<1>1. WsInv /\ Request(o) /\ (o.kind = "create" => updateWs[o.id] = None)
  BY DEF UpdatesInv, InboxInv
<1>2. FollowsAll(updateWs, o) /\ FollowsAll(Updates!Applied(o), o)
  BY <1>1, UnchangedFollows, AppliedFollows
<1>3. FollowsAll(updateWs', o)
  <2>1. CASE updateWs' = updateWs
    BY <1>2, <2>1 DEF FollowsAll, Follows
  <2>2. CASE updateWs' = Updates!Applied(o)
    <3> PICK next : next = Updates!Applied(o)
      OBVIOUS
    <3>1. FollowsAll(next, o) /\ updateWs' = next
      BY <1>2, <2>2
    <3> QED BY <3>1 DEF FollowsAll, Follows
  <2> QED BY <2>1, <2>2
<1>4. m \in updateInbox \ updateInbox'
  OBVIOUS
<1>5. WsInv' /\ GoesOn /\ RevisionStep /\ DroppedStep
  BY <1>1, <1>3, <1>4, FollowsStep
<1>6. ASSUME NEW n \in updateInbox', n.op.kind = "create" PROVE updateWs'[n.op.id] = None
  <2>1. n.op.id \in Both /\ updateWs[n.op.id] = None /\ o.kind # "create"
    BY <1>6 DEF UpdatesInv, InboxInv, Request, AboutOne
  <2> QED BY <1>3, <2>1 DEF FollowsAll, Follows
<1> QED BY <1>5, <1>6, InboxStays, ViewStays

(* A request that names tabs by their indexes is served at the revision its *)
(* asker saw, so that the tabs there are those it chose.                    *)
LEMMA ServedAsChosen ==
    ASSUME UpdatesInv, NEW m \in updateInbox, updateInbox' = updateInbox \ {m},
           \/ updateWs' = updateWs
           \/ ~Updates!Conflicts(m.op) /\ updateWs' = Updates!Applied(m.op)
    PROVE  ChosenStep
<1>1. CASE updateWs' = updateWs
  BY <1>1 DEF ChosenStep
<1>2. CASE ~Updates!Conflicts(m.op) /\ updateWs' = Updates!Applied(m.op)
  <2> SUFFICES ASSUME Updates!ByIndex(m), updateWs' # updateWs PROVE AsChosen(m)
    BY <1>1 DEF ChosenStep
  <2> PICK o : o = m.op
    OBVIOUS
  <2> PICK w : w = Updates!Subject(o)
    OBVIOUS
  <2> PICK next : next = Updates!Applied(o)
    OBVIOUS
  <2>1. WsInv /\ Request(o) /\ WasSeen(w, o.expectedTabsRevision, m.saw)
    BY DEF UpdatesInv, InboxInv
  <2>2. w \in Both /\ Updates!Has(w) /\ o.expectedTabsRevision = updateWs[w].rev
    BY <1>2, SubjectThere, <2>1 DEF Updates!Conflicts, Updates!ByIndex
  <2>3. m.saw = updateWs[w].tabs /\ updateWs[w].tabs \in Seq(UpdateTab)
    BY <2>1, <2>2, HasIsKept, KeptFields DEF WasSeen
  <2>4. o.kind \in ByIndexes /\ (o.kind \in {"remove-tab", "exclude-tab"} => "index" \in DOMAIN o.tabIndexOrUrl)
    BY <2>1 DEF Request, Updates!ByIndex
  <2>5. CASE o.kind = "exclude-tab"
    <3>1. w = o.workspaceId /\ o.excluded \in BOOLEAN
      BY <2>1, <2>5 DEF Request, AboutOne, Updates!Subject
    <3>2. next = Updates!Excluded(o)
      BY <2>2, <2>5, <3>1 DEF Updates!Applied, Updates!Edited
    <3>3. LET i == Updates!Found(updateWs[w].tabs, o.tabIndexOrUrl)
          IN  i \in DOMAIN updateWs[w].tabs /\ next[w].tabs = [updateWs[w].tabs EXCEPT ![i].excluded = o.excluded]
      BY <1>2, <2>1, <2>2, <3>1, <3>2, ExcludedFollows
    <3>4. 0 \notin DOMAIN updateWs[w].tabs
      BY <2>3
    <3>5. Updates!Found(updateWs[w].tabs, o.tabIndexOrUrl) = o.tabIndexOrUrl.index
      <4>1. Updates!Found(updateWs[w].tabs, o.tabIndexOrUrl) \in {0, o.tabIndexOrUrl.index}
        BY <2>4, <2>5, IndexOrNone
      <4> QED BY <3>3, <3>4, <4>1
    <3> QED BY <1>2, <2>3, <2>5, <3>3, <3>5 DEF AsChosen
  <2>6. CASE o.kind = "remove-tab"
    <3> DEFINE i == Updates!Found(updateWs[w].tabs, o.tabIndexOrUrl)
    <3>1. w = o.workspaceId
      BY <2>6 DEF Updates!Subject
    <3>2. next = Updates!RemovedAt(w, {i})
      BY <2>2, <2>6, <3>1 DEF Updates!Applied, Updates!Edited
    <3> HIDE DEF i
    <3>3. next[w].tabs = Updates!Rest(updateWs[w].tabs, {i}) /\ {i} \cap DOMAIN updateWs[w].tabs # {}
      BY <1>2, <2>1, <2>2, <3>2, RemovedFollows
    <3>4. i \in DOMAIN updateWs[w].tabs /\ 0 \notin DOMAIN updateWs[w].tabs
      BY <2>3, <3>3
    <3>5. i = o.tabIndexOrUrl.index
      BY <2>4, <2>6, <3>4, IndexOrNone DEF i
    <3>6. Updates!Chose(m) = {i}
      BY <2>6, <3>5 DEF Updates!Chose
    <3> QED BY <1>2, <2>3, <2>6, <3>3, <3>6 DEF AsChosen
  <2>7. CASE o.kind = "remove-tab-indexes"
    <3>1. w = o.workspaceId
      BY <2>7 DEF Updates!Subject
    <3>2. next = Updates!RemovedAt(w, o.tabIndexes)
      BY <2>2, <2>7, <3>1 DEF Updates!Applied, Updates!Edited
    <3>3. next[w].tabs = Updates!Rest(updateWs[w].tabs, o.tabIndexes)
      BY <1>2, <2>1, <2>2, <3>2, RemovedFollows
    <3>4. Updates!Chose(m) = o.tabIndexes
      BY <2>7 DEF Updates!Chose
    <3> QED BY <1>2, <2>3, <2>7, <3>3, <3>4 DEF AsChosen
  <2>8. CASE o.kind = "move-tabs"
    <3>1. w = o.sourceId /\ o.sourceId \in Both /\ o.targetId \in Both /\ o.sourceId # o.targetId
      BY <2>1, <2>8 DEF Request, AboutOne, Updates!Subject
    <3>2. Updates!Has(o.sourceId) /\ Updates!Has(o.targetId) /\ next = Updates!Moved(o)
      BY <1>2, <2>2, <2>8, <3>1 DEF Updates!Applied
    <3>3. /\ next[w].tabs = Updates!Rest(updateWs[w].tabs, o.tabIndexes)
          /\ next[o.targetId].tabs = updateWs[o.targetId].tabs \o Updates!At(updateWs[w].tabs, o.tabIndexes)
      BY <1>2, <2>1, <3>1, <3>2, MovedFollows
    <3>4. Updates!Chose(m) = o.tabIndexes
      BY <2>8 DEF Updates!Chose
    <3> QED BY <1>2, <2>3, <2>8, <3>3, <3>4 DEF AsChosen
  <2> QED BY <2>4, <2>5, <2>6, <2>7, <2>8 DEF ByIndexes
<1> QED BY <1>1, <1>2

UpdateSteps == RevisionStep /\ ChosenStep /\ DroppedStep /\ UndoStep

LEMMA ApplyKeeps ==
    ASSUME UpdatesInv, NEW m \in updateInbox, Updates!Apply(m)
    PROVE  UpdatesInv' /\ UpdateSteps
<1>1. /\ updateInbox' = updateInbox \ {m} /\ UNCHANGED <<updatePage, updateBusy, updateUndo>>
      /\ \/ updateWs' = updateWs
         \/ ~Updates!Conflicts(m.op) /\ updateWs' = Updates!Applied(m.op)
  BY DEF Updates!Apply, Updates!Take
<1>2. WsInv' /\ GoesOn /\ InboxInv' /\ ViewInv' /\ RevisionStep /\ DroppedStep
  BY <1>1, ServedFollows
<1>3. ChosenStep /\ UndoStep
  BY <1>1, ServedAsChosen DEF UndoStep
<1>4. UndoInv'
  BY <1>1, <1>2, UndoStays DEF UndoInv
<1>5. updateBusy' \subseteq Both
  BY <1>1 DEF UpdatesInv
<1> QED BY <1>2, <1>3, <1>4, <1>5 DEF UpdatesInv, UpdateSteps

LEMMA ApplyButFailKeeps ==
    ASSUME UpdatesInv, NEW m \in updateInbox, Updates!ApplyButFail(m)
    PROVE  UpdatesInv' /\ UpdateSteps
<1> PICK o : o = m.op
  OBVIOUS
<1> DEFINE S == {w \in Updates!Materialized(o) : Updates!Applied(o)[w] # updateWs[w]}
<1> DEFINE u == [w \in S |-> [before |-> updateWs[w], after |-> Updates!Applied(o)[w]]]
<1>1. /\ updateInbox' = updateInbox \ {m} /\ UNCHANGED <<updatePage, updateBusy>>
      /\ ~Updates!Conflicts(o) /\ updateWs' = Updates!Applied(o)
      /\ updateUndo' = updateUndo \cup {u}
  BY DEF Updates!ApplyButFail, Updates!Take
<1>2. WsInv' /\ GoesOn /\ InboxInv' /\ ViewInv' /\ RevisionStep /\ DroppedStep
  BY <1>1, ServedFollows
<1>3. ChosenStep /\ UndoStep
  BY <1>1, ServedAsChosen DEF UndoStep
<1>4. WsInv /\ Request(o)
  BY DEF UpdatesInv, InboxInv
<1>5. FollowsAll(Updates!Applied(o), o)
  BY <1>4, AppliedFollows
<1>6. ASSUME NEW w \in S
      PROVE  /\ w \in Both /\ Kept(updateWs[w]) /\ updateWs'[w] # None
             /\ updateWs[w].snaps <= updateWs'[w].snaps
  <2>1. w \in Updates!Materialized(o) /\ Updates!Applied(o)[w] # updateWs[w]
    OBVIOUS
  <2>2. w \in Both /\ o.kind \notin {"create", "delete", "empty-trash"}
    BY <1>4, <2>1 DEF Request, AboutOne, Updates!Materialized
  <2>3. Follows(w, updateWs[w], Updates!Applied(o)[w], o)
    BY <1>5, <2>2 DEF FollowsAll
  <2>4. updateWs[w] \notin {None, Gone} /\ Changed(updateWs[w], Updates!Applied(o)[w], o.kind = "set-tabs" /\ o.skip)
    BY <2>1, <2>2, <2>3 DEF Follows
  <2>5. Kept(updateWs[w]) /\ Kept(updateWs'[w]) /\ updateWs'[w].snaps >= updateWs[w].snaps
    BY <1>1, <1>4, <2>2, <2>4 DEF WsInv, Changed
  <2>6. updateWs'[w] \notin {None, Gone} /\ updateWs[w].snaps \in Nat /\ updateWs'[w].snaps \in Nat
    BY <2>5, KeptFields
  <2> QED BY <2>2, <2>5, <2>6
<1>7. DOMAIN u = S /\ \A w \in S : u[w].before = updateWs[w]
  OBVIOUS
<1> HIDE DEF S, u
<1>8. DOMAIN u \subseteq Both
  BY <1>6, <1>7
<1>9. \A w \in DOMAIN u : updateWs'[w] # None /\ Kept(u[w].before) /\ u[w].before.snaps <= updateWs'[w].snaps
  BY <1>6, <1>7
<1>10. UndoInv'
  BY <1>1, <1>2, <1>8, <1>9, UndoStays DEF UndoInv
<1>11. updateBusy' \subseteq Both
  BY <1>1 DEF UpdatesInv
<1> QED BY <1>2, <1>3, <1>10, <1>11 DEF UpdatesInv, UpdateSteps

(* The tabs and the history that are put back.                              *)
LEMMA PutBackIsKept ==
    ASSUME NEW r, Kept(r), NEW u, Kept(u), u.snaps <= r.snaps
    PROVE  /\ Kept(Updates!PutBack(r, u)) /\ Updates!PutBack(r, u).rev = r.rev + 1
           /\ Updates!PutBack(r, u).snaps = r.snaps /\ Updates!PutBack(r, u).tabs = u.tabs
           /\ Updates!PutBack(r, u).history = u.history
<1>1. /\ r = [name |-> r.name, tabs |-> r.tabs, rev |-> r.rev, history |-> r.history, snaps |-> r.snaps,
              trashed |-> r.trashed]
      /\ r.name \in {"old", "new"} /\ r.trashed \in BOOLEAN /\ r.rev \in Nat /\ r.snaps \in Nat
      /\ u.tabs \in Seq(UpdateTab) /\ u.history \in Seq(Snapshot) /\ u.snaps \in Nat
  BY KeptFields
<1>2. Updates!PutBack(r, u) = [name |-> r.name, tabs |-> u.tabs, rev |-> r.rev + 1, history |-> u.history,
                       snaps |-> r.snaps, trashed |-> r.trashed]
  <2> DEFINE of(tabs, rev, history) ==
               [name |-> r.name, tabs |-> tabs, rev |-> rev, history |-> history, snaps |-> r.snaps, trashed |-> r.trashed]
  <2>1. [r EXCEPT !.tabs = u.tabs] = of(u.tabs, r.rev, r.history)
    BY <1>1
  <2>2. [of(u.tabs, r.rev, r.history) EXCEPT !.history = u.history] = of(u.tabs, r.rev, u.history)
    OBVIOUS
  <2>3. [of(u.tabs, r.rev, u.history) EXCEPT !.rev = r.rev + 1] = of(u.tabs, r.rev + 1, u.history)
    OBVIOUS
  <2>4. Updates!PutBack(r, u) = [[[r EXCEPT !.tabs = u.tabs] EXCEPT !.history = u.history] EXCEPT !.rev = r.rev + 1]
    BY DEF Updates!PutBack
  <2> HIDE DEF of
  <2>5. Updates!PutBack(r, u) = of(u.tabs, r.rev + 1, u.history)
    BY <2>1, <2>2, <2>3, <2>4, Zenon
  <2> QED BY <2>5 DEF of
<1>3. \A i, j \in DOMAIN u.history :
        u.history[i].id < r.snaps /\ (u.history[i].id = u.history[j].id => i = j)
  <2>1. \A i \in DOMAIN u.history : u.history[i].id \in Nat
    <3>1. \A i \in DOMAIN u.history : u.history[i] \in Snapshot
      BY <1>1, ElementOfSeq
    <3> QED BY <3>1 DEF Snapshot
  <2> QED BY <1>1, <2>1 DEF Kept
<1>4. Updates!PutBack(r, u) \in Updates!Workspace
  BY <1>1, <1>2 DEF Updates!Workspace, UpdateTab, SnapTab, Snapshot
<1>5. Updates!PutBack(r, u).tabs = u.tabs /\ Updates!PutBack(r, u).history = u.history /\ Updates!PutBack(r, u).snaps = r.snaps /\ Updates!PutBack(r, u).rev = r.rev + 1
  BY <1>2
<1>6. Len(u.history) <= HistorySize
  BY DEF Kept
<1> QED BY <1>3, <1>4, <1>5, <1>6 DEF Kept

LEMMA SameRemembers ==
    ASSUME NEW r, Kept(r)
    PROVE  Remembers(r, r)
<1>1. r.tabs \in Seq(UpdateTab)
  BY KeptFields
<1>2. \A o : Updates!OfOrigin(r.tabs, o) <= Updates!Cardinality({i \in DOMAIN r.tabs : OriginOf[r.tabs[i].url] = o})
  BY <1>1, PagesStay
<1> QED BY <1>2 DEF Remembers

(* A step that leaves the workspaces alone.                                 *)
LEMMA NothingKeeps ==
    ASSUME UpdatesInv, UNCHANGED updateWs, updateInbox \subseteq updateInbox'
    PROVE  /\ WsInv' /\ RevisionStep /\ ChosenStep
           /\ (UNCHANGED updateInbox => InboxInv') /\ (UNCHANGED updatePage => ViewInv')
           /\ \A w \in Both : Updates!Stays(w) => Remembers(updateWs[w], updateWs[w])
<1>1. WsInv'
  BY DEF UpdatesInv, WsInv, Updates!Has
<1>2. UNCHANGED updateInbox => InboxInv'
  BY DEF UpdatesInv, InboxInv, WasSeen, Updates!Has
<1>3. UNCHANGED updatePage => ViewInv'
  BY DEF UpdatesInv, ViewInv, WasSeen, Updates!Has
<1>4. ASSUME NEW w \in Both, Updates!Stays(w)
      PROVE  updateWs[w].rev \in Nat /\ Remembers(updateWs[w], updateWs[w])
  <2> PICK r : r = updateWs[w]
    OBVIOUS
  <2>1. Kept(r)
    BY <1>4, HasIsKept DEF UpdatesInv, Updates!Stays
  <2>2. r.rev \in Nat /\ Remembers(r, r)
    BY <2>1, KeptFields, SameRemembers
  <2> QED BY <2>2
<1>5. RevisionStep
  BY <1>4 DEF RevisionStep
<1>6. ChosenStep
  BY DEF ChosenStep
<1> QED BY <1>1, <1>2, <1>3, <1>4, <1>5, <1>6

LEMMA UndoKeeps ==
    ASSUME UpdatesInv, NEW u \in updateUndo, Updates!Undo(u)
    PROVE  UpdatesInv' /\ UpdateSteps
<1> DEFINE S == DOMAIN u
<1>1. updateUndo' = updateUndo \ {u} /\ UNCHANGED <<updateBusy, updateInbox, updatePage>>
  BY DEF Updates!Undo
<1>2. WsInv /\ S \subseteq Both /\ UndoInv
  BY DEF UpdatesInv, UndoInv
<1>3. CASE ~\A w \in S : Updates!Owns(w, u[w].after)
  <2>1. updateWs' = updateWs
    BY <1>3 DEF Updates!Undo
  <2>2. /\ WsInv' /\ RevisionStep /\ ChosenStep /\ InboxInv' /\ ViewInv'
        /\ \A w \in Both : Updates!Stays(w) => Remembers(updateWs[w], updateWs[w])
    BY <1>1, <2>1, NothingKeeps
  <2>3. DroppedStep /\ UndoStep
    BY <1>1, <2>1, <2>2 DEF DroppedStep, UndoStep, Remembers
  <2>4. UndoInv' /\ updateBusy' \subseteq Both
    BY <1>1, <1>2, <2>1 DEF UndoInv, UpdatesInv, Updates!Has
  <2> QED BY <2>2, <2>3, <2>4 DEF UpdatesInv, UpdateSteps
<1>4. CASE \A w \in S : Updates!Owns(w, u[w].after)
  <2>1. updateWs' = [w \in Both |-> IF w \in S THEN Updates!PutBack(updateWs[w], u[w].before) ELSE updateWs[w]]
    BY <1>4, Zenon DEF Updates!Undo
  <2>2. \A w \in Both : w \notin S => updateWs'[w] = updateWs[w]
    BY <2>1
  <2>3. ASSUME NEW w \in S
        PROVE  /\ Updates!Has(w) /\ Kept(updateWs[w]) /\ Kept(updateWs'[w]) /\ updateWs[w].rev \in Nat
               /\ updateWs'[w].rev = updateWs[w].rev + 1 /\ updateWs'[w].snaps = updateWs[w].snaps
               /\ updateWs[w].snaps \in Nat
               /\ updateWs'[w].tabs = u[w].before.tabs /\ updateWs'[w].history = u[w].before.history
    <3>1. w \in Both /\ updateWs'[w] = Updates!PutBack(updateWs[w], u[w].before) /\ Updates!Has(w)
      BY <1>2, <1>4, <2>1 DEF Updates!Owns
    <3>2. Kept(updateWs[w]) /\ Kept(u[w].before) /\ u[w].before.snaps <= updateWs[w].snaps
      BY <1>2, <3>1, HasIsKept DEF UndoInv
    <3>3. /\ Kept(updateWs'[w]) /\ updateWs'[w].rev = updateWs[w].rev + 1 /\ updateWs'[w].snaps = updateWs[w].snaps
          /\ updateWs'[w].tabs = u[w].before.tabs /\ updateWs'[w].history = u[w].before.history
      BY <3>1, <3>2, PutBackIsKept
    <3>4. updateWs[w].rev \in Nat /\ updateWs[w].snaps \in Nat
      BY <3>2, KeptFields
    <3> QED BY <3>1, <3>2, <3>3, <3>4
  <2>4. WsInv'
    BY <1>2, <2>1, <2>2, <2>3 DEF WsInv
  <2>5. \A w \in S : /\ updateWs[w] \notin {None, Gone} /\ updateWs'[w].rev > updateWs[w].rev
                     /\ updateWs'[w].snaps >= updateWs[w].snaps /\ Kept(updateWs'[w])
    BY <2>3, KeptFields
  <2>6. GoesOn
    BY <2>2, <2>3, <2>5 DEF GoesOn, Later
  <2>7. RevisionStep
    <3>1. ASSUME NEW w \in Both, Updates!Stays(w)
          PROVE  updateWs[w].rev \in Nat
      BY <1>2, <3>1, HasIsKept, KeptFields DEF Updates!Stays
    <3> QED BY <2>2, <2>3, <3>1 DEF RevisionStep
  <2>8. DroppedStep
    <3>1. ASSUME NEW w \in Both, Updates!Stays(w), w \notin S
          PROVE  Remembers(updateWs[w], updateWs'[w])
      <4>1. Kept(updateWs[w])
        BY <1>2, <3>1, HasIsKept DEF Updates!Stays
      <4> PICK r : r = updateWs[w]
        OBVIOUS
      <4>2. Remembers(r, r)
        BY <4>1, SameRemembers
      <4> QED BY <2>2, <3>1, <4>2
    <3> QED BY <1>1, <1>4, <3>1 DEF DroppedStep, Remembers
  <2>9. ChosenStep /\ UndoStep
    BY <1>1, <2>3 DEF ChosenStep, UndoStep
  <2>10. ASSUME NEW m \in updateInbox', m.op.kind = "create" PROVE updateWs'[m.op.id] = None
    <3>1. m.op.id \in Both /\ updateWs[m.op.id] = None
      BY <1>1, <2>10 DEF UpdatesInv, InboxInv, Request, AboutOne
    <3> QED BY <2>2, <2>5, <3>1
  <2>11. InboxInv' /\ ViewInv'
    BY <1>1, <2>6, <2>10, InboxStays, ViewStays
  <2>12. UndoInv'
    BY <1>1, <2>4, <2>6, UndoStays DEF UndoInv
  <2>13. updateBusy' \subseteq Both
    BY <1>1 DEF UpdatesInv
  <2> QED BY <2>4, <2>7, <2>8, <2>9, <2>11, <2>12, <2>13 DEF UpdatesInv, UpdateSteps
<1> QED BY <1>3, <1>4

(* A request that is not of one of the kinds changes what the autosave may. *)
LEMMA AutosaveKeeps ==
    ASSUME UpdatesInv, NEW w \in Both, NEW L \in CapturedLists, Updates!Autosave(w, L)
    PROVE  UpdatesInv' /\ UpdateSteps
<1> DEFINE o == [kind |-> "autosave"]
<1>1. /\ Updates!Has(w) /\ updateWs' = Updates!Put(w, L, FALSE)
      /\ UNCHANGED <<updateBusy, updateUndo, updateInbox, updatePage>>
  BY DEF Updates!Autosave
<1>2. WsInv
  BY DEF UpdatesInv
<1>3. o.kind = "autosave"
  OBVIOUS
<1> HIDE DEF o
<1>4. FollowsAll(updateWs', o)
  <2> PICK next : next = Updates!Put(w, L, FALSE)
    OBVIOUS
  <2>1. FollowsAll(next, o) /\ updateWs' = next
    BY <1>1, <1>2, PutFollows
  <2> QED BY <2>1 DEF FollowsAll, Follows
<1>5. WsInv' /\ GoesOn /\ RevisionStep /\ DroppedStep
  BY <1>3, <1>4, FollowsStep
<1>6. ASSUME NEW m \in updateInbox', m.op.kind = "create" PROVE updateWs'[m.op.id] = None
  <2>1. m.op.id \in Both /\ updateWs[m.op.id] = None
    BY <1>1, <1>6 DEF UpdatesInv, InboxInv, Request, AboutOne
  <2> QED BY <1>3, <1>4, <2>1 DEF FollowsAll, Follows
<1>7. InboxInv' /\ ViewInv'
  BY <1>1, <1>5, <1>6, InboxStays, ViewStays
<1>8. ChosenStep /\ UndoStep /\ updateBusy' \subseteq Both
  BY <1>1 DEF ChosenStep, UndoStep, UpdatesInv
<1>9. UndoInv'
  BY <1>1, <1>5, UndoStays DEF UndoInv
<1> QED BY <1>5, <1>7, <1>8, <1>9 DEF UpdatesInv, UpdateSteps

(* A step that leaves the workspaces and their undo alone.                  *)
LEMMA RestKeeps ==
    ASSUME UpdatesInv, UNCHANGED <<updateWs, updateUndo>>, updateInbox \subseteq updateInbox'
    PROVE  WsInv' /\ UndoInv' /\ UpdateSteps /\ (UNCHANGED updateInbox => InboxInv') /\ (UNCHANGED updatePage => ViewInv')
<1>1. /\ WsInv' /\ RevisionStep /\ ChosenStep
      /\ (UNCHANGED updateInbox => InboxInv') /\ (UNCHANGED updatePage => ViewInv')
      /\ \A w \in Both : Updates!Stays(w) => Remembers(updateWs[w], updateWs[w])
  BY NothingKeeps
<1>2. UndoInv'
  BY DEF UpdatesInv, UndoInv, Updates!Has
<1>3. DroppedStep /\ UndoStep
  BY <1>1 DEF DroppedStep, Remembers, UndoStep
<1> QED BY <1>1, <1>2, <1>3 DEF UpdateSteps

(* A request that is asked.                                                 *)
LEMMA AskKeeps ==
    ASSUME UpdatesInv, NEW op, NEW saw, Updates!Ask(op, saw), Request(op),
           op.kind = "create" => updateWs[op.id] = None /\ \A m \in updateInbox : m.op.kind # "create",
           "expectedTabsRevision" \in DOMAIN op => WasSeen(Updates!Subject(op), op.expectedTabsRevision, saw)
    PROVE  InboxInv' /\ UNCHANGED <<updateWs, updateBusy, updateUndo>> /\ updateInbox \subseteq updateInbox'
<1> PICK new : new = [op |-> op, saw |-> saw]
  OBVIOUS
<1>1. /\ updateInbox' = updateInbox \cup {new} /\ UNCHANGED <<updateWs, updateBusy, updateUndo>>
      /\ new.op = op /\ new.saw = saw
  BY DEF Updates!Ask
<1>2. \A m \in updateInbox' : m \in updateInbox \/ m = new
  BY <1>1
<1>3. \A m \in updateInbox' :
         /\ Request(m.op)
         /\ m.op.kind = "create" => updateWs[m.op.id] = None
         /\ Updates!ByIndex(m) => WasSeen(Updates!Subject(m.op), m.op.expectedTabsRevision, m.saw)
  BY <1>1, <1>2 DEF UpdatesInv, InboxInv, Updates!ByIndex
<1>4. \A m, n \in updateInbox' : m.op.kind = "create" /\ n.op.kind = "create" => m = n
  BY <1>1, <1>2 DEF UpdatesInv, InboxInv
<1>5. \A w, rev, tabs : WasSeen(w, rev, tabs)' <=> WasSeen(w, rev, tabs)
  BY <1>1 DEF WasSeen, Updates!Has
<1> QED BY <1>1, <1>3, <1>4, <1>5 DEF InboxInv, WasSeen, Updates!Has

LEMMA ShowKeeps ==
    ASSUME UpdatesInv, NEW w \in Both, Updates!Show(w)
    PROVE  UpdatesInv' /\ UpdateSteps
<1>1. UNCHANGED <<updateWs, updateBusy, updateUndo, updateInbox>> /\ Updates!Has(w)
  BY DEF Updates!Show
<1>2. WsInv' /\ UndoInv' /\ InboxInv' /\ UpdateSteps
  BY <1>1, RestKeeps
<1>3. Kept(updateWs[w]) /\ updateWs[w].tabs \in Seq(UpdateTab) /\ updateWs[w].rev \in Nat
  BY <1>1, HasIsKept, KeptFields DEF UpdatesInv
<1>4. View(Updates!Shown(w)) /\ WasSeen(w, Updates!Shown(w).rev, Updates!Shown(w).tabs) /\ Updates!Shown(w).ws = w
  BY <1>1, <1>3 DEF View, Updates!Shown, WasSeen, Updates!Has
<1>5. ASSUME updatePage # None, updatePage.ws = w, updatePage.rev = updateWs[w].rev
      PROVE  [updatePage EXCEPT !.tabs = updateWs[w].tabs] = updatePage
  <2> PICK p : p = updatePage
    OBVIOUS
  <2>1. View(p) /\ p.tabs = updateWs[w].tabs
    BY <1>1, <1>5 DEF UpdatesInv, ViewInv, WasSeen
  <2>2. [p EXCEPT !.tabs = p.tabs] = p
    BY <2>1 DEF View
  <2> QED BY <2>1, <2>2
<1>6. updatePage' = updatePage \/ updatePage' = Updates!Shown(w)
  BY <1>5 DEF Updates!Show
<1>7. ViewInv'
  <2>1. CASE updatePage' = updatePage
    BY <1>1, <2>1, RestKeeps
  <2>2. CASE updatePage' = Updates!Shown(w)
    <3> PICK p : p = Updates!Shown(w)
      OBVIOUS
    <3>1. View(p) /\ WasSeen(p.ws, p.rev, p.tabs) /\ updatePage' = p
      BY <1>4, <2>2
    <3> QED BY <1>1, <3>1 DEF ViewInv, WasSeen, Updates!Has
  <2> QED BY <1>6, <2>1, <2>2
<1> QED BY <1>1, <1>2, <1>7 DEF UpdatesInv

(* What a step of the page itself may make of it.                           *)
LEMMA ViewKeeps ==
    ASSUME UpdatesInv, updatePage # None, NEW p, updatePage' = p, View(p),
           p.ws = updatePage.ws, p.rev = updatePage.rev, p.tabs = updatePage.tabs, UNCHANGED updateWs
    PROVE  ViewInv'
  BY DEF UpdatesInv, ViewInv, WasSeen, Updates!Has

LEMMA WithinList ==
    ASSUME NEW n \in Nat, NEW i \in 1 .. n, NEW j \in 1 .. n
    PROVE  Updates!Span(i, j) \subseteq 1 .. n
<1>1. Updates!Min({i, j}) \in {i, j}
  BY Shorter
<1>2. Updates!Max({i, j}) \in {i, j}
  <2>1. \E x \in {i, j} : \A y \in {i, j} : x >= y
    OBVIOUS
  <2> QED BY <2>1 DEF Updates!Max
<1> QED BY <1>1, <1>2 DEF Updates!Span

LEMMA PickKeeps ==
    ASSUME UpdatesInv, NEW i, Updates!Pick(i)
    PROVE  UpdatesInv' /\ UpdateSteps
<1>1. UNCHANGED <<updateWs, updateBusy, updateUndo, updateInbox>> /\ updatePage # None /\ i \in DOMAIN updatePage.tabs
  BY DEF Updates!Pick
<1>2. WsInv' /\ UndoInv' /\ InboxInv' /\ UpdateSteps
  BY <1>1, RestKeeps
<1> PICK p : p = updatePage
  OBVIOUS
<1>3. View(p)
  BY <1>1 DEF UpdatesInv, ViewInv
<1>4. PICK S \in {Updates!SymDiff(p.picked, {i}), IF p.anchor = 0 THEN {i} ELSE Updates!Span(p.anchor, i)} :
        updatePage' = [p EXCEPT !.saw = IF Updates!Chosen = {} THEN p.tabs ELSE @, !.picked = S, !.anchor = i]
  BY DEF Updates!Pick
<1>5. DOMAIN p.tabs = 1 .. Len(p.tabs) /\ Len(p.tabs) \in Nat /\ i \in 1 .. Len(p.tabs)
  BY <1>1, <1>3 DEF View
<1>6. S \subseteq DOMAIN p.tabs
  <2>1. p.anchor # 0 => Updates!Span(p.anchor, i) \subseteq DOMAIN p.tabs
    BY <1>3, <1>5, WithinList DEF View
  <2>2. Updates!SymDiff(p.picked, {i}) \subseteq DOMAIN p.tabs
    BY <1>3, <1>5 DEF View, Updates!SymDiff
  <2> QED BY <1>5, <2>1, <2>2
<1> DEFINE saw == IF Updates!Chosen = {} THEN p.tabs ELSE p.saw
<1>7. saw = p.tabs
  BY <1>3 DEF View, Updates!Chosen
<1>8. updatePage' = [ws |-> p.ws, tabs |-> p.tabs, rev |-> p.rev, picked |-> S, dragged |-> p.dragged,
                     anchor |-> i, saw |-> saw]
  <2>1. updatePage' = [p EXCEPT !.saw = saw, !.picked = S, !.anchor = i]
    BY <1>4
  <2>2. p = [ws |-> p.ws, tabs |-> p.tabs, rev |-> p.rev, picked |-> p.picked, dragged |-> p.dragged,
             anchor |-> p.anchor, saw |-> p.saw]
    BY <1>3 DEF View
  <2> HIDE DEF saw
  <2> QED BY <2>1, <2>2
<1> HIDE DEF saw
<1>9. PICK q : q = updatePage'
  OBVIOUS
<1>10. View(q) /\ q.ws = p.ws /\ q.rev = p.rev /\ q.tabs = p.tabs
  BY <1>3, <1>5, <1>6, <1>7, <1>8, <1>9 DEF View
<1>11. ViewInv'
  BY <1>1, <1>9, <1>10, ViewKeeps
<1> QED BY <1>1, <1>2, <1>11 DEF UpdatesInv

LEMMA CancelKeeps ==
    ASSUME UpdatesInv, Updates!Cancel
    PROVE  UpdatesInv' /\ UpdateSteps
<1>1. UNCHANGED <<updateWs, updateBusy, updateUndo, updateInbox>> /\ updatePage # None
  BY DEF Updates!Cancel
<1>2. WsInv' /\ UndoInv' /\ InboxInv' /\ UpdateSteps
  BY <1>1, RestKeeps
<1> PICK p : p = updatePage
  OBVIOUS
<1>3. View(p)
  BY <1>1 DEF UpdatesInv, ViewInv
<1> PICK q : q = updatePage'
  OBVIOUS
<1>4. q = [ws |-> p.ws, tabs |-> p.tabs, rev |-> p.rev, picked |-> {}, dragged |-> {}, anchor |-> 0, saw |-> <<>>]
  <2>1. q = [p EXCEPT !.picked = {}, !.dragged = {}, !.anchor = 0, !.saw = <<>>]
    BY DEF Updates!Cancel
  <2>2. p = [ws |-> p.ws, tabs |-> p.tabs, rev |-> p.rev, picked |-> p.picked, dragged |-> p.dragged,
             anchor |-> p.anchor, saw |-> p.saw]
    BY <1>3 DEF View
  <2> QED BY <2>1, <2>2
<1>5. View(q) /\ q.ws = p.ws /\ q.rev = p.rev /\ q.tabs = p.tabs
  BY <1>3, <1>4 DEF View
<1>6. ViewInv'
  BY <1>1, <1>5, ViewKeeps
<1> QED BY <1>1, <1>2, <1>6 DEF UpdatesInv

LEMMA DragKeeps ==
    ASSUME UpdatesInv, NEW i, Updates!Drag(i)
    PROVE  UpdatesInv' /\ UpdateSteps
<1>1. UNCHANGED <<updateWs, updateBusy, updateUndo, updateInbox>> /\ updatePage # None /\ i \in DOMAIN updatePage.tabs
  BY DEF Updates!Drag
<1>2. WsInv' /\ UndoInv' /\ InboxInv' /\ UpdateSteps
  BY <1>1, RestKeeps
<1> PICK p : p = updatePage
  OBVIOUS
<1>3. View(p)
  BY <1>1 DEF UpdatesInv, ViewInv
<1> DEFINE saw == IF Updates!Chosen = {} THEN p.tabs ELSE p.saw
           D == IF i \in p.picked THEN p.picked ELSE {i}
<1>4. saw = p.tabs /\ D \subseteq DOMAIN p.tabs
  BY <1>1, <1>3 DEF View, Updates!Chosen
<1> PICK q : q = updatePage'
  OBVIOUS
<1>5. q = [ws |-> p.ws, tabs |-> p.tabs, rev |-> p.rev, picked |-> p.picked, dragged |-> D,
           anchor |-> p.anchor, saw |-> saw]
  <2>1. q = [p EXCEPT !.saw = saw, !.dragged = D]
    BY DEF Updates!Drag
  <2>2. p = [ws |-> p.ws, tabs |-> p.tabs, rev |-> p.rev, picked |-> p.picked, dragged |-> p.dragged,
             anchor |-> p.anchor, saw |-> p.saw]
    BY <1>3 DEF View
  <2> HIDE DEF saw, D
  <2> QED BY <2>1, <2>2
<1> HIDE DEF saw, D
<1>6. View(q) /\ q.ws = p.ws /\ q.rev = p.rev /\ q.tabs = p.tabs
  BY <1>3, <1>4, <1>5 DEF View
<1>7. ViewInv'
  BY <1>1, <1>6, ViewKeeps
<1> QED BY <1>1, <1>2, <1>7 DEF UpdatesInv

LEMMA MoveToKeeps ==
    ASSUME UpdatesInv, NEW w \in Both, Updates!MoveTo(w)
    PROVE  UpdatesInv' /\ UpdateSteps
<1> PICK p : p = updatePage
  OBVIOUS
<1>1. p # None /\ w # p.ws /\ View(p) /\ WasSeen(p.ws, p.rev, p.tabs)
  BY DEF Updates!MoveTo, UpdatesInv, ViewInv
<1>2. PICK S \in {p.picked, p.dragged} \ {{}} :
        Updates!Ask([kind |-> "move-tabs", sourceId |-> p.ws, targetId |-> w, tabIndexes |-> S,
                     expectedTabsRevision |-> p.rev], p.saw)
  BY DEF Updates!MoveTo
<1> DEFINE op == [kind |-> "move-tabs", sourceId |-> p.ws, targetId |-> w, tabIndexes |-> S,
                  expectedTabsRevision |-> p.rev]
<1>3. p.saw = p.tabs
  BY <1>1 DEF View
<1>4. /\ Request(op) /\ op.kind # "create" /\ Updates!Subject(op) = p.ws /\ op.expectedTabsRevision = p.rev
  BY <1>1 DEF Request, ByIndexes, View, Updates!Subject
<1> HIDE DEF op
<1>5. InboxInv' /\ UNCHANGED <<updateWs, updateBusy, updateUndo>> /\ updateInbox \subseteq updateInbox'
  BY <1>1, <1>2, <1>3, <1>4, AskKeeps DEF op
<1>6. WsInv' /\ UndoInv' /\ UpdateSteps
  BY <1>5, RestKeeps
<1> PICK q : q = updatePage'
  OBVIOUS
<1>7. q = [ws |-> p.ws, tabs |-> p.tabs, rev |-> p.rev, picked |-> p.picked, dragged |-> {},
           anchor |-> p.anchor, saw |-> p.saw]
  <2>1. q = [p EXCEPT !.dragged = {}]
    BY DEF Updates!MoveTo
  <2>2. p = [ws |-> p.ws, tabs |-> p.tabs, rev |-> p.rev, picked |-> p.picked, dragged |-> p.dragged,
             anchor |-> p.anchor, saw |-> p.saw]
    BY <1>1 DEF View
  <2> QED BY <2>1, <2>2
<1>8. View(q) /\ q.ws = p.ws /\ q.rev = p.rev /\ q.tabs = p.tabs
  BY <1>1, <1>7 DEF View
<1>9. ViewInv'
  BY <1>1, <1>5, <1>8, ViewKeeps
<1> QED BY <1>5, <1>6, <1>9 DEF UpdatesInv

LEMMA RemoveTabKeeps ==
    ASSUME UpdatesInv, NEW i, Updates!RemoveTab(i)
    PROVE  UpdatesInv' /\ UpdateSteps
<1> PICK p : p = updatePage
  OBVIOUS
<1>1. p # None /\ View(p) /\ WasSeen(p.ws, p.rev, p.tabs) /\ UNCHANGED updatePage
  BY DEF Updates!RemoveTab, UpdatesInv, ViewInv
<1> DEFINE op == [kind |-> "remove-tab", workspaceId |-> p.ws, tabIndexOrUrl |-> [index |-> i],
                  expectedTabsRevision |-> p.rev]
<1>2. Updates!Ask(op, p.tabs)
  BY DEF Updates!RemoveTab
<1>3. /\ Request(op) /\ op.kind # "create" /\ Updates!Subject(op) = p.ws /\ op.expectedTabsRevision = p.rev
  BY <1>1 DEF Request, ByIndexes, View, Updates!Subject
<1> HIDE DEF op
<1>4. InboxInv' /\ UNCHANGED <<updateWs, updateBusy, updateUndo>> /\ updateInbox \subseteq updateInbox'
  BY <1>1, <1>2, <1>3, AskKeeps
<1>5. WsInv' /\ UndoInv' /\ UpdateSteps /\ ViewInv'
  BY <1>1, <1>4, RestKeeps
<1> QED BY <1>4, <1>5 DEF UpdatesInv

LEMMA AskAboutKeeps ==
    ASSUME UpdatesInv, NEW w \in Both, Updates!AskAbout(w)
    PROVE  UpdatesInv' /\ UpdateSteps
<1>1. \E op : /\ Updates!Ask(op, <<>>) /\ Request(op) /\ "expectedTabsRevision" \notin DOMAIN op
              /\ op.kind = "create" => updateWs[op.id] = None /\ \A m \in updateInbox : m.op.kind # "create"
  <2>1. CASE \E k \in {"rename", "trash", "restore", "delete"} : Updates!Ask([kind |-> k, id |-> w], <<>>)
    <3>1. PICK k \in {"rename", "trash", "restore", "delete"} : Updates!Ask([kind |-> k, id |-> w], <<>>)
      BY <2>1
    <3>2. Request([kind |-> k, id |-> w])
      BY DEF Request, AboutOne
    <3> QED BY <3>1, <3>2
  <2>2. CASE Updates!Ask([kind |-> "empty-trash"], <<>>)
    <3>1. Request([kind |-> "empty-trash"])
      BY DEF Request
    <3> QED BY <2>2, <3>1
  <2>3. CASE \E n \in DOMAIN updateWs[w].history :
               Updates!Ask([kind |-> "restore-snapshot", workspaceId |-> w,
                            snapshotId |-> updateWs[w].history[n].id], <<>>)
    <3>1. PICK id : Updates!Ask([kind |-> "restore-snapshot", workspaceId |-> w, snapshotId |-> id], <<>>)
      BY <2>3
    <3>2. Request([kind |-> "restore-snapshot", workspaceId |-> w, snapshotId |-> id])
      BY DEF Request
    <3> QED BY <3>1, <3>2
  <2>4. CASE /\ updateWs[w] = None /\ \A m \in updateInbox : m.op.kind # "create"
             /\ \E L \in CapturedLists : Updates!Ask([kind |-> "create", id |-> w, tabs |-> L], <<>>)
    <3>1. PICK L \in CapturedLists : Updates!Ask([kind |-> "create", id |-> w, tabs |-> L], <<>>)
      BY <2>4
    <3>2. Request([kind |-> "create", id |-> w, tabs |-> L])
      BY DEF Request
    <3> QED BY <2>4, <3>1, <3>2
  <2> QED BY <2>1, <2>2, <2>3, <2>4 DEF Updates!AskAbout
<1>2. InboxInv' /\ UNCHANGED <<updateWs, updateBusy, updateUndo>> /\ updateInbox \subseteq updateInbox'
  BY <1>1, AskKeeps
<1>3. UNCHANGED updatePage
  BY DEF Updates!AskAbout
<1>4. WsInv' /\ UndoInv' /\ UpdateSteps /\ ViewInv'
  BY <1>2, <1>3, RestKeeps
<1> QED BY <1>2, <1>4 DEF UpdatesInv

LEMMA BusyKeeps ==
    ASSUME UpdatesInv, (\E w \in Both : Updates!Occupy(w)) \/ Updates!Release \/ UNCHANGED updateVars
    PROVE  UpdatesInv' /\ UpdateSteps
<1>1. UNCHANGED <<updateWs, updateUndo, updateInbox, updatePage>>
  BY DEF Updates!Occupy, Updates!Release, updateVars
<1>2. updateBusy' \subseteq Both
  BY DEF Updates!Occupy, Updates!Release, updateVars, UpdatesInv
<1> QED BY <1>1, <1>2, RestKeeps DEF UpdatesInv

-----------------------------------------------------------------------------
(* The fields of an operation that an agent asks for.                       *)
FieldsOf(o, new, p, S) ==
  /\ DOMAIN o = DOMAIN new \cup (S \cap DOMAIN p)
  /\ \A f \in DOMAIN new : o[f] = new[f]
  /\ \A f \in (S \cap DOMAIN p) \ DOMAIN new : o[f] = p[f]

LEMMA FieldsSet ==
    ASSUME NEW new, NEW p, NEW S
    PROVE  FieldsOf(Updates!Over(new, Updates!Only(p, S)), new, p, S)
  BY DEF Updates!Over, Updates!Only, FieldsOf

LEMMA AgentAsksKeeps ==
    ASSUME UpdatesInv, NEW w \in Both, Updates!AgentAsks(w)
    PROVE  UpdatesInv' /\ UpdateSteps
<1> DEFINE tabs == updateWs[w].tabs
           rev == updateWs[w].rev
<1>1. Updates!Has(w) /\ UNCHANGED updatePage
  BY DEF Updates!AgentAsks
<1>2. PICK a \in Updates!Read(w) : Updates!Accepts(a[1], a[2]) /\ Updates!Ask(Updates!Operation(a[1], a[2]), tabs)
  BY DEF Updates!AgentAsks
<1> HIDE DEF tabs, rev
<1> PICK op : op = Updates!Operation(a[1], a[2])
  OBVIOUS
<1>3. rev \in Nat
  BY <1>1, HasIsKept, KeptFields DEF UpdatesInv, rev
<1>4. /\ Request(op) /\ op.kind # "create"
      /\ "expectedTabsRevision" \in DOMAIN op => Updates!Subject(op) = w /\ op.expectedTabsRevision = rev
  <2>1. CASE \E S \in (SUBSET DOMAIN tabs) \ {{}} :
               a = <<"removeWorkspaceTabs", [workspaceId |-> w, tabIndexes |-> S, expectedTabsRevision |-> rev]>>
    <3> PICK S \in (SUBSET DOMAIN tabs) \ {{}} :
               a = <<"removeWorkspaceTabs", [workspaceId |-> w, tabIndexes |-> S, expectedTabsRevision |-> rev]>>
      BY <2>1
    <3> DEFINE p == [workspaceId |-> w, tabIndexes |-> S, expectedTabsRevision |-> rev]
           new == [handler |-> "apply", kind |-> "remove-tab-indexes"]
           F == {"workspaceId", "tabIndexes", "expectedTabsRevision"}
    <3>1. op = Updates!Over(new, Updates!Only(p, F))
      BY DEF Updates!Operation, Updates!Plain
    <3>a. /\ DOMAIN new = {"handler", "kind"} /\ new.kind = "remove-tab-indexes"
          /\ DOMAIN p = F /\ p.workspaceId = w /\ p.expectedTabsRevision = rev
      OBVIOUS
    <3> HIDE DEF p, new
    <3>b. FieldsOf(op, new, p, F)
      <4> HIDE DEF F
      <4> QED BY <3>1, FieldsSet
    <3>2. /\ op.kind = "remove-tab-indexes" /\ op.workspaceId = w /\ op.expectedTabsRevision = rev
      BY <3>a, <3>b DEF FieldsOf
    <3> QED BY <1>3, <3>2 DEF Request, ByIndexes, Updates!Subject
  <2>2. CASE \E v \in Both, i \in DOMAIN tabs :
               a = <<"moveWorkspaceTabs", [sourceId |-> w, targetId |-> v, tabIndexes |-> {i},
                                           expectedTabsRevision |-> rev]>>
    <3> PICK v \in Both, i \in DOMAIN tabs :
               a = <<"moveWorkspaceTabs", [sourceId |-> w, targetId |-> v, tabIndexes |-> {i},
                                           expectedTabsRevision |-> rev]>>
      BY <2>2
    <3> DEFINE p == [sourceId |-> w, targetId |-> v, tabIndexes |-> {i}, expectedTabsRevision |-> rev]
           new == [handler |-> "apply", kind |-> "move-tabs"]
           F == {"sourceId", "targetId", "tabIndexes", "expectedTabsRevision"}
    <3>1. op = Updates!Over(new, Updates!Only(p, F))
      BY DEF Updates!Operation, Updates!Plain
    <3>a. /\ DOMAIN new = {"handler", "kind"} /\ new.kind = "move-tabs"
          /\ DOMAIN p = F /\ p.sourceId = w /\ p.targetId = v /\ p.expectedTabsRevision = rev
      OBVIOUS
    <3> HIDE DEF p, new
    <3>b. FieldsOf(op, new, p, F)
      <4> HIDE DEF F
      <4> QED BY <3>1, FieldsSet
    <3>2. op.kind = "move-tabs" /\ op.sourceId = w /\ op.targetId = v /\ op.expectedTabsRevision = rev
      BY <3>a, <3>b DEF FieldsOf
    <3>3. w # v
      BY <1>2 DEF Updates!Accepts, Updates!Plain
    <3> QED BY <1>3, <3>2, <3>3 DEF Request, ByIndexes, Updates!Subject
  <2>3. CASE \E i \in DOMAIN tabs, b \in BOOLEAN :
               a = <<"setTabExcluded", [workspaceId |-> w, tabIndexOrUrl |-> [index |-> i], excluded |-> b,
                                        expectedTabsRevision |-> rev]>>
    <3> PICK i \in DOMAIN tabs, b \in BOOLEAN :
               a = <<"setTabExcluded", [workspaceId |-> w, tabIndexOrUrl |-> [index |-> i], excluded |-> b,
                                        expectedTabsRevision |-> rev]>>
      BY <2>3
    <3> DEFINE p == [workspaceId |-> w, tabIndexOrUrl |-> [index |-> i], excluded |-> b, expectedTabsRevision |-> rev]
           new == [handler |-> "apply", kind |-> "exclude-tab"]
           F == {"workspaceId", "tabIndexOrUrl", "excluded", "expectedTabsRevision"}
    <3>1. op = Updates!Over(new, Updates!Only(p, F))
      BY DEF Updates!Operation, Updates!Plain
    <3>a. /\ DOMAIN new = {"handler", "kind"} /\ new.kind = "exclude-tab"
          /\ DOMAIN p = F /\ p.workspaceId = w /\ p.expectedTabsRevision = rev
          /\ p.tabIndexOrUrl = [index |-> i] /\ p.excluded = b
      OBVIOUS
    <3> HIDE DEF p, new
    <3>b. FieldsOf(op, new, p, F)
      <4> HIDE DEF F
      <4> QED BY <3>1, FieldsSet
    <3>2. /\ op.kind = "exclude-tab" /\ op.workspaceId = w /\ op.expectedTabsRevision = rev
          /\ op.tabIndexOrUrl = [index |-> i] /\ op.excluded = b
      BY <3>a, <3>b DEF FieldsOf
    <3> QED BY <1>3, <3>2 DEF Request, ByIndexes, Updates!Subject
  <2>4. CASE \E u \in SafeUrls :
               a = <<"setTabExcluded", [workspaceId |-> w, tabIndexOrUrl |-> [url |-> u], excluded |-> TRUE]>>
    <3> PICK u \in SafeUrls :
               a = <<"setTabExcluded", [workspaceId |-> w, tabIndexOrUrl |-> [url |-> u], excluded |-> TRUE]>>
      BY <2>4
    <3> DEFINE p == [workspaceId |-> w, tabIndexOrUrl |-> [url |-> u], excluded |-> TRUE]
           new == [handler |-> "apply", kind |-> "exclude-tab"]
           F == {"workspaceId", "tabIndexOrUrl", "excluded", "expectedTabsRevision"}
    <3>1. op = Updates!Over(new, Updates!Only(p, F))
      BY DEF Updates!Operation, Updates!Plain
    <3>a. /\ DOMAIN new = {"handler", "kind"} /\ new.kind = "exclude-tab"
          /\ DOMAIN p = {"workspaceId", "tabIndexOrUrl", "excluded"} /\ p.workspaceId = w /\ p.excluded = TRUE
      OBVIOUS
    <3> HIDE DEF p, new
    <3>b. FieldsOf(op, new, p, F)
      <4> HIDE DEF F
      <4> QED BY <3>1, FieldsSet
    <3>2. /\ op.kind = "exclude-tab" /\ op.workspaceId = w /\ op.excluded = TRUE
          /\ "expectedTabsRevision" \notin DOMAIN op
      BY <3>a, <3>b DEF FieldsOf
    <3> QED BY <3>2 DEF Request
  <2>5. CASE \E L \in CapturedLists, b \in BOOLEAN :
               a = <<"replaceWorkspaceTabs", [workspaceId |-> w, tabs |-> L, skipHistory |-> b]>>
    <3> PICK L \in CapturedLists, b \in BOOLEAN :
               a = <<"replaceWorkspaceTabs", [workspaceId |-> w, tabs |-> L, skipHistory |-> b]>>
      BY <2>5
    <3> DEFINE p == [workspaceId |-> w, tabs |-> L, skipHistory |-> b]
           new == [handler |-> "apply", kind |-> "set-tabs", skip |-> Updates!Skips(p)]
           F == {"workspaceId", "tabs"}
    <3>1. op = Updates!Over(new, Updates!Only(p, F))
      BY DEF Updates!Operation, Updates!Plain
    <3>2. Updates!Skips(p) \in BOOLEAN
      BY DEF Updates!Skips
    <3>a. /\ DOMAIN new = {"handler", "kind", "skip"} /\ new.kind = "set-tabs" /\ new.skip \in BOOLEAN
          /\ DOMAIN p = {"workspaceId", "tabs", "skipHistory"} /\ p.workspaceId = w /\ p.tabs = L
      BY <3>2
    <3> HIDE DEF p, new
    <3>b. FieldsOf(op, new, p, F)
      <4> HIDE DEF F
      <4> QED BY <3>1, FieldsSet
    <3>3. /\ op.kind = "set-tabs" /\ op.workspaceId = w /\ op.tabs = L /\ op.skip \in BOOLEAN
          /\ "expectedTabsRevision" \notin DOMAIN op
      BY <3>a, <3>b DEF FieldsOf
    <3> QED BY <3>3 DEF Request
  <2>6. CASE a = <<"createWorkspaceSnapshot", [workspaceId |-> w]>>
    <3>1. op = [handler |-> "apply", kind |-> "snapshot", workspaceId |-> w]
      BY <2>6 DEF Updates!Operation, Updates!Plain
    <3> QED BY <3>1 DEF Request
  <2> DEFINE
        Removals == {<<"removeWorkspaceTabs", [workspaceId |-> w, tabIndexes |-> S, expectedTabsRevision |-> rev]>> :
                       S \in (SUBSET DOMAIN tabs) \ {{}}}
        Moves == {<<"moveWorkspaceTabs", [sourceId |-> w, targetId |-> v, tabIndexes |-> {i},
                                          expectedTabsRevision |-> rev]>> : v \in Both, i \in DOMAIN tabs}
        Marks == {<<"setTabExcluded", [workspaceId |-> w, tabIndexOrUrl |-> [index |-> i], excluded |-> b,
                                       expectedTabsRevision |-> rev]>> : i \in DOMAIN tabs, b \in BOOLEAN}
        Addresses == {<<"setTabExcluded", [workspaceId |-> w, tabIndexOrUrl |-> [url |-> u], excluded |-> TRUE]>> :
                     u \in SafeUrls}
        Contents == {<<"replaceWorkspaceTabs", [workspaceId |-> w, tabs |-> L, skipHistory |-> b]>> :
                     L \in CapturedLists, b \in BOOLEAN}
  <2>7. Updates!Read(w) = Removals \cup Moves \cup Marks \cup Addresses \cup Contents
                            \cup {<<"createWorkspaceSnapshot", [workspaceId |-> w]>>}
    BY DEF Updates!Read, tabs, rev
  <2>8. CASE a \in Removals
    BY <2>1, <2>8
  <2>9. CASE a \in Moves
    BY <2>2, <2>9
  <2>10. CASE a \in Marks
    BY <2>3, <2>10
  <2>11. CASE a \in Addresses
    BY <2>4, <2>11
  <2>12. CASE a \in Contents
    BY <2>5, <2>12
  <2> HIDE DEF Removals, Moves, Marks, Addresses, Contents
  <2> QED BY <2>6, <2>7, <2>8, <2>9, <2>10, <2>11, <2>12
<1>5. WasSeen(w, rev, tabs)
  BY <1>1, <1>3 DEF WasSeen, Updates!Has, tabs, rev
<1>6. InboxInv' /\ UNCHANGED <<updateWs, updateBusy, updateUndo>> /\ updateInbox \subseteq updateInbox'
  BY <1>2, <1>4, <1>5, AskKeeps
<1>7. WsInv' /\ UndoInv' /\ UpdateSteps /\ ViewInv'
  BY <1>1, <1>6, RestKeeps
<1> QED BY <1>6, <1>7 DEF UpdatesInv

LEMMA UpdatesStart ==
    ASSUME Updates!Init
    PROVE  UpdatesInv
<1>1. /\ \E L \in CapturedLists, other \in {None, Updates!New("old", <<>>)} :
           updateWs = [w \in Both |-> IF w = CHOOSE v \in Both : TRUE
                                     THEN Updates!New("old", Updates!Sanitized(L)) ELSE other]
      /\ updateBusy = {} /\ updateUndo = {} /\ updateInbox = {} /\ updatePage = None
  BY DEF Updates!Init
<1>2. PICK L \in CapturedLists, other \in {None, Updates!New("old", <<>>)} :
        updateWs = [w \in Both |-> IF w = CHOOSE v \in Both : TRUE
                                  THEN Updates!New("old", Updates!Sanitized(L)) ELSE other]
  BY <1>1
<1>3. L \in Seq(AnyTab)
  BY UpdatesApart DEF AnyTab
<1>4. Kept(Updates!New("old", Updates!Sanitized(L)))
  BY <1>3, SanitizedTabs, NewIsKept
<1>5. Kept(Updates!New("old", <<>>))
  <2>1. <<>> \in Seq(UpdateTab)
    OBVIOUS
  <2> QED BY <2>1, NewIsKept
<1>6. WsInv
  <2> PICK first, v0 : first = Updates!New("old", Updates!Sanitized(L)) /\ v0 = CHOOSE v \in Both : TRUE
    OBVIOUS
  <2>1. updateWs = [w \in Both |-> IF w = v0 THEN first ELSE other] /\ Kept(first) /\ (other = None \/ Kept(other))
    BY <1>2, <1>4, <1>5
  <2> QED BY <2>1 DEF WsInv
<1> QED BY <1>1, <1>6 DEF UpdatesInv, UndoInv, InboxInv, ViewInv

LEMMA UpdateKeeps ==
    ASSUME UpdatesInv, Updates!Next \/ UNCHANGED updateVars
    PROVE  UpdatesInv' /\ UpdateSteps
<1>1. ASSUME NEW m \in updateInbox, Updates!Apply(m) \/ Updates!ApplyButFail(m)
      PROVE  UpdatesInv' /\ UpdateSteps
  BY <1>1, ApplyKeeps, ApplyButFailKeeps
<1>2. ASSUME NEW w \in Both, Updates!Show(w) \/ Updates!MoveTo(w) \/ Updates!AskAbout(w) \/ Updates!AgentAsks(w)
      PROVE  UpdatesInv' /\ UpdateSteps
  BY <1>2, ShowKeeps, MoveToKeeps, AskAboutKeeps, AgentAsksKeeps
<1>3. ASSUME NEW i, Updates!Pick(i) \/ Updates!Drag(i) \/ Updates!RemoveTab(i)
      PROVE  UpdatesInv' /\ UpdateSteps
  BY <1>3, PickKeeps, DragKeeps, RemoveTabKeeps
<1>4. ASSUME NEW w \in Both, NEW L \in CapturedLists, Updates!Autosave(w, L)
      PROVE  UpdatesInv' /\ UpdateSteps
  BY <1>4, AutosaveKeeps
<1>5. CASE \E u \in updateUndo : Updates!Undo(u)
  BY <1>5, UndoKeeps
<1>6. CASE (\E w \in Both : Updates!Occupy(w)) \/ Updates!Release \/ UNCHANGED updateVars
  BY <1>6, BusyKeeps
<1>7. CASE Updates!Cancel
  BY <1>7, CancelKeeps
<1> QED BY <1>1, <1>2, <1>3, <1>4, <1>5, <1>6, <1>7 DEF Updates!Next

LEMMA UpdatesAlone ==
    ASSUME [AllNext]_allVars
    PROVE  Updates!Next \/ UNCHANGED updateVars
<1>1. CASE AllNext
  BY <1>1 DEF AllNext, Only
<1>2. CASE UNCHANGED allVars
  BY <1>2 DEF allVars
<1> QED BY <1>1, <1>2

(* A revision of a workspace names one list for good; a request that names *)
(* tabs by their indexes does what was asked to the tabs its asker saw, or *)
(* nothing; pages that leave a workspace are in its newest snapshot; and   *)
(* an undo takes back all that its operation wrote, if that is still what  *)
(* the workspaces show, or nothing                                         *)
(* (workspaceLogic.ts, workspacesApply.ts, workspaceRollback.ts,           *)
(* useDragAndDrop.ts).  For any workspaces, lists and number of requests.  *)
THEOREM WorkspacesKeepTabs == Together => UpdatesKeepTabs
<1>1. AllInit => UpdatesInv
  BY UpdatesStart DEF AllInit
<1>2. UpdatesInv /\ [AllNext]_allVars => UpdatesInv' /\ UpdateSteps
  BY UpdatesAlone, UpdateKeeps
<1> DEFINE
      AskedTabs ==
        \A m \in updateInbox \ updateInbox' : Updates!ByIndex(m) =>
          LET w == Updates!Subject(m.op) IN
          \/ \A v \in Both : Updates!Has(v) => updateWs'[v].tabs = updateWs[v].tabs
          \/ m.op.kind = "exclude-tab" /\ updateWs'[w].tabs = [m.saw EXCEPT ![m.op.tabIndexOrUrl.index].excluded = m.op.excluded]
          \/ /\ m.op.kind # "exclude-tab"
             /\ updateWs'[w].tabs = Updates!Rest(m.saw, Updates!Chose(m))
             /\ m.op.kind = "move-tabs" =>
                  updateWs'[m.op.targetId].tabs =
                    updateWs[m.op.targetId].tabs \o Updates!At(m.saw, Updates!Chose(m))
<1>3. UpdateSteps => RevisionStep /\ AskedTabs /\ DroppedStep /\ UndoStep
  BY Zenon DEF UpdateSteps, ChosenStep, AsChosen
<1>4. Together => [][UpdateSteps]_updateVars
  BY <1>1, <1>2, PTL DEF Together
<1>5. Together => /\ [][RevisionStep]_updateVars /\ [][AskedTabs]_updateVars
                  /\ [][DroppedStep]_updateVars /\ [][UndoStep]_updateVars
  <2> HIDE DEF AskedTabs
  <2> QED BY <1>3, <1>4, PTL
<1>6. [][RevisionStep]_updateVars => Updates!RevisionNamesList
  BY DEF RevisionStep, updateVars, Updates!vars, Updates!RevisionNamesList
<1>7. [][AskedTabs]_updateVars => Updates!ChosenTabsOnly
  BY DEF updateVars, Updates!vars, Updates!ChosenTabsOnly
<1>8. [][DroppedStep]_updateVars => Updates!DroppedTabsAreKept
  BY DEF DroppedStep, updateVars, Updates!vars, Updates!DroppedTabsAreKept
<1>9. [][UndoStep]_updateVars => Updates!UndoneAsOne
  BY DEF UndoStep, updateVars, Updates!vars, Updates!UndoneAsOne
<1> QED BY <1>5, <1>6, <1>7, <1>8, <1>9 DEF UpdatesKeepTabs

-----------------------------------------------------------------------------
(* What the protocol accepts, and what becomes of it.                       *)
Given(p, required, optional) ==
  /\ required \subseteq DOMAIN p /\ DOMAIN p \subseteq required \cup optional
  /\ \A f \in DOMAIN p : p[f] # Bad

Unchanged ==
  {"getState", "openHome", "openSettings", "openShortcuts", "getWorkspace", "searchWorkspaces", "switchWorkspace"}

WorkspaceCommands ==
  {"createWorkspace", "renameWorkspace", "setWorkspaceColor", "setWorkspaceEmoji", "trashWorkspace",
   "restoreWorkspace", "deleteWorkspace", "emptyTrash", "setWorkspaceNote"}

TabCommands ==
  {"openWorkspaceTab", "captureWorkspaceTabs", "setTabExcluded", "removeWorkspaceTabs", "moveWorkspaceTabs",
   "replaceWorkspaceTabs", "createWorkspaceSnapshot", "restoreWorkspaceSnapshot"}

LEMMA AllCommands == Updates!Commands = Unchanged \cup WorkspaceCommands \cup TabCommands \cup {"updateSetting"}
<1>1. DOMAIN Updates!AboutWorkspace = WorkspaceCommands \cup {"getWorkspace", "searchWorkspaces", "switchWorkspace"}
  BY DEF Updates!AboutWorkspace, WorkspaceCommands
<1>2. DOMAIN Updates!AboutTabs = TabCommands
  BY DEF Updates!AboutTabs, TabCommands
<1>3. DOMAIN Updates!Schema = DOMAIN Updates!AboutWorkspace \cup DOMAIN Updates!AboutTabs \cup {"updateSetting"}
  BY DEF Updates!Schema, Updates!Over
<1> QED BY <1>1, <1>2, <1>3 DEF Updates!Commands, Updates!Plain, Unchanged

LEMMA SchemaOfWorkspaces ==
    ASSUME NEW c \in DOMAIN Updates!AboutWorkspace
    PROVE  Updates!Schema[c] = Updates!AboutWorkspace[c]
  BY DEF Updates!Schema, Updates!Over

LEMMA SchemaOfTabs ==
    ASSUME NEW c \in DOMAIN Updates!AboutTabs
    PROVE  Updates!Schema[c] = Updates!AboutTabs[c]
<1>1. c \notin DOMAIN Updates!AboutWorkspace
  BY DEF Updates!AboutTabs, Updates!AboutWorkspace
<1> QED BY <1>1 DEF Updates!Schema, Updates!Over

LEMMA AcceptedPayload ==
    ASSUME NEW c, NEW p, Updates!Accepts(c, p), c \notin Updates!Plain
    PROVE  Given(p, Updates!Schema[c][1], Updates!Schema[c][2])
  BY DEF Updates!Accepts, Updates!HasExactKeys, Given

(* The operations that are a record of fields of the payload.               *)
LEMMA AcceptedAboutWorkspace ==
    ASSUME NEW c \in WorkspaceCommands, NEW p, Updates!Accepts(c, p)
    PROVE  Updates!Handled(Updates!Operation(c, p))
<1> DEFINE o == Updates!Operation(c, p)
<1>0. /\ c \in DOMAIN Updates!AboutWorkspace /\ c \notin Updates!Plain
      /\ Updates!Schema[c] = Updates!AboutWorkspace[c]
  <2>1. c \in DOMAIN Updates!AboutWorkspace /\ c \notin Updates!Plain
    BY DEF Updates!AboutWorkspace, Updates!Plain, WorkspaceCommands
  <2> QED BY <2>1, SchemaOfWorkspaces
<1>1. Given(p, Updates!AboutWorkspace[c][1], {})
  <2>1. Updates!AboutWorkspace[c][2] = {}
    BY DEF Updates!AboutWorkspace, WorkspaceCommands
  <2> QED BY <1>0, <2>1, AcceptedPayload
<1>2. CASE c = "createWorkspace"
  <2>1. o = [handler |-> "create", kind |-> "create", name |-> p.name]
    BY <1>2 DEF Updates!Operation, Updates!Plain
  <2> QED BY <2>1 DEF Updates!Handled
<1>3. CASE c = "renameWorkspace"
  <2>1. o = [handler |-> "apply", kind |-> "rename", id |-> p.workspaceId, name |-> p.name]
    BY <1>3 DEF Updates!Operation, Updates!Plain
  <2>2. p.workspaceId # Bad /\ p.name # Bad
    BY <1>1, <1>3 DEF Given, Updates!AboutWorkspace
  <2> QED BY <2>1, <2>2 DEF Updates!Handled, Updates!AppliesWell, Updates!Needed
<1>4. CASE c = "setWorkspaceColor"
  <2>1. o = [handler |-> "apply", kind |-> "recolor", id |-> p.workspaceId, color |-> p.color]
    BY <1>4 DEF Updates!Operation, Updates!Plain
  <2>2. p.workspaceId # Bad /\ p.color # Bad
    BY <1>1, <1>4 DEF Given, Updates!AboutWorkspace
  <2> QED BY <2>1, <2>2 DEF Updates!Handled, Updates!AppliesWell, Updates!Needed
<1>5. CASE c = "setWorkspaceEmoji"
  <2>1. o = [handler |-> "apply", kind |-> "emoji", id |-> p.workspaceId, emoji |-> p.emoji]
    BY <1>5 DEF Updates!Operation, Updates!Plain
  <2>2. p.workspaceId # Bad /\ p.emoji # Bad
    BY <1>1, <1>5 DEF Given, Updates!AboutWorkspace
  <2> QED BY <2>1, <2>2 DEF Updates!Handled, Updates!AppliesWell, Updates!Needed
<1>6. CASE c = "trashWorkspace"
  <2>1. o = [handler |-> "apply", kind |-> "trash", id |-> p.workspaceId]
    BY <1>6 DEF Updates!Operation, Updates!Plain
  <2>2. p.workspaceId # Bad
    BY <1>1, <1>6 DEF Given, Updates!AboutWorkspace
  <2> QED BY <2>1, <2>2 DEF Updates!Handled, Updates!AppliesWell, Updates!Needed
<1>7. CASE c = "restoreWorkspace"
  <2>1. o = [handler |-> "apply", kind |-> "restore", id |-> p.workspaceId]
    BY <1>7 DEF Updates!Operation, Updates!Plain
  <2>2. p.workspaceId # Bad
    BY <1>1, <1>7 DEF Given, Updates!AboutWorkspace
  <2> QED BY <2>1, <2>2 DEF Updates!Handled, Updates!AppliesWell, Updates!Needed
<1>8. CASE c = "deleteWorkspace"
  <2>1. o = [handler |-> "apply", kind |-> "delete", id |-> p.workspaceId]
    BY <1>8 DEF Updates!Operation, Updates!Plain
  <2>2. p.workspaceId # Bad
    BY <1>1, <1>8 DEF Given, Updates!AboutWorkspace
  <2> QED BY <2>1, <2>2 DEF Updates!Handled, Updates!AppliesWell, Updates!Needed
<1>9. CASE c = "emptyTrash"
  <2>1. o = [handler |-> "apply", kind |-> "empty-trash"]
    BY <1>9 DEF Updates!Operation, Updates!Plain
  <2> QED BY <2>1 DEF Updates!Handled, Updates!AppliesWell, Updates!Needed
<1>10. CASE c = "setWorkspaceNote"
  <2>1. o = [handler |-> "state", kind |-> "notes", id |-> p.workspaceId, note |-> p.note]
    BY <1>10 DEF Updates!Operation, Updates!Plain
  <2>2. p.note # Bad
    BY <1>1, <1>10 DEF Given, Updates!AboutWorkspace
  <2> QED BY <2>1, <2>2 DEF Updates!Handled, Updates!PatchesWell
<1> QED BY <1>2, <1>3, <1>4, <1>5, <1>6, <1>7, <1>8, <1>9, <1>10 DEF WorkspaceCommands

(* The operations that take over the fields the payload has.                *)
LEMMA AcceptedAboutTabs ==
    ASSUME NEW c \in TabCommands, NEW p, Updates!Accepts(c, p)
    PROVE  Updates!Handled(Updates!Operation(c, p))
<1> PICK o : o = Updates!Operation(c, p)
  OBVIOUS
<1>0. /\ c \in DOMAIN Updates!AboutTabs /\ c \notin Updates!Plain
      /\ Updates!Schema[c] = Updates!AboutTabs[c]
  <2>1. c \in DOMAIN Updates!AboutTabs /\ c \notin Updates!Plain
    BY DEF Updates!AboutTabs, Updates!Plain, TabCommands
  <2> QED BY <2>1, SchemaOfTabs
<1>1. Given(p, Updates!AboutTabs[c][1], Updates!AboutTabs[c][2])
  BY <1>0, AcceptedPayload
<1>2. CASE c = "openWorkspaceTab"
  <2> DEFINE new == [handler |-> "window", kind |-> "open-tab"]
             F == {"workspaceId", "tab"}
  <2>1. o = Updates!Over(new, Updates!Only(p, F))
    BY <1>2 DEF Updates!Operation, Updates!Plain
  <2>2. new.handler = "window" /\ new.kind = "open-tab" /\ DOMAIN new = {"handler", "kind"}
    OBVIOUS
  <2>3. /\ "workspaceId" \in DOMAIN p /\ "tab" \in DOMAIN p
        /\ p.workspaceId # Bad /\ p.tab # Bad
    BY <1>1, <1>2 DEF Given, Updates!AboutTabs
  <2> HIDE DEF new
  <2>4. FieldsOf(o, new, p, F)
    <3> HIDE DEF F
    <3> QED BY <2>1, FieldsSet
  <2>5. /\ o.handler = "window" /\ o.kind = "open-tab"
        /\ "workspaceId" \in DOMAIN o /\ "tab" \in DOMAIN o
        /\ o.workspaceId = p.workspaceId /\ o.tab = p.tab
    BY <2>2, <2>3, <2>4 DEF FieldsOf
  <2>6. Updates!SafeTabs(<<p.tab>>)
    BY <2>3, <1>2 DEF Updates!Accepts, Updates!Plain
  <2> QED BY <2>3, <2>5, <2>6 DEF Updates!Handled, Updates!ActsWell
<1>3. CASE c = "captureWorkspaceTabs"
  <2> DEFINE new == [handler |-> "window", kind |-> "capture-tabs", skip |-> Updates!Skips(p)]
             F == {"workspaceId"}
  <2>1. o = Updates!Over(new, Updates!Only(p, F))
    BY <1>3 DEF Updates!Operation, Updates!Plain
  <2>2. new.handler = "window" /\ new.kind = "capture-tabs" /\ DOMAIN new = {"handler", "kind", "skip"}
    OBVIOUS
  <2>3. /\ "workspaceId" \in DOMAIN p
        /\ p.workspaceId # Bad
    BY <1>1, <1>3 DEF Given, Updates!AboutTabs
  <2> HIDE DEF new
  <2>4. FieldsOf(o, new, p, F)
    <3> HIDE DEF F
    <3> QED BY <2>1, FieldsSet
  <2>5. /\ o.handler = "window" /\ o.kind = "capture-tabs"
        /\ "workspaceId" \in DOMAIN o
        /\ o.workspaceId = p.workspaceId
    BY <2>2, <2>3, <2>4 DEF FieldsOf
  <2> QED BY <2>3, <2>5 DEF Updates!Handled, Updates!ActsWell
<1>4. CASE c = "setTabExcluded"
  <2> DEFINE new == [handler |-> "apply", kind |-> "exclude-tab"]
             F == {"workspaceId", "tabIndexOrUrl", "excluded", "expectedTabsRevision"}
  <2>1. o = Updates!Over(new, Updates!Only(p, F))
    BY <1>4 DEF Updates!Operation, Updates!Plain
  <2>2. new.handler = "apply" /\ new.kind = "exclude-tab" /\ DOMAIN new = {"handler", "kind"}
    OBVIOUS
  <2>3. /\ "workspaceId" \in DOMAIN p /\ "tabIndexOrUrl" \in DOMAIN p /\ "excluded" \in DOMAIN p
        /\ p.workspaceId # Bad /\ p.tabIndexOrUrl # Bad /\ p.excluded # Bad
    BY <1>1, <1>4 DEF Given, Updates!AboutTabs
  <2> HIDE DEF new
  <2>4. FieldsOf(o, new, p, F)
    <3> HIDE DEF F
    <3> QED BY <2>1, FieldsSet
  <2>5. /\ o.handler = "apply" /\ o.kind = "exclude-tab"
        /\ "workspaceId" \in DOMAIN o /\ "tabIndexOrUrl" \in DOMAIN o /\ "excluded" \in DOMAIN o
        /\ o.workspaceId = p.workspaceId /\ o.tabIndexOrUrl = p.tabIndexOrUrl /\ o.excluded = p.excluded
    BY <2>2, <2>3, <2>4 DEF FieldsOf
  <2>6. Updates!IsIndex(p.tabIndexOrUrl) => "expectedTabsRevision" \in DOMAIN p
    BY <1>4 DEF Updates!Accepts, Updates!Plain, Updates!AcceptsExclusion
  <2>7. /\ "expectedTabsRevision" \in DOMAIN o <=> "expectedTabsRevision" \in DOMAIN p
        /\ "expectedTabsRevision" \in DOMAIN o => o.expectedTabsRevision # Bad
    BY <1>1, <2>2, <2>4 DEF FieldsOf, Given
  <2> QED BY <2>3, <2>5, <2>6, <2>7 DEF Updates!Handled, Updates!AppliesWell, Updates!Needed
<1>5. CASE c = "removeWorkspaceTabs"
  <2> DEFINE new == [handler |-> "apply", kind |-> "remove-tab-indexes"]
             F == {"workspaceId", "tabIndexes", "expectedTabsRevision"}
  <2>1. o = Updates!Over(new, Updates!Only(p, F))
    BY <1>5 DEF Updates!Operation, Updates!Plain
  <2>2. new.handler = "apply" /\ new.kind = "remove-tab-indexes" /\ DOMAIN new = {"handler", "kind"}
    OBVIOUS
  <2>3. /\ "workspaceId" \in DOMAIN p /\ "tabIndexes" \in DOMAIN p /\ "expectedTabsRevision" \in DOMAIN p
        /\ p.workspaceId # Bad /\ p.tabIndexes # Bad /\ p.expectedTabsRevision # Bad
    BY <1>1, <1>5 DEF Given, Updates!AboutTabs
  <2> HIDE DEF new
  <2>4. FieldsOf(o, new, p, F)
    <3> HIDE DEF F
    <3> QED BY <2>1, FieldsSet
  <2>5. /\ o.handler = "apply" /\ o.kind = "remove-tab-indexes"
        /\ "workspaceId" \in DOMAIN o /\ "tabIndexes" \in DOMAIN o /\ "expectedTabsRevision" \in DOMAIN o
        /\ o.workspaceId = p.workspaceId /\ o.tabIndexes = p.tabIndexes /\ o.expectedTabsRevision = p.expectedTabsRevision
    BY <2>2, <2>3, <2>4 DEF FieldsOf
  <2> QED BY <2>3, <2>5 DEF Updates!Handled, Updates!AppliesWell, Updates!Needed
<1>6. CASE c = "moveWorkspaceTabs"
  <2> DEFINE new == [handler |-> "apply", kind |-> "move-tabs"]
             F == {"sourceId", "targetId", "tabIndexes", "expectedTabsRevision"}
  <2>1. o = Updates!Over(new, Updates!Only(p, F))
    BY <1>6 DEF Updates!Operation, Updates!Plain
  <2>2. new.handler = "apply" /\ new.kind = "move-tabs" /\ DOMAIN new = {"handler", "kind"}
    OBVIOUS
  <2>3. /\ "sourceId" \in DOMAIN p /\ "targetId" \in DOMAIN p /\ "tabIndexes" \in DOMAIN p /\ "expectedTabsRevision" \in DOMAIN p
        /\ p.sourceId # Bad /\ p.targetId # Bad /\ p.tabIndexes # Bad /\ p.expectedTabsRevision # Bad
    BY <1>1, <1>6 DEF Given, Updates!AboutTabs
  <2> HIDE DEF new
  <2>4. FieldsOf(o, new, p, F)
    <3> HIDE DEF F
    <3> QED BY <2>1, FieldsSet
  <2>5. /\ o.handler = "apply" /\ o.kind = "move-tabs"
        /\ "sourceId" \in DOMAIN o /\ "targetId" \in DOMAIN o /\ "tabIndexes" \in DOMAIN o /\ "expectedTabsRevision" \in DOMAIN o
        /\ o.sourceId = p.sourceId /\ o.targetId = p.targetId /\ o.tabIndexes = p.tabIndexes /\ o.expectedTabsRevision = p.expectedTabsRevision
    BY <2>2, <2>3, <2>4 DEF FieldsOf
  <2>6. p.sourceId # p.targetId
    BY <1>6 DEF Updates!Accepts, Updates!Plain
  <2> QED BY <2>3, <2>5, <2>6 DEF Updates!Handled, Updates!AppliesWell, Updates!Needed
<1>7. CASE c = "replaceWorkspaceTabs"
  <2> DEFINE new == [handler |-> "apply", kind |-> "set-tabs", skip |-> Updates!Skips(p)]
             F == {"workspaceId", "tabs"}
  <2>1. o = Updates!Over(new, Updates!Only(p, F))
    BY <1>7 DEF Updates!Operation, Updates!Plain
  <2>2. new.handler = "apply" /\ new.kind = "set-tabs" /\ DOMAIN new = {"handler", "kind", "skip"}
    OBVIOUS
  <2>3. /\ "workspaceId" \in DOMAIN p /\ "tabs" \in DOMAIN p
        /\ p.workspaceId # Bad /\ p.tabs # Bad
    BY <1>1, <1>7 DEF Given, Updates!AboutTabs
  <2> HIDE DEF new
  <2>4. FieldsOf(o, new, p, F)
    <3> HIDE DEF F
    <3> QED BY <2>1, FieldsSet
  <2>5. /\ o.handler = "apply" /\ o.kind = "set-tabs"
        /\ "workspaceId" \in DOMAIN o /\ "tabs" \in DOMAIN o
        /\ o.workspaceId = p.workspaceId /\ o.tabs = p.tabs
    BY <2>2, <2>3, <2>4 DEF FieldsOf
  <2>6. "expectedTabsRevision" \notin DOMAIN o
    BY <2>2, <2>4 DEF FieldsOf
  <2> QED BY <2>3, <2>5, <2>6 DEF Updates!Handled, Updates!AppliesWell, Updates!Needed
<1>8. CASE c = "createWorkspaceSnapshot"
  <2>1. o = [handler |-> "apply", kind |-> "snapshot", workspaceId |-> p.workspaceId]
    BY <1>8 DEF Updates!Operation, Updates!Plain
  <2>2. p.workspaceId # Bad
    BY <1>1, <1>8 DEF Given, Updates!AboutTabs
  <2> QED BY <2>1, <2>2 DEF Updates!Handled, Updates!AppliesWell, Updates!Needed
<1>9. CASE c = "restoreWorkspaceSnapshot"
  <2> DEFINE new == [handler |-> "apply", kind |-> "restore-snapshot"]
             F == {"workspaceId", "snapshotId"}
  <2>1. o = Updates!Over(new, Updates!Only(p, F))
    BY <1>9 DEF Updates!Operation, Updates!Plain
  <2>2. new.handler = "apply" /\ new.kind = "restore-snapshot" /\ DOMAIN new = {"handler", "kind"}
    OBVIOUS
  <2>3. /\ "workspaceId" \in DOMAIN p /\ "snapshotId" \in DOMAIN p
        /\ p.workspaceId # Bad /\ p.snapshotId # Bad
    BY <1>1, <1>9 DEF Given, Updates!AboutTabs
  <2> HIDE DEF new
  <2>4. FieldsOf(o, new, p, F)
    <3> HIDE DEF F
    <3> QED BY <2>1, FieldsSet
  <2>5. /\ o.handler = "apply" /\ o.kind = "restore-snapshot"
        /\ "workspaceId" \in DOMAIN o /\ "snapshotId" \in DOMAIN o
        /\ o.workspaceId = p.workspaceId /\ o.snapshotId = p.snapshotId
    BY <2>2, <2>3, <2>4 DEF FieldsOf
  <2>6. "expectedTabsRevision" \notin DOMAIN o
    BY <2>2, <2>4 DEF FieldsOf
  <2> QED BY <2>3, <2>5, <2>6 DEF Updates!Handled, Updates!AppliesWell, Updates!Needed
<1> QED BY <1>2, <1>3, <1>4, <1>5, <1>6, <1>7, <1>8, <1>9 DEF TabCommands

LEMMA AcceptedCommands ==
    ASSUME NEW c \in Updates!Commands, NEW p, Updates!Accepts(c, p)
    PROVE  Updates!Handled(Updates!Operation(c, p))
<1>1. CASE c \in Unchanged
  <2>1. Updates!Operation(c, p) = [handler |-> "none", kind |-> c]
    BY <1>1 DEF Unchanged, Updates!Operation, Updates!Plain
  <2> QED BY <2>1 DEF Updates!Handled
<1>2. CASE c = "updateSetting"
  <2>1. Updates!Operation(c, p) = [handler |-> "settings", kind |-> "setting", key |-> p.key, value |-> p.value]
    BY <1>2 DEF Updates!Operation, Updates!Plain
  <2>2. Updates!AcceptsSetting(p)
    BY <1>2 DEF Updates!Accepts, Updates!Plain
  <2> QED BY <2>1, <2>2 DEF Updates!Handled, Updates!SetsWell, Updates!AcceptsSetting
<1> QED BY <1>1, <1>2, AllCommands, AcceptedAboutWorkspace, AcceptedAboutTabs

LEMMA UpdatesTyped ==
    ASSUME UpdatesInv
    PROVE  Updates!TypeOK
<1>1. ASSUME NEW w \in Both, updateWs[w] \notin {None, Gone}
      PROVE  /\ updateWs[w] \in Updates!Workspace
             /\ Len(updateWs[w].history) <= HistorySize
             /\ Updates!IsInjective([i \in DOMAIN updateWs[w].history |-> updateWs[w].history[i].id])
  <2>1. Kept(updateWs[w])
    BY <1>1, HasIsKept DEF UpdatesInv, Updates!Has
  <2> QED BY <2>1 DEF Kept, Updates!IsInjective
<1>2. ASSUME updatePage # None
      PROVE  updatePage.picked \cup updatePage.dragged \subseteq 1 .. Len(updatePage.tabs)
  <2>1. View(updatePage)
    BY <1>2 DEF UpdatesInv, ViewInv
  <2>2. DOMAIN updatePage.tabs = 1 .. Len(updatePage.tabs)
    BY <2>1 DEF View
  <2> QED BY <2>1, <2>2 DEF View
<1> QED BY <1>1, <1>2 DEF Updates!TypeOK, UpdatesInv

(* What the protocol accepts of an agent is never refused, or silently left *)
(* out, by the handlers behind it, whatever the payload; and a workspace    *)
(* keeps its shape, with few snapshots of names of their own                *)
(* (agentControlProtocol.ts, agentControlInternalBridge.ts, requests.ts).   *)
THEOREM RequestsAreServed == Together => []AcceptedIsHandled
<1>1. AllInit => UpdatesInv
  BY UpdatesStart DEF AllInit
<1>2. UpdatesInv /\ [AllNext]_allVars => UpdatesInv'
  BY UpdatesAlone, UpdateKeeps
<1>3. UpdatesInv => AcceptedIsHandled
  BY UpdatesTyped, AcceptedCommands DEF AcceptedIsHandled, Updates!AcceptedIsHandled
<1> QED BY <1>1, <1>2, <1>3, PTL DEF Together

=============================================================================
