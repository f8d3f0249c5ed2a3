----------------------------- MODULE GatedStorage -----------------------------
(***************************************************************************)
(* The two layers together: operations of the background go through the    *)
(* operation gate and, inside, write through the storage queues.           *)
(*                                                                         *)
(*   - a normal operation (a switch, a data operation) hands over its      *)
(*     writes one after the other, each awaited;                           *)
(*   - maintenance (backup restore and export, recovery of an uncommitted  *)
(*     restore) runs in the exclusive side of the gate: it first flushes   *)
(*     the autosaves of all windows, then raises the storage barrier;      *)
(*   - some writes come from outside the gate: settings, onboarding, the   *)
(*     pending shortcut action, the autosave timer;                        *)
(*   - the alarm that cleans up after a committed restore raises the       *)
(*     storage barrier without passing through the gate.                   *)
(***************************************************************************)
EXTENDS StorageQueues, OperationGate

CONSTANTS
  Script,      \* the top-level writes of each operation, in order
  BarrierOf,   \* the barrier of each maintenance operation
  Cleanups     \* the barriers raised by the committed-cleanup alarm

Operations == Normal \cup Exclusive

(* Every call is one call: a write is scripted for one operation and then   *)
(* not nested in another write, and every maintenance has its own barrier.  *)
ASSUME GatedConstants ==
  /\ Script \in [Operations -> Seq(Writes)]
  /\ \A op, other \in Operations : \A i \in 1 .. Len(Script[op]) :
       /\ Caller[Script[op][i]] = None
       /\ \A j \in 1 .. Len(Script[other]) : Script[op][i] = Script[other][j] => op = other
  /\ BarrierOf \in [Exclusive -> Barriers]
  /\ \A e, f \in Exclusive : BarrierOf[e] = BarrierOf[f] => e = f
  /\ Cleanups \subseteq Barriers \ {BarrierOf[e] : e \in Exclusive}

gatedVars == <<gateVars, vars>>

GatedInit == GateInit /\ Init

----------------------------------------------------------------------------
Unfinished(t) == status[t] \in {"waiting", "running"}

ScriptedWrites == UNION {{Script[op][i] : i \in 1 .. Len(Script[op])} : op \in Operations}

(* Writes that no gate operation makes. *)
UngatedWrites == {w \in Writes \ ScriptedWrites : Caller[w] = None}

ScriptDone(op) == \A i \in 1 .. Len(Script[op]) : status[Script[op][i]] = "done"

ScriptIdle(op) == \A i \in 1 .. Len(Script[op]) : ~Unfinished(Script[op][i])

(* A running operation hands over its next write.                          *)
CallWrite(op, i) ==
  /\ gateStatus[op] = "running"
  /\ \A j \in 1 .. i - 1 : status[Script[op][j]] = "done"
  /\ Enqueue(Script[op][i])
  /\ UNCHANGED gateVars

(* Maintenance has flushed the windows: it raises the barrier.             *)
CallBarrier(e) ==
  /\ gateStatus[e] = "running"
  /\ ScriptDone(e)
  /\ RaiseBarrier(BarrierOf[e])
  /\ UNCHANGED gateVars

CallCleanup(b) ==
  /\ RaiseBarrier(b)
  /\ UNCHANGED gateVars

CallUngated(w) ==
  /\ Enqueue(w)
  /\ UNCHANGED gateVars

CallNested(w) ==
  /\ Caller[w] # None
  /\ Enqueue(w)
  /\ UNCHANGED gateVars

StoreStep ==
  /\ \E t \in Tasks : Start(t) \/ End(t)
  /\ UNCHANGED gateVars

(* An operation returns when nothing it awaits is unfinished: at its end,  *)
(* or earlier with an error.                                               *)
ReturnNormal(n) ==
  /\ ScriptIdle(n)
  /\ FinishNormal(n)
  /\ UNCHANGED vars

ReturnExclusive(e) ==
  /\ ScriptIdle(e)
  /\ ~Unfinished(BarrierOf[e])
  /\ SettleExclusive(e)
  /\ UNCHANGED vars

GateStep ==
  /\ \/ \E n \in Normal : RunNormal(n)
     \/ \E e \in Exclusive :
          \/ RunExclusive(e)
          \/ BeginExclusive(e)
          \/ WaitUntilDrained(e)
          \/ StartExclusiveTask(e)
          \/ FinishExclusive(e)
     \/ AdmitNext
     \/ AdmitDone
  /\ UNCHANGED vars

GatedNext ==
  \/ \E op \in Operations : \E i \in 1 .. Len(Script[op]) : CallWrite(op, i)
  \/ \E e \in Exclusive : CallBarrier(e) \/ ReturnExclusive(e)
  \/ \E b \in Cleanups : CallCleanup(b)
  \/ \E w \in UngatedWrites : CallUngated(w)
  \/ \E w \in Writes : CallNested(w)
  \/ \E n \in Normal : ReturnNormal(n)
  \/ StoreStep
  \/ GateStep

GatedSpec == GatedInit /\ [][GatedNext]_gatedVars

(* Every promise callback runs and every task of the browser answers; the  *)
(* calls from outside need not come.                                       *)
GatedFairness ==
  /\ \A t \in Tasks :
       WF_gatedVars((Start(t) \/ End(t)) /\ UNCHANGED gateVars)
  /\ \A n \in Normal : WF_gatedVars(ReturnNormal(n))
  /\ \A e \in Exclusive :
       /\ WF_gatedVars(ReturnExclusive(e))
       /\ WF_gatedVars(
            /\ \/ BeginExclusive(e)
               \/ WaitUntilDrained(e)
               \/ StartExclusiveTask(e)
               \/ FinishExclusive(e)
            /\ UNCHANGED vars)
  /\ WF_gatedVars((AdmitNext \/ AdmitDone) /\ UNCHANGED vars)

GatedFairSpec == GatedSpec /\ GatedFairness

----------------------------------------------------------------------------
\* While the storage barrier of a maintenance operation runs, the background is
\* quiet: no normal operation is under way, no write of any queue is running and
\* no other maintenance operation has started.
QuietUnderMaintenance ==
  \A e \in Exclusive : status[BarrierOf[e]] = "running" =>
    /\ \A n \in Normal : gateStatus[n] # "running"
    /\ \A w \in Writes : status[w] # "running"
    /\ \A f \in Exclusive : gateStatus[f] = "running" => f = e

\* A normal operation is never cut by maintenance: whatever it has handed over is
\* finished before any maintenance barrier takes its snapshot of the storage.
NoHalfWrittenOperation ==
  \A e \in Exclusive, n \in Normal :
    status[BarrierOf[e]] = "running" =>
      \A i \in 1 .. Len(Script[n]) : ~Unfinished(Script[n][i])

\* A backup or a restore sees the storage whole: nobody writes while it runs, and
\* no operation has been cut in the middle when it starts.
MaintenanceSeesWhole == QuietUnderMaintenance /\ NoHalfWrittenOperation

\* Every operation that was called comes to its end, and so does every write and
\* every barrier, those from outside the gate as well: the gate, the queues and the
\* barrier never wait for one another in a circle.
EveryOperationEnds == []<>(CallsHaveEnded /\ \A t \in Tasks : ~Unfinished(t))

\* A cleanup of a committed restore that was begun comes to an end, so that it can
\* be retried if it failed (the restore tests call it retryable).
CleanupEnds == \A b \in Cleanups : status[b] = "waiting" ~> status[b] = "done"
==============================================================================
