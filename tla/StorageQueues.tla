---------------------------- MODULE StorageQueues ----------------------------
(***************************************************************************)
(* The storage write queues of lib/storageQueues.ts.  Every write of the   *)
(* background goes through one of four promise chains; a global barrier    *)
(* (backup restore, backup export, storage migration) waits for all that   *)
(* was queued before it and holds back all that is queued after it.        *)
(*                                                                         *)
(* A chain is modelled by its tail and, for every task, the promises it    *)
(* awaits: "awaits" is fixed at the call, in the same turn of the event    *)
(* loop as the new tail and the new barrier.  A task may hand over another *)
(* write and await it (the deletion of a workspace does, inside the        *)
(* workspaces lock): Caller gives the enclosing task.                      *)
(***************************************************************************)
EXTENDS FiniteSets

CONSTANTS
  Writes,     \* calls of enqueue
  Barriers,   \* calls of withGlobalStorageWriteBarrier
  Queues,     \* the four chains
  QueueOf,    \* the chain of each write
  Caller,     \* the write whose task awaits this one, or None
  None

Tasks == Writes \cup Barriers

ASSUME StorageConstants ==
  /\ Writes \cap Barriers = {}
  /\ None \notin Tasks
  /\ QueueOf \in [Writes -> Queues]
  /\ Caller \in [Writes -> Writes \cup {None}]

VARIABLES
  status,         \* where each task is
  tail,           \* the last write handed to each chain
  globalBarrier,  \* globalStorageBarrier: the last barrier raised
  awaits,         \* the tasks whose promises each task awaits
  before          \* history: the tasks handed over before each task

vars == <<status, tail, globalBarrier, awaits, before>>

Init ==
  /\ status = [t \in Tasks |-> "idle"]
  /\ tail = [q \in Queues |-> None]
  /\ globalBarrier = None
  /\ awaits = [t \in Tasks |-> {}]
  /\ before = [t \in Tasks |-> {}]

HandOver(t, promises) ==
  /\ status[t] = "idle"
  /\ status' = [status EXCEPT ![t] = "waiting"]
  /\ awaits' = [awaits EXCEPT ![t] = promises \ {None}]
  /\ before' = [before EXCEPT ![t] = {u \in Tasks : status[u] # "idle"}]

Enqueue(w) ==
  /\ Caller[w] # None => status[Caller[w]] = "running"
  /\ HandOver(w, {tail[QueueOf[w]], globalBarrier})
  /\ tail' = [tail EXCEPT ![QueueOf[w]] = w]
  /\ UNCHANGED globalBarrier

(* Faulty variants: pending writes are not awaited; the barrier is not      *)
(* published; the previous barrier is read after the new one is in place.   *)
RaiseBarrier_IgnoresWrites(b) ==
  /\ HandOver(b, {globalBarrier})
  /\ globalBarrier' = b
  /\ UNCHANGED tail

RaiseBarrier_NotPublished(b) ==
  /\ HandOver(b, {globalBarrier} \cup {tail[q] : q \in Queues})
  /\ UNCHANGED <<globalBarrier, tail>>

RaiseBarrier_AwaitsItself(b) ==
  /\ HandOver(b, {b} \cup {tail[q] : q \in Queues})
  /\ globalBarrier' = b
  /\ UNCHANGED tail

RaiseBarrier(b) ==
  /\ HandOver(b, {globalBarrier} \cup {tail[q] : q \in Queues})
  /\ globalBarrier' = b
  /\ UNCHANGED tail

Start(t) ==
  /\ status[t] = "waiting"
  /\ \A u \in awaits[t] : status[u] = "done"
  /\ status' = [status EXCEPT ![t] = "running"]
  /\ UNCHANGED <<tail, globalBarrier, awaits, before>>

Callees(t) == {w \in Writes : Caller[w] = t}

(* The task ends, with a result or an error (the chain swallows it); it    *)
(* cannot end while a write it handed over is unfinished.                  *)
End(t) ==
  /\ status[t] = "running"
  /\ \A w \in Callees(t) : status[w] \in {"idle", "done"}
  /\ status' = [status EXCEPT ![t] = "done"]
  /\ UNCHANGED <<tail, globalBarrier, awaits, before>>

Next ==
  \/ \E w \in Writes : Enqueue(w)
  \/ \E b \in Barriers : RaiseBarrier(b)
  \/ \E t \in Tasks : Start(t) \/ End(t)

Spec == Init /\ [][Next]_vars

----------------------------------------------------------------------------
\* Shape of the queues.
TypeOK ==
  /\ status \in [Tasks -> {"idle", "waiting", "running", "done"}]
  /\ tail \in [Queues -> Writes \cup {None}]
  /\ globalBarrier \in Barriers \cup {None}
  /\ awaits \in [Tasks -> SUBSET Tasks]
  /\ before \in [Tasks -> SUBSET Tasks]

Conflict(t, u) ==
  \/ t \in Barriers
  \/ u \in Barriers
  \/ t \in Writes /\ u \in Writes /\ QueueOf[t] = QueueOf[u]

\* Two writes of one chain never overlap (so a read-modify-write of a record is
\* not interleaved with another), and while a barrier's task runs no write and
\* no other barrier runs.
NoConflictingOverlap ==
  \A t, u \in Tasks :
    status[t] = "running" /\ status[u] = "running" /\ Conflict(t, u) => t = u

\* A task that has started finds everything that conflicts with it and was
\* handed over earlier already finished: no write handed over before a backup
\* transaction is applied after it, and none handed over later is lost in it.
InOrderOfArrival ==
  \A t \in Tasks : status[t] \in {"running", "done"} =>
    \A u \in before[t] : Conflict(u, t) => status[u] = "done"

\* Writes that conflict run one at a time and in the order of their arrival.
OrderedWrites == TypeOK /\ NoConflictingOverlap /\ InOrderOfArrival

\* The queues implement the arrival order of conflicting tasks.
Order == INSTANCE ArrivalOrder
           WITH Conflicts <- {p \in Tasks \X Tasks : Conflict(p[1], p[2])},
                phase <- status, ahead <- before
QueuesKeepArrivalOrder == Order!Spec
==============================================================================
