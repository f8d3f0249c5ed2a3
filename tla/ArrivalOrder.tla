----------------------------- MODULE ArrivalOrder -----------------------------
(***************************************************************************)
(* What the storage write queues promise: two tasks that conflict never    *)
(* overlap, and they run in the order in which they were handed over.      *)
(***************************************************************************)
CONSTANTS
  Tasks,
  Conflicts   \* the pairs of tasks that must not overlap

VARIABLES
  phase,    \* where each task is
  ahead     \* the tasks that had been handed over before this one

vars == <<phase, ahead>>

Init ==
  /\ phase = [t \in Tasks |-> "idle"]
  /\ ahead = [t \in Tasks |-> {}]

HandOver(t) ==
  /\ phase[t] = "idle"
  /\ phase' = [phase EXCEPT ![t] = "waiting"]
  /\ ahead' = [ahead EXCEPT ![t] = {u \in Tasks : phase[u] # "idle"}]

Start(t) ==
  /\ phase[t] = "waiting"
  /\ \A u \in ahead[t] : <<u, t>> \in Conflicts => phase[u] = "done"
  /\ phase' = [phase EXCEPT ![t] = "running"]
  /\ UNCHANGED ahead

End(t) ==
  /\ phase[t] = "running"
  /\ phase' = [phase EXCEPT ![t] = "done"]
  /\ UNCHANGED ahead

Next == \E t \in Tasks : HandOver(t) \/ Start(t) \/ End(t)

Spec == Init /\ [][Next]_vars
==============================================================================
