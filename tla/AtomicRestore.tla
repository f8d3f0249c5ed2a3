------------------------------ MODULE AtomicRestore ------------------------------
(***************************************************************************)
(* What a backup restore promises: the stored keys change to the content   *)
(* of the backup together or not at all, and a write made before or after  *)
(* it is undone by nothing but a later restore or a later write.           *)
(***************************************************************************)
EXTENDS Integers

CONSTANTS Keys, Removed,   \* the keys, and those a restore leaves without a value
          Restores         \* the restores: 1, 2, ...

VARIABLES content,         \* [from, stamp]: the restore a value derives from, its write
          writes           \* writes made so far

Missing == [from |-> 0, stamp |-> 0]

(* What restore r leaves in storage.                                        *)
Backup(r) == [k \in Keys |-> IF k \in Removed THEN Missing ELSE [from |-> r, stamp |-> 1]]

Init == writes = 1 /\ content \in [Keys -> {Missing, [from |-> 0, stamp |-> 1]}]

Write ==
  \E k \in Keys :
    /\ writes' = writes + 1
    /\ content' = [content EXCEPT ![k] = [from |-> @.from, stamp |-> writes + 1]]

Restore == \E r \in Restores : content' = Backup(r) /\ UNCHANGED writes

Next == Write \/ Restore
Spec == Init /\ [][Next]_<<content, writes>>
==============================================================================
