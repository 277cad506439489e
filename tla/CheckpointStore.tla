---------------------------- MODULE CheckpointStore ----------------------------
(***************************************************************************)
(* What the synchronizer's state database promises to the node: it is at a *)
(* sequence of batches, which grows by one or is cut back to what it was   *)
(* before, and whoever reads sees it as it was after the last operation.   *)
(* A crash loses nothing between the operations; within one it may lose    *)
(* everything, and then the node starts from the first batch, but never    *)
(* comes back with a sequence that was undone or is not complete.          *)
(***************************************************************************)
EXTENDS Integers, Sequences

CONSTANTS Versions, MaxBatch

VARIABLES
  phase,    \* "down", "open", "storing", "busy", "closed" (after an error)
  batches,  \* the batches that it is at
  readers   \* what concurrent readers see, when it is open

vars == <<phase, batches, readers>>

None == <<>>

Init == phase = "down" /\ batches = None /\ readers = None

PrefixesOf(s) == {SubSeq(s, 1, n) : n \in 0..Len(s)}

\* A batch is processed: MakeCheckpoint begins, and has the checkpoint.
Begin ==
  /\ phase = "open" /\ phase' = "storing"
  /\ UNCHANGED batches /\ readers' = None

Commit ==
  /\ phase = "storing" /\ phase' = "busy"
  /\ Len(batches) < MaxBatch
  /\ \E v \in Versions : batches' = Append(batches, v)
  /\ readers' = None

Reset ==
  /\ phase \in {"open", "closed"} /\ phase' = "busy"
  /\ batches' \in PrefixesOf(batches)
  /\ readers' = None

\* An operation fails: the database is of no use until it is reset again.
Fail ==
  /\ phase \in {"open", "closed", "busy"} /\ phase' = "closed"
  /\ batches' \in PrefixesOf(batches)
  /\ readers' = None

End ==
  /\ phase = "busy" /\ phase' = "open"
  /\ UNCHANGED batches
  /\ readers' = batches

Crash ==
  /\ phase # "down" /\ phase' = "down"
  /\ IF phase = "open" THEN UNCHANGED batches ELSE batches' \in {batches, None}
  /\ readers' = None

\* The node starts with the database, or ends because it cannot.
Start ==
  /\ phase = "down"
  /\ \/ phase' = "busy" /\ UNCHANGED batches
     \/ phase' = "down" /\ batches' = None
  /\ readers' = None

Next == Begin \/ Commit \/ Reset \/ Fail \/ End \/ Crash \/ Start

Spec == Init /\ [][Next]_vars
=============================================================================
