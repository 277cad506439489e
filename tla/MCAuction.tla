------------------------------ MODULE MCAuction ------------------------------
(* Slots of two blocks, the first from block 2. *)
EXTENDS Auction

\* every kind of event, but for the deadline of a slot
SomeEvents ==
  { e \in AllEvents :
      CASE e.kind = "bid" -> e.slot = 2 \/ (e.slot = 3 /\ e.amount = 2)
        [] e.kind \in {"boot", "coordinator"} -> e.forger = OtherForger
        [] e.kind = "default" -> e.set = 0 /\ e.bid = 3
        [] e.kind = "deadline" -> FALSE
        [] OTHER -> TRUE }
=============================================================================
