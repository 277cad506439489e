---------------------------- MODULE MCCoordinator ----------------------------
(* Every transaction is the first one of its own account. *)
EXTENDS Coordinator
CONSTANTS t1, t2

MCFromIdx == [t \in TxIDs |-> t]
MCNonce   == [t \in TxIDs |-> 0]
=============================================================================
