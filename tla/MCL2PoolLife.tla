---------------------------- MODULE MCL2PoolLife ----------------------------
(* Two senders; t1 and t2 have the same sender and nonce, so one replaces the
   other; t2 and t3 may be an atomic group. *)
EXTENDS L2PoolLife, TLC
CONSTANTS t1, t2, t3, alice, bob

MCTxIDs   == {t1, t2, t3}
MCFromIdx == t1 :> alice @@ t2 :> alice @@ t3 :> bob
MCNonce   == [t \in MCTxIDs |-> 0]
Singles   == {{t} : t \in MCTxIDs}
WithGroup == {{t1}, {t2, t3}}
Group     == {t2, t3}
=============================================================================
