----------------------------- MODULE MCPipeline -----------------------------
(* One sender: t1 and t2 have the nonces 0 and 1, t3 the nonce of t1. *)
EXTENDS Pipeline, TLC
CONSTANTS t1, t2, t3, alice, p1, p2

MCFromIdx == [t \in TxIDs |-> alice]
MCNonce   == [t \in TxIDs |-> IF t = t2 THEN 1 ELSE 0]
OldBatch  == {[num |-> 1, prover |-> p1, txs |-> {}, l1 |-> FALSE, base |-> <<>>]}

(* Bounds of the run that only looks at pipelines that run: nothing is explored after
   the last one has failed or is stopped, the time the Coordinator waits for others,
   in which it changes nothing, is left out, and an external deletion is only asked
   for under the first pipeline, of the row that was there at the start. *)
WhileRunning ==
  /\ num = MaxPipelines => Running
  /\ coord # "tell"
  /\ \A t \in DOMAIN pool : pool[t].extDelete => num <= 1 /\ t \in InPool
=============================================================================
