-------------------------- MODULE MCBatchProcessing --------------------------
(* Small values for BatchProcessing: an account of a user and one that has only *)
(* a key, of two tokens.                                                        *)
EXTENDS BatchProcessing

CONSTANTS t1, t2, alice, bob, k1, k2

Create(token, deposit, eth, bjj) == L1UserTx(NoIdx, NoIdx, token, NewFloat40(deposit), Zero, eth, bjj)

\* The second account was created by a coordinator; alice has paid to it since.
Before ==
    <<Create(t1, 4, alice, k1), L1CoordinatorTx(t2, FFAddr, k1),
      L1UserTx(3, NoIdx, t2, NewFloat40(2), Zero, alice, NoBJJ)>>
TwoAccounts == FoldLeft(ProcessL1InBatch, NewTxProcessor("Synchronizer", EmptyDB), Before).db
=============================================================================
