----------------------------- MODULE MCTxManager -----------------------------
EXTENDS TxManager
=============================================================================
