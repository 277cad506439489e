CONSTANTS
  t1 = t1
  t2 = t2
  t3 = t3
  alice = alice
  bob = bob
  TxIDs <- MCTxIDs
  FromIdx <- MCFromIdx
  Nonce <- MCNonce
  Groups <- Singles
  Atomic = {}
  Limits = {0, 1}
  MaxTxs = 2
  SafetyPeriod = 1
  MaxBatch = 3
  MaxUpdates = 1
SPECIFICATION Spec
CHECK_DEADLOCK FALSE
INVARIANTS PoolMatchesBatches
PROPERTIES PoolKeeps
