CONSTANTS
  t1 = t1
  t2 = t2
  TxIDs = {t1}
  FromIdx <- MCFromIdx
  Nonce <- MCNonce
  Atomic = {}
  MaxTxs = 3
  SafetyPeriod = 1
  QueueLen = 1
  MaxBatch = 2
  MaxPipelines = 2
  MaxNews = 2
  MaxReorgs = 1
  MaxFaults = 1
  FirstTurns = {"ours", "behind"}
  Turns = {"ours", "not ours"}
SPECIFICATION Spec
INVARIANT NothingForgedBeside StuckIsKnown
CHECK_DEADLOCK FALSE
