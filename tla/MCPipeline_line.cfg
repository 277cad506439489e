CONSTANTS
  t1 = t1
  t2 = t2
  t3 = t3
  alice = alice
  p1 = p1
  p2 = p2
  TxIDs = {}
  InPool = {}
  InFlight = {}
  FromIdx <- MCFromIdx
  Nonce <- MCNonce
  Atomic = {}
  MaxTxs = 3
  SafetyPeriod = 9
  Provers = {p1, p2}
  NoProver = NoProver
  QueueLen = 1
  MaxBatch = 2
  MaxPipelines = 1
SPECIFICATION FairSpec
INVARIANTS OneProofEach
PROPERTIES NoProverLost DeliveredInOrder Stops
