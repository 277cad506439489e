CONSTANTS
  Owner <- TwoOwners
  Shapes <- Few
  PageLimits = {2}
  MaxL1UserTx = 2
  FinalBlocks = 1
  MaxBlocks = 2
  MaxBatches = 3
  MaxL1 = 2
  MaxEvents = 3
  MaxReorgs = 1
SPECIFICATION Spec
CHECK_DEADLOCK FALSE
INVARIANTS QueueIsContracts HistoryHolds AccountsTell ExitsTell
