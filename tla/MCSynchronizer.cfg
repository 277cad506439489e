CONSTANTS
  Kinds <- Mixed
  FinalBlocks = 1
  GenesisBlockNum = 2
  BlocksPerSlot = 2
  SlotDeadline = 1
  UpdateBlockNumDiffThreshold = 1
  UpdateFrequencyDivider = 2
  MaxBlock = 5
  MaxForks = 2
  MaxFaults = 2
SPECIFICATION FairSpec
CHECK_DEADLOCK FALSE
INVARIANTS HistoryIsSource ToldMatchesHistory
PROPERTIES Follows
