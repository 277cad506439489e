CONSTANTS
  Bidder = "bidder"
  FirstForger = "forger"
  BootForger = "boot"
  OtherForger = "other"
  BlocksPerSlot = 2
  GenesisBlockNum = 2
  SlotSets = 2
  Deadline = 1
  Events <- SomeEvents
  PerBlock = 1
  MaxBlock = 5
  MaxEvents = 3
  MaxLag = 2
  MaxTroubles = 1
SPECIFICATION Spec
CHECK_DEADLOCK FALSE
INVARIANTS SlotsTellForgers RefusedIfMoved NextForgersTell PagesTell
