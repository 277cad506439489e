CONSTANTS
  ConfirmBlocks = 1
  EthNoReuseNonce = FALSE
  MaxBatches = 2
  MaxPipelines = 1
  MaxHeight = 2
  MaxOthers = 1
  MaxTroubles = 1
SPECIFICATION FairSpec
CHECK_DEADLOCK FALSE
INVARIANTS NoGap RejectionIsKnown
PROPERTIES ForgottenIsFinal Leaves
