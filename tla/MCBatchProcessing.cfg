CONSTANTS
  t1 = t1
  t2 = t2
  alice = alice
  bob = bob
  k1 = k1
  k2 = k2
  NoAddr = NoAddr
  FFAddr = FFAddr
  NoBJJ = NoBJJ
  Radix = 2
  Mantissa = 2
  MaxExponent = 2
  IdxRange = 8
  MaxTx = 2
  MaxL1Tx = 2
  MaxFeeTx = 2
  Tokens = {t1, t2}
  EthAddrs = {alice, bob}
  BJJs = {k1, k2}
  Deposits = {4}
  Amounts = {0, 2}
  Fees = {1}
  MaxIdx = 4
  MaxBatches = 2
  MaxTotal = 3
  FirstDB <- TwoAccounts
SPECIFICATION Spec
CHECK_DEADLOCK FALSE
INVARIANTS MoneyConserved NeverStuck SameAccounts OutputTells
