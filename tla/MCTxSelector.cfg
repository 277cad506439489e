CONSTANTS
  t1 = t1
  t2 = t2
  t3 = t3
  alice = alice
  bob = bob
  carl = carl
  dave = dave
  coord = coord
  k1 = k1
  k2 = k2
  k3 = k3
  kc = kc
  none = none
  NoAddr = NoAddr
  FFAddr = FFAddr
  NoBJJ = NoBJJ
  Radix = 2
  Mantissa = 2
  MaxExponent = 2
  IdxRange = 16
  MaxTx = 4
  MaxL1Tx = 2
  MaxFeeTx = 2
  CoordAddr = coord
  CoordBJJ = kc
  Auths <- KeyOfCarl
  NoGroup = none
  Ether = t1
  MaxTxs = 3
  MinFee = 1
  MaxFee = 3
  NextBatch = 3
  Worlds <- SomeWorlds
SPECIFICATION Spec
INVARIANTS SelectionIsForgeable CircuitAccepts GroupsWhole NoAccountTwice NothingLeftBehind PoolTells
PROPERTIES Ends
