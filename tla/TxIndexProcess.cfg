SPECIFICATION Spec
CONSTANTS
  Ids = {b1, b2, b3, b4}
  Multiplier = 10
  StartingHeight = 1
  Depth = 1
  Step = 500
  MaxBatch = 2
  MaxTxs = 1
  MaxBlockUid = 7
SYMMETRY Symmetry
INVARIANTS
  TypeOK
  UidsFollowChain
  TxsOfStoredBlocks
PROPERTIES
  LostOnlyWithBlock
