SPECIFICATION Spec
CONSTANTS
  Assets = {a1, a2}
  Ids = {b1, b2, b3, b4}
  Mints = {1, 2, 3}
  AssetsOnly = FALSE
  StartingHeight = 2
  Depth = 2
  Step = 1
  Redelivery = TRUE
  MaxUid = 4
  MaxBatch = 2
  MaxUps = 2
  MaxTickerUps = 0
  MaxBlockUid = 6
SYMMETRY Symmetry
INVARIANTS
  OneChain
  References
  OriginIsFirst
  DccFollowsChain
