SPECIFICATION Spec
CONSTANTS
  Assets = {a1, a2}
  Ids = {b1, b2, b3}
  Mints = {1, 2, 3}
  AssetsOnly = FALSE
  StartingHeight = 1
  Depth = 1
  Step = 2
  Redelivery = FALSE
  MaxUid = 4
  MaxBatch = 2
  MaxUps = 2
  MaxTickerUps = 1
  MaxBlockUid = 5
SYMMETRY Symmetry
INVARIANTS
  VersionChain
  RollbackApplies
PROPERTIES
  RollbackRestoresView
