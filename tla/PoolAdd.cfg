SPECIFICATION Spec
CONSTANTS
  BPS_DENOMINATOR = 10000
  MIN_FEE_BPS = 1
  MAX_FEE_BPS = 1000
  MINIMUM_LIQUIDITY = 2
  Fees = {35, 1000}
  MaxAmount = 12
  MaxReserve = 20
  MaxSupply = 20
CHECK_DEADLOCK FALSE
PROPERTY AllRoundForPool
