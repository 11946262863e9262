CONSTANTS
  NPrices = 3
  WordBits = 2
  OrderIds <- MCOrderIds
  Quantities = {1, 2}
  InputPrices <- MCPrices
  PoolInit = 2
  BatchSize = 2
  RingSize = 4
  EmitAccepts = TRUE
  EmitCancels = TRUE
  UseRing = TRUE
  UniqueIds = TRUE
  TIFs = {"GTC", "IOC", "FOK"}
  InternalOps = FALSE
  MaxOps = 3

SPECIFICATION Spec
CHECK_DEADLOCK FALSE

PROPERTY MatchTerminates
