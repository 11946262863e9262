CONSTANTS
  NPrices = 3
  WordBits = 2
  OrderIds <- MCOrderIds
  Quantities = {1, 2}
  InputPrices <- MCPrices
  TIFs = {"GTC", "IOC", "FOK"}
  PoolInit = 2
  BatchSize = 2
  RingSize = 4
  EmitAccepts = TRUE
  EmitCancels = TRUE
  UseRing = TRUE
  InternalOps = FALSE
  UniqueIds = TRUE
  MaxOps = 4

SPECIFICATION Spec
CHECK_DEADLOCK FALSE

INVARIANT TypeOK
INVARIANT LevelAggregatesConsistent
INVARIANT BestPriceTracking
INVARIANT IndexPoolConsistent
INVARIANT QtyConserved
INVARIANT NotCrossed
INVARIANT NoTradeThrough
INVARIANT EventStreamReconstructsBook
PROPERTY TimePriority
PROPERTY AllOrNothingTakers
