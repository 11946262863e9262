CONSTANTS
  Size = 4
  Width = 3
  MaxBatch = 3
  MaxPushed = 10
  ProducerOpSets <- MCSafeProducerOpSets
  ConsumerOpSets <- MCConsumerOpSets
  Observer = TRUE

SPECIFICATION Spec
CHECK_DEADLOCK FALSE

INVARIANT TypeOK
INVARIANT NoOverwrite
INVARIANT ConsumerReadsInOrder
PROPERTY FifoRefinement
