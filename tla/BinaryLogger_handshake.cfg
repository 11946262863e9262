CONSTANTS
  Cap = 2
  MaxMsgs = 5
  MaxBatch = 3
  LogOps <- MCAllLogOps
  FdOk = TRUE
  WriteFaults = TRUE
  MaxReadBatch = 2

SPECIFICATION Spec
CHECK_DEADLOCK FALSE

INVARIANT TypeOK
INVARIANT BufferNeverOverrun
INVARIANT NothingLostOrReordered
PROPERTY CallsReturn
INVARIANT FileInLogOrder
INVARIANT ReplayReturnsLog
