CONSTANTS
  Cap = 2
  MaxMsgs = 5
  MaxBatch = 3
  LogOps <- MCLogOnly
  FdOk = FALSE
  WriteFaults = FALSE
  MaxReadBatch = 2

SPECIFICATION Spec
CHECK_DEADLOCK FALSE

INVARIANT BufferNeverOverrun
