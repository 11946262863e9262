CONSTANTS
  Types <- MCTypes
  Lens <- MCLens
  MaxFrames = 2
  MaxConns = 2
  MaxStarts = 2

SPECIFICATION Spec
CHECK_DEADLOCK FALSE

INVARIANT TypeOK
INVARIANT StopQuiescesListener
