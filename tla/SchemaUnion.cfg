SPECIFICATION MigSpec
CONSTANTS
  None = None
  Surfaces <- MCSurfaces
  Values <- MCValues
  MaxDepth = 4
INVARIANT ReadyIsCompatibleForUnions
CHECK_DEADLOCK FALSE
